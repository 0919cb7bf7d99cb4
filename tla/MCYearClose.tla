----------------------------- MODULE MCYearClose -----------------------------
(* Small instances of YearClose.  100 and 120 are not within 5% of each     *)
(* other, nor is either of a total without its row.                         *)
EXTENDS YearClose, TLC

CONSTANTS y1, y2, h1, h2, hr1, hr2, proc1, pay1, inv1, p1, p2, t1, t2

OneHundred  == {100}
NearAndFar  == {100, 120}
NoGna       == {0}

(* The second tenant has the last year, hard close and upload.             *)
Owner ==
  [id \in {y1, y2, h1, h2, hr1, hr2, proc1, pay1, inv1} |->
     IF id \in {y2, h2, hr2} THEN t2 ELSE t1]

(* No action reads the history of verdicts. *)
Tables == <<yearState, closes, uploads, rows, requests, verified>>

RequestSymmetry == Permutations(Requests)
==============================================================================
