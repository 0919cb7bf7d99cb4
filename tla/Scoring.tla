------------------------------- MODULE Scoring -------------------------------
(***************************************************************************)
(* The scoring engine, apps/scoring/engine.py: the +-5% "Strict Block" and *)
(* the Top-40 / 70% vendor optimizer.  Money and scores are integers; a    *)
(* ratio a / b <= p / q is compared as q * a <= p * b, so nothing is       *)
(* rounded (the code uses Decimal and rounds at 28 digits).                *)
(***************************************************************************)
EXTENDS Integers, SequencesExt

Abs(n) == IF n < 0 THEN -n ELSE n

Larger(a, b) == IF a < b THEN b ELSE a

(* Mutant: the variance is measured against the audited figure.            *)
WithinToleranceOfAudited(a, b) == 20 * Abs(a - b) <= Abs(b)

(* RECONCILIATION_TOLERANCE = 0.05 = 1 / 20: the variance is measured      *)
(* against the larger of the two magnitudes, and two zeros agree.          *)
WithinTolerance(a, b) == 20 * Abs(a - b) <= Larger(Abs(a), Abs(b))

-----------------------------------------------------------------------------
(***************************************************************************)
(* top_vendors_70.  A vendor is a record [spend, score]; the result holds  *)
(* the indices of the input in selection order.                            *)
(***************************************************************************)
SpendOf(vendors, chosen) ==
  FoldSeq(LAMBDA i, acc : acc + vendors[i].spend, 0, chosen)

(* Python's sort with reverse=True is stable: equal spends keep the order  *)
(* in which the vendors came.                                              *)
Ahead(vendors, i) ==
  {j \in DOMAIN vendors :
     \/ vendors[j].spend > vendors[i].spend
     \/ vendors[j].spend = vendors[i].spend /\ j < i}

(* In k-th place comes the vendor that k - 1 are ahead of.                 *)
Ranked(vendors) ==
  [k \in DOMAIN vendors |->
     CHOOSE i \in DOMAIN vendors : Cardinality(Ahead(vendors, i)) = k - 1]

(* Mutant: a set that covers exactly 70% is not enough.                    *)
CoversMore(running, total) ==
  IF total > 0 THEN 10 * running > 7 * total ELSE 10 * running < 7 * total

(* TOP_VENDOR_COVERAGE = 0.70; with a negative total the quotient's        *)
(* comparison turns round.                                                 *)
Covers(running, total) ==
  IF total > 0 THEN 10 * running >= 7 * total ELSE 10 * running <= 7 * total

Selection(vendors, ranked, total) ==
  LET upto == {k \in DOMAIN ranked :
                 Covers(SpendOf(vendors, SubSeq(ranked, 1, k)), total)}
      last == CHOOSE k \in upto : \A j \in upto : k <= j
  IN  SubSeq(ranked, 1, IF upto = {} THEN Len(ranked) ELSE last)

TopVendors(vendors) ==
  LET ranked == Ranked(vendors)
      total  == SpendOf(vendors, ranked)
  IN  IF total = 0 THEN << >> ELSE Selection(vendors, ranked, total)
==============================================================================
