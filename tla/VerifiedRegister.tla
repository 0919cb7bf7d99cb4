-------------------------- MODULE VerifiedRegister ---------------------------
(***************************************************************************)
(* What the Global Whitelist promises for one VAT number: a register that  *)
(* is published to atomically and never goes back to an older certificate, *)
(* each publication counted by the version.  A deploy may put the score    *)
(* and the year of a seed over it, but never moves its expiry date.        *)
(***************************************************************************)
EXTENDS Validity

CONSTANTS Scores, Dates, FiscalYears, NoEntry,
          Seeds   \* the score and year a seed sets: at most one, as a record

VARIABLE entry

Init == entry = NoEntry

Publish(s, d, y) ==
  LET new == [score |-> s, expiry |-> d, year |-> y,
              version |-> IF entry = NoEntry THEN 1 ELSE entry.version + 1]
  IN  /\ entry # NoEntry => ~Older(new, entry)
      /\ entry' = new

Reseed(seed) ==
  entry' = [score |-> seed.score, year |-> seed.year, version |-> 1,
            expiry |-> IF entry = NoEntry THEN 0 ELSE entry.expiry]

Next ==
  \/ \E s \in Scores, d \in Dates, y \in FiscalYears : Publish(s, d, y)
  \/ \E seed \in Seeds : Reseed(seed)

Spec == Init /\ [][Next]_entry
==============================================================================
