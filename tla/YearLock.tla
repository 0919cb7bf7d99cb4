------------------------------ MODULE YearLock -------------------------------
(***************************************************************************)
(* What the Master Validator promises about the Immutable Data Lock, with  *)
(* no requests, tables or amounts: hard closes get verified, and once some *)
(* hard close has been, a year may be locked, for ever.                    *)
(***************************************************************************)
CONSTANTS Years, HardCloses

VARIABLES locked, verified

vars == <<locked, verified>>

Init == locked = {} /\ verified = {}

Verify(h) ==
  /\ verified' = verified \cup {h}
  /\ UNCHANGED locked

Lock(y) ==
  /\ verified # {}
  /\ locked' = locked \cup {y}
  /\ UNCHANGED verified

Next == (\E h \in HardCloses : Verify(h)) \/ (\E y \in Years : Lock(y))

Spec == Init /\ [][Next]_vars
==============================================================================
