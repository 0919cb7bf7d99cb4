-------------------------------- MODULE Lists --------------------------------
(***************************************************************************)
(* Lists the code builds by going through something in its order and       *)
(* keeping some of it.                                                     *)
(***************************************************************************)
EXTENDS Integers, FiniteSets

(* A finite set of numbers, each in its place.  (SelectSeq would do, but   *)
(* is closed to the provers.)                                              *)
InOrder(places) ==
  [h \in 1..Cardinality(places) |->
     CHOOSE k \in places : Cardinality({j \in places : j < k}) = h - 1]
==============================================================================
