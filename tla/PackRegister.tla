---------------------------- MODULE PackRegister ----------------------------
(* What the export of audit packs promises an external auditor: a file is   *)
(* stored only for a year whose gate was open at some time, a digest is     *)
(* issued only of a file that was stored, and only issued digests are       *)
(* logged to the audit trail or confirmed by the auditor portal.            *)

VARIABLES
  opened,     \* years whose gate has been open
  stored,     \* <<year, content>> of every file stored
  issued,     \* digests of the artifacts recorded
  logged,     \* digests in the audit trail
  confirmed   \* digests the portal has confirmed

vars == <<opened, stored, issued, logged, confirmed>>

Init ==
  opened = {} /\ stored = {} /\ issued = {} /\ logged = {} /\ confirmed = {}

Open ==
  /\ opened \subseteq opened'
  /\ UNCHANGED <<stored, issued, logged, confirmed>>

Store ==
  /\ stored \subseteq stored'
  /\ \A f \in stored' : f \in stored \/ f[1] \in opened
  /\ UNCHANGED <<opened, issued, logged, confirmed>>

Issue ==
  /\ issued \subseteq issued'
  /\ \A d \in issued' : d \in issued \/ \E f \in stored : f[2] = d
  /\ UNCHANGED <<opened, stored, logged, confirmed>>

Log ==
  /\ logged \subseteq logged' /\ logged' \subseteq logged \cup issued
  /\ UNCHANGED <<opened, stored, issued, confirmed>>

Confirm ==
  /\ confirmed \subseteq confirmed' /\ confirmed' \subseteq confirmed \cup issued
  /\ UNCHANGED <<opened, stored, issued, logged>>

Next == Open \/ Store \/ Issue \/ Log \/ Confirm

Spec == Init /\ [][Next]_vars
==============================================================================
