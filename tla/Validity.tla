------------------------------ MODULE Validity -------------------------------
(***************************************************************************)
(* The validity key of a certificate, procurement/services.py:75-77: its   *)
(* expiry date, then its financial year.  A missing date (date.min) or     *)
(* year is 0; other dates are days counted from 1.                         *)
(***************************************************************************)
EXTENDS Integers

Older(a, b) ==
  a.expiry < b.expiry \/ (a.expiry = b.expiry /\ a.year < b.year)
==============================================================================
