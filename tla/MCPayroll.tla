------------------------------ MODULE MCPayroll ------------------------------
(* Small instances of Payroll: an Excel of one trainee.                    *)
EXTENDS Payroll, TLC

CONSTANTS r1, r2, p1, p2, w1

OneTrainee == <<[kind |-> "TRAINEE", gross |-> 1]>>
PoolSymmetry == Permutations(Requests) \cup Permutations(Rows)

One        == {1}
==============================================================================
