--------------------------- MODULE MCClientSession ---------------------------
(* Two tabs of one browser, two users, and calls enough for one tab to wait  *)
(* for two answers.  Nothing tells tabs, calls or users apart.               *)
EXTENDS ClientSession, TLC

CONSTANTS t1, t2, c1, c2, u1, u2

TheUsers == {u1, u2}

Alike == Permutations({t1, t2}) \cup Permutations({c1, c2}) \cup Permutations(TheUsers)
==============================================================================
