---------------------------- MODULE MCOnboarding ----------------------------
(* Two wizards at once, with lists that repeat a registration or a year.    *)
EXTENDS Onboarding, TLC

CONSTANTS t1, t2, w1, w2, e1, e2

Lists  == {<<>>, <<1>>}
Yearly == {<<1>>, <<1, 1>>}
Alike  == Permutations({t1, t2}) \cup Permutations({w1, w2}) \cup Permutations({e1, e2})
==============================================================================
