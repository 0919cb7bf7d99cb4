----------------------------- MODULE MCWhitelist -----------------------------
(* Small instances of Whitelist: two tenants' vendors with one VAT number. *)
(* Date 12 lies in the year after the seed's.                              *)
EXTENDS Whitelist, TLC

CONSTANTS v1, v2, c1, c2, p1, p2, s1, s2, none, base, seed, client

OneEach    == (c1 :> v1) @@ (c2 :> v2)
OnlyOne    == (c1 :> v1)
BothOfOne  == (c1 :> v1) @@ (c2 :> v1)
TodayOrLate == {1, 12}
SoonAndLate == {2, 12}
YearOfDate == [d \in Dates \cup {0} |->
                 IF d = 0 THEN 0 ELSE IF d < 10 THEN SeedYear ELSE SeedYear + 1]

RequestSymmetry == Permutations(Requests)

(* Sound where all certificates belong to one vendor.                      *)
CertificateSymmetry ==
  Permutations(Requests) \cup Permutations(Certs) \cup Permutations(Scores)
==============================================================================
