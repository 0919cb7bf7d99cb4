----------------------------- MODULE MCAuditPack -----------------------------
(* Small instances of AuditPack.                                            *)
EXTENDS AuditPack, TLC

CONSTANTS y1, y2, r1, l1, p1, p2, s1, s2

OneTick == {1}

(* No action reads which digests are logged or confirmed, and the register  *)
(* asks of those added that they are issued, which nothing takes back.      *)
Packs ==
  <<tables, storage, links, granted, confirmed # {}, env, requests, builds,
    assembled, opened, stored, issued>>

Symmetry == Permutations(Years) \cup Permutations(Requests) \cup Permutations(Scores)
==============================================================================
