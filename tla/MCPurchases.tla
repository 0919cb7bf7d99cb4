----------------------------- MODULE MCPurchases -----------------------------
(* Small instances of Purchases: an export of two purchases from one vendor. *)
EXTENDS Purchases, TLC

CONSTANTS local, foreign, v1, v2, p1, w1, w2

OneVendorTwice == <<local, local>>
Symmetry == Permutations(Vendors) \cup Permutations(Workers)
==============================================================================
