---------------------------- MODULE ScoringProofs ----------------------------
(***************************************************************************)
(* The 5% Strict Block for all figures, the vendor selection for all       *)
(* invoices and the chunks of all texts, not only those TLC enumerates;    *)
(* and the invariants of the modules that MCScoring composes, Figures,     *)
(* Copilot and Analysis, for any number of rows and requests.              *)
(***************************************************************************)
EXTENDS FiniteSetTheorems, MCScoring, TLAPS

LEMMA SameSign ==
  ASSUME NEW a \in Int, NEW b \in Int
  PROVE  a * b > 0 <=> (a > 0 /\ b > 0) \/ (a < 0 /\ b < 0)
  BY SMT

(* engine.py:26-33: the verdict does not depend on which figure is the     *)
(* audited one.  Its callers rely on it: the monthly reconciliation passes *)
(* the typed figure first, the annual one and the assets' the computed one *)
(* (finance/services.py:76 and 133, assets/services.py:39).                *)
THEOREM ToleranceSymmetric ==
  ASSUME NEW a \in Int, NEW b \in Int
  PROVE  WithinTolerance(a, b) <=> WithinTolerance(b, a)
  BY SMT DEF WithinTolerance, Larger, Abs

(* engine.py:26-33: two figures pass exactly when they are equal or of one *)
(* sign and each at least 95% of the other.                                *)
THEOREM ToleranceIsBand ==
  ASSUME NEW a \in Int, NEW b \in Int
  PROVE  WithinTolerance(a, b) <=>
           \/ a = b
           \/ a * b > 0 /\ 20 * Abs(a) >= 19 * Abs(b) /\ 20 * Abs(b) >= 19 * Abs(a)
<1>1. CASE (a > 0 /\ b > 0) \/ (a < 0 /\ b < 0)
  <2>1. a * b > 0  BY <1>1, SameSign
  <2>2. QED  BY <1>1, <2>1, SMT DEF WithinTolerance, Larger, Abs
<1>2. CASE ~((a > 0 /\ b > 0) \/ (a < 0 /\ b < 0))
  <2>1. ~(a * b > 0)  BY <1>2, SameSign
  <2>2. WithinTolerance(a, b) <=> a = b
    BY <1>2, SMT DEF WithinTolerance, Larger, Abs
  <2>3. QED  BY <2>1, <2>2
<1>3. QED  BY <1>1, <1>2

-----------------------------------------------------------------------------
(* Sums over finite sets, which the community modules compute by a         *)
(* recursive function: there is one, and the order does not matter.        *)

(* Of the subsets of a finite set that are of some kind one is minimal.    *)
LEMMA MinimalExists ==
  ASSUME NEW S, IsFiniteSet(S), NEW T \in SUBSET (SUBSET S), T # {}
  PROVE  \E s \in T : \A u \in SUBSET s : u # s => u \notin T
<1> DEFINE R == StrictSubsetOrdering(S)
<1>1. T \subseteq FiniteSubsetsOf(S)
  BY FS_FiniteSubsetsOfFinite, Zenon
<1>2. IsWellFoundedOn(R, FiniteSubsetsOf(S))  BY FS_StrictSubsetOrderingWellFounded
<1> HIDE DEF R
<1>3. PICK s \in T : \A u \in T : ~ (<<u, s>> \in R)  BY <1>1, <1>2, WFMin
<1>4. ASSUME NEW u \in SUBSET s, u # s  PROVE u \notin T
  <2>1. <<u, s>> \in R  BY <1>4 DEF R, StrictSubsetOrdering
  <2>2. QED  BY <1>3, <2>1
<1>5. QED  BY <1>4

Pick(s) == CHOOSE x \in s : TRUE

(* What g gives for a set is the sum of w over it.                         *)
Adds(w, g, u) == g[u] = IF u = {} THEN 0 ELSE w[Pick(u)] + g[u \ {Pick(u)}]

Solves(w, S, g) == \A u \in SUBSET S : Adds(w, g, u)

Summing(w, S, g) == g \in [SUBSET S -> Int] /\ Solves(w, S, g)

LEMMA PickIn == ASSUME NEW s, s # {}  PROVE Pick(s) \in s
  BY Zenon DEF Pick

LEMMA SumsAgree ==
  ASSUME NEW a, NEW b, NEW c \in SUBSET (a \cap b), IsFiniteSet(c),
         NEW w, NEW v, \A x \in c : w[x] = v[x]
  PROVE  \A g, h : Solves(w, a, g) /\ Solves(v, b, h) => g[c] = h[c]
<1> SUFFICES ASSUME NEW g, NEW h, Solves(w, a, g), Solves(v, b, h)  PROVE g[c] = h[c]
  OBVIOUS
<1> DEFINE T == {u \in SUBSET c : g[u] # h[u]}
<1>1. SUFFICES ASSUME T # {}  PROVE FALSE
  <2>1. c \in SUBSET c  OBVIOUS
  <2>2. QED  BY <2>1
<1>2. T \in SUBSET (SUBSET c)  OBVIOUS
<1> HIDE DEF T
<1>3. PICK u \in T : \A y \in SUBSET u : y # u => y \notin T  BY <1>1, <1>2, MinimalExists
<1>4. u \in SUBSET a /\ u \in SUBSET b /\ u \in SUBSET c /\ g[u] # h[u]  BY <1>2 DEF T
<1>5. Adds(w, g, u) /\ Adds(v, h, u)  BY <1>4 DEF Solves
<1>6. CASE u = {}
  BY <1>4, <1>5, <1>6 DEF Adds
<1>7. CASE u # {}
  <2>1. PICK p : p = Pick(u)  OBVIOUS
  <2>2. p \in u  BY <1>7, <2>1, PickIn
  <2>3. u \ {p} \in SUBSET u /\ u \ {p} # u  BY <2>2
  <2>4. g[u \ {p}] = h[u \ {p}]  BY <1>3, <1>4, <2>3 DEF T
  <2>5. w[p] = v[p]  BY <1>4, <2>2
  <2>6. g[u] = w[p] + g[u \ {p}] /\ h[u] = v[p] + h[u \ {p}]  BY <1>5, <1>7, <2>1 DEF Adds
  <2>7. QED  BY <1>4, <2>4, <2>5, <2>6
<1>8. QED  BY <1>6, <1>7

LEMMA SumsSame ==
  ASSUME NEW a, NEW b \in SUBSET a, IsFiniteSet(b), NEW w, NEW g, Solves(w, a, g)
  PROVE  \A h : Solves(w, b, h) => g[b] = h[b]
<1> SUFFICES ASSUME NEW h, Solves(w, b, h)  PROVE g[b] = h[b]
  OBVIOUS
<1>1. b \in SUBSET (a \cap b) /\ \A x \in b : w[x] = w[x]  OBVIOUS
<1>2. \A i, j : Solves(w, a, i) /\ Solves(w, b, j) => i[b] = j[b]  BY <1>1, SumsAgree
<1>3. QED  BY <1>2

LEMMA SumExists ==
  ASSUME NEW S, IsFiniteSet(S), NEW w \in [S -> Int]
  PROVE  \E g : Summing(w, S, g)
<1> DEFINE T == {s \in SUBSET S : \A g : ~Summing(w, s, g)}
<1>1. SUFFICES ASSUME T # {}  PROVE FALSE
  <2>1. S \in SUBSET S  OBVIOUS
  <2>2. QED  BY <2>1
<1>2. T \in SUBSET (SUBSET S)  OBVIOUS
<1> HIDE DEF T
<1>3. PICK s \in T : \A y \in SUBSET s : y # s => y \notin T  BY <1>1, <1>2, MinimalExists
<1>4. s \in SUBSET S /\ \A g : ~Summing(w, s, g)  BY <1>2 DEF T
<1> DEFINE Of(u) == CHOOSE g : Summing(w, u, g)
<1>5. ASSUME NEW u \in SUBSET s, u # s  PROVE Summing(w, u, Of(u))
  <2>1. \E g : Summing(w, u, g)  BY <1>3, <1>4, <1>5 DEF T
  <2>2. QED  BY <2>1, Zenon
<1> HIDE DEF Of
<1> DEFINE Added == IF s = {} THEN 0 ELSE w[Pick(s)] + Of(s \ {Pick(s)})[s \ {Pick(s)}]
           G == [u \in SUBSET s |-> IF u = s THEN Added ELSE Of(u)[u]]
<1>6. s # {} => /\ Pick(s) \in s /\ w[Pick(s)] \in Int
                /\ s \ {Pick(s)} \in SUBSET s /\ s \ {Pick(s)} # s
  BY <1>4, PickIn
<1>7. \A u \in SUBSET s : u # s => Of(u)[u] \in Int
  BY <1>5 DEF Summing
<1>8. Added \in Int  BY <1>6, <1>7
<1> HIDE DEF Added
<1>9. G \in [SUBSET s -> Int]  BY <1>7, <1>8
<1>10. ASSUME NEW u \in SUBSET s  PROVE Adds(w, G, u)
  <2>1. CASE u = s
    <3>1. G[u] = Added  BY <2>1
    <3>2. s # {} => G[s \ {Pick(s)}] = Of(s \ {Pick(s)})[s \ {Pick(s)}]  BY <1>6
    <3> HIDE DEF G
    <3>3. QED  BY <2>1, <3>1, <3>2 DEF Adds, Added
  <2>2. CASE u # s
    <3>1. Summing(w, u, Of(u)) /\ G[u] = Of(u)[u]  BY <1>5, <2>2
    <3>2. Adds(w, Of(u), u)  BY <3>1 DEF Summing, Solves
    <3>3. CASE u # {}
      <4>1. PICK p, v : p = Pick(u) /\ v = u \ {p}  OBVIOUS
      <4>2. p \in u  BY <3>3, <4>1, PickIn
      <4>3. v \in SUBSET s /\ v # s /\ v \in SUBSET u  BY <2>2, <4>1, <4>2
      <4>4. Summing(w, v, Of(v)) /\ G[v] = Of(v)[v]  BY <1>5, <4>3
      <4>5. IsFiniteSet(v)  BY <1>4, <4>3, FS_Subset, Zenon
      <4>7. Of(u)[v] = Of(v)[v]  BY <3>1, <4>3, <4>4, <4>5, SumsSame DEF Summing
      <4>8. Of(u)[u] = w[p] + Of(u)[v]  BY <3>2, <3>3, <4>1 DEF Adds
      <4> HIDE DEF G
      <4>9. QED  BY <3>1, <3>3, <4>1, <4>4, <4>7, <4>8 DEF Adds
    <3>4. CASE u = {}
      <4> HIDE DEF G
      <4>1. QED  BY <3>1, <3>2, <3>4 DEF Adds
    <3>5. QED  BY <3>3, <3>4
  <2>3. QED  BY <2>1, <2>2
<1> HIDE DEF G
<1>11. Summing(w, s, G)  BY <1>9, <1>10 DEF Summing, Solves
<1>12. QED  BY <1>4, <1>11


(* The sum of w over its domain's subsets.                                 *)
SumOf(w) == CHOOSE g : Summing(w, DOMAIN w, g)

SumLaws(S, w, g) ==
  /\ g \in [SUBSET S -> Int]
  /\ g[{}] = 0
  /\ \A u \in SUBSET S : \A x \in u : g[u] = w[x] + g[u \ {x}]

LEMMA SumSolves ==
  ASSUME NEW S, IsFiniteSet(S), NEW w \in [S -> Int]
  PROVE  Summing(w, S, SumOf(w)) /\ Solves(w, S, SumOf(w))
<1>1. \E h : Summing(w, S, h)  BY SumExists
<1>2. DOMAIN w = S  OBVIOUS
<1>3. Summing(w, S, SumOf(w))  BY <1>1, <1>2, Zenon DEF SumOf
<1>4. QED  BY <1>3 DEF Summing

LEMMA SumIs ==
  ASSUME NEW S, IsFiniteSet(S), NEW w \in [S -> Int]
  PROVE  SumLaws(S, w, SumOf(w))
<1> DEFINE g == SumOf(w)
<1>1. Summing(w, S, g)  BY SumSolves
<1> HIDE DEF g
<1>2. g \in [SUBSET S -> Int] /\ \A u \in SUBSET S : Adds(w, g, u)  BY <1>1 DEF Summing, Solves
<1>3. g[{}] = 0
  <2>1. {} \in SUBSET S  OBVIOUS
  <2>2. QED  BY <1>2, <2>1 DEF Adds
<1> DEFINE T == {u \in SUBSET S : \E x \in u : g[u] # w[x] + g[u \ {x}]}
<1>4. T = {}
  <2>1. SUFFICES ASSUME T # {}  PROVE FALSE
    OBVIOUS
  <2>2. T \in SUBSET (SUBSET S)  OBVIOUS
  <2> HIDE DEF T
  <2>3. PICK u \in T : \A y \in SUBSET u : y # u => y \notin T  BY <2>1, <2>2, MinimalExists
  <2>4. u \in SUBSET S /\ \E x \in u : g[u] # w[x] + g[u \ {x}]  BY <2>2 DEF T
  <2>5. PICK x \in u : g[u] # w[x] + g[u \ {x}]  BY <2>4
  <2>6. PICK p : p = Pick(u)  OBVIOUS
  <2>7. p \in u /\ g[u] = w[p] + g[u \ {p}]  BY <1>2, <2>4, <2>5, <2>6, PickIn DEF Adds
  <2>8. p # x  BY <2>5, <2>7
  <2>9. PICK a, b, c : a = u \ {p} /\ b = u \ {x} /\ c = a \ {x}  OBVIOUS
  <2>10. /\ a \in SUBSET S /\ b \in SUBSET S /\ c \in SUBSET S
         /\ a \in SUBSET u /\ b \in SUBSET u /\ a # u /\ b # u
         /\ x \in a /\ p \in b /\ c = b \ {p}
    BY <2>4, <2>5, <2>7, <2>8, <2>9
  <2>11. g[a] = w[x] + g[c]
    <3>1. a \notin T  BY <2>3, <2>10
    <3>2. \A y \in a : g[a] = w[y] + g[a \ {y}]  BY <2>10, <3>1 DEF T
    <3>3. QED  BY <2>9, <2>10, <3>2
  <2>12. g[b] = w[p] + g[c]
    <3>1. b \notin T  BY <2>3, <2>10
    <3>2. \A y \in b : g[b] = w[y] + g[b \ {y}]  BY <2>10, <3>1 DEF T
    <3>3. QED  BY <2>10, <3>2
  <2>13. w[x] \in Int /\ w[p] \in Int /\ g[c] \in Int  BY <1>2, <2>4, <2>5, <2>7, <2>10
  <2>14. QED  BY <2>5, <2>7, <2>9, <2>11, <2>12, <2>13
<1>5. SumLaws(S, w, g)  BY <1>2, <1>3, <1>4 DEF SumLaws
<1>6. QED  BY <1>5 DEF g

(* w counts a where P holds, and takes it off where N does.                *)
Splits(S, w, a, P, N) ==
  \A x \in S : w[x] = (IF x \in P THEN a[x] ELSE 0) - (IF x \in N THEN a[x] ELSE 0)

(* A weighted sum is what is added less what is taken off.                 *)
LEMMA SumSplits ==
  ASSUME NEW S, IsFiniteSet(S), NEW w \in [S -> Int], NEW a \in [S -> Int]
  PROVE  \A P, N : Splits(S, w, a, P, N) =>
           \A u \in SUBSET S : SumOf(w)[u] = SumOf(a)[u \cap P] - SumOf(a)[u \cap N]
<1> SUFFICES ASSUME NEW P, NEW N, Splits(S, w, a, P, N)
             PROVE  \A u \in SUBSET S : SumOf(w)[u] = SumOf(a)[u \cap P] - SumOf(a)[u \cap N]
  OBVIOUS
<1>0. \A x \in S : w[x] = (IF x \in P THEN a[x] ELSE 0) - (IF x \in N THEN a[x] ELSE 0)
  BY DEF Splits
<1> DEFINE W == SumOf(w)
           A == SumOf(a)
<1>a. SumLaws(S, w, W) /\ SumLaws(S, a, A)  BY SumIs
<1> HIDE DEF W, A
<1>1. /\ W \in [SUBSET S -> Int] /\ W[{}] = 0
      /\ \A u \in SUBSET S : \A x \in u : W[u] = w[x] + W[u \ {x}]
  BY <1>a DEF SumLaws
<1>2. /\ A \in [SUBSET S -> Int] /\ A[{}] = 0
      /\ \A u \in SUBSET S : \A x \in u : A[u] = a[x] + A[u \ {x}]
  BY <1>a DEF SumLaws
<1> DEFINE T == {u \in SUBSET S : W[u] # A[u \cap P] - A[u \cap N]}
<1>3. T = {}
  <2>1. SUFFICES ASSUME T # {}  PROVE FALSE
    OBVIOUS
  <2>2. T \in SUBSET (SUBSET S)  OBVIOUS
  <2> HIDE DEF T
  <2>3. PICK u \in T : \A y \in SUBSET u : y # u => y \notin T  BY <2>1, <2>2, MinimalExists
  <2>4. u \in SUBSET S /\ W[u] # A[u \cap P] - A[u \cap N]  BY <2>2 DEF T
  <2>5. PICK x : x \in u
    <3>1. u # {}
      <4>1. SUFFICES ASSUME u = {}  PROVE FALSE
        OBVIOUS
      <4>2. u \cap P = {} /\ u \cap N = {}  BY <4>1
      <4>3. A[u \cap P] = 0 /\ A[u \cap N] = 0  BY <1>2, <4>2
      <4>4. QED  BY <1>1, <2>4, <4>1, <4>3
    <3>2. QED  BY <3>1
  <2>6. PICK v : v = u \ {x}  OBVIOUS
  <2>7. v \in SUBSET S /\ v \in SUBSET u /\ v # u  BY <2>4, <2>5, <2>6
  <2>8. W[v] = A[v \cap P] - A[v \cap N]  BY <2>3, <2>7 DEF T
  <2>9. W[u] = w[x] + W[v]  BY <1>1, <2>4, <2>5, <2>6
  <2>10. ASSUME NEW Q  PROVE A[u \cap Q] = (IF x \in Q THEN a[x] ELSE 0) + A[v \cap Q]
    <3>1. PICK y, z : y = u \cap Q /\ z = v \cap Q  OBVIOUS
    <3>2. y \in SUBSET S /\ z \in SUBSET S /\ A[z] \in Int  BY <1>2, <2>4, <2>7, <3>1
    <3>3. CASE x \in Q
      <4>1. x \in y /\ z = y \ {x}  BY <2>5, <2>6, <3>1, <3>3
      <4>2. A[y] = a[x] + A[z]  BY <1>2, <3>2, <4>1
      <4>3. QED  BY <3>1, <3>3, <4>2
    <3>4. CASE x \notin Q
      <4>1. z = y  BY <2>6, <3>1, <3>4
      <4>2. A[z] = 0 + A[z]  BY <3>2
      <4>3. QED  BY <3>1, <3>4, <4>1, <4>2
    <3>5. QED  BY <3>3, <3>4
  <2>11. /\ A[u \cap P] = (IF x \in P THEN a[x] ELSE 0) + A[v \cap P]
         /\ A[u \cap N] = (IF x \in N THEN a[x] ELSE 0) + A[v \cap N]
    BY <2>10
  <2>12. x \in S /\ a[x] \in Int /\ A[v \cap P] \in Int /\ A[v \cap N] \in Int
    <3>1. v \cap P \in SUBSET S /\ v \cap N \in SUBSET S  BY <2>7
    <3>2. QED  BY <1>2, <2>4, <2>5, <3>1
  <2>13. w[x] = (IF x \in P THEN a[x] ELSE 0) - (IF x \in N THEN a[x] ELSE 0)  BY <1>0, <2>12
  <2>14. QED  BY <2>4, <2>8, <2>9, <2>11, <2>12, <2>13
<1>4. QED  BY <1>3 DEF W, A

(* Total is such a sum.                                                    *)
LEMMA TotalIs ==
  ASSUME NEW S, IsFiniteSet(S), NEW ids \in SUBSET S, NEW a \in [S -> Int],
         NEW table, \A i \in ids : table[i].amount = a[i]
  PROVE  Total(table, ids) = SumOf(a)[ids]
<1> DEFINE Unfold(g) == [s \in SUBSET ids |->
                         IF s = {} THEN 0 ELSE table[Pick(s)].amount + g[s \ {Pick(s)}]]
           it == CHOOSE g : g = Unfold(g)
<1>1. IsFiniteSet(ids)  BY FS_Subset, Zenon
<1>2. \E g : g = Unfold(g)
  <2> DEFINE w == [i \in ids |-> a[i]]
  <2>1. w \in [ids -> Int] /\ \A i \in ids : w[i] = table[i].amount  OBVIOUS
  <2> HIDE DEF w
  <2>2. PICK g : Summing(w, ids, g)  BY <1>1, <2>1, SumExists
  <2>3. ASSUME NEW s \in SUBSET ids
        PROVE  g[s] = IF s = {} THEN 0 ELSE table[Pick(s)].amount + g[s \ {Pick(s)}]
    BY <2>1, <2>2, PickIn DEF Summing, Solves, Adds
  <2>4. g = Unfold(g)  BY <2>2, <2>3 DEF Summing
  <2>5. QED  BY <2>4, Zenon
<1>3. it = Unfold(it)  BY <1>2, Zenon
<1>4. Total(table, ids) = it[ids]  BY Zenon DEF Total, MapThenSumSet, MapThenFoldSet, Pick
<1> HIDE DEF it
<1>5. Solves(a, ids, it)
  <2>1. ASSUME NEW s \in SUBSET ids
        PROVE  it[s] = IF s = {} THEN 0 ELSE a[Pick(s)] + it[s \ {Pick(s)}]
    <3>1. it[s] = IF s = {} THEN 0 ELSE table[Pick(s)].amount + it[s \ {Pick(s)}]  BY <1>3, Zenon
    <3>2. QED  BY <3>1, PickIn
  <2>2. QED  BY <2>1 DEF Solves, Adds
<1>6. Solves(a, S, SumOf(a))  BY SumSolves
<1>7. ids \in SUBSET (ids \cap S) /\ \A i \in ids : a[i] = a[i]  OBVIOUS
<1>8. \A g, h : Solves(a, ids, g) /\ Solves(a, S, h) => g[ids] = h[ids]  BY <1>1, <1>7, SumsAgree
<1>9. QED  BY <1>4, <1>5, <1>6, <1>8

(* A sum is that of the same numbers under other names, ...                *)
LEMMA SumRenamed ==
  ASSUME NEW D, NEW S, IsFiniteSet(S), IsFiniteSet(D), NEW f \in [D -> S],
         \A x, y \in D : f[x] = f[y] => x = y,
         NEW a \in [S -> Int], NEW w \in [D -> Int], \A x \in D : w[x] = a[f[x]]
  PROVE  \A u \in SUBSET D : SumOf(w)[u] = SumOf(a)[{f[x] : x \in u}]
<1> DEFINE W == SumOf(w)
           A == SumOf(a)
           Image(u) == {f[x] : x \in u}
<1>a. SumLaws(D, w, W) /\ SumLaws(S, a, A)  BY SumIs
<1> HIDE DEF W, A
<1>1. /\ W[{}] = 0 /\ A[{}] = 0
      /\ \A u \in SUBSET D : \A x \in u : W[u] = w[x] + W[u \ {x}]
      /\ \A u \in SUBSET S : \A x \in u : A[u] = a[x] + A[u \ {x}]
  BY <1>a DEF SumLaws
<1> DEFINE T == {u \in SUBSET D : W[u] # A[Image(u)]}
<1>2. T = {}
  <2>1. SUFFICES ASSUME T # {}  PROVE FALSE
    OBVIOUS
  <2>2. T \in SUBSET (SUBSET D)  OBVIOUS
  <2>3. \A u : u \in T <=> u \in SUBSET D /\ W[u] # A[Image(u)]  OBVIOUS
  <2> HIDE DEF T
  <2>4. PICK u \in T : \A y \in SUBSET u : y # u => y \notin T  BY <2>1, <2>2, MinimalExists
  <2>5. u \in SUBSET D /\ W[u] # A[Image(u)]  BY <2>3
  <2>6. u # {}
    <3>1. SUFFICES ASSUME u = {}  PROVE FALSE
      OBVIOUS
    <3>2. Image(u) = {}  BY <3>1
    <3> HIDE DEF Image
    <3>3. QED  BY <1>1, <2>5, <3>1, <3>2
  <2>7. PICK x \in u : TRUE  BY <2>6
  <2>8. PICK v : v = u \ {x}  OBVIOUS
  <2>9. v \in SUBSET D /\ v \in SUBSET u /\ v # u  BY <2>5, <2>7, <2>8
  <2>10. W[v] = A[Image(v)]  BY <2>3, <2>4, <2>9
  <2>11. /\ Image(u) \in SUBSET S /\ f[x] \in Image(u)
         /\ Image(v) = Image(u) \ {f[x]}
    BY <2>5, <2>7, <2>8
  <2>12. W[u] = w[x] + W[v]  BY <1>1, <2>5, <2>7, <2>8
  <2> HIDE DEF Image
  <2>13. A[Image(u)] = a[f[x]] + A[Image(v)]
    <3>1. PICK p, q, y : p = Image(u) /\ q = Image(v) /\ y = f[x]  OBVIOUS
    <3>2. p \in SUBSET S /\ y \in p /\ q = p \ {y}  BY <2>11, <3>1
    <3>3. A[p] = a[y] + A[q]  BY <1>1, <3>2
    <3>4. QED  BY <3>1, <3>3
  <2>14. QED  BY <2>5, <2>7, <2>10, <2>12, <2>13
<1>3. QED  BY <1>2 DEF W, A

(* ... that of a function that agrees, ...                                 *)
LEMMA SumRestricted ==
  ASSUME NEW S, IsFiniteSet(S), NEW a \in [S -> Int], NEW D \in SUBSET S,
         NEW w \in [D -> Int], \A x \in D : w[x] = a[x]
  PROVE  SumOf(w)[D] = SumOf(a)[D]
<1>1. IsFiniteSet(D)  BY FS_Subset, Zenon
<1>2. Solves(w, D, SumOf(w)) /\ Solves(a, S, SumOf(a))  BY <1>1, SumSolves
<1>3. D \in SUBSET (D \cap S)  OBVIOUS
<1>4. \A g, h : Solves(w, D, g) /\ Solves(a, S, h) => g[D] = h[D]  BY <1>1, <1>3, SumsAgree
<1>5. QED  BY <1>2, <1>4

(* ... of two parts it is the two sums, ...                                *)
Additive(S, g) ==
  \A u, v \in SUBSET S : u \cap v = {} => g[u \cup v] = g[u] + g[v]

LEMMA SumParts ==
  ASSUME NEW S, IsFiniteSet(S), NEW a \in [S -> Int]
  PROVE  Additive(S, SumOf(a))
<1> SUFFICES ASSUME NEW u \in SUBSET S
             PROVE  \A v \in SUBSET S : u \cap v = {} => SumOf(a)[u \cup v] = SumOf(a)[u] + SumOf(a)[v]
  BY DEF Additive
<1> DEFINE A == SumOf(a)
<1>a. SumLaws(S, a, A)  BY SumIs
<1> HIDE DEF A
<1>1. /\ A \in [SUBSET S -> Int] /\ A[{}] = 0
      /\ \A t \in SUBSET S : \A x \in t : A[t] = a[x] + A[t \ {x}]
  BY <1>a DEF SumLaws
<1> DEFINE T == {v \in SUBSET S : u \cap v = {} /\ A[u \cup v] # A[u] + A[v]}
<1>2. T = {}
  <2>1. SUFFICES ASSUME T # {}  PROVE FALSE
    OBVIOUS
  <2>2. T \in SUBSET (SUBSET S)  OBVIOUS
  <2>3. \A v : v \in T <=> v \in SUBSET S /\ u \cap v = {} /\ A[u \cup v] # A[u] + A[v]  OBVIOUS
  <2> HIDE DEF T
  <2>4. PICK v \in T : \A y \in SUBSET v : y # v => y \notin T  BY <2>1, <2>2, MinimalExists
  <2>5. v \in SUBSET S /\ u \cap v = {} /\ A[u \cup v] # A[u] + A[v]  BY <2>3
  <2>6. v # {}
    <3>1. SUFFICES ASSUME v = {}  PROVE FALSE
      OBVIOUS
    <3>2. u \cup v = u /\ A[u] \in Int /\ A[v] = 0  BY <1>1, <3>1
    <3>3. QED  BY <2>5, <3>2
  <2>7. PICK x \in v : TRUE  BY <2>6
  <2>8. PICK t, y : t = v \ {x} /\ y = u \cup v  OBVIOUS
  <2>9. /\ t \in SUBSET S /\ t \in SUBSET v /\ t # v /\ u \cap t = {}
        /\ y \in SUBSET S /\ x \in y /\ y \ {x} = u \cup t /\ u \cup t \in SUBSET S /\ x \in S
    BY <2>5, <2>7, <2>8
  <2>10. A[u \cup t] = A[u] + A[t]  BY <2>3, <2>4, <2>9
  <2>11. A[v] = a[x] + A[t]  BY <1>1, <2>5, <2>7, <2>8
  <2>12. A[y] = a[x] + A[u \cup t]  BY <1>1, <2>9
  <2>13. A[u] \in Int /\ A[t] \in Int /\ a[x] \in Int  BY <1>1, <2>9
  <2>14. QED  BY <2>5, <2>8, <2>10, <2>11, <2>12, <2>13
<1>3. QED  BY <1>2 DEF A

(* ... and of groups of numbers that of the groups' sums.                  *)
LEMMA SumGrouped ==
  ASSUME NEW S, IsFiniteSet(S), NEW a \in [S -> Int], NEW H, IsFiniteSet(H),
         NEW group \in [H -> SUBSET S],
         \A g, h \in H : g # h => group[g] \cap group[h] = {},
         NEW t \in [H -> Int], \A h \in H : t[h] = SumOf(a)[group[h]]
  PROVE  \A u \in SUBSET H : SumOf(t)[u] = SumOf(a)[UNION {group[h] : h \in u}]
<1> DEFINE A == SumOf(a)
           G == SumOf(t)
           All(u) == UNION {group[h] : h \in u}
<1>a. SumLaws(S, a, A) /\ SumLaws(H, t, G)  BY SumIs
<1>b. Additive(S, A)  BY SumParts
<1>c. \A h \in H : t[h] = A[group[h]]  OBVIOUS
<1> HIDE DEF A, G
<1>1. /\ A[{}] = 0 /\ G[{}] = 0
      /\ \A u \in SUBSET H : \A x \in u : G[u] = t[x] + G[u \ {x}]
  BY <1>a DEF SumLaws
<1> DEFINE T == {u \in SUBSET H : G[u] # A[All(u)]}
<1>2. T = {}
  <2>1. SUFFICES ASSUME T # {}  PROVE FALSE
    OBVIOUS
  <2>2. T \in SUBSET (SUBSET H)  OBVIOUS
  <2>3. \A u : u \in T <=> u \in SUBSET H /\ G[u] # A[All(u)]  OBVIOUS
  <2> HIDE DEF T
  <2>4. PICK u \in T : \A y \in SUBSET u : y # u => y \notin T  BY <2>1, <2>2, MinimalExists
  <2>5. u \in SUBSET H /\ G[u] # A[All(u)]  BY <2>3
  <2>6. u # {}
    <3>1. SUFFICES ASSUME u = {}  PROVE FALSE
      OBVIOUS
    <3>2. All(u) = {}  BY <3>1
    <3> HIDE DEF All
    <3>3. QED  BY <1>1, <2>5, <3>1, <3>2
  <2>7. PICK x \in u : TRUE  BY <2>6
  <2>8. PICK v : v = u \ {x}  OBVIOUS
  <2>9. v \in SUBSET H /\ v \in SUBSET u /\ v # u /\ x \in H  BY <2>5, <2>7, <2>8
  <2>10. G[v] = A[All(v)]  BY <2>3, <2>4, <2>9
  <2>11. /\ All(u) = group[x] \cup All(v)
         /\ group[x] \in SUBSET S /\ All(v) \in SUBSET S
         /\ group[x] \cap All(v) = {}
    <3>1. \A h \in v : h \in H /\ h # x  BY <2>5, <2>8
    <3>2. QED  BY <2>7, <2>8, <2>9, <3>1
  <2>12. G[u] = t[x] + G[v]  BY <1>1, <2>5, <2>7, <2>8
  <2> HIDE DEF All
  <2>13. A[All(u)] = A[group[x]] + A[All(v)]
    <3>1. PICK p, q : p = group[x] /\ q = All(v)  OBVIOUS
    <3>2. p \in SUBSET S /\ q \in SUBSET S /\ p \cap q = {}  BY <2>11, <3>1
    <3>3. A[p \cup q] = A[p] + A[q]  BY <1>b, <3>2 DEF Additive
    <3>4. QED  BY <2>11, <3>1, <3>3
  <2>14. QED  BY <1>c, <2>5, <2>9, <2>10, <2>12, <2>13
<1>3. QED  BY <1>2 DEF A, G

-----------------------------------------------------------------------------
(* Places in an order *)

(* S is strictly ordered: below[x] holds what comes before x.              *)
Orders(S, below) ==
  /\ below \in [S -> SUBSET S]
  /\ \A x \in S : x \notin below[x]
  /\ \A x, y \in S : x \in below[y] => below[x] \subseteq below[y]
  /\ \A x, y \in S : x = y \/ x \in below[y] \/ y \in below[x]

(* Of a finite set so ordered each element has a place of its own, and no  *)
(* place is empty.                                                         *)
Placed(S, below) ==
  /\ \A x \in S : Cardinality(below[x]) \in 0 .. (Cardinality(S) - 1)
  /\ \A x, y \in S : x \in below[y] => Cardinality(below[x]) < Cardinality(below[y])
  /\ \A k \in 1 .. Cardinality(S) : \E x \in S : Cardinality(below[x]) = k - 1

LEMMA OrderPlaces ==
  ASSUME NEW S, IsFiniteSet(S), NEW below, Orders(S, below)
  PROVE  Cardinality(S) \in Nat /\ Placed(S, below)
<1>1. Cardinality(S) \in Nat  BY FS_CardinalityType
<1>2. ASSUME NEW x \in S
      PROVE  /\ IsFiniteSet(below[x]) /\ Cardinality(below[x]) \in Nat
             /\ Cardinality(below[x]) < Cardinality(S)
  <2>1. below[x] \in SUBSET S /\ below[x] # S  BY DEF Orders
  <2>2. IsFiniteSet(below[x]) /\ Cardinality(below[x]) <= Cardinality(S) /\ Cardinality(below[x]) # Cardinality(S)
    BY <2>1, FS_Subset
  <2>3. Cardinality(below[x]) \in Nat  BY <2>2, FS_CardinalityType
  <2>4. QED  BY <1>1, <2>2, <2>3
<1>3. ASSUME NEW x \in S, NEW y \in S, x \in below[y]
      PROVE  Cardinality(below[x]) < Cardinality(below[y])
  <2>1. below[x] \in SUBSET below[y] /\ below[x] # below[y]  BY <1>3 DEF Orders
  <2>2. Cardinality(below[x]) <= Cardinality(below[y]) /\ Cardinality(below[x]) # Cardinality(below[y])
    BY <1>2, <2>1, FS_Subset
  <2>3. QED  BY <1>2, <2>2
<1> DEFINE n == Cardinality(S)
           place == [x \in S |-> Cardinality(below[x]) + 1]
<1>4. place \in Injection(S, 1 .. n)
  <2>1. place \in [S -> 1 .. n]  BY <1>1, <1>2
  <2>2. ASSUME NEW x \in S, NEW y \in S, place[x] = place[y]  PROVE x = y
    <3>1. Cardinality(below[x]) = Cardinality(below[y])  BY <1>2, <2>2
    <3>2. x \notin below[y] /\ y \notin below[x]  BY <1>2, <1>3, <3>1
    <3>3. QED  BY <3>2 DEF Orders
  <2> HIDE DEF place
  <2>3. QED  BY <2>1, <2>2 DEF Injection, IsInjective
<1>5. place \in Surjection(S, 1 .. n)
  <2>1. IsFiniteSet(1 .. n) /\ Cardinality(1 .. n) = n
    <3>1. 1 \in Int /\ n \in Int  BY <1>1
    <3>2. IsFiniteSet(1 .. n) /\ Cardinality(1 .. n) = IF 1 > n THEN 0 ELSE n - 1 + 1
      BY <3>1, FS_Interval
    <3>3. QED  BY <1>1, <3>2
  <2> HIDE DEF place
  <2>2. QED  BY <1>4, <2>1, FS_Injection
<1>6. ASSUME NEW k \in 1 .. n  PROVE \E x \in S : Cardinality(below[x]) = k - 1
  <2>1. PICK x \in S : place[x] = k  BY <1>5 DEF Surjection
  <2>2. QED  BY <1>2, <2>1
<1>7. QED  BY <1>1, <1>2, <1>3, <1>6 DEF Placed

(* e has what CHOOSE finds in each place: each element once, in order.     *)
Fills(e, S, below) ==
  \A k \in 1 .. Cardinality(S) :
    (\E x \in S : Cardinality(below[x]) = k - 1) => e[k] \in S /\ Cardinality(below[e[k]]) = k - 1

LEMMA PlacesFilled ==
  ASSUME NEW S, IsFiniteSet(S), NEW below, Orders(S, below), NEW e, Fills(e, S, below)
  PROVE  /\ Cardinality(S) \in Nat
         /\ \A k \in 1 .. Cardinality(S) : e[k] \in S
         /\ \A x \in S : \E k \in 1 .. Cardinality(S) : e[k] = x
         /\ \A j, k \in 1 .. Cardinality(S) : j < k => e[j] \in below[e[k]]
         /\ \A j, k \in 1 .. Cardinality(S) : e[j] = e[k] => j = k
<1>1. Cardinality(S) \in Nat /\ Placed(S, below)  BY OrderPlaces
<1>2. \A k \in 1 .. Cardinality(S) : e[k] \in S /\ Cardinality(below[e[k]]) = k - 1
  BY <1>1 DEF Placed, Fills
<1>3. ASSUME NEW j \in 1 .. Cardinality(S), NEW k \in 1 .. Cardinality(S), j < k
      PROVE  e[j] \in below[e[k]]
  <2>1. e[j] \in S /\ e[k] \in S /\ Cardinality(below[e[j]]) < Cardinality(below[e[k]])
    BY <1>1, <1>2, <1>3
  <2>2. e[k] \notin below[e[j]] /\ e[j] # e[k]
    <3>1. Cardinality(below[e[j]]) \in Int /\ Cardinality(below[e[k]]) \in Int  BY <1>1, <2>1 DEF Placed
    <3>2. QED  BY <1>1, <2>1, <3>1 DEF Placed
  <2>3. QED  BY <2>1, <2>2 DEF Orders
<1>4. ASSUME NEW x \in S  PROVE \E k \in 1 .. Cardinality(S) : e[k] = x
  <2>1. PICK c : c = Cardinality(below[x])  OBVIOUS
  <2>2. c \in 0 .. (Cardinality(S) - 1)  BY <1>1, <2>1 DEF Placed
  <2>3. PICK k \in 1 .. Cardinality(S) : k - 1 = c  BY <1>1, <2>2
  <2>4. e[k] \in S /\ Cardinality(below[e[k]]) = c  BY <1>2, <2>3
  <2>5. e[k] \notin below[x] /\ x \notin below[e[k]]  BY <1>1, <2>1, <2>2, <2>4 DEF Placed
  <2>6. QED  BY <2>4, <2>5 DEF Orders
<1>5. \A j, k \in 1 .. Cardinality(S) : e[j] = e[k] => j = k  BY <1>1, <1>2
<1>6. QED  BY <1>1, <1>2, <1>3, <1>4, <1>5

LEMMA UpTo ==
  ASSUME NEW n \in Nat
  PROVE  IsFiniteSet(1 .. n) /\ Cardinality(1 .. n) = n
<1>1. 1 \in Int /\ n \in Int  OBVIOUS
<1>2. IsFiniteSet(1 .. n) /\ Cardinality(1 .. n) = IF 1 > n THEN 0 ELSE n - 1 + 1
  BY <1>1, FS_Interval
<1>3. QED  BY <1>2

(* InOrder is a list of the set's numbers, each once.                      *)
Listed(e, n, S) ==
  /\ n \in Nat /\ DOMAIN e = 1 .. n
  /\ \A h \in 1 .. n : e[h] \in S
  /\ \A x \in S : \E h \in 1 .. n : e[h] = x
  /\ \A g, h \in 1 .. n : e[g] = e[h] => g = h

LEMMA InOrderIs ==
  ASSUME NEW S, IsFiniteSet(S), S \subseteq Int
  PROVE  Listed(InOrder(S), Cardinality(S), S)
<1> DEFINE n == Cardinality(S)
           below == [x \in S |-> {y \in S : y < x}]
           e == InOrder(S)
<1>1. below \in [S -> SUBSET S] /\ \A x, y \in S : x \in below[y] <=> x < y  OBVIOUS
<1>2. e = [h \in 1 .. n |-> CHOOSE x \in S : Cardinality({y \in S : y < x}) = h - 1]
  BY DEF InOrder
<1>3. ASSUME NEW h \in 1 .. n, \E x \in S : Cardinality(below[x]) = h - 1
      PROVE  e[h] \in S /\ Cardinality(below[e[h]]) = h - 1
  <2>1. \E x \in S : Cardinality({y \in S : y < x}) = h - 1  BY <1>3
  <2>2. e[h] = CHOOSE x \in S : Cardinality({y \in S : y < x}) = h - 1  BY <1>2
  <2>3. e[h] \in S /\ Cardinality({y \in S : y < e[h]}) = h - 1
    <3> HIDE DEF e, n
    <3> QED  BY <2>1, <2>2, Zenon
  <2>4. QED  BY <2>3
<1>4. DOMAIN e = 1 .. n  BY <1>2
<1> HIDE DEF below, e
<1>5. Orders(S, below)
  <2>1. \A x \in S : x \notin below[x]  BY <1>1
  <2>2. ASSUME NEW x \in S, NEW y \in S, x \in below[y]  PROVE below[x] \subseteq below[y]
    <3>1. below[x] \subseteq S  BY <1>1
    <3>2. ASSUME NEW z \in below[x]  PROVE z \in below[y]  BY <1>1, <2>2, <3>1
    <3>3. QED  BY <3>2
  <2>3. \A x, y \in S : x = y \/ x \in below[y] \/ y \in below[x]  BY <1>1
  <2>4. QED  BY <1>1, <2>1, <2>2, <2>3 DEF Orders
<1>6. /\ Cardinality(S) \in Nat
      /\ \A h \in 1 .. Cardinality(S) : e[h] \in S
      /\ \A x \in S : \E h \in 1 .. Cardinality(S) : e[h] = x
      /\ \A g, h \in 1 .. Cardinality(S) : e[g] = e[h] => g = h
  <2>1. Fills(e, S, below)  BY <1>3 DEF Fills
  <2>2. QED  BY <1>5, <2>1, PlacesFilled
<1>7. QED  BY <1>4, <1>6 DEF Listed, e

-----------------------------------------------------------------------------
(* The vendor selection *)

(* A set of numbers up to n that has any has a smallest.                   *)
LEMMA LeastExists ==
  ASSUME NEW n \in Nat, NEW S \in SUBSET (1 .. n), S # {}
  PROVE  \E i \in S : \A j \in S : i <= j
<1> DEFINE Under(i) == {x \in S : x < i}
           T == {Under(i) : i \in S}
           R == StrictSubsetOrdering(S)
<1>1. S \subseteq Int  OBVIOUS
<1>2. IsFiniteSet(S)
  <2>1. 1 \in Int /\ n \in Int  OBVIOUS
  <2>2. IsFiniteSet(1 .. n)  BY <2>1, FS_Interval, Zenon
  <2>3. QED  BY <2>2, FS_Subset, Zenon
<1>3. T \subseteq FiniteSubsetsOf(S) /\ T # {}
  <2>1. T \subseteq SUBSET S /\ T # {}  OBVIOUS
  <2>2. FiniteSubsetsOf(S) = SUBSET S  BY <1>2, FS_FiniteSubsetsOfFinite, Zenon
  <2> HIDE DEF T
  <2>3. QED  BY <2>1, <2>2
<1>4. IsWellFoundedOn(R, FiniteSubsetsOf(S))  BY FS_StrictSubsetOrderingWellFounded
<1> HIDE DEF R, T
<1>5. \E x \in T : \A y \in T : ~ (<<y, x>> \in R)  BY <1>3, <1>4, WFMin
<1>6. PICK i \in S : \A y \in T : <<y, Under(i)>> \notin R  BY <1>5 DEF T
<1>7. ASSUME NEW j \in S, j < i  PROVE FALSE
  <2>1. Under(j) \in T  BY DEF T
  <2>2. j \in Under(i) /\ j \notin Under(j)  BY <1>1, <1>7
  <2>3. \A x \in S : x < j => x < i  BY <1>1, <1>7
  <2>4. Under(j) \subseteq Under(i) /\ Under(j) # Under(i)  BY <2>2, <2>3
  <2>5. <<Under(j), Under(i)>> \in R  BY <2>4 DEF R, StrictSubsetOrdering
  <2>6. QED  BY <1>6, <2>1, <2>5
<1>8. QED  BY <1>1, <1>7

(* SpendOf is the sum of what the positions are worth.                     *)
LEMMA SpendIs ==
  ASSUME NEW vendors, NEW chosen, IsFiniteSet(DOMAIN chosen), NEW w \in [DOMAIN chosen -> Int],
         \A i \in DOMAIN chosen : vendors[chosen[i]].spend = w[i]
  PROVE  SpendOf(vendors, chosen) = SumOf(w)[DOMAIN chosen]
<1> DEFINE ids == DOMAIN chosen
           Unfold(g) == [s \in SUBSET ids |->
                         IF s = {} THEN 0 ELSE g[s \ {Pick(s)}] + vendors[chosen[Pick(s)]].spend]
           it == CHOOSE g : g = Unfold(g)
<1>1. \E g : g = Unfold(g)
  <2>1. PICK g : Summing(w, ids, g)  BY SumExists
  <2>2. ASSUME NEW s \in SUBSET ids
        PROVE  g[s] = IF s = {} THEN 0 ELSE g[s \ {Pick(s)}] + vendors[chosen[Pick(s)]].spend
    <3>1. g[s] = IF s = {} THEN 0 ELSE w[Pick(s)] + g[s \ {Pick(s)}]
      BY <2>1 DEF Summing, Solves, Adds
    <3>2. CASE s # {}
      <4>1. PICK p, t : p = Pick(s) /\ t = s \ {p}  OBVIOUS
      <4>2. p \in ids /\ t \in SUBSET ids  BY <3>2, <4>1, PickIn
      <4>3. g[t] \in Int /\ w[p] \in Int  BY <2>1, <4>2 DEF Summing
      <4>4. vendors[chosen[p]].spend = w[p]  BY <4>2
      <4>5. g[s] = g[t] + w[p]  BY <3>1, <3>2, <4>1, <4>3
      <4>6. QED  BY <3>2, <4>1, <4>4, <4>5
    <3>3. QED  BY <3>1, <3>2
  <2>3. g = Unfold(g)  BY <2>1, <2>2 DEF Summing
  <2>4. QED  BY <2>3, Zenon
<1>2. it = Unfold(it)  BY <1>1, Zenon
<1>3. SpendOf(vendors, chosen) = it[ids]
  BY Zenon DEF SpendOf, FoldSeq, FoldFunction, FoldFunctionOnSet, MapThenFoldSet, Pick
<1> HIDE DEF it
<1>4. PICK h : h = SumOf(w)  OBVIOUS
<1>5. Summing(w, ids, h)  BY <1>4, SumSolves
<1> DEFINE T == {u \in SUBSET ids : it[u] # h[u]}
<1>6. T = {}
  <2>1. SUFFICES ASSUME T # {}  PROVE FALSE
    OBVIOUS
  <2>2. T \in SUBSET (SUBSET ids)  OBVIOUS
  <2> HIDE DEF T
  <2>3. PICK u \in T : \A y \in SUBSET u : y # u => y \notin T  BY <2>1, <2>2, MinimalExists
  <2>4. u \in SUBSET ids /\ it[u] # h[u]  BY <2>2 DEF T
  <2>5. it[u] = IF u = {} THEN 0 ELSE it[u \ {Pick(u)}] + vendors[chosen[Pick(u)]].spend
    BY <1>2, <2>4, Zenon
  <2>6. h[u] = IF u = {} THEN 0 ELSE w[Pick(u)] + h[u \ {Pick(u)}]
    BY <1>5, <2>4 DEF Summing, Solves, Adds
  <2>7. u # {}  BY <2>4, <2>5, <2>6
  <2>8. PICK p, t : p = Pick(u) /\ t = u \ {p}  OBVIOUS
  <2>9. p \in ids /\ t \in SUBSET ids /\ t \in SUBSET u /\ t # u  BY <2>4, <2>7, <2>8, PickIn
  <2>10. it[t] = h[t]  BY <2>3, <2>9 DEF T
  <2>11. h[t] \in Int /\ w[p] \in Int /\ vendors[chosen[p]].spend = w[p]  BY <1>5, <2>9 DEF Summing
  <2>12. QED  BY <2>4, <2>5, <2>6, <2>7, <2>8, <2>10, <2>11
<1>7. it[ids] = h[ids]  BY <1>6
<1>8. QED  BY <1>3, <1>4, <1>7

(* engine.py:49-63: of a total that is not zero the vendors selected cover *)
(* 70%, so that their spend is not zero either, credit notes or not; and   *)
(* no shorter prefix of the ranking covers as much.  InTurnIs has that the *)
(* prefixes' spends are integers.                                          *)
LEMMA SelectionWeighs ==
  ASSUME NEW vendors, NEW Ids, NEW ranked \in Seq(Ids), Len(ranked) > 0,
         \A k \in 1 .. Len(ranked) : SpendOf(vendors, SubSeq(ranked, 1, k)) \in Int,
         NEW total, total = SpendOf(vendors, ranked), total # 0
  PROVE  LET selected == Selection(vendors, ranked, total)
         IN  /\ SpendOf(vendors, selected) # 0
             /\ \E k \in 1 .. Len(ranked) :
                  /\ selected = SubSeq(ranked, 1, k)
                  /\ Covers(SpendOf(vendors, selected), total)
                  /\ \A j \in 1 .. (k - 1) : ~Covers(SpendOf(vendors, SubSeq(ranked, 1, j)), total)
<1> DEFINE running(k) == SpendOf(vendors, SubSeq(ranked, 1, k))
           upto == {k \in DOMAIN ranked : Covers(running(k), total)}
           last == CHOOSE k \in upto : \A j \in upto : k <= j
           selected == Selection(vendors, ranked, total)
<1>1. Len(ranked) \in Nat \ {0} /\ DOMAIN ranked = 1 .. Len(ranked)  OBVIOUS
<1>2. SubSeq(ranked, 1, Len(ranked)) = ranked  OBVIOUS
<1>3. total \in Int
  <2>1. Len(ranked) \in 1 .. Len(ranked)  BY <1>1
  <2>2. QED  BY <1>2, <2>1
<1>4. Len(ranked) \in upto
  <2>1. Covers(total, total)  BY <1>3 DEF Covers
  <2>2. running(Len(ranked)) = total  BY <1>2, Zenon
  <2>3. Len(ranked) \in DOMAIN ranked  BY <1>1
  <2>4. QED  BY <2>1, <2>2, <2>3, Zenon
<1>5. last \in upto /\ \A j \in upto : last <= j
  <2>1. upto \in SUBSET (1 .. Len(ranked)) /\ upto # {}  BY <1>1, <1>4
  <2> HIDE DEF upto
  <2>2. \E k \in upto : \A j \in upto : k <= j  BY <1>1, <2>1, LeastExists
  <2>3. QED  BY <2>2, Zenon
<1>6. selected = SubSeq(ranked, 1, last)  BY <1>4 DEF Selection
<1> HIDE DEF last, selected
<1>7. last \in 1 .. Len(ranked) /\ Covers(running(last), total) /\ running(last) \in Int
  BY <1>1, <1>5
<1>8. running(last) # 0  BY <1>3, <1>7 DEF Covers
<1>9. ASSUME NEW j \in 1 .. (last - 1)  PROVE ~Covers(running(j), total)
  <2>1. j \in DOMAIN ranked /\ ~(last <= j)  BY <1>1, <1>7
  <2>2. QED  BY <1>5, <2>1
<1>10. QED  BY <1>6, <1>7, <1>8, <1>9 DEF selected

(* A list of vendors, and r the vendors by their spends, which fall.       *)
Vendors(vendors, n) ==
  /\ n \in Nat
  /\ DOMAIN vendors = 1 .. n
  /\ \A i \in 1 .. n : vendors[i].spend \in Int

Ranking(vendors, n, r) ==
  /\ r \in [1 .. n -> 1 .. n]
  /\ \A i \in 1 .. n : \E k \in 1 .. n : r[k] = i
  /\ \A j, k \in 1 .. n : r[j] = r[k] => j = k
  /\ \A j, k \in 1 .. n : j < k => vendors[r[j]].spend >= vendors[r[k]].spend

(* Ranked is such an order.                                                *)
LEMMA RankedIs ==
  ASSUME NEW vendors, NEW n, Vendors(vendors, n)
  PROVE  Ranking(vendors, n, Ranked(vendors))
<1> DEFINE S == 1 .. n
           below == [i \in S |-> Ahead(vendors, i)]
           r == Ranked(vendors)
<1>1. IsFiniteSet(S) /\ Cardinality(S) = n /\ DOMAIN vendors = S
      /\ \A i \in S : i \in Int /\ vendors[i].spend \in Int
  BY UpTo DEF Vendors
<1>2. Orders(S, below)
  <2>1. ASSUME NEW i \in S, NEW j \in S
        PROVE  j \in below[i] <=>
                 \/ vendors[j].spend > vendors[i].spend
                 \/ vendors[j].spend = vendors[i].spend /\ j < i
    BY <1>1, Zenon DEF Ahead
  <2>2. below \in [S -> SUBSET S]  BY <1>1, Zenon DEF Ahead
  <2> HIDE DEF below, S
  <2>3. \A x \in S : x \notin below[x]  BY <1>1, <2>1
  <2>4. ASSUME NEW x \in S, NEW y \in S, x \in below[y]  PROVE below[x] \subseteq below[y]
    <3>1. below[x] \subseteq S  BY <2>2
    <3>2. ASSUME NEW z \in below[x]  PROVE z \in below[y]
      BY <1>1, <2>1, <2>4, <3>1
    <3>3. QED  BY <3>2
  <2>5. ASSUME NEW x \in S, NEW y \in S  PROVE x = y \/ x \in below[y] \/ y \in below[x]
    BY <1>1, <2>1
  <2>6. QED  BY <2>2, <2>3, <2>4, <2>5 DEF Orders
<1>3. r = [k \in S |-> CHOOSE i \in S : Cardinality(Ahead(vendors, i)) = k - 1]
  BY <1>1 DEF Ranked
<1>4. ASSUME NEW k \in S, \E x \in S : Cardinality(below[x]) = k - 1
      PROVE  r[k] \in S /\ Cardinality(below[r[k]]) = k - 1
  <2>1. \E i \in S : Cardinality(Ahead(vendors, i)) = k - 1  BY <1>4
  <2>2. r[k] = CHOOSE i \in S : Cardinality(Ahead(vendors, i)) = k - 1  BY <1>3
  <2>3. r[k] \in S /\ Cardinality(Ahead(vendors, r[k])) = k - 1
    <3> HIDE DEF S, r
    <3> QED  BY <2>1, <2>2, Zenon
  <2>4. QED  BY <2>3
<1>5. \A i \in S, j \in S : j \in below[i] => vendors[j].spend >= vendors[i].spend
  BY <1>1 DEF Ahead
<1> HIDE DEF below, r
<1>6. /\ \A k \in 1 .. Cardinality(S) : r[k] \in S
      /\ \A x \in S : \E k \in 1 .. Cardinality(S) : r[k] = x
      /\ \A j, k \in 1 .. Cardinality(S) : j < k => r[j] \in below[r[k]]
      /\ \A j, k \in 1 .. Cardinality(S) : r[j] = r[k] => j = k
  <2> HIDE DEF S
  <2>1. Fills(r, S, below)  BY <1>1, <1>4 DEF Fills, S
  <2>2. QED  BY <1>1, <1>2, <2>1, PlacesFilled
<1>7. r \in [1 .. n -> 1 .. n]  BY <1>1, <1>3, <1>6
<1>8. QED  BY <1>1, <1>5, <1>6, <1>7 DEF Ranking, r

(* A list of invoices, their nets, and those of a vendor.                  *)
Invoiced(list, m) ==
  /\ m \in Nat
  /\ DOMAIN list = 1 .. m
  /\ \A k \in 1 .. m : list[k].net \in Int

Nets(list) == [k \in DOMAIN list |-> list[k].net]

Names(list) == {list[k].vendor : k \in DOMAIN list}

Named(list, v) == {k \in DOMAIN list : list[k].vendor = v}

LEMMA NetSpendIs ==
  ASSUME NEW list, NEW m, Invoiced(list, m)
  PROVE  /\ IsFiniteSet(DOMAIN list) /\ Nets(list) \in [DOMAIN list -> Int]
         /\ \A ids \in SUBSET DOMAIN list : NetSpend(list, ids) = SumOf(Nets(list))[ids]
<1> DEFINE S == DOMAIN list
           a == Nets(list)
<1>1. IsFiniteSet(S)  BY UpTo DEF Invoiced
<1>2. a \in [S -> Int] /\ \A k \in S : a[k] = list[k].net  BY DEF Invoiced, Nets
<1>3. ASSUME NEW ids \in SUBSET S  PROVE NetSpend(list, ids) = SumOf(a)[ids]
  <2> DEFINE Unfold(g) == [s \in SUBSET ids |->
                             IF s = {} THEN 0 ELSE list[Pick(s)].net + g[s \ {Pick(s)}]]
             it == CHOOSE g : g = Unfold(g)
  <2>1. IsFiniteSet(ids)  BY <1>1, FS_Subset, Zenon
  <2>2. \E g : g = Unfold(g)
    <3> DEFINE w == [i \in ids |-> a[i]]
    <3> HIDE DEF S, a
    <3>1. w \in [ids -> Int] /\ \A i \in ids : w[i] = list[i].net  BY <1>2
    <3> HIDE DEF w
    <3>2. PICK g : Summing(w, ids, g)  BY <2>1, <3>1, SumExists
    <3>3. ASSUME NEW s \in SUBSET ids
          PROVE  g[s] = IF s = {} THEN 0 ELSE list[Pick(s)].net + g[s \ {Pick(s)}]
      BY <3>1, <3>2, PickIn DEF Summing, Solves, Adds
    <3>4. g = Unfold(g)  BY <3>2, <3>3 DEF Summing
    <3>5. QED  BY <3>4, Zenon
  <2>3. it = Unfold(it)  BY <2>2, Zenon
  <2>4. NetSpend(list, ids) = it[ids]  BY Zenon DEF NetSpend, MapThenSumSet, MapThenFoldSet, Pick
  <2> HIDE DEF it, S, a
  <2>5. Solves(a, ids, it)
    <3>1. ASSUME NEW s \in SUBSET ids
          PROVE  it[s] = IF s = {} THEN 0 ELSE a[Pick(s)] + it[s \ {Pick(s)}]
      <4>1. it[s] = IF s = {} THEN 0 ELSE list[Pick(s)].net + it[s \ {Pick(s)}]  BY <2>3, Zenon
      <4>2. QED  BY <1>2, <4>1, PickIn
    <3>2. QED  BY <3>1 DEF Solves, Adds
  <2>6. Solves(a, S, SumOf(a))  BY <1>1, <1>2, SumSolves
  <2>7. ids \in SUBSET (ids \cap S) /\ \A i \in ids : a[i] = a[i]  OBVIOUS
  <2>8. \A g, h : Solves(a, ids, g) /\ Solves(a, S, h) => g[ids] = h[ids]  BY <2>1, <2>7, SumsAgree
  <2>9. QED  BY <2>4, <2>5, <2>6, <2>8
<1>4. QED  BY <1>1, <1>2, <1>3

(* The vendors named, each once, with what their invoices come to.         *)
Grouped(list, vs, n) ==
  /\ Vendors(vs, n)
  /\ \A h \in 1 .. n : /\ vs[h].vendor \in Names(list)
                       /\ vs[h].spend = SumOf(Nets(list))[Named(list, vs[h].vendor)]
  /\ \A v \in Names(list) : \E h \in 1 .. n : vs[h].vendor = v
  /\ \A g, h \in 1 .. n : vs[g].vendor = vs[h].vendor => g = h

LEMMA VendorSpendsIs ==
  ASSUME NEW list, NEW m, Invoiced(list, m)
  PROVE  \E n : Grouped(list, VendorSpends(list), n)
<1> DEFINE first == {k \in DOMAIN list : \A j \in 1 .. (k - 1) : list[j].vendor # list[k].vendor}
           n == Cardinality(first)
           e == InOrder(first)
           vs == VendorSpends(list)
<1>1. m \in Nat /\ DOMAIN list = 1 .. m  BY DEF Invoiced
<1>2. first \subseteq 1 .. m  BY <1>1
<1>3. IsFiniteSet(first) /\ first \subseteq Int  BY <1>1, <1>2, UpTo, FS_Subset
<1>4. Listed(e, n, first)
  <2> HIDE DEF first
  <2> QED  BY <1>3, InOrderIs
<1>5. vs = [h \in DOMAIN e |->
              [vendor |-> list[e[h]].vendor,
               spend  |-> NetSpend(list, {k \in DOMAIN list : list[k].vendor = list[e[h]].vendor})]]
  BY Zenon DEF VendorSpends
<1>6. DOMAIN e = 1 .. n  BY <1>4 DEF Listed
<1> HIDE DEF e, n, vs
<1>7. DOMAIN vs = 1 .. n /\ \A h \in 1 .. n :
        /\ vs[h].vendor = list[e[h]].vendor
        /\ vs[h].spend = NetSpend(list, Named(list, list[e[h]].vendor))
  BY <1>5, <1>6 DEF Named
<1>9. /\ n \in Nat
      /\ \A h \in 1 .. n : e[h] \in first
      /\ \A k \in first : \E h \in 1 .. n : e[h] = k
      /\ \A g, h \in 1 .. n : e[g] = e[h] => g = h
  BY <1>4 DEF Listed
<1>10. \A h \in 1 .. n : e[h] \in DOMAIN list  BY <1>1, <1>2, <1>9
<1>11. ASSUME NEW h \in 1 .. n
       PROVE  /\ vs[h].vendor \in Names(list)
              /\ vs[h].spend = SumOf(Nets(list))[Named(list, vs[h].vendor)]
              /\ vs[h].spend \in Int
  <2>1. vs[h].vendor \in Names(list)  BY <1>7, <1>10 DEF Names
  <2>2. Named(list, vs[h].vendor) \in SUBSET DOMAIN list  BY DEF Named
  <2>3. vs[h].spend = SumOf(Nets(list))[Named(list, vs[h].vendor)]  BY <1>7, <2>2, NetSpendIs
  <2>4. SumOf(Nets(list)) \in [SUBSET DOMAIN list -> Int]  BY NetSpendIs, SumIs DEF SumLaws
  <2>5. QED  BY <2>1, <2>2, <2>3, <2>4
<1>12. ASSUME NEW v \in Names(list)  PROVE \E h \in 1 .. n : vs[h].vendor = v
  <2>1. Named(list, v) \in SUBSET (1 .. m) /\ Named(list, v) # {}  BY <1>1 DEF Named, Names
  <2>2. PICK k \in Named(list, v) : \A j \in Named(list, v) : k <= j  BY <1>1, <2>1, LeastExists
  <2>3. k \in first
    <3>1. k \in 1 .. m /\ list[k].vendor = v  BY <1>1, <2>1 DEF Named
    <3>2. ASSUME NEW j \in 1 .. (k - 1)  PROVE list[j].vendor # list[k].vendor
      <4>1. j \in 1 .. m /\ ~(k <= j)  BY <1>1, <3>1
      <4>2. QED  BY <1>1, <2>2, <3>1, <4>1 DEF Named
    <3>3. QED  BY <1>1, <3>1, <3>2
  <2>4. PICK h \in 1 .. n : e[h] = k  BY <1>9, <2>3
  <2>5. QED  BY <1>7, <2>4 DEF Named
<1>13. ASSUME NEW g \in 1 .. n, NEW h \in 1 .. n, vs[g].vendor = vs[h].vendor  PROVE g = h
  <2>1. PICK j, k : j = e[g] /\ k = e[h]  OBVIOUS
  <2>2. j \in first /\ k \in first /\ list[j].vendor = list[k].vendor  BY <1>7, <1>9, <1>13, <2>1
  <2>3. j \in Nat /\ k \in Nat /\ j >= 1 /\ k >= 1  BY <1>1, <1>2, <2>2
  <2>4. ~(j < k) /\ ~(k < j)  BY <2>2, <2>3
  <2>5. QED  BY <1>9, <2>1, <2>3, <2>4
<1>14. Vendors(vs, n)  BY <1>7, <1>9, <1>11 DEF Vendors
<1>15. Grouped(list, vs, n)  BY <1>11, <1>12, <1>13, <1>14 DEF Grouped
<1>16. QED  BY <1>15 DEF vs

LEMMA GreatestExists ==
  ASSUME NEW n \in Nat, NEW P \in SUBSET (1 .. n), P # {}
  PROVE  \E k \in P : \A j \in P : j <= k
<1> DEFINE S == {k \in 1 .. n : \A j \in P : j <= k}
<1>0. PICK i : i \in P  OBVIOUS
<1>1. n \in S  BY <1>0 DEF S
<1>2. S \in SUBSET (1 .. n)  OBVIOUS
<1> HIDE DEF S
<1>3. PICK k \in S : \A j \in S : k <= j  BY <1>1, <1>2, LeastExists
<1>4. k \in 1 .. n /\ \A j \in P : j <= k  BY <1>3 DEF S
<1>5. CASE k \in P  BY <1>4, <1>5
<1>6. CASE k \notin P
  <2>1. \A j \in P : j \in 1 .. n /\ j <= k - 1  BY <1>4, <1>6
  <2>2. k - 1 \in 1 .. n  BY <1>0, <1>4, <2>1
  <2>3. k - 1 \in S  BY <2>1, <2>2 DEF S
  <2>4. QED  BY <1>3, <1>4, <2>3
<1>7. QED  BY <1>5, <1>6

Falling(b, n) == \A j, k \in 1 .. n : j < k => b[j] >= b[k]

(* Of numbers that fall the first k come to at least as much as any k.     *)
LEMMA FirstMost ==
  ASSUME NEW n \in Nat, NEW b \in [1 .. n -> Int], Falling(b, n)
  PROVE  \A P \in SUBSET (1 .. n) :
           /\ Cardinality(P) \in 0 .. n
           /\ SumOf(b)[P] <= SumOf(b)[1 .. Cardinality(P)]
<1> DEFINE S == 1 .. n
           B == SumOf(b)
<1>1. IsFiniteSet(S) /\ Cardinality(S) = n  BY UpTo
<1>a. SumLaws(S, b, B)  BY <1>1, SumIs
<1> HIDE DEF B
<1>2. /\ B \in [SUBSET S -> Int]
      /\ \A u \in SUBSET S : \A x \in u : B[u] = b[x] + B[u \ {x}]
  BY <1>a DEF SumLaws
<1>3. ASSUME NEW P \in SUBSET S
      PROVE  IsFiniteSet(P) /\ Cardinality(P) \in Nat /\ Cardinality(P) \in 0 .. n
  <2>1. IsFiniteSet(P) /\ Cardinality(P) <= n
    <3> HIDE DEF S
    <3> QED  BY <1>1, FS_Subset
  <2>2. Cardinality(P) \in Nat  BY <2>1, FS_CardinalityType
  <2>3. QED  BY <2>1, <2>2
<1> DEFINE T == {P \in SUBSET S : ~(B[P] <= B[1 .. Cardinality(P)])}
<1>4. T = {}
  <2>1. SUFFICES ASSUME T # {}  PROVE FALSE
    OBVIOUS
  <2>2. T \in SUBSET (SUBSET S)  OBVIOUS
  <2>3. \A P : P \in T <=> P \in SUBSET S /\ ~(B[P] <= B[1 .. Cardinality(P)])  OBVIOUS
  <2> HIDE DEF T
  <2>4. PICK P \in T : \A y \in SUBSET P : y # P => y \notin T
    <3> HIDE DEF S
    <3> QED  BY <1>1, <2>1, <2>2, MinimalExists
  <2>5. P \in SUBSET S /\ ~(B[P] <= B[1 .. Cardinality(P)])  BY <2>3
  <2>6. PICK m \in Nat : m = Cardinality(P)  BY <1>3, <2>5
  <2>7. IsFiniteSet(P) /\ m \in 0 .. n  BY <1>3, <2>5, <2>6
  <2>8. P # {}
    <3>1. SUFFICES ASSUME P = {}  PROVE FALSE
      OBVIOUS
    <3>2. m = 0  BY <2>6, <3>1, FS_EmptySet
    <3>3. 1 .. m = {}  BY <3>2
    <3>4. P \in SUBSET S /\ B[P] \in Int  BY <1>2, <2>5
    <3>5. B[P] <= B[P]  BY <3>4
    <3>6. QED  BY <2>5, <2>6, <3>1, <3>3, <3>5
  <2>9. PICK k \in P : \A j \in P : j <= k  BY <2>5, <2>8, GreatestExists
  <2>10. PICK t : t = P \ {k}  OBVIOUS
  <2>11. t \in SUBSET S /\ t \in SUBSET P /\ t # P  BY <2>5, <2>9, <2>10
  <2>12. Cardinality(t) = m - 1 /\ m >= 1
    <3>1. Cardinality(t) = m - 1  BY <2>6, <2>7, <2>9, <2>10, FS_RemoveElement
    <3>2. Cardinality(t) \in Nat  BY <1>3, <2>11
    <3>3. QED  BY <3>1, <3>2
  <2>13. B[t] <= B[1 .. (m - 1)]  BY <2>3, <2>4, <2>11, <2>12
  <2>14. k \in 1 .. n /\ m <= k
    <3>1. k \in 1 .. n  BY <2>5, <2>9
    <3>2. P \in SUBSET (1 .. k)  BY <2>5, <2>9, <3>1
    <3>3. IsFiniteSet(1 .. k) /\ Cardinality(1 .. k) = k  BY <3>1, UpTo
    <3>4. Cardinality(P) <= Cardinality(1 .. k)  BY <3>2, <3>3, FS_Subset
    <3>5. QED  BY <2>6, <3>1, <3>3, <3>4
  <2>15. m \in 1 .. n /\ b[m] \in Int /\ b[k] \in Int /\ b[k] <= b[m]
    <3>1. m \in 1 .. n  BY <2>7, <2>12
    <3>2. b[m] \in Int /\ b[k] \in Int  BY <2>14, <3>1
    <3>3. CASE m = k  BY <3>1, <3>2, <3>3
    <3>4. CASE m < k  BY <2>14, <3>1, <3>2, <3>4 DEF Falling
    <3>5. QED  BY <2>14, <3>1, <3>2, <3>3, <3>4
  <2>16. B[P] = b[k] + B[t]  BY <1>2, <2>5, <2>9, <2>10
  <2>17. B[1 .. m] = b[m] + B[1 .. (m - 1)]
    <3>1. PICK x, y : x = 1 .. m /\ y = 1 .. (m - 1)  OBVIOUS
    <3>2. x \in SUBSET S /\ m \in x /\ y = x \ {m}  BY <2>15, <3>1
    <3>3. B[x] = b[m] + B[y]  BY <1>2, <3>2
    <3>4. QED  BY <3>1, <3>3
  <2>18. B[t] \in Int /\ B[1 .. (m - 1)] \in Int
    <3>1. PICK y : y = 1 .. (m - 1)  OBVIOUS
    <3>2. y \in SUBSET S  BY <2>15, <3>1
    <3>3. QED  BY <1>2, <2>11, <3>1, <3>2
  <2>19. QED  BY <2>5, <2>6, <2>13, <2>15, <2>16, <2>17, <2>18
<1>5. QED  BY <1>3, <1>4 DEF B

(* The spends in the order of the ranking.                                 *)
InTurn(vendors, r) == [k \in DOMAIN r |-> vendors[r[k]].spend]

LEMMA InTurnIs ==
  ASSUME NEW vendors, NEW n, NEW r, Vendors(vendors, n), Ranking(vendors, n, r)
  PROVE  LET b == InTurn(vendors, r)
         IN  /\ n \in Nat /\ b \in [1 .. n -> Int] /\ Falling(b, n)
             /\ \A k \in 1 .. n : b[k] = vendors[r[k]].spend
             /\ \A k \in 1 .. n : SpendOf(vendors, SubSeq(r, 1, k)) = SumOf(b)[1 .. k]
             /\ SpendOf(vendors, r) = SumOf(b)[1 .. n]
             /\ SumLaws(1 .. n, b, SumOf(b))
<1> DEFINE b == InTurn(vendors, r)
           S == 1 .. n
<1>1. n \in Nat /\ r \in [S -> S] /\ IsFiniteSet(S)  BY UpTo DEF Vendors, Ranking
<1>2. \A k \in S : b[k] = vendors[r[k]].spend /\ b[k] \in Int
  BY <1>1 DEF InTurn, Vendors
<1>3. b \in [S -> Int]
  <2>1. b = [k \in S |-> b[k]]  BY <1>1 DEF InTurn
  <2>2. QED  BY <1>2, <2>1
<1>4. Falling(b, n)  BY <1>2 DEF Falling, Ranking
<1> HIDE DEF b
<1>5. ASSUME NEW k \in S  PROVE SpendOf(vendors, SubSeq(r, 1, k)) = SumOf(b)[1 .. k]
  <2> DEFINE chosen == SubSeq(r, 1, k)
             D == 1 .. k
             w == [i \in D |-> b[i]]
  <2>1. DOMAIN chosen = D /\ \A i \in D : chosen[i] = r[i]  BY <1>1
  <2>2. IsFiniteSet(D) /\ D \in SUBSET S  BY <1>1, UpTo
  <2>3. w \in [D -> Int] /\ \A i \in D : w[i] = b[i]  BY <1>2, <2>2
  <2> HIDE DEF chosen, D, w, S
  <2>4. \A i \in D : vendors[chosen[i]].spend = w[i]  BY <1>2, <2>1, <2>2, <2>3
  <2>5. SpendOf(vendors, chosen) = SumOf(w)[D]  BY <2>1, <2>2, <2>3, <2>4, SpendIs
  <2>6. SumOf(w)[D] = SumOf(b)[D]  BY <1>1, <1>3, <2>2, <2>3, SumRestricted
  <2>7. QED  BY <2>5, <2>6 DEF chosen, D
<1>6. SpendOf(vendors, r) = SumOf(b)[S]
  <2>1. DOMAIN r = S /\ \A i \in S : vendors[r[i]].spend = b[i]  BY <1>1, <1>2
  <2> HIDE DEF S
  <2>2. QED  BY <1>1, <1>3, <2>1, SpendIs
<1>7. SumLaws(S, b, SumOf(b))
  <2> HIDE DEF S
  <2> QED  BY <1>1, <1>3, SumIs
<1>8. QED  BY <1>1, <1>2, <1>3, <1>4, <1>5, <1>6, <1>7 DEF b

(* What the optimizer chooses of vendors whose spends in turn are b.       *)
LeastCover(b, n, k) ==
  /\ k \in 1 .. n
  /\ Covers(SumOf(b)[1 .. k], SumOf(b)[1 .. n])
  /\ \A j \in 1 .. (k - 1) : ~Covers(SumOf(b)[1 .. j], SumOf(b)[1 .. n])

LEMMA TopVendorsIs ==
  ASSUME NEW vendors, NEW n, Vendors(vendors, n)
  PROVE  LET r == Ranked(vendors)
             b == InTurn(vendors, r)
         IN  /\ SumOf(b)[1 .. n] = 0 => TopVendors(vendors) = << >>
             /\ SumOf(b)[1 .. n] # 0 =>
                  \E k \in 1 .. n : TopVendors(vendors) = SubSeq(r, 1, k) /\ LeastCover(b, n, k)
<1> DEFINE r == Ranked(vendors)
           b == InTurn(vendors, r)
           total == SumOf(b)[1 .. n]
<1>1. Ranking(vendors, n, r)  BY RankedIs
<1>2. TopVendors(vendors) = IF SpendOf(vendors, r) = 0 THEN << >>
                            ELSE Selection(vendors, r, SpendOf(vendors, r))
  BY DEF TopVendors
<1> HIDE DEF r
<1>3. /\ n \in Nat /\ b \in [1 .. n -> Int]
      /\ \A k \in 1 .. n : SpendOf(vendors, SubSeq(r, 1, k)) = SumOf(b)[1 .. k]
      /\ SpendOf(vendors, r) = total
      /\ SumLaws(1 .. n, b, SumOf(b))
  BY <1>1, InTurnIs
<1> HIDE DEF b
<1>4. /\ SumOf(b)[{}] = 0
      /\ \A k \in 1 .. n : SumOf(b)[1 .. k] \in Int
  <2>1. SumOf(b) \in [SUBSET (1 .. n) -> Int] /\ SumOf(b)[{}] = 0  BY <1>3 DEF SumLaws
  <2>2. ASSUME NEW k \in 1 .. n  PROVE SumOf(b)[1 .. k] \in Int
    <3>1. 1 .. k \in SUBSET (1 .. n)  BY <1>3
    <3>2. QED  BY <2>1, <3>1
  <2>3. QED  BY <2>1, <2>2
<1>5. CASE total = 0  BY <1>2, <1>3, <1>5 DEF b, r
<1>6. CASE total # 0
  <2>1. n > 0
    <3>1. SUFFICES ASSUME n = 0  PROVE FALSE
      BY <1>3
    <3>2. 1 .. n = {}  BY <3>1
    <3>3. QED  BY <1>4, <1>6, <3>2
  <2>2. r \in Seq(1 .. n) /\ Len(r) = n  BY <1>1, <1>3 DEF Ranking
  <2>3. \A k \in 1 .. Len(r) : SpendOf(vendors, SubSeq(r, 1, k)) \in Int
    BY <1>3, <1>4, <2>2
  <2>4. TopVendors(vendors) = Selection(vendors, r, total)  BY <1>2, <1>3, <1>6
  <2> DEFINE chosen == Selection(vendors, r, total)
  <2>5. \E k \in 1 .. Len(r) :
          /\ chosen = SubSeq(r, 1, k)
          /\ Covers(SpendOf(vendors, chosen), total)
          /\ \A j \in 1 .. (k - 1) : ~Covers(SpendOf(vendors, SubSeq(r, 1, j)), total)
    <3>1. total = SpendOf(vendors, r) /\ Len(r) > 0  BY <1>3, <2>1, <2>2
    <3> HIDE DEF total
    <3>2. QED  BY <1>6, <2>2, <2>3, <3>1, SelectionWeighs
  <2> HIDE DEF chosen
  <2>6. PICK k \in 1 .. n :
          /\ chosen = SubSeq(r, 1, k)
          /\ Covers(SpendOf(vendors, chosen), total)
          /\ \A j \in 1 .. (k - 1) : ~Covers(SpendOf(vendors, SubSeq(r, 1, j)), total)
    BY <2>2, <2>5
  <2>7. \A j \in 1 .. (k - 1) : j \in 1 .. n  BY <1>3
  <2>8. LeastCover(b, n, k)  BY <1>3, <2>6, <2>7 DEF LeastCover
  <2>9. QED  BY <1>6, <2>4, <2>6, <2>8 DEF chosen, b, r
<1>7. QED  BY <1>5, <1>6 DEF b, r

(* The vendors at some places of the ranking, and what they come to.       *)
LEMMA SetSpendIs ==
  ASSUME NEW vendors, NEW n, Vendors(vendors, n)
  PROVE  LET a == [i \in 1 .. n |-> vendors[i].spend]
         IN  /\ a \in [1 .. n -> Int]
             /\ \A ids \in SUBSET (1 .. n) : SetSpend(vendors, ids) = SumOf(a)[ids]
<1> DEFINE S == 1 .. n
           a == [i \in S |-> vendors[i].spend]
<1>1. IsFiniteSet(S)  BY UpTo DEF Vendors
<1>2. a \in [S -> Int] /\ \A i \in S : a[i] = vendors[i].spend  BY DEF Vendors
<1>3. ASSUME NEW ids \in SUBSET S  PROVE SetSpend(vendors, ids) = SumOf(a)[ids]
  <2> DEFINE Unfold(g) == [s \in SUBSET ids |->
                             IF s = {} THEN 0 ELSE vendors[Pick(s)].spend + g[s \ {Pick(s)}]]
             it == CHOOSE g : g = Unfold(g)
  <2>1. IsFiniteSet(ids)  BY <1>1, FS_Subset, Zenon
  <2>2. \E g : g = Unfold(g)
    <3> DEFINE w == [i \in ids |-> a[i]]
    <3> HIDE DEF S, a
    <3>1. w \in [ids -> Int] /\ \A i \in ids : w[i] = vendors[i].spend  BY <1>2
    <3> HIDE DEF w
    <3>2. PICK g : Summing(w, ids, g)  BY <2>1, <3>1, SumExists
    <3>3. ASSUME NEW s \in SUBSET ids
          PROVE  g[s] = IF s = {} THEN 0 ELSE vendors[Pick(s)].spend + g[s \ {Pick(s)}]
      BY <3>1, <3>2, PickIn DEF Summing, Solves, Adds
    <3>4. g = Unfold(g)  BY <3>2, <3>3 DEF Summing
    <3>5. QED  BY <3>4, Zenon
  <2>3. it = Unfold(it)  BY <2>2, Zenon
  <2>4. SetSpend(vendors, ids) = it[ids]  BY Zenon DEF SetSpend, MapThenSumSet, MapThenFoldSet, Pick
  <2> HIDE DEF it, S, a
  <2>5. Solves(a, ids, it)
    <3>1. ASSUME NEW s \in SUBSET ids
          PROVE  it[s] = IF s = {} THEN 0 ELSE a[Pick(s)] + it[s \ {Pick(s)}]
      <4>1. it[s] = IF s = {} THEN 0 ELSE vendors[Pick(s)].spend + it[s \ {Pick(s)}]  BY <2>3, Zenon
      <4>2. QED  BY <1>2, <4>1, PickIn
    <3>2. QED  BY <3>1 DEF Solves, Adds
  <2>6. Solves(a, S, SumOf(a))  BY <1>1, <1>2, SumSolves
  <2>7. ids \in SUBSET (ids \cap S) /\ \A i \in ids : a[i] = a[i]  OBVIOUS
  <2>8. \A g, h : Solves(a, ids, g) /\ Solves(a, S, h) => g[ids] = h[ids]  BY <2>1, <2>7, SumsAgree
  <2>9. QED  BY <2>4, <2>5, <2>6, <2>8
<1>4. QED  BY <1>2, <1>3 DEF S

Holders(r, P) == {r[k] : k \in P}

LEMMA PlacesSpend ==
  ASSUME NEW vendors, NEW n, NEW r, Vendors(vendors, n), Ranking(vendors, n, r), NEW P \in SUBSET (1 .. n)
  PROVE  /\ SetSpend(vendors, Holders(r, P)) = SumOf(InTurn(vendors, r))[P]
         /\ Cardinality(Holders(r, P)) = Cardinality(P)
<1> DEFINE S == 1 .. n
           b == InTurn(vendors, r)
           a == [i \in S |-> vendors[i].spend]
<1>1. IsFiniteSet(S) /\ r \in [S -> S] /\ \A j, k \in S : r[j] = r[k] => j = k
  BY UpTo DEF Vendors, Ranking
<1>2. b \in [S -> Int] /\ \A k \in S : b[k] = vendors[r[k]].spend  BY InTurnIs
<1>3. a \in [S -> Int] /\ \A ids \in SUBSET S : SetSpend(vendors, ids) = SumOf(a)[ids]  BY SetSpendIs
<1>4. \A k \in S : b[k] = a[r[k]]  BY <1>1, <1>2
<1>5. Holders(r, P) \in SUBSET S  BY <1>1 DEF Holders
<1> HIDE DEF S, a, b
<1>6. \A u \in SUBSET S : SumOf(b)[u] = SumOf(a)[{r[x] : x \in u}]
  BY <1>1, <1>2, <1>3, <1>4, SumRenamed
<1>7. SumOf(b)[P] = SumOf(a)[Holders(r, P)]
  <2>1. P \in SUBSET S  BY DEF S
  <2>2. QED  BY <1>6, <2>1 DEF Holders
<1>8. Cardinality(Holders(r, P)) = Cardinality(P)
  <2> DEFINE f == [k \in P |-> r[k]]
  <2>1. P \subseteq S  BY DEF S
  <2>2. IsFiniteSet(P)  BY <1>1, <2>1, FS_Subset
  <2>3. f \in [P -> Holders(r, P)]  BY DEF Holders
  <2>4. \A j, k \in P : f[j] = f[k] => j = k  BY <1>1, <2>1
  <2>5. \A i \in Holders(r, P) : \E k \in P : f[k] = i  BY DEF Holders
  <2> HIDE DEF f
  <2>6. f \in Bijection(P, Holders(r, P))
    BY <2>3, <2>4, <2>5 DEF Bijection, Injection, Surjection, IsInjective
  <2>7. ExistsBijection(P, Holders(r, P))  BY <2>6 DEF ExistsBijection
  <2>8. QED  BY <2>2, <2>7, FS_Bijection
<1>9. QED  BY <1>3, <1>5, <1>7, <1>8 DEF b

(* The vendors' spends come to what the invoices do.                       *)
LEMMA SpendsComeTo ==
  ASSUME NEW list, NEW m, NEW vs, NEW n, Invoiced(list, m), Grouped(list, vs, n)
  PROVE  SumOf(InTurn(vs, Ranked(vs)))[1 .. n] = NetSpend(list, DOMAIN list)
<1> DEFINE H == 1 .. n
           S == DOMAIN list
           r == Ranked(vs)
           t == [i \in H |-> vs[i].spend]
           group == [h \in H |-> Named(list, vs[h].vendor)]
<1>1. Vendors(vs, n) /\ IsFiniteSet(H)  BY UpTo DEF Grouped, Vendors
<1>2. Ranking(vs, n, r)  BY <1>1, RankedIs
<1>3. /\ IsFiniteSet(S) /\ Nets(list) \in [S -> Int]
      /\ NetSpend(list, S) = SumOf(Nets(list))[S]
  BY NetSpendIs
<1>4. t \in [H -> Int] /\ SetSpend(vs, H) = SumOf(t)[H]
  <2>1. H \in SUBSET (1 .. n)  OBVIOUS
  <2>2. QED  BY <1>1, <2>1, SetSpendIs
<1>5. \A h \in H : t[h] = SumOf(Nets(list))[group[h]]  BY DEF Grouped
<1>6. group \in [H -> SUBSET S] /\ \A g, h \in H : g # h => group[g] \cap group[h] = {}
  BY DEF Grouped, Named
<1>7. UNION {group[h] : h \in H} = S
  <2>1. \A k \in S : \E h \in H : k \in group[h]  BY DEF Grouped, Names, Named
  <2> HIDE DEF H, S, group
  <2>2. QED  BY <1>6, <2>1
<1>8. SumOf(t)[H] = SumOf(Nets(list))[S]
  <2> HIDE DEF H, S, t, group
  <2>1. \A u \in SUBSET H : SumOf(t)[u] = SumOf(Nets(list))[UNION {group[h] : h \in u}]
    BY <1>1, <1>3, <1>4, <1>5, <1>6, SumGrouped
  <2>2. H \in SUBSET H  OBVIOUS
  <2>3. QED  BY <1>7, <2>1, <2>2
<1>9. Holders(r, H) = H  BY <1>2 DEF Holders, Ranking
<1>10. SetSpend(vs, Holders(r, H)) = SumOf(InTurn(vs, r))[H]
  <2>1. H \in SUBSET (1 .. n)  OBVIOUS
  <2> HIDE DEF r
  <2>2. QED  BY <1>1, <1>2, <2>1, PlacesSpend
<1>11. QED  BY <1>3, <1>4, <1>8, <1>9, <1>10

LEMMA PrefixIs ==
  ASSUME NEW n \in Nat, NEW r \in [1 .. n -> 1 .. n], NEW k \in 1 .. n
  PROVE  /\ Elements(SubSeq(r, 1, k)) = Holders(r, 1 .. k)
         /\ DOMAIN SubSeq(r, 1, k) = 1 .. k
         /\ \A i \in 1 .. k : SubSeq(r, 1, k)[i] = r[i]
<1>1. r \in Seq(1 .. n) /\ Len(r) = n  OBVIOUS
<1>2. DOMAIN SubSeq(r, 1, k) = 1 .. k /\ \A i \in 1 .. k : SubSeq(r, 1, k)[i] = r[i]
  BY <1>1
<1> DEFINE s == SubSeq(r, 1, k)
<1> HIDE DEF s
<1>3. Elements(s) = Holders(r, 1 .. k)
  <2>1. DOMAIN s = 1 .. k /\ \A i \in 1 .. k : s[i] = r[i]  BY <1>2 DEF s
  <2>2. QED  BY <2>1 DEF Elements, Holders
<1>4. QED  BY <1>2, <1>3 DEF s

(* What the selection of a list of invoices is.                            *)
Selects(list, vs, n, b) ==
  /\ n \in Nat /\ DOMAIN vs = 1 .. n
  /\ b \in [1 .. n -> Int] /\ Falling(b, n) /\ SumLaws(1 .. n, b, SumOf(b))
  /\ SumOf(b)[1 .. n] = NetSpend(list, DOMAIN list)
  /\ \A P \in SUBSET (1 .. n) :
       LET ids == Holders(Ranked(vs), P)
       IN  SetSpend(vs, ids) = SumOf(b)[P] /\ Cardinality(ids) = Cardinality(P)
  /\ \A ids \in SUBSET (1 .. n) : \E P \in SUBSET (1 .. n) : ids = Holders(Ranked(vs), P)
  /\ SumOf(b)[1 .. n] = 0 => TopVendors(vs) = << >>
  /\ SumOf(b)[1 .. n] # 0 =>
       \E k \in 1 .. n : Elements(TopVendors(vs)) = Holders(Ranked(vs), 1 .. k) /\ LeastCover(b, n, k)

LEMMA SelectsIs ==
  ASSUME NEW list, NEW m, Invoiced(list, m)
  PROVE  \E n, b : Selects(list, VendorSpends(list), n, b)
<1> DEFINE vs == VendorSpends(list)
           r == Ranked(vs)
           b == InTurn(vs, r)
<1>1. PICK n : Grouped(list, vs, n)  BY VendorSpendsIs
<1> HIDE DEF vs
<1>2. Vendors(vs, n) /\ n \in Nat /\ DOMAIN vs = 1 .. n  BY <1>1 DEF Grouped, Vendors
<1>3. Ranking(vs, n, r)  BY <1>2, RankedIs
<1>4. SumOf(b)[1 .. n] = NetSpend(list, DOMAIN list)  BY <1>1, SpendsComeTo
<1>5. /\ SumOf(b)[1 .. n] = 0 => TopVendors(vs) = << >>
      /\ SumOf(b)[1 .. n] # 0 => \E k \in 1 .. n : TopVendors(vs) = SubSeq(r, 1, k) /\ LeastCover(b, n, k)
  BY <1>2, TopVendorsIs
<1> HIDE DEF r
<1>6. b \in [1 .. n -> Int] /\ Falling(b, n) /\ SumLaws(1 .. n, b, SumOf(b))  BY <1>2, <1>3, InTurnIs
<1>7. ASSUME NEW P \in SUBSET (1 .. n)
      PROVE  SetSpend(vs, Holders(r, P)) = SumOf(b)[P] /\ Cardinality(Holders(r, P)) = Cardinality(P)
  BY <1>2, <1>3, PlacesSpend
<1>8. ASSUME NEW ids \in SUBSET (1 .. n)  PROVE \E P \in SUBSET (1 .. n) : ids = Holders(r, P)
  <2> DEFINE P == {k \in 1 .. n : r[k] \in ids}
  <2>1. ids = Holders(r, P)  BY <1>3 DEF Ranking, Holders
  <2>2. P \in SUBSET (1 .. n)  OBVIOUS
  <2>3. QED  BY <2>1, <2>2
<1> HIDE DEF b
<1>9. ASSUME SumOf(b)[1 .. n] # 0
      PROVE  \E k \in 1 .. n : Elements(TopVendors(vs)) = Holders(r, 1 .. k) /\ LeastCover(b, n, k)
  <2>1. PICK k \in 1 .. n : TopVendors(vs) = SubSeq(r, 1, k) /\ LeastCover(b, n, k)  BY <1>5, <1>9
  <2>2. r \in [1 .. n -> 1 .. n]  BY <1>3 DEF Ranking
  <2>3. Elements(SubSeq(r, 1, k)) = Holders(r, 1 .. k)  BY <1>2, <2>2, PrefixIs
  <2>4. QED  BY <2>1, <2>3
<1>10. Selects(list, vs, n, b)
  BY <1>2, <1>4, <1>5, <1>6, <1>7, <1>8, <1>9 DEF Selects, r
<1>11. QED  BY <1>10 DEF vs

LEMMA CoverIsSmallest ==
  ASSUME NEW m, Invoiced(invoices, m)
  PROVE  SmallestCover /\ WeightDefined
<1> DEFINE vs == VendorSpends(invoices)
           r == Ranked(vs)
           selected == Elements(TopVendors(vs))
           total == NetSpend(invoices, DOMAIN invoices)
<1>1. PICK n, b : Selects(invoices, vs, n, b)  BY SelectsIs
<1> DEFINE B == SumOf(b)
<1>2. /\ n \in Nat /\ DOMAIN vs = 1 .. n /\ b \in [1 .. n -> Int] /\ Falling(b, n)
      /\ B[1 .. n] = total
      /\ \A P \in SUBSET (1 .. n) :
           SetSpend(vs, Holders(r, P)) = B[P] /\ Cardinality(Holders(r, P)) = Cardinality(P)
      /\ \A ids \in SUBSET (1 .. n) : \E P \in SUBSET (1 .. n) : ids = Holders(r, P)
      /\ total = 0 => TopVendors(vs) = << >>
      /\ total # 0 => \E k \in 1 .. n : selected = Holders(r, 1 .. k) /\ LeastCover(b, n, k)
  BY <1>1 DEF Selects
<1>3. B[{}] = 0 /\ \A P \in SUBSET (1 .. n) : B[P] \in Int  BY <1>1 DEF Selects, SumLaws
<1>4. \A P \in SUBSET (1 .. n) : Cardinality(P) \in 0 .. n /\ B[P] <= B[1 .. Cardinality(P)]
  BY <1>2, FirstMost
<1>5. \A k \in 1 .. n : LeastCover(b, n, k) =>
        Covers(B[1 .. k], total) /\ \A j \in 1 .. (k - 1) : ~Covers(B[1 .. j], total)
  BY <1>2 DEF LeastCover
<1> HIDE DEF vs, r, selected, B
<1>6. \A k \in 1 .. n : /\ 1 .. k \in SUBSET (1 .. n)
                        /\ SetSpend(vs, Holders(r, 1 .. k)) = B[1 .. k]
                        /\ Cardinality(Holders(r, 1 .. k)) = k /\ B[1 .. k] \in Int
  <2> TAKE k \in 1 .. n
  <2>1. PICK P : P = 1 .. k  OBVIOUS
  <2>2. P \in SUBSET (1 .. n)  BY <1>2, <2>1
  <2>3. Cardinality(P) = k  BY <1>2, <2>1, UpTo
  <2>4. QED  BY <1>2, <1>3, <2>1, <2>2, <2>3
<1>7. total \in Int
  <2>1. PICK P : P = 1 .. n  OBVIOUS
  <2>2. QED  BY <1>2, <1>3, <2>1
<1> HIDE DEF total
<1>8. WeightDefined
  <2>1. ASSUME selected # {}  PROVE SetSpend(vs, selected) # 0
    <3>1. total # 0
      <4>1. SUFFICES ASSUME total = 0  PROVE FALSE
        OBVIOUS
      <4>2. TopVendors(vs) = << >>  BY <1>2, <4>1
      <4>3. selected = {}  BY <4>2 DEF selected, Elements
      <4>4. QED  BY <2>1, <4>3
    <3>2. PICK k \in 1 .. n : selected = Holders(r, 1 .. k) /\ LeastCover(b, n, k)  BY <1>2, <3>1
    <3>3. PICK x \in Int : x = B[1 .. k]  BY <1>6
    <3>4. Covers(x, total)  BY <1>5, <3>2, <3>3
    <3>5. x # 0  BY <1>7, <3>1, <3>4 DEF Covers
    <3>6. QED  BY <1>6, <3>2, <3>3, <3>5
  <2>2. QED  BY <2>1 DEF WeightDefined, vs, selected
<1>9. SmallestCover
  <2> DEFINE covering(set) == 10 * SetSpend(vs, set) >= 7 * total
  <2>1. SUFFICES ASSUME total > 0
                 PROVE  /\ covering(selected)
                        /\ \A set \in SUBSET DOMAIN vs :
                             covering(set) => Cardinality(set) >= Cardinality(selected)
    BY DEF SmallestCover, total, selected, vs
  <2>2. PICK k \in 1 .. n : selected = Holders(r, 1 .. k) /\ LeastCover(b, n, k)  BY <1>2, <1>7, <2>1
  <2>3. PICK x \in Int : x = B[1 .. k]  BY <1>6
  <2>4. Covers(x, total) /\ \A j \in 1 .. (k - 1) : ~Covers(B[1 .. j], total)  BY <1>5, <2>2, <2>3
  <2>5. SetSpend(vs, selected) = x /\ Cardinality(selected) = k  BY <1>6, <2>2, <2>3
  <2>6. covering(selected)  BY <1>7, <2>1, <2>4, <2>5 DEF Covers
  <2>7. ASSUME NEW set \in SUBSET DOMAIN vs, covering(set)
        PROVE  Cardinality(set) >= Cardinality(selected)
    <3>1. PICK P \in SUBSET (1 .. n) : set = Holders(r, P)  BY <1>2, <2>7
    <3>2. SetSpend(vs, set) = B[P] /\ Cardinality(set) = Cardinality(P)  BY <1>2, <3>1
    <3>3. PICK c \in 0 .. n : c = Cardinality(P)  BY <1>4
    <3>4. B[P] <= B[1 .. c] /\ B[P] \in Int  BY <1>3, <1>4, <3>3
    <3>5. c >= k
      <4>1. SUFFICES ASSUME c < k  PROVE FALSE
        BY <1>2
      <4>2. CASE c = 0
        <5>1. 1 .. c = {}  BY <4>2
        <5>2. B[P] <= 0  BY <1>3, <3>4, <5>1
        <5>3. QED  BY <1>7, <2>1, <2>7, <3>2, <3>4, <5>2
      <4>3. CASE c > 0
        <5>1. c \in 1 .. n /\ c \in 1 .. (k - 1)  BY <1>2, <4>1, <4>3
        <5>2. PICK y \in Int : y = B[1 .. c]  BY <1>6, <5>1
        <5>3. ~Covers(y, total)  BY <2>4, <5>1, <5>2
        <5>4. 10 * y < 7 * total  BY <1>7, <2>1, <5>3 DEF Covers
        <5>5. PICK z \in Int : z = B[P]  BY <3>4
        <5>6. z <= y /\ 10 * z >= 7 * total  BY <2>7, <3>2, <3>4, <5>2, <5>5
        <5>7. QED  BY <1>7, <5>4, <5>6
      <4>4. QED  BY <4>2, <4>3
    <3>6. QED  BY <2>5, <3>2, <3>3, <3>5
  <2>8. QED  BY <2>6, <2>7
<1>10. QED  BY <1>8, <1>9

(* Each of the b is one of the c, another for each.                        *)
Renames(b, n, c, o) ==
  \E p \in [1 .. n -> 1 .. o] :
    /\ \A j, k \in 1 .. n : p[j] = p[k] => j = k
    /\ \A k \in 1 .. n : b[k] = c[p[k]]

(* Then, as both fall, none of the b is more than the c in its place.      *)
LEMMA NoMore ==
  ASSUME NEW n \in Nat, NEW b \in [1 .. n -> Int], NEW c \in [1 .. n -> Int],
         Falling(b, n), Falling(c, n), Renames(b, n, c, n)
  PROVE  \A i \in 1 .. n : b[i] <= c[i]
<1> PICK p \in [1 .. n -> 1 .. n] :
       /\ \A j, k \in 1 .. n : p[j] = p[k] => j = k
       /\ \A k \in 1 .. n : b[k] = c[p[k]]
  BY DEF Renames
<1> SUFFICES ASSUME NEW i \in 1 .. n, b[i] > c[i]  PROVE FALSE
  <2>1. \A j \in 1 .. n : b[j] \in Int /\ c[j] \in Int  OBVIOUS
  <2>2. QED  BY <2>1
<1>1. ASSUME NEW k \in 1 .. i  PROVE p[k] \in 1 .. (i - 1)
  <2>1. k \in 1 .. n /\ p[k] \in 1 .. n /\ b[k] = c[p[k]]  OBVIOUS
  <2>2. b[k] >= b[i]
    <3>1. CASE k = i  BY <2>1, <3>1
    <3>2. CASE k < i  BY <2>1, <3>2 DEF Falling
    <3>3. QED  BY <3>1, <3>2
  <2>3. c[p[k]] > c[i]
    <3>1. b[k] \in Int /\ b[i] \in Int /\ c[i] \in Int  BY <2>1
    <3>2. QED  BY <2>1, <2>2, <3>1
  <2>4. ~(i < p[k]) /\ i # p[k]
    <3>1. c[i] \in Int /\ c[p[k]] \in Int  BY <2>1
    <3>2. i # p[k]  BY <2>3, <3>1
    <3>3. ASSUME i < p[k]  PROVE FALSE
      <4>1. c[i] >= c[p[k]]  BY <2>1, <3>3 DEF Falling
      <4>2. QED  BY <2>3, <3>1, <4>1
    <3>4. QED  BY <3>2, <3>3
  <2>5. QED  BY <2>1, <2>4
<1> DEFINE f == [k \in 1 .. i |-> p[k]]
<1>2. f \in [1 .. i -> 1 .. (i - 1)] /\ \A k \in 1 .. i : f[k] = p[k]  BY <1>1
<1> HIDE DEF f
<1>3. /\ i \in Nat /\ i - 1 \in Nat
      /\ IsFiniteSet(1 .. i) /\ Cardinality(1 .. i) = i
      /\ IsFiniteSet(1 .. (i - 1)) /\ Cardinality(1 .. (i - 1)) = i - 1
  BY UpTo
<1>4. \E x, y \in 1 .. i : x # y /\ f[x] = f[y]
  <2>1. SUFFICES ASSUME \A x, y \in 1 .. i : f[x] = f[y] => x = y  PROVE FALSE
    OBVIOUS
  <2>2. f \in Injection(1 .. i, 1 .. (i - 1))  BY <1>2, <2>1 DEF Injection, IsInjective
  <2>3. PICK S, T : S = 1 .. i /\ T = 1 .. (i - 1)  OBVIOUS
  <2>4. f \in Injection(S, T) /\ IsFiniteSet(T)  BY <1>3, <2>2, <2>3
  <2>5. Cardinality(S) <= Cardinality(T)  BY <2>4, FS_Injection
  <2>6. Cardinality(S) = i /\ Cardinality(T) = i - 1  BY <1>3, <2>3
  <2>7. QED  BY <1>3, <2>5, <2>6
<1>5. \A k \in 1 .. i : k \in 1 .. n  OBVIOUS
<1>6. QED  BY <1>2, <1>4, <1>5

(* The same vendors with the same spends, however listed.                  *)
SameSpends(list, other) ==
  /\ Names(list) = Names(other)
  /\ \A v \in Names(list) :
       SumOf(Nets(list))[Named(list, v)] = SumOf(Nets(other))[Named(other, v)]

LEMMA OneWay ==
  ASSUME NEW list, NEW other, NEW us, NEW vs, NEW n, NEW o,
         Grouped(list, us, n), Grouped(other, vs, o), SameSpends(list, other)
  PROVE  LET b == InTurn(us, Ranked(us))
             c == InTurn(vs, Ranked(vs))
         IN  /\ n <= o
             /\ Renames(b, n, c, o)
<1> DEFINE q == Ranked(us)
           r == Ranked(vs)
           b == InTurn(us, q)
           c == InTurn(vs, r)
<1>1. /\ Vendors(us, n) /\ Vendors(vs, o) /\ n \in Nat /\ o \in Nat
      /\ Ranking(us, n, q) /\ Ranking(vs, o, r)
  BY RankedIs DEF Grouped, Vendors
<1> HIDE DEF q, r
<1>2. /\ \A k \in 1 .. n : b[k] = us[q[k]].spend
      /\ \A k \in 1 .. o : c[k] = vs[r[k]].spend
  BY <1>1, InTurnIs
<1>3. ASSUME NEW k \in 1 .. n
      PROVE  \E j \in 1 .. o : vs[r[j]].vendor = us[q[k]].vendor
  <2>1. q[k] \in 1 .. n  BY <1>1 DEF Ranking
  <2>2. us[q[k]].vendor \in Names(other)  BY <2>1 DEF Grouped, SameSpends
  <2>3. PICK h \in 1 .. o : vs[h].vendor = us[q[k]].vendor  BY <2>2 DEF Grouped
  <2>4. PICK j \in 1 .. o : r[j] = h  BY <1>1 DEF Ranking
  <2>5. QED  BY <2>3, <2>4
<1> DEFINE p == [k \in 1 .. n |-> CHOOSE j \in 1 .. o : vs[r[j]].vendor = us[q[k]].vendor]
<1>4. \A k \in 1 .. n : p[k] \in 1 .. o /\ vs[r[p[k]]].vendor = us[q[k]].vendor
  <2>1. ASSUME NEW k \in 1 .. n
        PROVE  p[k] \in 1 .. o /\ vs[r[p[k]]].vendor = us[q[k]].vendor
    <3>1. p[k] = CHOOSE j \in 1 .. o : vs[r[j]].vendor = us[q[k]].vendor  OBVIOUS
    <3> HIDE DEF p
    <3>2. QED  BY <1>3, <3>1, Zenon
  <2>2. QED  BY <2>1
<1>5. p \in [1 .. n -> 1 .. o]
  <2>1. p = [k \in 1 .. n |-> p[k]]  OBVIOUS
  <2> HIDE DEF p
  <2>2. QED  BY <1>4, <2>1
<1> HIDE DEF p, b, c
<1>6. ASSUME NEW j \in 1 .. n, NEW k \in 1 .. n, p[j] = p[k]  PROVE j = k
  <2>1. q[j] \in 1 .. n /\ q[k] \in 1 .. n  BY <1>1 DEF Ranking
  <2>2. us[q[j]].vendor = us[q[k]].vendor  BY <1>4, <1>6
  <2>3. q[j] = q[k]  BY <2>1, <2>2 DEF Grouped
  <2>4. QED  BY <1>1, <2>3 DEF Ranking
<1>7. ASSUME NEW k \in 1 .. n  PROVE b[k] = c[p[k]]
  <2>1. PICK h, g, v : h = q[k] /\ g = r[p[k]] /\ v = us[h].vendor  OBVIOUS
  <2>2. h \in 1 .. n /\ g \in 1 .. o /\ vs[g].vendor = v  BY <1>1, <1>4, <2>1 DEF Ranking
  <2>3. /\ us[h].spend = SumOf(Nets(list))[Named(list, v)] /\ v \in Names(list)
        /\ vs[g].spend = SumOf(Nets(other))[Named(other, v)]
    BY <2>1, <2>2 DEF Grouped
  <2>4. us[h].spend = vs[g].spend  BY <2>3 DEF SameSpends
  <2>5. QED  BY <1>2, <1>4, <2>1, <2>4
<1>8. n <= o
  <2>1. p \in Injection(1 .. n, 1 .. o)  BY <1>5, <1>6 DEF Injection, IsInjective
  <2>2. /\ IsFiniteSet(1 .. o) /\ Cardinality(1 .. o) = o
        /\ IsFiniteSet(1 .. n) /\ Cardinality(1 .. n) = n
    BY <1>1, UpTo
  <2>3. Cardinality(1 .. n) <= Cardinality(1 .. o)
    <3>1. PICK S, T : S = 1 .. n /\ T = 1 .. o  OBVIOUS
    <3>2. p \in Injection(S, T) /\ IsFiniteSet(T)  BY <2>1, <2>2, <3>1
    <3>3. Cardinality(S) <= Cardinality(T)  BY <3>2, FS_Injection
    <3>4. QED  BY <3>1, <3>3
  <2>4. QED  BY <2>2, <2>3
<1>9. Renames(b, n, c, o)  BY <1>5, <1>6, <1>7 DEF Renames
<1>10. QED  BY <1>8, <1>9 DEF b, c, q, r

LEMMA SameTurns ==
  ASSUME NEW list, NEW other, NEW us, NEW vs, NEW n, NEW o,
         Grouped(list, us, n), Grouped(other, vs, o), SameSpends(list, other)
  PROVE  n = o /\ InTurn(us, Ranked(us)) = InTurn(vs, Ranked(vs))
<1> DEFINE b == InTurn(us, Ranked(us))
           c == InTurn(vs, Ranked(vs))
<1>1. SameSpends(other, list)  BY DEF SameSpends
<1>2. /\ n <= o
      /\ Renames(b, n, c, o)
  BY OneWay
<1>3. /\ o <= n
      /\ Renames(c, o, b, n)
  BY <1>1, OneWay
<1>4. Vendors(us, n) /\ Vendors(vs, o) /\ n \in Nat /\ o \in Nat
  BY DEF Grouped, Vendors
<1>5. Ranking(us, n, Ranked(us)) /\ Ranking(vs, o, Ranked(vs))  BY <1>4, RankedIs
<1>6. b \in [1 .. n -> Int] /\ Falling(b, n)  BY <1>4, <1>5, InTurnIs
<1>7. c \in [1 .. o -> Int] /\ Falling(c, o)  BY <1>4, <1>5, InTurnIs
<1> HIDE DEF b, c
<1>8. n = o  BY <1>2, <1>3, <1>4
<1>9. /\ c \in [1 .. n -> Int] /\ Falling(c, n)
      /\ Renames(b, n, c, n) /\ Renames(c, n, b, n)
  BY <1>2, <1>3, <1>7, <1>8
<1>10. (\A i \in 1 .. n : b[i] <= c[i]) /\ (\A i \in 1 .. n : c[i] <= b[i])
  BY <1>4, <1>6, <1>9, NoMore
<1>11. \A i \in 1 .. n : b[i] = c[i]
  <2> TAKE i \in 1 .. n
  <2>1. b[i] \in Int /\ c[i] \in Int  BY <1>6, <1>9
  <2>2. QED  BY <1>10, <2>1
<1>12. b = [i \in 1 .. n |-> b[i]] /\ c = [i \in 1 .. n |-> c[i]]  BY <1>6, <1>9
<1>13. b = c  BY <1>11, <1>12
<1>14. QED  BY <1>8, <1>13 DEF b, c

(* A list reordered is of the same vendors with the same spends.           *)
Reorders(t, list, other, m) ==
  /\ t \in [1 .. m -> 1 .. m]
  /\ \A i, j \in 1 .. m : t[i] = t[j] => i = j
  /\ \A i \in 1 .. m : \E j \in 1 .. m : t[j] = i
  /\ \A i \in 1 .. m : other[i] = list[t[i]]

LEMMA Reordered ==
  ASSUME NEW list, NEW other, NEW m, NEW t, Invoiced(list, m), Invoiced(other, m),
         Reorders(t, list, other, m)
  PROVE  SameSpends(list, other)
<1> DEFINE S == 1 .. m
           a == Nets(list)
           w == Nets(other)
<1>1. /\ IsFiniteSet(S) /\ DOMAIN list = S /\ DOMAIN other = S
      /\ t \in [S -> S] /\ \A i, j \in S : t[i] = t[j] => i = j
      /\ \A i \in S : \E j \in S : t[j] = i
      /\ \A i \in S : other[i] = list[t[i]]
  BY UpTo DEF Invoiced, Reorders
<1>2. a \in [S -> Int] /\ w \in [S -> Int] /\ \A i \in S : w[i] = a[t[i]]
  BY <1>1 DEF Nets, Invoiced
<1> HIDE DEF S
<1>3. Names(list) = Names(other)
  <2>1. ASSUME NEW v \in Names(list)  PROVE v \in Names(other)
    <3>1. PICK i \in S : v = list[i].vendor  BY <1>1 DEF Names
    <3>2. PICK j \in S : t[j] = i  BY <1>1
    <3>3. QED  BY <1>1, <3>1, <3>2 DEF Names
  <2>2. ASSUME NEW v \in Names(other)  PROVE v \in Names(list)
    <3>1. PICK i \in S : v = other[i].vendor  BY <1>1 DEF Names
    <3>2. t[i] \in S  BY <1>1
    <3>3. QED  BY <1>1, <3>1, <3>2 DEF Names
  <2>3. QED  BY <2>1, <2>2
<1>4. ASSUME NEW v
      PROVE  Named(other, v) \in SUBSET S /\ Named(list, v) = {t[i] : i \in Named(other, v)}
  BY <1>1 DEF Named
<1> HIDE DEF a, w
<1>5. \A u \in SUBSET S : SumOf(w)[u] = SumOf(a)[{t[i] : i \in u}]
  <2>1. IsFiniteSet(S) /\ t \in [S -> S] /\ \A i, j \in S : t[i] = t[j] => i = j  BY <1>1
  <2>2. a \in [S -> Int] /\ w \in [S -> Int] /\ \A i \in S : w[i] = a[t[i]]  BY <1>2
  <2>3. QED  BY <2>1, <2>2, SumRenamed
<1>6. \A v : SumOf(a)[Named(list, v)] = SumOf(w)[Named(other, v)]  BY <1>4, <1>5
<1>7. QED  BY <1>3, <1>6 DEF SameSpends, a, w

LEMMA Swapped ==
  ASSUME NEW list, NEW m, Invoiced(list, m), NEW k \in 1 .. (m - 1)
  PROVE  LET other == [list EXCEPT ![k] = list[k + 1], ![k + 1] = list[k]]
         IN  Invoiced(other, m) /\ SameSpends(list, other)
<1> DEFINE other == [list EXCEPT ![k] = list[k + 1], ![k + 1] = list[k]]
           t == [i \in 1 .. m |-> IF i = k THEN k + 1 ELSE IF i = k + 1 THEN k ELSE i]
<1>1. m \in Nat /\ DOMAIN list = 1 .. m /\ k \in 1 .. m /\ k + 1 \in 1 .. m
  BY DEF Invoiced
<1>2. t \in [1 .. m -> 1 .. m] /\ \A i \in 1 .. m :
        t[i] = IF i = k THEN k + 1 ELSE IF i = k + 1 THEN k ELSE i
  BY <1>1
<1>3. DOMAIN other = 1 .. m /\ \A i \in 1 .. m :
        other[i] = IF i = k THEN list[k + 1] ELSE IF i = k + 1 THEN list[k] ELSE list[i]
  BY <1>1
<1> HIDE DEF t, other
<1>4. \A i \in 1 .. m : other[i] = list[t[i]]  BY <1>2, <1>3
<1>5. \A i \in 1 .. m : t[t[i]] = i  BY <1>1, <1>2
<1>6. \A i, j \in 1 .. m : t[i] = t[j] => i = j
  <2>1. ASSUME NEW i \in 1 .. m, NEW j \in 1 .. m, t[i] = t[j]  PROVE i = j
    <3>1. t[t[i]] = i /\ t[t[j]] = j  BY <1>5
    <3>2. QED  BY <2>1, <3>1
  <2>2. QED  BY <2>1
<1>7. \A i \in 1 .. m : \E j \in 1 .. m : t[j] = i  BY <1>2, <1>5
<1>8. Invoiced(other, m)  BY <1>1, <1>2, <1>3, <1>4 DEF Invoiced
<1>9. Reorders(t, list, other, m)  BY <1>2, <1>4, <1>6, <1>7 DEF Reorders
<1>10. SameSpends(list, other)  BY <1>8, <1>9, Reordered
<1>11. QED  BY <1>8, <1>10 DEF other

(* The spends selected of vendors whose spends in turn are b.              *)
Takes(s, b, n) ==
  /\ SumOf(b)[1 .. n] = 0 => s = << >>
  /\ SumOf(b)[1 .. n] # 0 => \E k \in 1 .. n : LeastCover(b, n, k) /\ s = [i \in 1 .. k |-> b[i]]

LEMMA TakesOne ==
  ASSUME NEW b, NEW n \in Nat, NEW s, NEW t, Takes(s, b, n), Takes(t, b, n)
  PROVE  s = t
<1>1. CASE SumOf(b)[1 .. n] = 0  BY <1>1 DEF Takes
<1>2. CASE SumOf(b)[1 .. n] # 0
  <2>1. PICK k \in 1 .. n : LeastCover(b, n, k) /\ s = [i \in 1 .. k |-> b[i]]  BY <1>2 DEF Takes
  <2>2. PICK j \in 1 .. n : LeastCover(b, n, j) /\ t = [i \in 1 .. j |-> b[i]]  BY <1>2 DEF Takes
  <2>3. ~(j \in 1 .. (k - 1)) /\ ~(k \in 1 .. (j - 1))  BY <2>1, <2>2 DEF LeastCover
  <2>4. j = k  BY <2>3
  <2>5. QED  BY <2>1, <2>2, <2>4
<1>3. QED  BY <1>1, <1>2

LEMMA SelectedSpendsIs ==
  ASSUME NEW list, NEW n, Grouped(list, VendorSpends(list), n)
  PROVE  LET vs == VendorSpends(list)
         IN  Takes(SelectedSpends(list), InTurn(vs, Ranked(vs)), n)
<1> DEFINE vs == VendorSpends(list)
           r == Ranked(vs)
           b == InTurn(vs, r)
           s == SelectedSpends(list)
<1>1. Vendors(vs, n) /\ n \in Nat  BY DEF Grouped, Vendors
<1>2. Ranking(vs, n, r)  BY <1>1, RankedIs
<1>3. /\ SumOf(b)[1 .. n] = 0 => TopVendors(vs) = << >>
      /\ SumOf(b)[1 .. n] # 0 => \E k \in 1 .. n : TopVendors(vs) = SubSeq(r, 1, k) /\ LeastCover(b, n, k)
  BY <1>1, TopVendorsIs
<1>4. s = [k \in DOMAIN TopVendors(vs) |-> vs[TopVendors(vs)[k]].spend]  BY DEF SelectedSpends
<1> HIDE DEF vs, s
<1> HIDE DEF r
<1>5. \A k \in 1 .. n : b[k] = vs[r[k]].spend  BY <1>1, <1>2, InTurnIs
<1> HIDE DEF b
<1>6. ASSUME SumOf(b)[1 .. n] = 0  PROVE s = << >>
  BY <1>3, <1>4, <1>6
<1>7. ASSUME SumOf(b)[1 .. n] # 0
      PROVE  \E k \in 1 .. n : LeastCover(b, n, k) /\ s = [i \in 1 .. k |-> b[i]]
  <2>1. PICK k \in 1 .. n : TopVendors(vs) = SubSeq(r, 1, k) /\ LeastCover(b, n, k)  BY <1>3, <1>7
  <2>2. r \in [1 .. n -> 1 .. n]  BY <1>2 DEF Ranking
  <2>3. DOMAIN SubSeq(r, 1, k) = 1 .. k /\ \A i \in 1 .. k : SubSeq(r, 1, k)[i] = r[i]
    BY <1>1, <2>2, PrefixIs
  <2>4. PICK chosen : chosen = TopVendors(vs)  OBVIOUS
  <2>5. DOMAIN chosen = 1 .. k /\ \A i \in 1 .. k : chosen[i] = r[i]  BY <2>1, <2>3, <2>4
  <2>6. \A i \in 1 .. k : b[i] = vs[chosen[i]].spend  BY <1>1, <1>5, <2>5
  <2>7. s = [i \in 1 .. k |-> b[i]]  BY <1>4, <2>4, <2>5, <2>6
  <2>8. QED  BY <2>1, <2>7
<1>8. QED  BY <1>6, <1>7 DEF Takes, s, b, r, vs

LEMMA OrderIndifferent ==
  ASSUME NEW m, Invoiced(invoices, m), Len(invoices) = m
  PROVE  OrderInsensitive
<1>1. ASSUME NEW k \in 1 .. (m - 1), NEW other,
             other = [invoices EXCEPT ![k] = invoices[k + 1], ![k + 1] = invoices[k]]
      PROVE  SelectedSpends(other) = SelectedSpends(invoices)
  <2>1. Invoiced(other, m) /\ SameSpends(invoices, other)  BY <1>1, Swapped
  <2> DEFINE us == VendorSpends(invoices)
             vs == VendorSpends(other)
  <2>2. PICK n : Grouped(invoices, us, n)  BY VendorSpendsIs
  <2>3. PICK o : Grouped(other, vs, o)  BY <2>1, VendorSpendsIs
  <2>4. n = o /\ InTurn(us, Ranked(us)) = InTurn(vs, Ranked(vs))  BY <2>1, <2>2, <2>3, SameTurns
  <2>5. n \in Nat  BY <2>2 DEF Grouped, Vendors
  <2>6. Takes(SelectedSpends(invoices), InTurn(us, Ranked(us)), n)  BY <2>2, SelectedSpendsIs
  <2>7. Takes(SelectedSpends(other), InTurn(vs, Ranked(vs)), o)  BY <2>3, SelectedSpendsIs
  <2>8. PICK b : b = InTurn(us, Ranked(us))  OBVIOUS
  <2>9. Takes(SelectedSpends(invoices), b, n) /\ Takes(SelectedSpends(other), b, n)
    BY <2>4, <2>6, <2>7, <2>8
  <2>10. QED  BY <2>5, <2>9, TakesOne
<1>2. QED  BY <1>1, Zenon DEF OrderInsensitive

(* Invoices name vendors and net amounts of money.                         *)
InvoicesTyped == invoices \in Seq([vendor : Nat, net : Int])

(* engine.py:43-68: for any list of invoices, credit notes among them, the *)
(* run selects the fewest vendors that reach 70% of a positive total,      *)
(* never divides a weight by zero, and selects the same spends whatever    *)
(* order the invoices are read in.                                         *)
THEOREM SelectionAlwaysSound == Spec => []SelectionSound
<1>1. Init => InvoicesTyped  BY DEF Init, InvoicesTyped
<1>2. InvoicesTyped /\ [Next]_vars => InvoicesTyped'
  <2> SUFFICES ASSUME InvoicesTyped, [Next]_vars  PROVE InvoicesTyped'
    OBVIOUS
  <2>1. CASE AddInvoice
    <3>1. PICK net \in Spends, vendor \in 1 .. (Cardinality({invoices[k].vendor : k \in DOMAIN invoices}) + 1) :
            invoices' = Append(invoices, [vendor |-> vendor, net |-> net])
      BY <2>1 DEF AddInvoice
    <3>2. vendor \in Nat
      <4>1. vendor \in Int /\ vendor >= 1  OBVIOUS
      <4>2. QED  BY <4>1
    <3>3. [vendor |-> vendor, net |-> net] \in [vendor : Nat, net : Int]  BY <3>2, ComparedAssumption
    <3>4. QED  BY <3>1, <3>3 DEF InvoicesTyped
  <2>2. CASE Work \/ Chat \/ Study \/ Compare \/ Type \/ UNCHANGED vars
    BY <2>2 DEF InvoicesTyped, Work, Chat, Study, Compare, Type, vars, inputs
  <2>3. QED  BY <2>1, <2>2 DEF Next
<1>3. InvoicesTyped => SelectionSound
  <2> SUFFICES ASSUME InvoicesTyped  PROVE SelectionSound
    OBVIOUS
  <2>1. PICK m : m = Len(invoices)  OBVIOUS
  <2>2. Invoiced(invoices, m)
    <3>1. m \in Nat /\ DOMAIN invoices = 1 .. m  BY <2>1 DEF InvoicesTyped
    <3>2. PICK R : R = [vendor : Nat, net : Int]  OBVIOUS
    <3>3. invoices \in Seq(R)  BY <3>2 DEF InvoicesTyped
    <3>4. \A k \in 1 .. m : invoices[k] \in R  BY <2>1, <3>3
    <3>5. \A k \in 1 .. m : invoices[k].net \in Int  BY <3>2, <3>4
    <3>6. QED  BY <3>1, <3>5 DEF Invoiced
  <2>3. QED  BY <2>1, <2>2, CoverIsSmallest, OrderIndifferent DEF SelectionSound
<1>4. QED  BY <1>1, <1>2, <1>3, PTL DEF Spec

-----------------------------------------------------------------------------
(* The copilot's chunks *)

(* The characters of a text but its blanks.                                *)
InkOf(c) == {c[i] : i \in DOMAIN c} \ {Blank}

LEMMA StripIs ==
  ASSUME NEW C, NEW t \in Seq(C)
  PROVE  Strip(t) \in Seq(C) /\ InkOf(Strip(t)) = InkOf(t)
<1> DEFINE n == Len(t)
           inked == {i \in DOMAIN t : t[i] # Blank}
           a == CHOOSE i \in inked : \A j \in inked : i <= j
           b == CHOOSE i \in inked : \A j \in inked : i >= j
<1>1. n \in Nat /\ DOMAIN t = 1 .. n /\ inked \in SUBSET (1 .. n)  OBVIOUS
<1>2. \A i \in inked : i \in 1 .. n /\ t[i] # Blank  OBVIOUS
<1>3. InkOf(t) = {t[i] : i \in inked}  BY DEF InkOf
<1>4. Strip(t) = IF inked = {} THEN << >> ELSE SubSeq(t, a, b)  BY DEF Strip
<1>5. CASE inked = {}
  <2>1. Strip(t) = << >>  BY <1>4, <1>5
  <2>2. InkOf(<< >>) = {}  BY DEF InkOf
  <2>3. InkOf(t) = {}  BY <1>3, <1>5
  <2>4. << >> \in Seq(C)  OBVIOUS
  <2>5. QED  BY <2>1, <2>2, <2>3, <2>4
<1>6. CASE inked # {}
  <2> HIDE DEF inked
  <2>1. a \in inked /\ \A j \in inked : a <= j
    <3>1. \E i \in inked : \A j \in inked : i <= j  BY <1>1, <1>6, LeastExists
    <3>2. QED  BY <3>1, Zenon
  <2>2. b \in inked /\ \A j \in inked : b >= j
    <3>1. \E i \in inked : \A j \in inked : j <= i  BY <1>1, <1>6, GreatestExists
    <3>2. PICK i \in inked : \A j \in inked : j <= i  BY <3>1
    <3>3. \A j \in inked : i >= j  BY <1>2, <3>2
    <3>4. \E k \in inked : \A j \in inked : k >= j  BY <3>3
    <3>5. QED  BY <3>4, Zenon
  <2> HIDE DEF a, b
  <2>3. a \in 1 .. n /\ b \in 1 .. n /\ a <= b  BY <1>2, <2>1, <2>2
  <2> DEFINE s == SubSeq(t, a, b)
  <2>4. /\ s \in Seq(C) /\ DOMAIN s = 1 .. (b - a + 1)
        /\ \A i \in 1 .. (b - a + 1) : s[i] = t[a + i - 1]
    BY <2>3
  <2>5. Strip(t) = s  BY <1>4, <1>6
  <2> HIDE DEF s
  <2>6. \A i \in 1 .. (b - a + 1) : a + i - 1 \in 1 .. n  BY <2>3
  <2>7. ASSUME NEW v \in InkOf(s)  PROVE v \in InkOf(t)
    <3>1. PICK i \in 1 .. (b - a + 1) : v = s[i] /\ v # Blank  BY <2>4, <2>7 DEF InkOf
    <3>2. v = t[a + i - 1] /\ a + i - 1 \in DOMAIN t  BY <1>1, <2>4, <2>6, <3>1
    <3>3. QED  BY <3>1, <3>2 DEF InkOf
  <2>8. ASSUME NEW v \in InkOf(t)  PROVE v \in InkOf(s)
    <3>1. PICK i \in inked : v = t[i]  BY <1>3, <2>8
    <3>2. i \in 1 .. n /\ v # Blank /\ a <= i /\ i <= b  BY <1>2, <2>1, <2>2, <3>1
    <3>3. PICK h : h = i - a + 1  OBVIOUS
    <3>4. h \in 1 .. (b - a + 1) /\ a + h - 1 = i  BY <2>3, <3>2, <3>3
    <3>5. s[h] = v /\ h \in DOMAIN s  BY <2>4, <3>1, <3>4
    <3>6. QED  BY <3>2, <3>5 DEF InkOf
  <2>9. QED  BY <2>4, <2>5, <2>7, <2>8
<1>7. QED  BY <1>5, <1>6

LEMMA WindowIs ==
  ASSUME NEW C, NEW t \in Seq(C), NEW size \in Nat \ {0}, NEW from \in 0 .. (Len(t) - 1)
  PROVE  /\ Window(t, from, size) \in Seq(C) /\ Len(Window(t, from, size)) <= size
         /\ InkOf(Window(t, from, size)) \subseteq InkOf(t)
         /\ \A i \in (from + 1) .. (from + size) :
              i <= Len(t) /\ t[i] # Blank => t[i] \in InkOf(Window(t, from, size))
<1> DEFINE w == Window(t, from, size)
<1>a. PICK n : n = Len(t)  OBVIOUS
<1>1. n \in Nat /\ DOMAIN t = 1 .. n /\ from \in Nat /\ from < n /\ size \in Nat /\ size > 0
  BY <1>a
<1>b. PICK b : b = Lesser(from + size, n)  OBVIOUS
<1>2. b \in (from + 1) .. n /\ b <= from + size /\ (b = n \/ b = from + size)
  BY <1>1, <1>b DEF Lesser
<1>3. w = SubSeq(t, from + 1, b)  BY <1>a, <1>b DEF Window
<1> HIDE DEF w
<1>4. /\ w \in Seq(C) /\ Len(w) = b - from /\ DOMAIN w = 1 .. (b - from)
      /\ \A i \in 1 .. (b - from) : w[i] = t[from + i]
  BY <1>1, <1>2, <1>3
<1>5. Len(w) <= size
  <2>1. b \in Int /\ b <= from + size  BY <1>1, <1>2
  <2>2. QED  BY <1>1, <1>4, <2>1
<1>6. ASSUME NEW v \in InkOf(w)  PROVE v \in InkOf(t)
  <2>1. PICK i \in 1 .. (b - from) : v = w[i] /\ v # Blank  BY <1>4, <1>6 DEF InkOf
  <2>2. v = t[from + i] /\ from + i \in DOMAIN t  BY <1>1, <1>2, <1>4, <2>1
  <2>3. QED  BY <2>1, <2>2 DEF InkOf
<1>7. ASSUME NEW i \in (from + 1) .. (from + size), i <= n, t[i] # Blank
      PROVE  t[i] \in InkOf(w)
  <2>1. PICK h : h = i - from  OBVIOUS
  <2>2. h \in 1 .. (b - from) /\ from + h = i  BY <1>1, <1>2, <1>7, <2>1
  <2>3. w[h] = t[i] /\ h \in DOMAIN w  BY <1>4, <2>2
  <2>4. QED  BY <1>7, <2>3 DEF InkOf
<1>8. QED  BY <1>a, <1>4, <1>5, <1>6, <1>7 DEF w

(* Steps of a length reach from 0 to n.                                    *)
LEMMA StepsReach ==
  ASSUME NEW n \in Nat, NEW step \in Nat \ {0}
  PROVE  LET m == (n + step - 1) \div step
         IN  /\ m \in Nat
             /\ \A k \in 1 .. m : (k - 1) * step \in 0 .. (n - 1)
             /\ \A i \in 1 .. n : \E k \in 1 .. m : i \in ((k - 1) * step + 1) .. ((k - 1) * step + step)
<1> DEFINE m == (n + step - 1) \div step
<1>1. m \in Int /\ m * step <= n + step - 1 /\ n + step - 1 < m * step + step
  BY SMT
<1> HIDE DEF m
<1>2. m \in Nat
  <2>1. SUFFICES ASSUME m <= -1  PROVE FALSE
    BY <1>1
  <2>2. m * step <= -1 * step  BY <1>1, <2>1, SMT
  <2>3. QED  BY <1>1, <2>2, SMT
<1>3. ASSUME NEW k \in 1 .. m  PROVE (k - 1) * step \in 0 .. (n - 1)
  <2>1. (k - 1) * step \in Nat  BY <1>2, SMT
  <2>2. k * step <= m * step  BY <1>2, SMT
  <2>3. (k - 1) * step = k * step - step /\ k * step \in Int /\ m * step \in Int  BY <1>2, SMT
  <2>4. QED  BY <1>1, <2>1, <2>2, <2>3
<1>4. ASSUME NEW i \in 1 .. n
      PROVE  \E k \in 1 .. m : i \in ((k - 1) * step + 1) .. ((k - 1) * step + step)
  <2>1. PICK q : q = (i - 1) \div step  OBVIOUS
  <2>2. q \in Int /\ q * step <= i - 1 /\ i - 1 < q * step + step  BY <2>1, SMT
  <2>3. q >= 0
    <3>1. SUFFICES ASSUME q <= -1  PROVE FALSE
      BY <2>2
    <3>2. q * step <= -1 * step  BY <2>2, <3>1, SMT
    <3>3. QED  BY <2>2, <3>2, SMT
  <2>4. q < m
    <3>1. SUFFICES ASSUME m <= q  PROVE FALSE
      BY <1>2, <2>2
    <3>2. m * step <= q * step  BY <1>2, <2>2, <3>1, SMT
    <3>3. m * step \in Int /\ q * step \in Int  BY <1>2, <2>2, SMT
    <3>4. QED  BY <1>1, <2>2, <3>2, <3>3
  <2>5. q * step \in Int  BY <2>2, SMT
  <2>6. PICK k : k = q + 1  OBVIOUS
  <2>7. k \in 1 .. m /\ k - 1 = q  BY <1>2, <2>2, <2>3, <2>4, <2>6
  <2>8. i \in ((k - 1) * step + 1) .. ((k - 1) * step + step)  BY <2>2, <2>5, <2>7
  <2>9. QED  BY <2>7, <2>8
<1>5. QED  BY <1>2, <1>3, <1>4 DEF m

(* copilot/services.py:40-48: of every text, for every size and overlap,   *)
(* the chunks have all characters but blanks; none is blank or too long.   *)
LEMMA ChunkTextIs ==
  ASSUME NEW C, NEW whole \in Seq(C), NEW size \in Nat \ {0}, NEW overlap \in Nat
  PROVE  LET chunks == ChunkText(whole, size, overlap)
         IN  /\ UNION {InkOf(chunks[k]) : k \in DOMAIN chunks} = InkOf(whole)
             /\ \A k \in DOMAIN chunks : InkOf(chunks[k]) # {} /\ Len(chunks[k]) <= size
<1> DEFINE step == Step(size, overlap)
           t == Strip(whole)
           m == (Len(t) + step - 1) \div step
           windows == [k \in 1 .. m |-> Window(t, (k - 1) * step, size)]
           kept == {k \in DOMAIN windows : \E i \in DOMAIN windows[k] : windows[k][i] # Blank}
           places == InOrder(kept)
           chunks == ChunkText(whole, size, overlap)
<1>1. chunks = [h \in DOMAIN places |-> windows[places[h]]]  BY Zenon DEF ChunkText
<1>2. step \in Nat \ {0} /\ step <= size  BY DEF Step, Greater
<1>3. t \in Seq(C) /\ InkOf(t) = InkOf(whole)  BY StripIs
<1> HIDE DEF step, t, chunks
<1>4. Len(t) \in Nat /\ DOMAIN t = 1 .. Len(t)  BY <1>3
<1>5. /\ m \in Nat
      /\ \A k \in 1 .. m : (k - 1) * step \in 0 .. (Len(t) - 1)
      /\ \A i \in 1 .. Len(t) : \E k \in 1 .. m : i \in ((k - 1) * step + 1) .. ((k - 1) * step + step)
  BY <1>2, <1>4, StepsReach
<1> HIDE DEF m
<1>6. ASSUME NEW k \in 1 .. m
      PROVE  /\ DOMAIN windows[k] = 1 .. Len(windows[k]) /\ Len(windows[k]) <= size
             /\ InkOf(windows[k]) \subseteq InkOf(t)
             /\ \A i \in ((k - 1) * step + 1) .. ((k - 1) * step + step) :
                  i <= Len(t) /\ t[i] # Blank => t[i] \in InkOf(windows[k])
  <2>1. PICK from : from = (k - 1) * step  OBVIOUS
  <2>2. from \in 0 .. (Len(t) - 1)  BY <1>5, <2>1
  <2>3. windows[k] = Window(t, from, size)  BY <2>1
  <2>4. /\ Window(t, from, size) \in Seq(C) /\ Len(Window(t, from, size)) <= size
        /\ InkOf(Window(t, from, size)) \subseteq InkOf(t)
        /\ \A i \in (from + 1) .. (from + size) :
             i <= Len(t) /\ t[i] # Blank => t[i] \in InkOf(Window(t, from, size))
    BY <1>3, <2>2, WindowIs
  <2> HIDE DEF windows
  <2>5. \A i \in (from + 1) .. (from + step) : i \in (from + 1) .. (from + size)
    BY <1>2, <1>4, <2>2
  <2>6. \A i \in (from + 1) .. (from + step) : i <= Len(t) /\ t[i] # Blank => t[i] \in InkOf(windows[k])
    BY <2>3, <2>4, <2>5
  <2>7. QED  BY <2>1, <2>3, <2>4, <2>6
<1>7. DOMAIN windows = 1 .. m  OBVIOUS
<1> HIDE DEF windows
<1>8. \A k \in 1 .. m : k \in kept <=> InkOf(windows[k]) # {}
  BY <1>7 DEF InkOf
<1>9. kept \in SUBSET (1 .. m)  BY <1>7
<1> HIDE DEF kept
<1>10. IsFiniteSet(kept) /\ kept \subseteq Int
  <2>1. PICK S : S = 1 .. m  OBVIOUS
  <2>2. IsFiniteSet(S) /\ kept \in SUBSET S  BY <1>5, <1>9, <2>1, UpTo
  <2>3. IsFiniteSet(kept)  BY <2>2, FS_Subset
  <2>4. QED  BY <1>9, <2>3
<1>11. PICK n : Listed(places, n, kept)  BY <1>10, InOrderIs
<1> HIDE DEF places
<1>12. /\ DOMAIN chunks = 1 .. n
       /\ \A h \in 1 .. n : places[h] \in kept /\ chunks[h] = windows[places[h]]
       /\ \A k \in kept : \E h \in 1 .. n : chunks[h] = windows[k]
  BY <1>1, <1>11 DEF Listed
<1>13. \A h \in 1 .. n : InkOf(chunks[h]) # {} /\ Len(chunks[h]) <= size /\ InkOf(chunks[h]) \subseteq InkOf(t)
  <2> TAKE h \in 1 .. n
  <2>1. PICK k \in kept : chunks[h] = windows[k]  BY <1>12
  <2>2. k \in 1 .. m  BY <1>9
  <2>3. QED  BY <1>6, <1>8, <2>1, <2>2
<1>14. ASSUME NEW v \in InkOf(t)  PROVE \E h \in 1 .. n : v \in InkOf(chunks[h])
  <2>1. PICK i \in 1 .. Len(t) : v = t[i] /\ v # Blank  BY <1>4, <1>14 DEF InkOf
  <2>2. PICK k \in 1 .. m : i \in ((k - 1) * step + 1) .. ((k - 1) * step + step)  BY <1>5
  <2>3. v \in InkOf(windows[k])
    <3>1. i <= Len(t) /\ t[i] # Blank  BY <1>4, <2>1
    <3>2. QED  BY <1>6, <2>1, <2>2, <3>1
  <2>4. k \in kept  BY <1>8, <2>3
  <2>5. QED  BY <1>12, <2>3, <2>4
<1>15. UNION {InkOf(chunks[k]) : k \in DOMAIN chunks} = InkOf(t)
  <2>1. \A v : v \in UNION {InkOf(chunks[k]) : k \in DOMAIN chunks} <=> \E h \in 1 .. n : v \in InkOf(chunks[h])
    BY <1>12
  <2>2. \A v : (\E h \in 1 .. n : v \in InkOf(chunks[h])) <=> v \in InkOf(t)  BY <1>13, <1>14
  <2>3. QED  BY <2>1, <2>2
<1>16. QED  BY <1>3, <1>12, <1>13, <1>15 DEF chunks

(* A text is characters told apart by their place, and blanks.             *)
TextTyped == text \in Seq(Int \cup {Blank})

(* ChunksCover holds of every text, in every reachable state.              *)
THEOREM ChunksAlwaysCover == Spec => []ChunksCover
<1>1. Init => TextTyped  BY DEF Init, TextTyped
<1>2. TextTyped /\ [Next]_vars => TextTyped'
  <2> SUFFICES ASSUME TextTyped, [Next]_vars  PROVE TextTyped'
    OBVIOUS
  <2>1. CASE Type
    <3>1. PICK c \in {Blank, Len(text) + 1} : text' = Append(text, c)  BY <2>1 DEF Type
    <3>2. Len(text) \in Nat  BY DEF TextTyped
    <3>3. c \in Int \cup {Blank}  BY <3>2
    <3>4. QED  BY <3>1, <3>3 DEF TextTyped
  <2>2. CASE Work \/ Chat \/ Study \/ AddInvoice \/ Compare \/ UNCHANGED vars
    BY <2>2 DEF TextTyped, Work, Chat, Study, AddInvoice, Compare, vars, inputs
  <2>3. QED  BY <2>1, <2>2 DEF Next
<1>3. TextTyped => ChunksCover
  <2> SUFFICES ASSUME TextTyped, NEW size \in 1 .. 3, NEW overlap \in 0 .. 3
               PROVE  LET chunks == ChunkText(text, size, overlap)
                      IN  /\ UNION {InkOf(chunks[k]) : k \in DOMAIN chunks} = InkOf(text)
                          /\ \A k \in DOMAIN chunks : InkOf(chunks[k]) # {} /\ Len(chunks[k]) <= size
    BY Zenon DEF ChunksCover, InkOf
  <2>1. PICK C : C = Int \cup {Blank}  OBVIOUS
  <2>2. text \in Seq(C)  BY <2>1 DEF TextTyped
  <2>3. size \in Nat \ {0} /\ overlap \in Nat  OBVIOUS
  <2>4. QED  BY <2>2, <2>3, ChunkTextIs
<1>4. QED  BY <1>1, <1>2, <1>3, PTL DEF Spec

-----------------------------------------------------------------------------
(* The 5% Strict Block *)

ComparedAreIntegers == compared \in Int \X Int

(* StrictBlock holds of every pair of figures, in every reachable state.   *)
THEOREM StrictBlockAlways == Spec => []StrictBlock
<1>1. Init => ComparedAreIntegers
  BY DEF Init, ComparedAreIntegers
<1>2. ComparedAreIntegers /\ [Next]_vars => ComparedAreIntegers'
  BY ComparedAssumption
  DEF ComparedAreIntegers, Next, Work, Chat, Study, AddInvoice, Compare, Type, vars, inputs
<1>3. ComparedAreIntegers => StrictBlock
  BY ToleranceIsBand DEF ComparedAreIntegers, StrictBlock
<1>4. QED  BY <1>1, <1>2, <1>3, PTL DEF Spec

-----------------------------------------------------------------------------
(* Figures: types *)

LEMMA RequestShape ==
  ASSUME NEW r \in Request
  PROVE  /\ r.op = "hr" => r.id \in Closes /\ r.totals \in Totals
         /\ r.op = "proc" => r.id \in Closes /\ r.totals \in Totals /\ r.hr \in Variances
         /\ r.op = "variances" => r.id \in Closes /\ r.hr \in Variances /\ r.proc \in Variances
         /\ r.op = "apply" => r.id \in Assets /\ r.ksa \in BOOLEAN
         /\ r.op = "patchClose" => r.id \in Closes /\ r.row \in SoftClose
         /\ r.op = "patchAsset" => r.id \in Assets /\ r.row \in Asset
  BY DEF Request, Idle

LEMMA FiguresGo ==
  ASSUME FiguresTypeOK, NEW p \in Requests, NEW next \in Request, Go(p, next)
  PROVE  /\ requests' \in [Requests -> Request]
         /\ requests'[p] = next
         /\ \A q \in Requests \ {p} : requests'[q] = requests[q]
  BY DEF FiguresTypeOK, Go

LEMMA TotalsShape ==
  ASSUME NEW t \in Totals
  PROVE  t.hr \in Amounts /\ t.proc \in Amounts
  BY DEF Totals

LEMMA VarianceTyped ==
  ASSUME NEW a \in Amounts, NEW b \in Amounts
  PROVE  Variance(a, b) \in Variances
  BY DEF Variances

(* A request only works on rows that were inserted.                        *)
Inserted ==
  \A p \in Requests :
    LET r == requests[p]
    IN /\ r.op \in {"hr", "proc", "variances", "patchClose"} => closes[r.id] # Absent
       /\ r.op \in {"apply", "patchAsset"} => assets[r.id] # Absent

FiguresTyped == FiguresTypeOK /\ Inserted

(* A row once inserted is never as if it had not been.                     *)
RowsStay ==
  /\ \A s \in Closes : closes[s] # Absent => closes'[s] # Absent
  /\ \A a \in Assets : assets[a] # Absent => assets'[a] # Absent

(* A row that is there is one of its table.                                *)
LEMMA ThereTyped ==
  ASSUME FiguresTypeOK
  PROVE  /\ \A s \in Closes : There(closes[s]) => closes[s] \in SoftClose
         /\ \A a \in Assets : There(assets[a]) => assets[a] \in Asset
  BY DEF FiguresTypeOK, There

(* Each step keeps the types.                                              *)
LEMMA FiguresTypeStep == FiguresTyped /\ [FiguresNext]_figureVars => FiguresTypeOK' /\ RowsStay
<1> SUFFICES ASSUME FiguresTypeOK, Inserted, [FiguresNext]_figureVars
             PROVE  FiguresTypeOK' /\ RowsStay
  BY DEF FiguresTyped
<1> USE MarkersAssumption DEF RowsStay
<1>1. CASE UNCHANGED figureVars
  BY <1>1 DEF FiguresTypeOK, figureVars
<1>2. CASE Upload
  <2>1. since' \in [Closes -> SUBSET Totals]
    BY <1>2 DEF Upload, FiguresTypeOK
  <2>2. QED  BY <1>2, <2>1 DEF Upload, FiguresTypeOK
<1>3. ASSUME NEW p \in Requests, NEW s \in Closes, CreateClose(p, s)
      PROVE  FiguresTypeOK' /\ RowsStay
  <2>1. PICK totals \in Totals :
          /\ closes' = [closes EXCEPT ![s] = [totals |-> totals, hr |-> Null, proc |-> Null]]
          /\ typed' = [typed EXCEPT ![s] = totals]
          /\ Go(p, [op |-> "hr", id |-> s, totals |-> totals])
    BY <1>3 DEF CreateClose
  <2>2. [totals |-> totals, hr |-> Null, proc |-> Null] \in SoftClose
    BY DEF SoftClose
  <2>3. [op |-> "hr", id |-> s, totals |-> totals] \in Request
    BY DEF Request
  <2>4. requests' \in [Requests -> Request]
    BY <2>1, <2>3, FiguresGo
  <2>5. closes' \in [Closes -> SoftClose \cup {Absent, Gone}] /\ typed' \in [Closes -> Totals \cup {Absent}]
    BY <2>1, <2>2 DEF FiguresTypeOK
  <2>6. since' \in [Closes -> SUBSET Totals]
    BY <1>3 DEF CreateClose, FiguresTypeOK
  <2>7. QED  BY <1>3, <2>4, <2>5, <2>6 DEF CreateClose, FiguresTypeOK
<1>4. ASSUME NEW p \in Requests, ReadHr(p)  PROVE FiguresTypeOK' /\ RowsStay
  <2> DEFINE r == requests[p]
             next == [op |-> "proc", id |-> r.id, totals |-> r.totals,
                      hr |-> Variance(r.totals.hr, actual.hr)]
  <2>1. r \in Request /\ r.op = "hr"  BY <1>4 DEF ReadHr, At, FiguresTypeOK
  <2>2. r.id \in Closes /\ r.totals \in Totals  BY <2>1, RequestShape
  <2>3. Variance(r.totals.hr, actual.hr) \in Variances
    BY <2>2, TotalsShape, VarianceTyped DEF FiguresTypeOK
  <2>4. next \in Request
    <3> HIDE DEF r
    <3> QED  BY <2>2, <2>3 DEF Request
  <2>5. requests' \in [Requests -> Request]
    <3>1. Go(p, next)  BY <1>4 DEF ReadHr
    <3> HIDE DEF next
    <3> QED  BY <3>1, <2>4, FiguresGo
  <2>6. QED  BY <1>4, <2>5 DEF ReadHr, FiguresTypeOK
<1>5. ASSUME NEW p \in Requests, ReadProc(p)  PROVE FiguresTypeOK' /\ RowsStay
  <2> DEFINE r == requests[p]
             next == [op |-> "variances", id |-> r.id, hr |-> r.hr,
                      proc |-> Variance(r.totals.proc, actual.proc)]
  <2>1. r \in Request /\ r.op = "proc"  BY <1>5 DEF ReadProc, At, FiguresTypeOK
  <2>2. r.id \in Closes /\ r.totals \in Totals /\ r.hr \in Variances  BY <2>1, RequestShape
  <2>3. Variance(r.totals.proc, actual.proc) \in Variances
    BY <2>2, TotalsShape, VarianceTyped DEF FiguresTypeOK
  <2>4. next \in Request
    <3> HIDE DEF r
    <3> QED  BY <2>2, <2>3 DEF Request
  <2>5. requests' \in [Requests -> Request]
    <3>1. Go(p, next)  BY <1>5 DEF ReadProc
    <3> HIDE DEF next
    <3> QED  BY <3>1, <2>4, FiguresGo
  <2>6. QED  BY <1>5, <2>5 DEF ReadProc, FiguresTypeOK
<1>6. ASSUME NEW p \in Requests, SaveVariances(p)  PROVE FiguresTypeOK' /\ RowsStay
  <2> DEFINE r == requests[p]
  <2>1. r \in Request /\ r.op = "variances"  BY <1>6 DEF SaveVariances, At, FiguresTypeOK
  <2>2. r.id \in Closes /\ r.hr \in Variances /\ r.proc \in Variances  BY <2>1, RequestShape
  <2>3. requests' \in [Requests -> Request]
    BY <1>6, FiguresGo DEF SaveVariances, Request
  <2>4. /\ closes' \in [Closes -> SoftClose \cup {Absent, Gone}]
        /\ \A s \in Closes : closes[s] # Absent => closes'[s] # Absent
    <3>1. CASE closes[r.id] = Gone
      BY <1>6, <3>1 DEF SaveVariances, FiguresTypeOK
    <3>2. CASE closes[r.id] # Gone
      <4>1. closes[r.id] \in SoftClose
        BY <2>1, <2>2, <3>2 DEF FiguresTypeOK, Inserted
      <4>2. closes[r.id].totals \in Totals  BY <4>1 DEF SoftClose
      <4>3. [totals |-> closes[r.id].totals, hr |-> r.hr, proc |-> r.proc] \in SoftClose
        <5> HIDE DEF r
        <5> QED  BY <2>2, <4>2 DEF SoftClose
      <4>4. QED  BY <1>6, <2>2, <3>2, <4>3 DEF SaveVariances, FiguresTypeOK
    <3>3. QED  BY <3>1, <3>2
  <2>5. QED  BY <1>6, <2>3, <2>4 DEF SaveVariances, FiguresTypeOK
<1>7. ASSUME NEW p \in Requests, NEW s \in Closes, BeginPatchClose(p, s)
      PROVE  FiguresTypeOK' /\ RowsStay
  <2>1. closes[s] \in SoftClose  BY <1>7, ThereTyped DEF BeginPatchClose
  <2>2. [op |-> "patchClose", id |-> s, row |-> closes[s]] \in Request
    BY <2>1 DEF Request
  <2>3. QED  BY <1>7, <2>2, FiguresGo DEF BeginPatchClose, FiguresTypeOK
<1>8. ASSUME NEW p \in Requests, SavePatchClose(p)  PROVE FiguresTypeOK' /\ RowsStay
  <2> DEFINE r == requests[p]
  <2>1. r \in Request /\ r.op = "patchClose"  BY <1>8 DEF SavePatchClose, At, FiguresTypeOK
  <2>2. r.id \in Closes /\ r.row \in SoftClose  BY <2>1, RequestShape
  <2>3. requests' \in [Requests -> Request]
    BY <1>8, FiguresGo DEF SavePatchClose, Request
  <2>4. PICK totals \in Totals :
          closes' = [closes EXCEPT ![r.id] = [totals |-> totals, hr |-> r.row.hr, proc |-> r.row.proc]]
    BY <1>8 DEF SavePatchClose
  <2>5. [totals |-> totals, hr |-> r.row.hr, proc |-> r.row.proc] \in SoftClose
    <3> HIDE DEF r
    <3> QED  BY <2>2 DEF SoftClose
  <2>6. QED  BY <1>8, <2>2, <2>3, <2>4, <2>5 DEF SavePatchClose, FiguresTypeOK
<1>9. ASSUME NEW s \in Closes, DeleteClose(s)  PROVE FiguresTypeOK' /\ RowsStay
  BY <1>9 DEF DeleteClose, FiguresTypeOK
<1>10. ASSUME NEW p \in Requests, NEW a \in Assets, CreateAsset(p, a)
       PROVE  FiguresTypeOK' /\ RowsStay
  <2>1. PICK ksa \in BOOLEAN, amount \in Amounts :
          /\ assets' = [assets EXCEPT ![a] = [ksa |-> ksa, included |-> TRUE, depreciation |-> amount]]
          /\ Go(p, [op |-> "apply", id |-> a, ksa |-> ksa])
    BY <1>10 DEF CreateAsset
  <2>2. [ksa |-> ksa, included |-> TRUE, depreciation |-> amount] \in Asset
    BY DEF Asset
  <2>3. [op |-> "apply", id |-> a, ksa |-> ksa] \in Request  BY DEF Request
  <2>4. requests' \in [Requests -> Request]  BY <2>1, <2>3, FiguresGo
  <2>5. assets' \in [Assets -> Asset \cup {Absent, Gone}]
    BY <2>1, <2>2 DEF FiguresTypeOK
  <2>6. QED  BY <1>10, <2>4, <2>5 DEF CreateAsset, FiguresTypeOK
<1>11. ASSUME NEW p \in Requests, Apply(p)  PROVE FiguresTypeOK' /\ RowsStay
  <2> DEFINE r == requests[p]
  <2>1. r \in Request /\ r.op = "apply"  BY <1>11 DEF Apply, At, FiguresTypeOK
  <2>2. r.id \in Assets /\ r.ksa \in BOOLEAN  BY <2>1, RequestShape
  <2>3. requests' \in [Requests -> Request]
    BY <1>11, FiguresGo DEF Apply, Request
  <2>4. /\ assets' \in [Assets -> Asset \cup {Absent, Gone}]
        /\ \A a \in Assets : assets[a] # Absent => assets'[a] # Absent
    <3>1. CASE assets[r.id] = Gone
      BY <1>11, <3>1 DEF Apply, FiguresTypeOK
    <3>2. CASE assets[r.id] # Gone
      <4>1. assets[r.id] \in Asset
        BY <2>1, <2>2, <3>2 DEF FiguresTypeOK, Inserted
      <4>2. [assets[r.id] EXCEPT !.included = r.ksa] \in Asset
        <5> HIDE DEF r
        <5> QED  BY <2>2, <4>1 DEF Asset
      <4>3. assets' = [assets EXCEPT ![r.id] = [assets[r.id] EXCEPT !.included = r.ksa]]
        BY <1>11, <3>2 DEF Apply
      <4>4. QED
        <5> DEFINE row == [assets[r.id] EXCEPT !.included = r.ksa]
        <5> HIDE DEF row
        <5> QED  BY <2>2, <4>2, <4>3 DEF FiguresTypeOK, row
    <3>3. QED  BY <3>1, <3>2
  <2>5. unsettled' \subseteq Assets  BY <1>11 DEF Apply, FiguresTypeOK
  <2>6. QED  BY <1>11, <2>3, <2>4, <2>5 DEF Apply, FiguresTypeOK
<1>12. ASSUME NEW p \in Requests, NEW a \in Assets, BeginPatchAsset(p, a)
       PROVE  FiguresTypeOK' /\ RowsStay
  <2>1. assets[a] \in Asset  BY <1>12, ThereTyped DEF BeginPatchAsset
  <2>2. [op |-> "patchAsset", id |-> a, row |-> assets[a]] \in Request
    BY <2>1 DEF Request
  <2>3. QED  BY <1>12, <2>2, FiguresGo DEF BeginPatchAsset, FiguresTypeOK
<1>13. ASSUME NEW p \in Requests, SavePatchAsset(p)  PROVE FiguresTypeOK' /\ RowsStay
  <2> DEFINE r == requests[p]
  <2>1. r \in Request /\ r.op = "patchAsset"  BY <1>13 DEF SavePatchAsset, At, FiguresTypeOK
  <2>2. r.id \in Assets /\ r.row \in Asset  BY <2>1, RequestShape
  <2>3. requests' \in [Requests -> Request]
    BY <1>13, FiguresGo DEF SavePatchAsset, Request
  <2>4. PICK ksa \in BOOLEAN, amount \in Amounts :
          assets' = [assets EXCEPT ![r.id] =
                       [ksa |-> ksa, included |-> r.row.included, depreciation |-> amount]]
    BY <1>13 DEF SavePatchAsset
  <2>5. [ksa |-> ksa, included |-> r.row.included, depreciation |-> amount] \in Asset
    <3> HIDE DEF r
    <3> QED  BY <2>2 DEF Asset
  <2>6. QED  BY <1>13, <2>2, <2>3, <2>4, <2>5 DEF SavePatchAsset, FiguresTypeOK
<1>14. ASSUME NEW a \in Assets, DeleteAsset(a)  PROVE FiguresTypeOK' /\ RowsStay
  BY <1>14 DEF DeleteAsset, FiguresTypeOK
<1>15. ASSUME NEW p \in Requests, Die(p)  PROVE FiguresTypeOK' /\ RowsStay
  BY <1>15, FiguresGo DEF Die, FiguresTypeOK, Request
<1>16. QED
  BY <1>1, <1>2, <1>3, <1>4, <1>5, <1>6, <1>7, <1>8, <1>9, <1>10, <1>11, <1>12, <1>13, <1>14, <1>15
  DEF FiguresNext, Handle

LEMMA InsertedStep == FiguresTyped /\ [FiguresNext]_figureVars => Inserted'
<1> SUFFICES ASSUME FiguresTypeOK, Inserted, FiguresTyped, [FiguresNext]_figureVars
             PROVE  Inserted'
  BY DEF FiguresTyped
<1> DEFINE Good(r) ==
             /\ r.op \in {"hr", "proc", "variances", "patchClose"} => closes'[r.id] # Absent
             /\ r.op \in {"apply", "patchAsset"} => assets'[r.id] # Absent
<1>0. FiguresTypeOK' /\ RowsStay  BY FiguresTypeStep
<1>1. \A q \in Requests : Good(requests[q])
  <2> TAKE q \in Requests
  <2>1. requests[q] \in Request  BY DEF FiguresTypeOK
  <2>2. QED  BY <1>0, <2>1, RequestShape DEF Inserted, RowsStay
<1>2. Good(Idle)  BY DEF Idle
<1>3. ASSUME UNCHANGED requests  PROVE Inserted'
  BY <1>1, <1>3 DEF Inserted
<1>4. ASSUME NEW p \in Requests, NEW next, Go(p, next), Good(next)
      PROVE  Inserted'
  <2>1. \A q \in Requests : requests'[q] = IF q = p THEN next ELSE requests[q]
    BY <1>4 DEF Go, FiguresTypeOK
  <2>2. \A q \in Requests : Good(requests'[q])
    <3> HIDE DEF Good
    <3> QED  BY <1>1, <1>4, <2>1
  <2>3. QED  BY <2>2 DEF Inserted
<1>5. ASSUME NEW p \in Requests, Go(p, Idle)  PROVE Inserted'
  <2> HIDE DEF Good
  <2> QED  BY <1>2, <1>4, <1>5
<1>6. ASSUME NEW p \in Requests, NEW s \in Closes, CreateClose(p, s)
      PROVE  Inserted'
  <2>1. PICK totals \in Totals :
          /\ closes' = [closes EXCEPT ![s] = [totals |-> totals, hr |-> Null, proc |-> Null]]
          /\ Go(p, [op |-> "hr", id |-> s, totals |-> totals])
    BY <1>6 DEF CreateClose
  <2>2. [totals |-> totals, hr |-> Null, proc |-> Null] \in SoftClose
    BY DEF SoftClose
  <2>3. closes'[s] # Absent  BY <2>1, <2>2, MarkersAssumption DEF FiguresTypeOK
  <2>4. Good([op |-> "hr", id |-> s, totals |-> totals])  BY <2>3
  <2> HIDE DEF Good
  <2>5. QED  BY <2>1, <2>4, <1>4
<1>7. ASSUME NEW p \in Requests, ReadHr(p)  PROVE Inserted'
  <2>1. closes'[requests[p].id] # Absent  BY <1>1, <1>7 DEF ReadHr, At
  <2> DEFINE next == [op |-> "proc", id |-> requests[p].id, totals |-> requests[p].totals,
                      hr |-> Variance(requests[p].totals.hr, actual.hr)]
  <2>2. Good(next)  BY <2>1
  <2>3. Go(p, next)  BY <1>7 DEF ReadHr
  <2> HIDE DEF Good, next
  <2>4. QED  BY <2>2, <2>3, <1>4
<1>8. ASSUME NEW p \in Requests, ReadProc(p)  PROVE Inserted'
  <2>1. closes'[requests[p].id] # Absent  BY <1>1, <1>8 DEF ReadProc, At
  <2> DEFINE next == [op |-> "variances", id |-> requests[p].id, hr |-> requests[p].hr,
                      proc |-> Variance(requests[p].totals.proc, actual.proc)]
  <2>2. Good(next)  BY <2>1
  <2>3. Go(p, next)  BY <1>8 DEF ReadProc
  <2> HIDE DEF Good, next
  <2>4. QED  BY <2>2, <2>3, <1>4
<1>9. ASSUME NEW p \in Requests, NEW s \in Closes, BeginPatchClose(p, s)
      PROVE  Inserted'
  <2>1. Good([op |-> "patchClose", id |-> s, row |-> closes[s]])
    BY <1>9 DEF BeginPatchClose, There
  <2>2. Go(p, [op |-> "patchClose", id |-> s, row |-> closes[s]])
    BY <1>9 DEF BeginPatchClose
  <2> HIDE DEF Good
  <2>3. QED  BY <2>1, <2>2, <1>4
<1>10. ASSUME NEW p \in Requests, NEW a \in Assets, CreateAsset(p, a)
       PROVE  Inserted'
  <2>1. PICK ksa \in BOOLEAN, amount \in Amounts :
          /\ assets' = [assets EXCEPT ![a] = [ksa |-> ksa, included |-> TRUE, depreciation |-> amount]]
          /\ Go(p, [op |-> "apply", id |-> a, ksa |-> ksa])
    BY <1>10 DEF CreateAsset
  <2>2. [ksa |-> ksa, included |-> TRUE, depreciation |-> amount] \in Asset
    BY DEF Asset
  <2>3. assets'[a] # Absent  BY <2>1, <2>2, MarkersAssumption DEF FiguresTypeOK
  <2>4. Good([op |-> "apply", id |-> a, ksa |-> ksa])  BY <2>3
  <2> HIDE DEF Good
  <2>5. QED  BY <2>1, <2>4, <1>4
<1>11. ASSUME NEW p \in Requests, NEW a \in Assets, BeginPatchAsset(p, a)
       PROVE  Inserted'
  <2>1. Good([op |-> "patchAsset", id |-> a, row |-> assets[a]])
    BY <1>11 DEF BeginPatchAsset, There
  <2>2. Go(p, [op |-> "patchAsset", id |-> a, row |-> assets[a]])
    BY <1>11 DEF BeginPatchAsset
  <2> HIDE DEF Good
  <2>3. QED  BY <2>1, <2>2, <1>4
<1>12. QED
  <2>1. ASSUME NEW p \in Requests,
               SaveVariances(p) \/ SavePatchClose(p) \/ Apply(p) \/ SavePatchAsset(p) \/ Die(p)
        PROVE  Inserted'
    BY <1>5, <2>1 DEF SaveVariances, SavePatchClose, Apply, SavePatchAsset, Die
  <2>2. ASSUME Upload \/ (\E s \in Closes : DeleteClose(s)) \/ (\E a \in Assets : DeleteAsset(a))
        PROVE  Inserted'
    BY <1>3, <2>2 DEF Upload, DeleteClose, DeleteAsset
  <2>3. CASE UNCHANGED figureVars  BY <1>3, <2>3 DEF figureVars
  <2>4. QED
    BY <1>6, <1>7, <1>8, <1>9, <1>10, <1>11, <2>1, <2>2, <2>3 DEF FiguresNext, Handle

(* The types of Figures, in every reachable state.                         *)
THEOREM FiguresTypeCorrect == FiguresSpec => []FiguresTypeOK
<1>1. FiguresInit => FiguresTyped
  BY DEF FiguresInit, FiguresTyped, FiguresTypeOK, Inserted, Request, Idle
<1>2. FiguresTyped /\ [FiguresNext]_figureVars => FiguresTyped'
  BY FiguresTypeStep, InsertedStep DEF FiguresTyped
<1>3. FiguresTyped => FiguresTypeOK  BY DEF FiguresTyped
<1>4. QED  BY <1>1, <1>2, <1>3, PTL DEF FiguresSpec

-----------------------------------------------------------------------------
(* Figures: the variances of the soft closes *)

(* What a variance may be, of the totals typed and the states since.       *)
EarnedHr(totals, states, v) == \E t \in states : v = Variance(totals.hr, t.hr)

EarnedProc(totals, states, v) == \E t \in states : v = Variance(totals.proc, t.proc)

RowEarned(totals, states, row) ==
  /\ row.hr = Null <=> row.proc = Null
  /\ row.hr # Null => EarnedHr(totals, states, row.hr) /\ EarnedProc(totals, states, row.proc)

(* What a request carries toward the row it writes.                        *)
CarriesEarned(r, ty, si) ==
  /\ r.op \in {"hr", "proc"} => r.totals = ty[r.id]
  /\ r.op \in {"proc", "variances"} => EarnedHr(ty[r.id], si[r.id], r.hr)
  /\ r.op = "variances" => EarnedProc(ty[r.id], si[r.id], r.proc)
  /\ r.op = "patchClose" => RowEarned(ty[r.id], si[r.id], r.row)

ActualSince == \A s \in Closes : closes[s] # Absent => actual \in since[s]

VarianceInv ==
  /\ FiguresTyped
  /\ ActualSince
  /\ \A s \in Closes : There(closes[s]) => RowEarned(typed[s], since[s], closes[s])
  /\ \A p \in Requests : CarriesEarned(requests[p], typed, since)

(* What was earned once stays earned.                                      *)
LEMMA EarnedGrows ==
  ASSUME NEW totals, NEW states, NEW later, states \subseteq later
  PROVE  /\ \A v : EarnedHr(totals, states, v) => EarnedHr(totals, later, v)
         /\ \A v : EarnedProc(totals, states, v) => EarnedProc(totals, later, v)
         /\ \A row : RowEarned(totals, states, row) => RowEarned(totals, later, row)
<1>1. \A v : EarnedHr(totals, states, v) => EarnedHr(totals, later, v)
  BY DEF EarnedHr
<1>2. \A v : EarnedProc(totals, states, v) => EarnedProc(totals, later, v)
  BY DEF EarnedProc
<1>3. QED  BY <1>1, <1>2 DEF RowEarned

(* The history of a row is only extended.                                  *)
LEMMA HistoryKept ==
  ASSUME FiguresTyped, [FiguresNext]_figureVars
  PROVE  \A s \in Closes : closes[s] # Absent => typed'[s] = typed[s] /\ since[s] \subseteq since'[s]
<1>1. CASE Upload
  BY <1>1 DEF Upload, FiguresTyped, FiguresTypeOK
<1>2. ASSUME NEW p \in Requests, NEW c \in Closes, CreateClose(p, c)
      PROVE  \A s \in Closes : closes[s] # Absent => typed'[s] = typed[s] /\ since[s] \subseteq since'[s]
  BY <1>2 DEF CreateClose, FiguresTyped, FiguresTypeOK
<1>3. CASE UNCHANGED <<typed, since>>
  BY <1>3
<1>4. QED
  BY <1>1, <1>2, <1>3
  DEF FiguresNext, Handle, figureVars, BeginPatchClose, ReadHr, ReadProc, SaveVariances, SavePatchClose,
      DeleteClose, CreateAsset, Apply, BeginPatchAsset, SavePatchAsset, DeleteAsset, Die

LEMMA ActualSinceStep == FiguresTyped /\ ActualSince /\ [FiguresNext]_figureVars => ActualSince'
<1> SUFFICES ASSUME FiguresTyped, ActualSince, [FiguresNext]_figureVars
             PROVE  ActualSince'
  OBVIOUS
<1>1. CASE Upload
  BY <1>1 DEF Upload, ActualSince, FiguresTyped, FiguresTypeOK
<1>2. ASSUME NEW p \in Requests, NEW s \in Closes, CreateClose(p, s)
      PROVE  ActualSince'
  BY <1>2 DEF CreateClose, ActualSince, FiguresTyped, FiguresTypeOK
<1>3. ASSUME UNCHANGED <<actual, since>>, \A s \in Closes : closes'[s] # Absent => closes[s] # Absent
      PROVE  ActualSince'
  BY <1>3 DEF ActualSince
<1>4. ASSUME NEW p \in Requests, SaveVariances(p)  PROVE ActualSince'
  <2>1. requests[p].id \in Closes /\ closes[requests[p].id] # Absent
    BY <1>4, RequestShape DEF SaveVariances, At, FiguresTyped, FiguresTypeOK, Inserted
  <2>2. \A s \in Closes : closes'[s] # Absent => closes[s] # Absent
    BY <1>4, <2>1 DEF SaveVariances, FiguresTyped, FiguresTypeOK
  <2>3. QED  BY <1>3, <1>4, <2>2 DEF SaveVariances
<1>5. ASSUME NEW p \in Requests, SavePatchClose(p)  PROVE ActualSince'
  <2>1. requests[p].id \in Closes /\ closes[requests[p].id] # Absent
    BY <1>5, RequestShape DEF SavePatchClose, At, FiguresTyped, FiguresTypeOK, Inserted
  <2>2. \A s \in Closes : closes'[s] # Absent => closes[s] # Absent
    BY <1>5, <2>1 DEF SavePatchClose, FiguresTyped, FiguresTypeOK
  <2>3. QED  BY <1>3, <1>5, <2>2 DEF SavePatchClose
<1>6. ASSUME NEW s \in Closes, DeleteClose(s)  PROVE ActualSince'
  <2>1. \A c \in Closes : closes'[c] # Absent => closes[c] # Absent
    BY <1>6 DEF DeleteClose, There, FiguresTyped, FiguresTypeOK
  <2>2. QED  BY <1>3, <1>6, <2>1 DEF DeleteClose
<1>7. CASE UNCHANGED <<actual, since, closes>>
  BY <1>3, <1>7
<1>8. QED
  BY <1>1, <1>2, <1>4, <1>5, <1>6, <1>7
  DEF FiguresNext, Handle, figureVars, BeginPatchClose, ReadHr, ReadProc,
      CreateAsset, Apply, BeginPatchAsset, SavePatchAsset, DeleteAsset, Die

LEMMA VarianceStep == VarianceInv /\ [FiguresNext]_figureVars => VarianceInv'
<1> SUFFICES ASSUME VarianceInv, [FiguresNext]_figureVars
             PROVE  VarianceInv'
  OBVIOUS
<1> DEFINE Good(r) == CarriesEarned(r, typed', since')
           Rows == \A s \in Closes : There(closes'[s]) => RowEarned(typed'[s], since'[s], closes'[s])
           Carried == \A p \in Requests : Good(requests'[p])
<1>1. FiguresTyped' /\ RowsStay
  BY FiguresTypeStep, InsertedStep DEF VarianceInv, FiguresTyped
<1>2. ActualSince'  BY ActualSinceStep DEF VarianceInv
<1>3. \A s \in Closes : closes[s] # Absent => typed'[s] = typed[s] /\ since[s] \subseteq since'[s]
  BY HistoryKept DEF VarianceInv
<1>4. \A q \in Requests : Good(requests[q])
  <2> TAKE q \in Requests
  <2> DEFINE r == requests[q]
  <2>1. r \in Request /\ CarriesEarned(r, typed, since)
    BY DEF VarianceInv, FiguresTyped, FiguresTypeOK
  <2>2. r.op \in {"hr", "proc", "variances", "patchClose"} => r.id \in Closes /\ closes[r.id] # Absent
    BY <2>1, RequestShape DEF VarianceInv, FiguresTyped, Inserted
  <2>3. r.op \in {"hr", "proc", "variances", "patchClose"} =>
          typed'[r.id] = typed[r.id] /\ since[r.id] \subseteq since'[r.id]
    BY <1>3, <2>2
  <2> SUFFICES Good(r)  OBVIOUS
  <2> HIDE DEF r
  <2>4. CASE r.op \in {"hr", "proc", "variances", "patchClose"}
    <3>1. /\ \A v : EarnedHr(typed[r.id], since[r.id], v) => EarnedHr(typed[r.id], since'[r.id], v)
          /\ \A v : EarnedProc(typed[r.id], since[r.id], v) => EarnedProc(typed[r.id], since'[r.id], v)
          /\ \A row : RowEarned(typed[r.id], since[r.id], row) => RowEarned(typed[r.id], since'[r.id], row)
      BY <2>3, <2>4, EarnedGrows
    <3>2. typed'[r.id] = typed[r.id]  BY <2>3, <2>4
    <3>3. QED  BY <2>1, <3>1, <3>2 DEF CarriesEarned
  <2>5. CASE r.op \notin {"hr", "proc", "variances", "patchClose"}
    BY <2>5 DEF CarriesEarned
  <2>6. QED  BY <2>4, <2>5
<1>5. ASSUME NEW s \in Closes, There(closes[s])
      PROVE  RowEarned(typed'[s], since'[s], closes[s])
  BY <1>3, <1>5, EarnedGrows DEF VarianceInv, There
<1>6. Good(Idle)  BY DEF Idle, CarriesEarned
<1>7. ASSUME UNCHANGED requests  PROVE Carried
  <2> HIDE DEF Good
  <2> QED  BY <1>4, <1>7
<1>8. ASSUME NEW p \in Requests, NEW next, Go(p, next), Good(next)
      PROVE  Carried
  <2>1. \A q \in Requests : requests'[q] = IF q = p THEN next ELSE requests[q]
    BY <1>8 DEF Go, VarianceInv, FiguresTyped, FiguresTypeOK
  <2> HIDE DEF Good
  <2>2. QED  BY <1>4, <1>8, <2>1
<1>9. ASSUME NEW p \in Requests, Go(p, Idle)  PROVE Carried
  <2> HIDE DEF Good, Carried
  <2> QED  BY <1>6, <1>8, <1>9
<1>10. ASSUME UNCHANGED closes  PROVE Rows
  BY <1>5, <1>10
<1>11. ASSUME Rows, Carried  PROVE VarianceInv'
  BY <1>1, <1>2, <1>11 DEF VarianceInv
<1>12. ASSUME NEW p \in Requests, NEW s \in Closes, CreateClose(p, s)
       PROVE  Rows /\ Carried
  <2>1. PICK totals \in Totals :
          /\ closes' = [closes EXCEPT ![s] = [totals |-> totals, hr |-> Null, proc |-> Null]]
          /\ typed' = [typed EXCEPT ![s] = totals]
          /\ Go(p, [op |-> "hr", id |-> s, totals |-> totals])
    BY <1>12 DEF CreateClose
  <2>2. typed'[s] = totals /\ closes'[s] = [totals |-> totals, hr |-> Null, proc |-> Null]
    BY <2>1 DEF VarianceInv, FiguresTyped, FiguresTypeOK
  <2>3. Good([op |-> "hr", id |-> s, totals |-> totals])
    BY <2>2 DEF CarriesEarned
  <2>4. Carried
    <3> HIDE DEF Good, Carried
    <3> QED  BY <2>1, <2>3, <1>8
  <2>5. RowEarned(typed'[s], since'[s], closes'[s])
    BY <2>2 DEF RowEarned
  <2>6. \A c \in Closes \ {s} : closes'[c] = closes[c]
    BY <2>1 DEF VarianceInv, FiguresTyped, FiguresTypeOK
  <2>7. QED  BY <1>5, <2>4, <2>5, <2>6
<1>13. ASSUME NEW p \in Requests, ReadHr(p)  PROVE Carried
  <2> DEFINE r == requests[p]
             next == [op |-> "proc", id |-> r.id, totals |-> r.totals,
                      hr |-> Variance(r.totals.hr, actual.hr)]
  <2>1. r \in Request /\ r.op = "hr"
    BY <1>13 DEF ReadHr, At, VarianceInv, FiguresTyped, FiguresTypeOK
  <2>2. r.id \in Closes /\ closes'[r.id] # Absent
    BY <2>1, <1>1, RequestShape DEF VarianceInv, FiguresTyped, Inserted, RowsStay
  <2>3. actual \in since'[r.id]
    BY <1>2, <1>13, <2>2 DEF ActualSince, ReadHr
  <2>4. r.totals = typed'[r.id]
    BY <1>4, <2>1 DEF CarriesEarned
  <2>5. Go(p, next)  BY <1>13 DEF ReadHr
  <2>6. Good(next)
    <3> HIDE DEF r
    <3> QED  BY <2>3, <2>4 DEF CarriesEarned, EarnedHr
  <2> HIDE DEF Good, Carried, next
  <2>7. QED  BY <2>5, <2>6, <1>8
<1>14. ASSUME NEW p \in Requests, ReadProc(p)  PROVE Carried
  <2> DEFINE r == requests[p]
             next == [op |-> "variances", id |-> r.id, hr |-> r.hr,
                      proc |-> Variance(r.totals.proc, actual.proc)]
  <2>1. r \in Request /\ r.op = "proc"
    BY <1>14 DEF ReadProc, At, VarianceInv, FiguresTyped, FiguresTypeOK
  <2>2. r.id \in Closes /\ closes'[r.id] # Absent
    BY <2>1, <1>1, RequestShape DEF VarianceInv, FiguresTyped, Inserted, RowsStay
  <2>3. actual \in since'[r.id]
    BY <1>2, <1>14, <2>2 DEF ActualSince, ReadProc
  <2>4. r.totals = typed'[r.id] /\ EarnedHr(typed'[r.id], since'[r.id], r.hr)
    BY <1>4, <2>1 DEF CarriesEarned
  <2>5. Go(p, next)  BY <1>14 DEF ReadProc
  <2>6. Good(next)
    <3> HIDE DEF r
    <3> QED  BY <2>3, <2>4 DEF CarriesEarned, EarnedProc
  <2> HIDE DEF Good, Carried, next
  <2>7. QED  BY <2>5, <2>6, <1>8
<1>15. ASSUME NEW p \in Requests, NEW s \in Closes, BeginPatchClose(p, s)
       PROVE  Carried
  <2>1. Go(p, [op |-> "patchClose", id |-> s, row |-> closes[s]]) /\ There(closes[s])
    BY <1>15 DEF BeginPatchClose
  <2>2. Good([op |-> "patchClose", id |-> s, row |-> closes[s]])
    BY <1>5, <2>1 DEF CarriesEarned
  <2> HIDE DEF Good, Carried
  <2>3. QED  BY <2>1, <2>2, <1>8
<1>16. ASSUME NEW p \in Requests, SaveVariances(p)  PROVE Rows
  <2> DEFINE r == requests[p]
  <2>1. r \in Request /\ r.op = "variances"
    BY <1>16 DEF SaveVariances, At, VarianceInv, FiguresTyped, FiguresTypeOK
  <2>2. r.id \in Closes /\ r.hr # Null /\ r.proc # Null
    BY <2>1, RequestShape, MarkersAssumption
  <2>3. EarnedHr(typed'[r.id], since'[r.id], r.hr) /\ EarnedProc(typed'[r.id], since'[r.id], r.proc)
    BY <1>4, <2>1 DEF CarriesEarned
  <2>4. CASE closes[r.id] = Gone
    BY <1>5, <1>16, <2>4 DEF SaveVariances
  <2>5. CASE closes[r.id] # Gone
    <3>1. closes' = [closes EXCEPT ![r.id] = [totals |-> closes[r.id].totals, hr |-> r.hr, proc |-> r.proc]]
      BY <1>16, <2>5 DEF SaveVariances
    <3>2. \A c \in Closes \ {r.id} : closes'[c] = closes[c]
      BY <3>1 DEF VarianceInv, FiguresTyped, FiguresTypeOK
    <3>3. closes'[r.id].hr = r.hr /\ closes'[r.id].proc = r.proc
      BY <3>1, <2>2 DEF VarianceInv, FiguresTyped, FiguresTypeOK
    <3>4. RowEarned(typed'[r.id], since'[r.id], closes'[r.id])
      BY <2>2, <2>3, <3>3 DEF RowEarned
    <3>5. QED  BY <1>5, <3>2, <3>4
  <2>6. QED  BY <2>4, <2>5
<1>17. ASSUME NEW p \in Requests, SavePatchClose(p)  PROVE Rows
  <2> DEFINE r == requests[p]
  <2>1. r \in Request /\ r.op = "patchClose"
    BY <1>17 DEF SavePatchClose, At, VarianceInv, FiguresTyped, FiguresTypeOK
  <2>2. r.id \in Closes  BY <2>1, RequestShape
  <2>3. RowEarned(typed'[r.id], since'[r.id], r.row)
    BY <1>4, <2>1 DEF CarriesEarned
  <2>4. PICK totals \in Totals :
          closes' = [closes EXCEPT ![r.id] = [totals |-> totals, hr |-> r.row.hr, proc |-> r.row.proc]]
    BY <1>17 DEF SavePatchClose
  <2>5. \A c \in Closes \ {r.id} : closes'[c] = closes[c]
    BY <2>4 DEF VarianceInv, FiguresTyped, FiguresTypeOK
  <2>6. closes'[r.id].hr = r.row.hr /\ closes'[r.id].proc = r.row.proc
    BY <2>2, <2>4 DEF VarianceInv, FiguresTyped, FiguresTypeOK
  <2>7. RowEarned(typed'[r.id], since'[r.id], closes'[r.id])
    BY <2>3, <2>6 DEF RowEarned
  <2>8. QED  BY <1>5, <2>5, <2>7
<1>18. ASSUME NEW s \in Closes, DeleteClose(s)  PROVE Rows
  <2>1. \A c \in Closes : closes'[c] = IF c = s THEN Gone ELSE closes[c]
    BY <1>18 DEF DeleteClose, VarianceInv, FiguresTyped, FiguresTypeOK
  <2>2. QED  BY <1>5, <2>1 DEF There
<1>19. QED
  <2> HIDE DEF Rows, Carried
  <2>1. ASSUME NEW p \in Requests, NEW s \in Closes, CreateClose(p, s) \/ BeginPatchClose(p, s)
        PROVE  Rows /\ Carried
    BY <1>10, <1>12, <1>15, <2>1 DEF BeginPatchClose
  <2>2. ASSUME NEW p \in Requests, ReadHr(p) \/ ReadProc(p) \/ SaveVariances(p) \/ SavePatchClose(p)
        PROVE  Rows /\ Carried
    <3>1. CASE ReadHr(p)  BY <1>10, <1>13, <3>1 DEF ReadHr
    <3>2. CASE ReadProc(p)  BY <1>10, <1>14, <3>2 DEF ReadProc
    <3>3. CASE SaveVariances(p)  BY <1>9, <1>16, <3>3 DEF SaveVariances
    <3>4. CASE SavePatchClose(p)  BY <1>9, <1>17, <3>4 DEF SavePatchClose
    <3>5. QED  BY <2>2, <3>1, <3>2, <3>3, <3>4
  <2>3. ASSUME NEW s \in Closes, DeleteClose(s)  PROVE Rows /\ Carried
    BY <1>7, <1>18, <2>3 DEF DeleteClose
  <2>4. ASSUME NEW p \in Requests, NEW a \in Assets, CreateAsset(p, a) \/ BeginPatchAsset(p, a)
        PROVE  Rows /\ Carried
    <3>1. CASE CreateAsset(p, a)
      <4>1. PICK ksa \in BOOLEAN : Go(p, [op |-> "apply", id |-> a, ksa |-> ksa])
        BY <3>1 DEF CreateAsset
      <4>2. Good([op |-> "apply", id |-> a, ksa |-> ksa])  BY DEF CarriesEarned
      <4> HIDE DEF Good
      <4>3. Carried  BY <4>1, <4>2, <1>8
      <4>4. Rows  BY <1>10, <3>1 DEF CreateAsset
      <4>5. QED  BY <4>3, <4>4
    <3>2. CASE BeginPatchAsset(p, a)
      <4>1. Go(p, [op |-> "patchAsset", id |-> a, row |-> assets[a]])
        BY <3>2 DEF BeginPatchAsset
      <4>2. Good([op |-> "patchAsset", id |-> a, row |-> assets[a]])  BY DEF CarriesEarned
      <4> HIDE DEF Good
      <4>3. Carried  BY <4>1, <4>2, <1>8
      <4>4. Rows  BY <1>10, <3>2 DEF BeginPatchAsset
      <4>5. QED  BY <4>3, <4>4
    <3>3. QED  BY <2>4, <3>1, <3>2
  <2>5. ASSUME NEW p \in Requests, Apply(p) \/ SavePatchAsset(p) \/ Die(p)
        PROVE  Rows /\ Carried
    BY <1>9, <1>10, <2>5 DEF Apply, SavePatchAsset, Die
  <2>6. ASSUME Upload \/ (\E a \in Assets : DeleteAsset(a)) \/ UNCHANGED figureVars
        PROVE  Rows /\ Carried
    BY <1>7, <1>10, <2>6 DEF Upload, DeleteAsset, figureVars
  <2>7. Rows /\ Carried
    BY <2>1, <2>2, <2>3, <2>4, <2>5, <2>6 DEF FiguresNext, Handle
  <2>8. QED  BY <1>11, <2>7

(* VarianceEarned holds in every reachable state: whatever uploads, edits, *)
(* deletions and crashes come between, a variance is never one of other    *)
(* totals than those typed, nor of a state before the row was there.       *)
THEOREM VariancesAlwaysEarned == FiguresSpec => []VarianceEarned
<1>1. FiguresInit => VarianceInv
  <2> SUFFICES ASSUME FiguresInit PROVE VarianceInv
    OBVIOUS
  <2>1. FiguresTyped
    BY DEF FiguresInit, FiguresTyped, FiguresTypeOK, Inserted, Request, Idle
  <2>2. \A p \in Requests : CarriesEarned(requests[p], typed, since)
    BY DEF FiguresInit, CarriesEarned, Idle
  <2>3. QED  BY <2>1, <2>2 DEF FiguresInit, VarianceInv, ActualSince, There
<1>2. VarianceInv => VarianceEarned
  BY DEF VarianceInv, VarianceEarned, RowEarned, EarnedHr, EarnedProc
<1>3. QED  BY <1>1, <1>2, VarianceStep, PTL DEF FiguresSpec

-----------------------------------------------------------------------------
(* Figures: the assets that count *)

Settled == \A a \in Assets : There(assets[a]) /\ a \notin unsettled => assets[a].included = assets[a].ksa

(* The creation of an asset has its rule yet to apply, and no other has.   *)
OneCreation ==
  \A p \in Requests : requests[p].op = "apply" =>
    /\ requests[p].id \in unsettled
    /\ \A q \in Requests : requests[q].op = "apply" /\ requests[q].id = requests[p].id => q = p

KingdomInv == FiguresTyped /\ Settled /\ OneCreation

LEMMA CreationStep == KingdomInv /\ [FiguresNext]_figureVars => OneCreation'
<1> SUFFICES ASSUME FiguresTyped, Settled, OneCreation, [FiguresNext]_figureVars
             PROVE  OneCreation'
  BY DEF KingdomInv
<1>1. ASSUME UNCHANGED <<requests, unsettled>>  PROVE OneCreation'
  BY <1>1 DEF OneCreation
<1>2. ASSUME NEW p \in Requests, NEW next, next.op # "apply", Go(p, next), unsettled \subseteq unsettled'
      PROVE  OneCreation'
  <2>1. \A q \in Requests : requests'[q] = IF q = p THEN next ELSE requests[q]
    BY <1>2 DEF Go, FiguresTyped, FiguresTypeOK
  <2>2. QED  BY <1>2, <2>1 DEF OneCreation
<1>3. ASSUME NEW p \in Requests, NEW s \in Closes, CreateClose(p, s) \/ BeginPatchClose(p, s)
      PROVE  OneCreation'
  <2>1. CASE CreateClose(p, s)
    <3>1. PICK totals \in Totals : Go(p, [op |-> "hr", id |-> s, totals |-> totals])
      BY <2>1 DEF CreateClose
    <3>2. QED  BY <1>2, <2>1, <3>1 DEF CreateClose
  <2>2. CASE BeginPatchClose(p, s)  BY <1>2, <2>2 DEF BeginPatchClose
  <2>3. QED  BY <1>3, <2>1, <2>2
<1>4. ASSUME NEW p \in Requests, ReadHr(p) \/ ReadProc(p)
      PROVE  OneCreation'
  <2>1. CASE ReadHr(p)  BY <1>2, <2>1 DEF ReadHr
  <2>2. CASE ReadProc(p)  BY <1>2, <2>2 DEF ReadProc
  <2>3. QED  BY <1>4, <2>1, <2>2
<1>5. ASSUME NEW p \in Requests, Go(p, Idle), unsettled \subseteq unsettled'
      PROVE  OneCreation'
  BY <1>2, <1>5 DEF Idle
<1>6. ASSUME NEW p \in Requests, NEW a \in Assets, BeginPatchAsset(p, a)
      PROVE  OneCreation'
  BY <1>2, <1>6 DEF BeginPatchAsset
<1>7. ASSUME NEW p \in Requests, NEW a \in Assets, CreateAsset(p, a)
      PROVE  OneCreation'
  <2>1. PICK ksa \in BOOLEAN : Go(p, [op |-> "apply", id |-> a, ksa |-> ksa])
    BY <1>7 DEF CreateAsset
  <2> DEFINE next == [op |-> "apply", id |-> a, ksa |-> ksa]
  <2>2. next.op = "apply" /\ next.id = a  OBVIOUS
  <2> HIDE DEF next
  <2>3. \A q \in Requests : requests'[q] = IF q = p THEN next ELSE requests[q]
    BY <2>1 DEF Go, FiguresTyped, FiguresTypeOK, next
  <2>4. \A q \in Requests : requests[q].op = "apply" => requests[q].id # a
    BY <1>7 DEF CreateAsset, FiguresTyped, Inserted
  <2>5. unsettled' = unsettled \cup {a}  BY <1>7 DEF CreateAsset
  <2>6. QED  BY <2>2, <2>3, <2>4, <2>5 DEF OneCreation
<1>8. ASSUME NEW p \in Requests, Apply(p)  PROVE OneCreation'
  <2>1. \A q \in Requests : requests'[q] = IF q = p THEN Idle ELSE requests[q]
    BY <1>8 DEF Apply, Go, FiguresTyped, FiguresTypeOK
  <2>2. requests[p].op = "apply" /\ unsettled \ {requests[p].id} \subseteq unsettled'
    BY <1>8 DEF Apply, At
  <2>3. Idle.op # "apply"  BY DEF Idle
  <2>4. QED  BY <2>1, <2>2, <2>3 DEF OneCreation
<1>9. QED
  <2>1. ASSUME NEW p \in Requests, SaveVariances(p) \/ SavePatchClose(p) \/ SavePatchAsset(p) \/ Die(p)
        PROVE  OneCreation'
    BY <1>5, <2>1 DEF SaveVariances, SavePatchClose, SavePatchAsset, Die
  <2>2. ASSUME \/ Upload \/ UNCHANGED figureVars
               \/ \E s \in Closes : DeleteClose(s)
               \/ \E a \in Assets : DeleteAsset(a)
        PROVE  OneCreation'
    BY <1>1, <2>2 DEF Upload, figureVars, DeleteClose, DeleteAsset
  <2>3. QED
    BY <1>3, <1>4, <1>6, <1>7, <1>8, <2>1, <2>2 DEF FiguresNext, Handle

LEMMA SettledStep == KingdomInv /\ [FiguresNext]_figureVars => Settled'
<1> SUFFICES ASSUME FiguresTyped, Settled, OneCreation, [FiguresNext]_figureVars
             PROVE  Settled'
  BY DEF KingdomInv
<1>1. CASE UNCHANGED <<assets, unsettled>>
  BY <1>1 DEF Settled
<1>2. ASSUME NEW p \in Requests, NEW a \in Assets, CreateAsset(p, a)
      PROVE  Settled'
  <2>1. PICK row : assets' = [assets EXCEPT ![a] = row]
    BY <1>2 DEF CreateAsset
  <2>2. \A b \in Assets : b # a => assets'[b] = assets[b]
    BY <2>1 DEF FiguresTyped, FiguresTypeOK
  <2>3. QED  BY <1>2, <2>2 DEF CreateAsset, Settled
<1>3. ASSUME NEW p \in Requests, SavePatchAsset(p)
      PROVE  Settled'
  <2>1. PICK row : assets' = [assets EXCEPT ![requests[p].id] = row]
    BY <1>3 DEF SavePatchAsset
  <2>2. \A b \in Assets : b # requests[p].id => assets'[b] = assets[b]
    BY <2>1 DEF FiguresTyped, FiguresTypeOK
  <2>3. QED  BY <1>3, <2>2 DEF SavePatchAsset, Settled
<1>4. ASSUME NEW p \in Requests, Apply(p)  PROVE Settled'
  <2> DEFINE a == requests[p].id
  <2>1. requests[p] \in Request /\ requests[p].op = "apply"
    BY <1>4 DEF Apply, At, FiguresTyped, FiguresTypeOK
  <2>2. a \in Assets /\ a \in unsettled
    BY <2>1, RequestShape DEF OneCreation
  <2>3. CASE assets[a] = Gone
    BY <1>4, <2>3 DEF Apply, Settled
  <2>4. CASE assets[a] # Gone
    <3>1. assets[a] \in Asset
      BY <2>1, <2>2, <2>4 DEF FiguresTyped, FiguresTypeOK, Inserted
    <3> DEFINE row == [assets[a] EXCEPT !.included = requests[p].ksa]
    <3>2. /\ assets' = [assets EXCEPT ![a] = row]
          /\ unsettled' = IF assets[a].ksa = requests[p].ksa THEN unsettled \ {a} ELSE unsettled
      BY <1>4, <2>4 DEF Apply
    <3>3. row.included = requests[p].ksa /\ row.ksa = assets[a].ksa
      BY <3>1 DEF Asset
    <3> HIDE DEF row
    <3>4. assets'[a] = row /\ \A b \in Assets : b # a => assets'[b] = assets[b]
      BY <2>2, <3>2 DEF FiguresTyped, FiguresTypeOK
    <3>5. a \notin unsettled' => assets'[a].included = assets'[a].ksa
      BY <2>2, <3>2, <3>3, <3>4
    <3>6. \A b \in Assets : b # a => (b \in unsettled' <=> b \in unsettled)
      BY <3>2
    <3> HIDE DEF a
    <3>7. QED  BY <3>4, <3>5, <3>6 DEF Settled
  <2>5. QED  BY <2>3, <2>4
<1>5. ASSUME NEW a \in Assets, DeleteAsset(a)  PROVE Settled'
  <2>1. \A b \in Assets : assets'[b] = IF b = a THEN Gone ELSE assets[b]
    BY <1>5 DEF DeleteAsset, FiguresTyped, FiguresTypeOK
  <2>2. QED  BY <1>5, <2>1 DEF DeleteAsset, Settled, There
<1>6. QED
  BY <1>1, <1>2, <1>3, <1>4, <1>5
  DEF FiguresNext, Handle, figureVars, Upload, CreateClose, BeginPatchClose, ReadHr, ReadProc,
      SaveVariances, SavePatchClose, DeleteClose, BeginPatchAsset, Die

(* KingdomOnly holds in every reachable state: an asset whose creation has *)
(* ended and that was not edited counts exactly when it operates in the    *)
(* Kingdom, so the two sums are over the same assets.                      *)
THEOREM KingdomAlwaysOnly == FiguresSpec => []KingdomOnly
<1>1. FiguresInit => KingdomInv
  BY DEF FiguresInit, KingdomInv, FiguresTyped, FiguresTypeOK, Inserted, Request, Idle,
         Settled, OneCreation, There
<1>2. KingdomInv /\ [FiguresNext]_figureVars => KingdomInv'
  <2>1. FiguresTyped /\ [FiguresNext]_figureVars => FiguresTyped'
    BY FiguresTypeStep, InsertedStep DEF FiguresTyped
  <2>2. QED  BY <2>1, SettledStep, CreationStep DEF KingdomInv
<1>3. KingdomInv => KingdomOnly
  <2> SUFFICES ASSUME KingdomInv PROVE KingdomOnly
    OBVIOUS
  <2> DEFINE present == {a \in Assets : There(assets[a])}
             counted == {a \in Assets : There(assets[a]) /\ assets[a].included}
             inside == {a \in present : assets[a].ksa}
  <2>1. ASSUME present \cap unsettled = {}  PROVE counted = inside
    BY <2>1 DEF KingdomInv, Settled
  <2>2. QED  BY <2>1 DEF KingdomOnly, RegisterDepreciation
<1>4. QED  BY <1>1, <1>2, <1>3, PTL DEF FiguresSpec

-----------------------------------------------------------------------------
(* Copilot *)

LEMMA AskShape ==
  ASSUME NEW a \in Asking \cup {NoAsk}
  PROVE  /\ a # NoAsk <=> a.op \in {"retrieve", "question", "answer"}
         /\ a # NoAsk => a.talk \in Talks /\ a.role \in Roles
         /\ a.op \in {"question", "answer"} => a.chunks \in SUBSET Documents
  BY DEF Asking, NoAsk

(* A role that some tenant's user may have is only allowed the rulebooks   *)
(* and the documents of departments whose API lets it in.                  *)
LEMMA AllowedWithin ==
  ASSUME NEW r \in Roles \ {"MASTER_ADMIN"}, NEW c \in AllowedCategories(r)
  PROVE  c \in Rulebooks \/ HasRole(r, DepartmentOf[c])
<1>1. CASE r \in {"SUPER_ADMIN", "COMPANY_ADMIN"}
  BY <1>1 DEF HasRole, AllowedRoles
<1>2. CASE r = "HR_ADMIN"
  <2>1. c \in Rulebooks \cup {"HR"}  BY <1>2 DEF AllowedCategories
  <2>2. HasRole(r, "hr")  BY <1>2 DEF HasRole, AllowedRoles
  <2>3. QED  BY <2>1, <2>2 DEF DepartmentOf
<1>3. CASE r = "PROCUREMENT_ADMIN"
  <2>1. c \in Rulebooks \cup {"PROCUREMENT"}  BY <1>3 DEF AllowedCategories
  <2>2. HasRole(r, "procurement")  BY <1>3 DEF HasRole, AllowedRoles
  <2>3. QED  BY <2>1, <2>2 DEF DepartmentOf
<1>4. CASE r = "FINANCE_ADMIN"
  <2>1. c \in Rulebooks \cup {"FINANCE"}  BY <1>4 DEF AllowedCategories
  <2>2. HasRole(r, "finance")  BY <1>4 DEF HasRole, AllowedRoles
  <2>3. QED  BY <2>1, <2>2 DEF DepartmentOf
<1>5. QED  BY <1>1, <1>2, <1>3, <1>4 DEF Roles

(* The pages offered to a role are those whose API lets it in.             *)
LEMMA PagesMatch ==
  ASSUME NEW r \in Roles, NEW d \in Departments
  PROVE  d \in NavForRole(r) <=> HasRole(r, d)
<1>1. d \notin {"overview", "copilot"}  BY DEF Departments
<1>2. CASE r = "MASTER_ADMIN"
  BY <1>1, <1>2 DEF NavForRole, HasRole, AllowedRoles, Departments
<1>3. CASE r \in {"SUPER_ADMIN", "COMPANY_ADMIN"}
  BY <1>1, <1>3 DEF NavForRole, HasRole, AllowedRoles, Departments
<1>4. CASE r = "HR_ADMIN"
  BY <1>1, <1>4 DEF NavForRole, HasRole, AllowedRoles, Departments
<1>5. CASE r = "PROCUREMENT_ADMIN"
  BY <1>1, <1>5 DEF NavForRole, HasRole, AllowedRoles, Departments
<1>6. CASE r = "FINANCE_ADMIN"
  BY <1>1, <1>6 DEF NavForRole, HasRole, AllowedRoles, Departments
<1>7. QED  BY <1>2, <1>3, <1>4, <1>5, <1>6 DEF Roles

(* What an owner's question with role r may be answered from.              *)
Walled(owner, r, chunks, docs) ==
  \A d \in chunks :
    /\ docs[d] # Nobody /\ docs[d].tenant = TenantOf[owner]
    /\ docs[d].category \in Rulebooks \/ HasRole(r, DepartmentOf[docs[d].category])

RolesFit == \A u \in People : role[u] \in RolesOf(u)

Uploaded == \A d \in embedded : documents[d] # Nobody

AsksWalled ==
  \A p \in Asks : asks[p] # NoAsk =>
    /\ talks[asks[p].talk] # Nobody
    /\ asks[p].role \in RolesOf(talks[asks[p].talk].owner)
    /\ asks[p].op \in {"question", "answer"} =>
         Walled(talks[asks[p].talk].owner, asks[p].role, asks[p].chunks, documents)

TalkWalled(talk, docs) ==
  \A i \in DOMAIN talk.messages :
    Walled(talk.owner, talk.messages[i].asker, talk.messages[i].chunks, docs)

TalksWalled == \A t \in Talks : talks[t] # Nobody => TalkWalled(talks[t], documents)

WallInv == CopilotTypeOK /\ RolesFit /\ Uploaded /\ AsksWalled /\ TalksWalled

LEMMA ProceedTyped ==
  ASSUME CopilotTypeOK, NEW p \in Asks, NEW a \in Asking \cup {NoAsk}, Proceed(p, a)
  PROVE  /\ asks' \in [Asks -> Asking \cup {NoAsk}]
         /\ asks'[p] = a
         /\ \A q \in Asks \ {p} : asks'[q] = asks[q]
  BY DEF CopilotTypeOK, Proceed

LEMMA SayTyped ==
  ASSUME CopilotTypeOK, NEW t \in Talks, talks[t] # Nobody, NEW m \in Message, Say(t, m)
  PROVE  /\ talks' \in [Talks -> Talk \cup {Nobody}]
         /\ talks'[t] # Nobody /\ talks'[t].owner = talks[t].owner
         /\ talks'[t].messages = Append(talks[t].messages, m)
         /\ \A x \in Talks \ {t} : talks'[x] = talks[x]
<1>1. talks[t].owner \in People /\ talks[t].messages \in Seq(Message)
  BY DEF CopilotTypeOK, Talk
<1> DEFINE talk == [owner |-> talks[t].owner, messages |-> Append(talks[t].messages, m)]
<1>2. Append(talks[t].messages, m) \in Seq(Message)
  <2> DEFINE msgs == talks[t].messages
  <2>1. msgs \in Seq(Message)  BY <1>1
  <2> HIDE DEF msgs
  <2>2. Append(msgs, m) \in Seq(Message)  BY <2>1
  <2>3. QED  BY <2>2 DEF msgs
<1>3. talk \in Talk /\ talk.owner = talks[t].owner /\ talk.messages = Append(talks[t].messages, m)
  BY <1>1, <1>2 DEF Talk
<1>4. talks' = [talks EXCEPT ![t] = talk]  BY DEF Say
<1> HIDE DEF talk
<1>5. talk # Nobody  BY <1>3, NobodyAssumption
<1>6. QED  BY <1>3, <1>4, <1>5 DEF CopilotTypeOK

(* A message after which a walled talk is walled still.                    *)
LEMMA SayWalled ==
  ASSUME CopilotTypeOK, TalksWalled, NEW t \in Talks, talks[t] # Nobody, NEW m \in Message, Say(t, m),
         Walled(talks[t].owner, m.asker, m.chunks, documents), UNCHANGED documents
  PROVE  TalksWalled'
<1> DEFINE old == talks[t].messages
           new == Append(old, m)
<1>1. /\ talks'[t].owner = talks[t].owner
      /\ talks'[t].messages = new
      /\ \A x \in Talks \ {t} : talks'[x] = talks[x]
  BY SayTyped
<1>2. old \in Seq(Message)  BY DEF CopilotTypeOK, Talk
<1>3. \A i \in DOMAIN new : (i \in DOMAIN old /\ new[i] = old[i]) \/ new[i] = m
  <2> HIDE DEF old
  <2> QED  BY <1>2
<1>4. TalkWalled(talks'[t], documents)
  <2>1. \A i \in DOMAIN old : Walled(talks[t].owner, old[i].asker, old[i].chunks, documents)
    BY DEF TalksWalled, TalkWalled
  <2> HIDE DEF old, new
  <2>2. QED  BY <1>1, <1>3, <2>1 DEF TalkWalled
<1>5. QED  BY <1>1, <1>4 DEF TalksWalled

(* What a request may do next that the wall allows.                        *)
AskWalled(a, ts, docs) ==
  a # NoAsk =>
    /\ ts[a.talk] # Nobody
    /\ a.role \in RolesOf(ts[a.talk].owner)
    /\ a.op \in {"question", "answer"} => Walled(ts[a.talk].owner, a.role, a.chunks, docs)

LEMMA AsksStep ==
  ASSUME CopilotTypeOK, AsksWalled, NEW p \in Asks, NEW a \in Asking \cup {NoAsk}, Proceed(p, a),
         AskWalled(a, talks', documents), UNCHANGED documents,
         \A t \in Talks : talks[t] # Nobody => talks'[t] # Nobody /\ talks'[t].owner = talks[t].owner
  PROVE  AsksWalled'
<1>1. asks'[p] = a /\ \A q \in Asks \ {p} : asks'[q] = asks[q]
  BY ProceedTyped
<1>2. \A q \in Asks : AskWalled(asks[q], talks', documents)
  <2> TAKE q \in Asks
  <2>1. CASE asks[q] = NoAsk  BY <2>1 DEF AskWalled
  <2>2. CASE asks[q] # NoAsk
    <3>1. asks[q].talk \in Talks /\ talks[asks[q].talk] # Nobody
      BY <2>2, AskShape DEF CopilotTypeOK, AsksWalled
    <3>2. talks'[asks[q].talk] # Nobody /\ talks'[asks[q].talk].owner = talks[asks[q].talk].owner
      BY <3>1
    <3>3. QED  BY <2>2, <3>2 DEF AskWalled, AsksWalled
  <2>3. QED  BY <2>1, <2>2
<1>3. \A q \in Asks : AskWalled(asks'[q], talks', documents)
  BY <1>1, <1>2
<1>4. QED  BY <1>3 DEF AsksWalled, AskWalled

LEMMA WallStep == WallInv /\ [CopilotNext]_copilotVars => WallInv'
<1> SUFFICES ASSUME CopilotTypeOK, RolesFit, Uploaded, AsksWalled, TalksWalled, [CopilotNext]_copilotVars
             PROVE  WallInv'
  BY DEF WallInv
<1>1. CASE UNCHANGED copilotVars
  BY <1>1 DEF copilotVars, WallInv, CopilotTypeOK, RolesFit, Uploaded, AsksWalled, TalksWalled
<1>2. ASSUME NEW d \in Documents, Ingest(d)  PROVE WallInv'
  <2>1. PICK document \in Document : documents' = [documents EXCEPT ![d] = document]
    BY <1>2 DEF Ingest
  <2>2. \A x \in Documents : documents[x] # Nobody => documents'[x] = documents[x]
    BY <1>2, <2>1 DEF Ingest, CopilotTypeOK
  <2>3. CopilotTypeOK'  BY <1>2, <2>1 DEF Ingest, CopilotTypeOK
  <2>4. Uploaded'  BY <1>2, <2>2 DEF Ingest, Uploaded, CopilotTypeOK
  <2>5. ASSUME NEW owner, NEW r, NEW chunks \in SUBSET Documents, Walled(owner, r, chunks, documents)
        PROVE  Walled(owner, r, chunks, documents')
    BY <2>2, <2>5 DEF Walled
  <2>6. AsksWalled'
    <3> SUFFICES ASSUME NEW p \in Asks, asks[p] # NoAsk
                 PROVE  /\ talks[asks[p].talk] # Nobody
                        /\ asks[p].role \in RolesOf(talks[asks[p].talk].owner)
                        /\ asks[p].op \in {"question", "answer"} =>
                             Walled(talks[asks[p].talk].owner, asks[p].role, asks[p].chunks, documents')
      BY <1>2 DEF Ingest, AsksWalled
    <3>1. asks[p] \in Asking \cup {NoAsk}  BY DEF CopilotTypeOK
    <3>2. QED  BY <2>5, <3>1, AskShape DEF AsksWalled
  <2>7. TalksWalled'
    <3> SUFFICES ASSUME NEW t \in Talks, talks[t] # Nobody, NEW i \in DOMAIN talks[t].messages
                 PROVE  Walled(talks[t].owner, talks[t].messages[i].asker, talks[t].messages[i].chunks, documents')
      BY <1>2 DEF Ingest, TalksWalled, TalkWalled
    <3>1. talks[t].messages \in Seq(Message)  BY DEF CopilotTypeOK, Talk
    <3>2. talks[t].messages[i].chunks \in SUBSET Documents
      <4> DEFINE msgs == talks[t].messages
      <4>1. msgs \in Seq(Message) /\ i \in DOMAIN msgs  BY <3>1
      <4> HIDE DEF msgs
      <4>2. msgs[i] \in Message  BY <4>1
      <4>3. QED  BY <4>2 DEF Message, msgs
    <3>3. QED  BY <2>5, <3>2 DEF TalksWalled, TalkWalled
  <2>8. RolesFit'  BY <1>2 DEF Ingest, RolesFit
  <2>9. QED  BY <2>3, <2>4, <2>6, <2>7, <2>8 DEF WallInv
<1>3. ASSUME NEW d \in Documents, Embed(d)  PROVE WallInv'
  <2>1. CopilotTypeOK' /\ Uploaded' /\ RolesFit'
    BY <1>3 DEF Embed, CopilotTypeOK, Uploaded, RolesFit
  <2>2. AsksWalled' /\ TalksWalled'
    BY <1>3 DEF Embed, AsksWalled, TalksWalled
  <2>3. QED  BY <2>1, <2>2 DEF WallInv
<1>4. ASSUME NEW u \in People, Assign(u) \/ LoadMe(u)  PROVE WallInv'
  <2>1. CopilotTypeOK' /\ RolesFit'
    <3>1. CASE Assign(u)
      <4>1. PICK r \in RolesOf(u) : role' = [role EXCEPT ![u] = r]  BY <3>1 DEF Assign
      <4>2. r \in Roles  BY DEF RolesOf, Roles
      <4>3. QED  BY <3>1, <4>1, <4>2 DEF Assign, CopilotTypeOK, RolesFit
    <3>2. CASE LoadMe(u)  BY <3>2 DEF LoadMe, CopilotTypeOK, RolesFit
    <3>3. QED  BY <1>4, <3>1, <3>2
  <2>2. Uploaded' /\ AsksWalled' /\ TalksWalled'
    BY <1>4 DEF Assign, LoadMe, Uploaded, AsksWalled, TalksWalled
  <2>3. QED  BY <2>1, <2>2 DEF WallInv
<1>5. ASSUME NEW p \in Asks, LoseAsk(p)  PROVE WallInv'
  <2>1. AskWalled(NoAsk, talks', documents)  BY DEF AskWalled
  <2>2. Proceed(p, NoAsk) /\ UNCHANGED <<role, shown, documents, embedded, talks>>
    BY <1>5 DEF LoseAsk
  <2>3. AsksWalled'  BY <2>1, <2>2, AsksStep
  <2>4. CopilotTypeOK'  BY <2>2, ProceedTyped DEF CopilotTypeOK
  <2>5. QED  BY <2>2, <2>3, <2>4 DEF WallInv, RolesFit, Uploaded, TalksWalled
<1>6. ASSUME NEW p \in Asks, NEW u \in People, BeginAsk(p, u)  PROVE WallInv'
  <2>1. PICK t \in Talks :
          /\ \/ /\ talks[t] = Nobody
                /\ talks' = [talks EXCEPT ![t] = [owner |-> u, messages |-> <<>>]]
             \/ talks[t] # Nobody /\ talks[t].owner = u /\ UNCHANGED talks
          /\ Proceed(p, [op |-> "retrieve", talk |-> t, role |-> role[u]])
    BY <1>6 DEF BeginAsk
  <2>2. [owner |-> u, messages |-> <<>>] \in Talk  BY DEF Talk
  <2>3. /\ talks' \in [Talks -> Talk \cup {Nobody}]
        /\ talks'[t] # Nobody /\ talks'[t].owner = u
        /\ \A x \in Talks : talks[x] # Nobody => talks'[x] # Nobody /\ talks'[x] = talks[x]
        /\ talks[t] = Nobody => talks'[t].messages = <<>>
        /\ \A x \in Talks \ {t} : talks'[x] = talks[x]
    BY <2>1, <2>2, NobodyAssumption DEF CopilotTypeOK
  <2>4. [op |-> "retrieve", talk |-> t, role |-> role[u]] \in Asking
    BY DEF Asking, CopilotTypeOK
  <2>5. AskWalled([op |-> "retrieve", talk |-> t, role |-> role[u]], talks', documents)
    BY <2>3 DEF AskWalled, RolesFit
  <2> DEFINE a == [op |-> "retrieve", talk |-> t, role |-> role[u]]
  <2>6. UNCHANGED <<role, shown, documents, embedded>>  BY <1>6 DEF BeginAsk
  <2>7. asks' \in [Asks -> Asking \cup {NoAsk}] /\ AsksWalled'
    <3>1. Proceed(p, a) /\ a \in Asking \cup {NoAsk} /\ AskWalled(a, talks', documents)
      BY <2>1, <2>4, <2>5
    <3> HIDE DEF a
    <3>2. QED  BY <2>3, <2>6, <3>1, AsksStep, ProceedTyped
  <2>8. CopilotTypeOK'  BY <2>3, <2>6, <2>7 DEF CopilotTypeOK
  <2>9. TalksWalled'
    <3>1. TalkWalled(talks'[t], documents)
      <4>1. CASE talks[t] = Nobody  BY <2>3, <4>1 DEF TalkWalled
      <4>2. CASE talks[t] # Nobody  BY <2>3, <4>2 DEF TalksWalled
      <4>3. QED  BY <4>1, <4>2
    <3>2. QED  BY <2>3, <2>6, <3>1 DEF TalksWalled
  <2>10. QED  BY <2>6, <2>7, <2>8, <2>9 DEF WallInv, RolesFit, Uploaded
<1>7. ASSUME NEW p \in Asks, Retrieve(p)  PROVE WallInv'
  <2> DEFINE a == asks[p]
             owner == talks[a.talk].owner
  <2>1. a \in Asking \cup {NoAsk} /\ a # NoAsk /\ a.talk \in Talks /\ a.role \in Roles
    BY <1>7, AskShape DEF Retrieve, CopilotTypeOK
  <2>2. talks[a.talk] # Nobody /\ a.role \in RolesOf(owner)
    BY <2>1 DEF AsksWalled
  <2>3. PICK set \in Nearest(Found(owner, AllowedCategories(a.role))) :
          Proceed(p, [op |-> "question", talk |-> a.talk, role |-> a.role, chunks |-> set])
    BY <1>7 DEF Retrieve
  <2>4. set \subseteq Found(owner, AllowedCategories(a.role))
    BY <2>3 DEF Nearest
  <2> DEFINE next == [op |-> "question", talk |-> a.talk, role |-> a.role, chunks |-> set]
  <2>5. set \subseteq Documents
    BY <2>4 DEF Found, CopilotTypeOK
  <2>6. next \in Asking
    <3> HIDE DEF a
    <3> QED  BY <2>1, <2>5 DEF Asking
  <2>7. Walled(owner, a.role, set, documents)
    <3> SUFFICES ASSUME NEW d \in set
                 PROVE  /\ documents[d] # Nobody /\ documents[d].tenant = TenantOf[owner]
                        /\ \/ documents[d].category \in Rulebooks
                           \/ HasRole(a.role, DepartmentOf[documents[d].category])
      BY DEF Walled
    <3>1. /\ d \in embedded /\ documents[d].category \in AllowedCategories(a.role)
          /\ documents[d].tenant = TenantOf[owner] /\ TenantOf[owner] # Nobody
      BY <2>4 DEF Found
    <3>2. a.role \in Roles \ {"MASTER_ADMIN"}
      BY <2>2, <3>1 DEF RolesOf
    <3>3. QED  BY <3>1, <3>2, AllowedWithin DEF Uploaded
  <2>8. AskWalled(next, talks, documents)
    <3>1. next.talk = a.talk /\ next.role = a.role /\ next.chunks = set  OBVIOUS
    <3> HIDE DEF next
    <3>2. QED  BY <2>2, <2>7, <3>1 DEF AskWalled
  <2>9. UNCHANGED <<role, shown, documents, embedded, talks>>  BY <1>7 DEF Retrieve
  <2>10. asks' \in [Asks -> Asking \cup {NoAsk}] /\ AsksWalled'
    <3>1. Proceed(p, next)  BY <2>3
    <3> HIDE DEF next
    <3>2. QED  BY <2>6, <2>8, <2>9, <3>1, AsksStep, ProceedTyped
  <2>11. CopilotTypeOK'  BY <2>9, <2>10 DEF CopilotTypeOK
  <2>12. QED  BY <2>9, <2>10, <2>11 DEF WallInv, RolesFit, Uploaded, TalksWalled
<1>8. ASSUME NEW p \in Asks, SaveQuestion(p) \/ SaveAnswer(p)  PROVE WallInv'
  <2> DEFINE a == asks[p]
             owner == talks[a.talk].owner
  <2>1. /\ a \in Asking \cup {NoAsk} /\ a # NoAsk /\ a.talk \in Talks /\ a.role \in Roles
        /\ a.op \in {"question", "answer"} /\ a.chunks \in SUBSET Documents
    BY <1>8, AskShape DEF SaveQuestion, SaveAnswer, CopilotTypeOK
  <2>2. /\ talks[a.talk] # Nobody /\ a.role \in RolesOf(owner)
        /\ Walled(owner, a.role, a.chunks, documents)
    BY <2>1 DEF AsksWalled
  <2>3. UNCHANGED <<role, shown, documents, embedded>>
    BY <1>8 DEF SaveQuestion, SaveAnswer
  <2>4. ASSUME NEW m \in Message, Say(a.talk, m), Walled(owner, m.asker, m.chunks, documents),
               NEW next \in Asking \cup {NoAsk}, Proceed(p, next), AskWalled(next, talks, documents),
               next # NoAsk => next.talk \in Talks
        PROVE  WallInv'
    <3> HIDE DEF a
    <3>1. /\ talks' \in [Talks -> Talk \cup {Nobody}]
          /\ \A x \in Talks : talks[x] # Nobody => talks'[x] # Nobody /\ talks'[x].owner = talks[x].owner
      BY <2>1, <2>2, <2>4, SayTyped
    <3>2. TalksWalled'
      BY <2>1, <2>2, <2>3, <2>4, SayWalled
    <3>3. AskWalled(next, talks', documents)
      BY <2>4, <3>1 DEF AskWalled
    <3>4. asks' \in [Asks -> Asking \cup {NoAsk}] /\ AsksWalled'
      BY <2>3, <2>4, <3>1, <3>3, AsksStep, ProceedTyped
    <3>5. CopilotTypeOK'  BY <2>3, <3>1, <3>4 DEF CopilotTypeOK
    <3>6. QED  BY <2>3, <3>2, <3>4, <3>5 DEF WallInv, RolesFit, Uploaded
  <2>5. CASE SaveQuestion(p)
    <3> DEFINE m == [from |-> "user", asker |-> a.role, chunks |-> {}]
               next == [op |-> "answer", talk |-> a.talk, role |-> a.role, chunks |-> a.chunks]
    <3>1. Say(a.talk, m) /\ Proceed(p, next)  BY <2>5 DEF SaveQuestion
    <3>2. m \in Message /\ m.chunks = {}
      <4> HIDE DEF a
      <4> QED  BY <2>1 DEF Message
    <3>3. next \in Asking /\ next.talk = a.talk /\ next.role = a.role /\ next.chunks = a.chunks
      <4> HIDE DEF a
      <4> QED  BY <2>1 DEF Asking
    <3> HIDE DEF m, next
    <3>4. Walled(owner, m.asker, m.chunks, documents)  BY <3>2 DEF Walled
    <3>5. AskWalled(next, talks, documents)  BY <2>2, <3>3 DEF AskWalled
    <3>6. QED  BY <2>1, <2>4, <3>1, <3>2, <3>3, <3>4, <3>5
  <2>6. CASE SaveAnswer(p)
    <3> DEFINE m == [from |-> "assistant", asker |-> a.role, chunks |-> a.chunks]
    <3>1. Say(a.talk, m) /\ Proceed(p, NoAsk)  BY <2>6 DEF SaveAnswer
    <3>2. m \in Message /\ m.asker = a.role /\ m.chunks = a.chunks
      <4> HIDE DEF a
      <4> QED  BY <2>1 DEF Message
    <3> HIDE DEF m
    <3>3. Walled(owner, m.asker, m.chunks, documents)  BY <2>2, <3>2
    <3>4. AskWalled(NoAsk, talks, documents)  BY DEF AskWalled
    <3>5. QED  BY <2>4, <3>1, <3>2, <3>3, <3>4
  <2>7. QED  BY <1>8, <2>5, <2>6
<1>9. QED
  BY <1>1, <1>2, <1>3, <1>4, <1>5, <1>6, <1>7, <1>8 DEF CopilotNext

(* WallHolds in every reachable state of the copilot: for any number of    *)
(* documents and requests, and however roles change between a question and *)
(* its answer, no answer is drawn from beyond its asker's wall.            *)
THEOREM WallAlwaysHolds == CopilotSpec => []WallHolds
<1>1. CopilotInit => WallInv
  <2> SUFFICES ASSUME CopilotInit PROVE WallInv
    OBVIOUS
  <2>1. CopilotTypeOK  BY DEF CopilotInit, CopilotTypeOK
  <2>2. QED
    BY <2>1 DEF CopilotInit, WallInv, RolesFit, Uploaded, AsksWalled, TalksWalled
<1>2. WallInv => WallHolds
  <2> SUFFICES ASSUME WallInv PROVE WallHolds
    OBVIOUS
  <2>1. AnswersWalled
    BY DEF WallInv, TalksWalled, TalkWalled, Walled, AnswersWalled
  <2>2. PagesServed
    BY PagesMatch DEF WallInv, CopilotTypeOK, PagesServed
  <2>3. QED  BY <2>1, <2>2 DEF WallHolds
<1>3. QED  BY <1>1, <1>2, WallStep, PTL DEF CopilotSpec

-----------------------------------------------------------------------------
(* Analysis: the mandatory checks *)

(* WarningsEarned and NothingMissed, of one breach and of one run's.       *)
BreachEarned(b, states) ==
  \E s \in states :
    /\ Purchased(s, b.supplier, b.code)
    /\ b.type = "MANDATORY_FOREIGN" <=> b.supplier \in ForeignSuppliers
    /\ b.type = "THRESHOLD" => \E t \in states : Below(s.score[b.supplier], t.minimum[b.code])

MissedOf(states, breaches) ==
  \E v \in Suppliers, c \in Codes :
    /\ \A s \in states : Purchased(s, v, c)
    /\ \/ v \in ForeignSuppliers
       \/ \A s, t \in states : Below(s.score[v], t.minimum[c])
    /\ \A b \in breaches : b.supplier # v \/ b.code # c

(* What an analysis holds, of the states it has seen, the present one      *)
(* among them.                                                             *)
WorkSound(a, seen, now) ==
  /\ a.op # "free" => a.run \in DOMAIN seen /\ now \in seen[a.run]
  /\ a.op = "lines" => \E t \in seen[a.run] : a.minimum = t.minimum
  /\ a.op = "warn" =>
       /\ \A b \in a.breaches : BreachEarned(b, seen[a.run])
       /\ ~MissedOf(seen[a.run], a.breaches)

WarningSound(w, seen, warned) ==
  /\ w.run \in DOMAIN seen
  /\ BreachEarned(w.breach, seen[w.run])
  /\ ~MissedOf(seen[w.run], {x.breach : x \in {x \in warned : x.run = w.run}})

AnalysisShape ==
  /\ rows \in RowsType
  /\ during \in Seq(SUBSET RowsType)
  /\ analysts = [p \in Analysts |-> analysts[p]]

AnalysisInv ==
  /\ AnalysisShape
  /\ \A p \in Analysts : WorkSound(analysts[p], during, rows)
  /\ \A w \in warnings : WarningSound(w, during, warnings)

(* More states earn more breaches, and fewer are missed among them and of  *)
(* more warnings.                                                          *)
LEMMA SoundGrows ==
  ASSUME NEW states, NEW later, states \subseteq later
  PROVE  /\ \A b : BreachEarned(b, states) => BreachEarned(b, later)
         /\ \A breaches, more : breaches \subseteq more /\ ~MissedOf(states, breaches) => ~MissedOf(later, more)
<1>1. \A b : BreachEarned(b, states) => BreachEarned(b, later)
  BY DEF BreachEarned
<1>2. \A breaches, more : breaches \subseteq more /\ MissedOf(later, more) => MissedOf(states, breaches)
  BY DEF MissedOf
<1>3. QED  BY <1>1, <1>2

LEMMA WorkGrows ==
  ASSUME NEW a, NEW seen, NEW now, NEW later, NEW then, WorkSound(a, seen, now),
         a.op # "free" => a.run \in DOMAIN later /\ seen[a.run] \subseteq later[a.run] /\ then \in later[a.run]
  PROVE  WorkSound(a, later, then)
<1>1. a.op # "free" => a.run \in DOMAIN later /\ then \in later[a.run]
  OBVIOUS
<1>2. a.op = "lines" => \E t \in later[a.run] : a.minimum = t.minimum
  BY DEF WorkSound
<1>3. ASSUME a.op = "warn"
      PROVE  /\ \A b \in a.breaches : BreachEarned(b, later[a.run])
             /\ ~MissedOf(later[a.run], a.breaches)
  <2>1. seen[a.run] \subseteq later[a.run]  BY <1>3
  <2>2. QED  BY <1>3, <2>1, SoundGrows DEF WorkSound
<1>4. QED  BY <1>1, <1>2, <1>3 DEF WorkSound

LEMMA WarningGrows ==
  ASSUME NEW w, NEW seen, NEW later, NEW warned, NEW more, WarningSound(w, seen, warned),
         w.run \in DOMAIN later, seen[w.run] \subseteq later[w.run], warned \subseteq more
  PROVE  WarningSound(w, later, more)
<1> DEFINE old == {x.breach : x \in {x \in warned : x.run = w.run}}
           new == {x.breach : x \in {x \in more : x.run = w.run}}
<1>1. old \subseteq new  OBVIOUS
<1>2. BreachEarned(w.breach, later[w.run])
  BY SoundGrows DEF WarningSound
<1>3. ~MissedOf(seen[w.run], old)  BY DEF WarningSound
<1>4. ~MissedOf(later[w.run], new)
  <2> HIDE DEF old, new
  <2> QED  BY <1>1, <1>3, SoundGrows
<1>5. QED  BY <1>2, <1>4 DEF WarningSound

LEMMA GoesTo ==
  ASSUME AnalysisShape, NEW p \in Analysts, NEW work, Goes(p, work)
  PROVE  /\ analysts' = [q \in Analysts |-> analysts'[q]]
         /\ \A q \in Analysts : analysts'[q] = IF q = p THEN work ELSE analysts[q]
  BY DEF AnalysisShape, Goes

(* The two queries of the checks, of states the run has seen, conclude     *)
(* what was earned and miss nothing.                                       *)
LEMMA SoundBreaches ==
  ASSUME NEW minimum, NEW states, rows \in states, \E t \in states : minimum = t.minimum
  PROVE  /\ \A b \in Breaches(minimum) : BreachEarned(b, states)
         /\ ~MissedOf(states, Breaches(minimum))
<1>1. PICK t \in states : minimum = t.minimum  OBVIOUS
<1>2. ASSUME NEW b \in Breaches(minimum)  PROVE BreachEarned(b, states)
  <2>1. Purchased(rows, b.supplier, b.code)  BY DEF Breaches, Purchased
  <2>2. CASE b.supplier \in ForeignSuppliers
    <3>1. b.type = "MANDATORY_FOREIGN"  BY <2>2 DEF Breaches
    <3>2. QED  BY <2>1, <2>2, <3>1 DEF BreachEarned
  <2>3. CASE b.supplier \notin ForeignSuppliers
    <3>1. b.type = "THRESHOLD" /\ Below(rows.score[b.supplier], minimum[b.code])
      BY <2>3 DEF Breaches
    <3>2. Below(rows.score[b.supplier], t.minimum[b.code])  BY <1>1, <3>1
    <3>3. QED  BY <2>1, <2>3, <3>1, <3>2 DEF BreachEarned
  <2>4. QED  BY <2>2, <2>3
<1>3. ASSUME MissedOf(states, Breaches(minimum))  PROVE FALSE
  <2>1. PICK v \in Suppliers, c \in Codes :
          /\ \A s \in states : Purchased(s, v, c)
          /\ \/ v \in ForeignSuppliers
             \/ \A s, u \in states : Below(s.score[v], u.minimum[c])
          /\ \A b \in Breaches(minimum) : b.supplier # v \/ b.code # c
    BY <1>3 DEF MissedOf
  <2>2. <<v, c>> \in rows.bought /\ c \in rows.mandatory
    BY <2>1 DEF Purchased
  <2>3. CASE v \in ForeignSuppliers
    <3> DEFINE b == [type |-> "MANDATORY_FOREIGN", code |-> c, supplier |-> v]
    <3>1. b \in Breach /\ b.supplier = v /\ b.code = c /\ b.type = "MANDATORY_FOREIGN"
      BY DEF Breach, Kinds
    <3> HIDE DEF b
    <3>2. b \in Breaches(minimum)  BY <2>2, <2>3, <3>1 DEF Breaches
    <3>3. QED  BY <2>1, <3>1, <3>2
  <2>4. CASE v \notin ForeignSuppliers
    <3> DEFINE b == [type |-> "THRESHOLD", code |-> c, supplier |-> v]
    <3>1. b \in Breach /\ b.supplier = v /\ b.code = c /\ b.type = "THRESHOLD"
      BY DEF Breach, Kinds
    <3> HIDE DEF b
    <3>2. Below(rows.score[v], t.minimum[c])  BY <2>1, <2>4
    <3>3. b \in Breaches(minimum)  BY <1>1, <2>2, <2>4, <3>1, <3>2 DEF Breaches
    <3>4. QED  BY <2>1, <3>1, <3>3
  <2>5. QED  BY <2>3, <2>4
<1>4. QED  BY <1>2, <1>3

(* A change of the rows is seen by every analysis that runs.               *)
LEMMA ChangeStep ==
  ASSUME AnalysisInv, rows' \in RowsType, Change
  PROVE  AnalysisInv'
<1>1. UNCHANGED <<warnings, answers, analysts>>  BY DEF Change
<1> DEFINE Seen(n) == IF n \in Running THEN during[n] \cup {rows'} ELSE during[n]
<1>2. /\ DOMAIN during' = DOMAIN during
      /\ \A n \in DOMAIN during : during'[n] = Seen(n)
  BY DEF Change
<1>3. during' \in Seq(SUBSET RowsType)
  <2>1. PICK k \in Nat : DOMAIN during = 1..k /\ during \in [1..k -> SUBSET RowsType]
    BY DEF AnalysisInv, AnalysisShape
  <2>2. \A n \in 1..k : Seen(n) \in SUBSET RowsType  BY <2>1
  <2>3. during' = [n \in 1..k |-> Seen(n)]  BY <2>1 DEF Change
  <2> HIDE DEF Seen
  <2>4. during' \in [1..k -> SUBSET RowsType]  BY <2>2, <2>3
  <2>5. QED  BY <2>1, <2>4
<1>4. \A n \in DOMAIN during : n \in DOMAIN during' /\ during[n] \subseteq during'[n]
  BY <1>2
<1>5. ASSUME NEW p \in Analysts  PROVE WorkSound(analysts[p], during', rows')
  <2>1. WorkSound(analysts[p], during, rows)  BY DEF AnalysisInv
  <2>2. ASSUME analysts[p].op # "free"
        PROVE  /\ analysts[p].run \in DOMAIN during' /\ during[analysts[p].run] \subseteq during'[analysts[p].run]
               /\ rows' \in during'[analysts[p].run]
    <3>1. analysts[p].run \in DOMAIN during  BY <2>1, <2>2 DEF WorkSound
    <3>2. analysts[p].run \in Running  BY <2>2 DEF Running
    <3>3. QED  BY <1>2, <1>4, <3>1, <3>2
  <2>3. QED  BY <2>1, <2>2, WorkGrows
<1>6. ASSUME NEW w \in warnings  PROVE WarningSound(w, during', warnings)
  <2>1. WarningSound(w, during, warnings)  BY DEF AnalysisInv
  <2>2. w.run \in DOMAIN during  BY <2>1 DEF WarningSound
  <2>3. w.run \in DOMAIN during' /\ during[w.run] \subseteq during'[w.run]  BY <1>4, <2>2
  <2>4. QED  BY <2>1, <2>3, WarningGrows
<1>7. AnalysisShape'  BY <1>1, <1>3 DEF AnalysisInv, AnalysisShape
<1>8. QED  BY <1>1, <1>5, <1>6, <1>7 DEF AnalysisInv

(* A step of a request, which leaves the rows as they are.                 *)
LEMMA RequestStep ==
  ASSUME AnalysisInv, NEW p \in Analysts, NEW work, Goes(p, work), UNCHANGED rows,
         \/ UNCHANGED during
         \/ during' = Append(during, {rows}),
         WorkSound(work, during', rows), UNCHANGED warnings
  PROVE  AnalysisInv'
<1>0. rows \in RowsType /\ during \in Seq(SUBSET RowsType)
  BY DEF AnalysisInv, AnalysisShape
<1>1. /\ during' \in Seq(SUBSET RowsType)
      /\ \A n \in DOMAIN during : n \in DOMAIN during' /\ during'[n] = during[n]
  <2>1. CASE UNCHANGED during  BY <1>0, <2>1
  <2>2. CASE during' = Append(during, {rows})
    <3>1. {rows} \in SUBSET RowsType  BY <1>0
    <3> DEFINE first == {rows}
    <3> HIDE DEF first
    <3>2. during' = Append(during, first) /\ first \in SUBSET RowsType  BY <2>2, <3>1 DEF first
    <3>3. QED  BY <1>0, <3>2
  <2>3. QED  BY <2>1, <2>2
<1>2. ASSUME NEW q \in Analysts  PROVE WorkSound(analysts'[q], during', rows)
  <2>1. CASE q = p  BY <2>1, GoesTo DEF AnalysisInv
  <2>2. CASE q # p
    <3>1. analysts'[q] = analysts[q]  BY <2>2, GoesTo DEF AnalysisInv
    <3>2. WorkSound(analysts[q], during, rows)  BY DEF AnalysisInv
    <3>3. analysts[q].op # "free" =>
            /\ analysts[q].run \in DOMAIN during'
            /\ during[analysts[q].run] \subseteq during'[analysts[q].run]
            /\ rows \in during'[analysts[q].run]
      BY <1>1, <3>2 DEF WorkSound
    <3>4. WorkSound(analysts[q], during', rows)  BY <3>2, <3>3, WorkGrows
    <3>5. QED  BY <3>1, <3>4
  <2>3. QED  BY <2>1, <2>2
<1>3. ASSUME NEW w \in warnings  PROVE WarningSound(w, during', warnings)
  <2>1. WarningSound(w, during, warnings)  BY DEF AnalysisInv
  <2>2. w.run \in DOMAIN during' /\ during[w.run] \subseteq during'[w.run]
    BY <1>1, <2>1 DEF WarningSound
  <2>3. QED  BY <2>1, <2>2, WarningGrows
<1>4. AnalysisShape'
  BY <1>0, <1>1, GoesTo DEF AnalysisInv, AnalysisShape
<1>5. QED  BY <1>2, <1>3, <1>4 DEF AnalysisInv

LEMMA NewRun ==
  ASSUME AnalysisShape
  PROVE  LET n == Len(during) + 1
             seen == Append(during, {rows})
         IN  n \in DOMAIN seen /\ rows \in seen[n]
<1> DEFINE first == {rows}
<1>1. rows \in first  OBVIOUS
<1> HIDE DEF first
<1>2. Len(during) + 1 \in DOMAIN Append(during, first) /\ Append(during, first)[Len(during) + 1] = first
  BY DEF AnalysisShape
<1>3. QED  BY <1>1, <1>2 DEF first

LEMMA RowsShape ==
  ASSUME NEW r \in RowsType
  PROVE  /\ \A x \in SUBSET (Suppliers \X Codes) : [r EXCEPT !.bought = x] \in RowsType
         /\ \A x \in [Suppliers -> Percents \cup {Unset}] : [r EXCEPT !.score = x] \in RowsType
         /\ \A x \in SUBSET Codes : [r EXCEPT !.mandatory = x] \in RowsType
         /\ \A x \in [Codes -> Percents \cup {Unset}] : [r EXCEPT !.minimum = x] \in RowsType
         /\ \A x \in [Accounts -> Account \cup {Unset}] : [r EXCEPT !.accounts = x] \in RowsType
         /\ \A x \in [Items -> CapexItem \cup {Unset}] : [r EXCEPT !.capex = x] \in RowsType
         /\ r.score \in [Suppliers -> Percents \cup {Unset}] /\ r.mandatory \in SUBSET Codes
         /\ r.minimum \in [Codes -> Percents \cup {Unset}]
         /\ r.accounts \in [Accounts -> Account \cup {Unset}] /\ r.capex \in [Items -> CapexItem \cup {Unset}]
  BY DEF RowsType

LEMMA AnalysisStep == AnalysisInv /\ [AnalysisNext]_analysisVars => AnalysisInv'
<1> SUFFICES ASSUME AnalysisInv, [AnalysisNext]_analysisVars
             PROVE  AnalysisInv'
  OBVIOUS
<1>0. AnalysisShape /\ rows \in RowsType  BY DEF AnalysisInv, AnalysisShape
<1> DEFINE n == Len(during) + 1
           seen == Append(during, {rows})
<1>1. n \in DOMAIN seen /\ rows \in seen[n]  BY <1>0, NewRun
<1>2. \A during2 : WorkSound(Free, during2, rows)  BY DEF Free, WorkSound
<1>3. CASE UNCHANGED analysisVars
  BY <1>3 DEF analysisVars, AnalysisInv, AnalysisShape
<1>4. ASSUME NEW p \in Analysts, BeginChecks(p)  PROVE AnalysisInv'
  <2> DEFINE work == [op |-> "lines", run |-> n, minimum |-> rows.minimum]
  <2>1. Goes(p, work) /\ during' = seen /\ UNCHANGED <<rows, warnings>>
    BY <1>4 DEF BeginChecks, BeginRun, NextRun
  <2>2. work.op = "lines" /\ work.run = n /\ work.minimum = rows.minimum  OBVIOUS
  <2> HIDE DEF work, seen, n
  <2>3. WorkSound(work, seen, rows)  BY <1>1, <2>2 DEF WorkSound
  <2>4. QED  BY <2>1, <2>3, RequestStep DEF seen
<1>5. ASSUME NEW p \in Analysts, BeginCeiling(p)  PROVE AnalysisInv'
  <2> DEFINE work == [op |-> "depreciation", run |-> n, ceiling |-> Ceiling]
  <2>1. Goes(p, work) /\ during' = seen /\ UNCHANGED <<rows, warnings>>
    BY <1>5 DEF BeginCeiling, BeginRun, NextRun
  <2>2. work.op = "depreciation" /\ work.run = n  OBVIOUS
  <2> HIDE DEF work, seen, n
  <2>3. WorkSound(work, seen, rows)  BY <1>1, <2>2 DEF WorkSound
  <2>4. QED  BY <2>1, <2>3, RequestStep DEF seen
<1>6. ASSUME NEW p \in Analysts, AnswerCapex(p)  PROVE AnalysisInv'
  <2>1. Goes(p, Free) /\ during' = seen /\ UNCHANGED <<rows, warnings>>
    BY <1>6 DEF AnswerCapex, BeginRun, NextRun
  <2>2. QED  BY <1>2, <2>1, RequestStep
<1>7. ASSUME NEW p \in Analysts, AnswerCeiling(p) \/ LoseRun(p)  PROVE AnalysisInv'
  <2>1. Goes(p, Free) /\ UNCHANGED <<rows, warnings, during>>
    BY <1>7 DEF AnswerCeiling, LoseRun
  <2>2. QED  BY <1>2, <2>1, RequestStep
<1>8. ASSUME NEW p \in Analysts, ReadLines(p)  PROVE AnalysisInv'
  <2> DEFINE a == analysts[p]
             work == [op |-> "warn", run |-> a.run, breaches |-> Breaches(a.minimum)]
  <2>1. a.op = "lines" /\ Goes(p, work) /\ UNCHANGED <<rows, warnings, during>>
    BY <1>8 DEF ReadLines
  <2>2. /\ a.run \in DOMAIN during /\ rows \in during[a.run]
        /\ \E t \in during[a.run] : a.minimum = t.minimum
    BY <2>1 DEF AnalysisInv, WorkSound
  <2>3. work.op = "warn" /\ work.run = a.run /\ work.breaches = Breaches(a.minimum)  OBVIOUS
  <2> HIDE DEF work, a
  <2>4. /\ \A b \in Breaches(a.minimum) : BreachEarned(b, during[a.run])
        /\ ~MissedOf(during[a.run], Breaches(a.minimum))
    BY <2>2, SoundBreaches
  <2>5. WorkSound(work, during, rows)  BY <2>2, <2>3, <2>4 DEF WorkSound
  <2>6. QED  BY <2>1, <2>5, RequestStep
<1>9. ASSUME NEW p \in Analysts, RaiseWarnings(p)  PROVE AnalysisInv'
  <2> DEFINE a == analysts[p]
             raised == {[run |-> a.run, breach |-> b] : b \in a.breaches}
  <2>1. /\ a.op = "warn" /\ warnings' = warnings \cup raised
        /\ Goes(p, Free) /\ UNCHANGED <<rows, during>>
    BY <1>9 DEF RaiseWarnings
  <2>2. /\ a.run \in DOMAIN during
        /\ \A b \in a.breaches : BreachEarned(b, during[a.run])
        /\ ~MissedOf(during[a.run], a.breaches)
    BY <2>1 DEF AnalysisInv, WorkSound
  <2>3. ASSUME NEW w \in raised  PROVE WarningSound(w, during, warnings')
    <3> DEFINE of == {x.breach : x \in {x \in warnings' : x.run = w.run}}
    <3>1. w.run = a.run /\ w.breach \in a.breaches  OBVIOUS
    <3>2. \A b \in a.breaches : b \in of
      <4> TAKE b \in a.breaches
      <4> DEFINE x == [run |-> a.run, breach |-> b]
      <4>1. x \in warnings' /\ x.run = w.run /\ x.breach = b  BY <2>1, <3>1
      <4> HIDE DEF x
      <4>2. QED  BY <4>1
    <3>3. a.breaches \subseteq of
      <4> HIDE DEF of
      <4> QED  BY <3>2
    <3>4. ~MissedOf(during[a.run], of)
      <4> HIDE DEF of
      <4> QED  BY <2>2, <3>3, SoundGrows
    <3>5. QED  BY <2>2, <3>1, <3>4 DEF WarningSound
  <2>4. ASSUME NEW w \in warnings  PROVE WarningSound(w, during, warnings')
    <3>1. WarningSound(w, during, warnings) /\ warnings \subseteq warnings'
      BY <2>1 DEF AnalysisInv
    <3>2. w.run \in DOMAIN during  BY <3>1 DEF WarningSound
    <3>3. QED  BY <3>1, <3>2, WarningGrows
  <2>5. \A q \in Analysts : WorkSound(analysts'[q], during, rows)
    BY <1>0, <1>2, <2>1, GoesTo DEF AnalysisInv
  <2>6. AnalysisShape'
    BY <1>0, <2>1, GoesTo DEF AnalysisShape
  <2>7. \A w \in warnings' : WarningSound(w, during, warnings')
    <3> HIDE DEF raised
    <3> QED  BY <2>1, <2>3, <2>4
  <2>8. QED  BY <2>1, <2>5, <2>6, <2>7 DEF AnalysisInv
<1>10. ASSUME \/ ImportLine
              \/ \E v \in Suppliers : ScoreVendor(v)
              \/ \E c \in Codes : SeedCommodity(c) \/ SeedThreshold(c)
              \/ \E a \in Accounts : MapAccount(a)
              \/ \E i \in Items : SaveItem(i)
       PROVE  AnalysisInv'
  <2>1. rows' \in RowsType /\ Change
    <3>1. CASE ImportLine  BY <1>0, <3>1, RowsShape DEF ImportLine
    <3>2. ASSUME NEW v \in Suppliers, ScoreVendor(v)  PROVE rows' \in RowsType /\ Change
      <4>1. PICK s \in Percents \cup {Unset} : rows' = [rows EXCEPT !.score = [rows.score EXCEPT ![v] = s]]
        BY <3>2 DEF ScoreVendor
      <4>2. [rows.score EXCEPT ![v] = s] \in [Suppliers -> Percents \cup {Unset}]
        BY <1>0, RowsShape
      <4>3. QED  BY <1>0, <3>2, <4>1, <4>2, RowsShape DEF ScoreVendor
    <3>3. ASSUME NEW c \in Codes, SeedCommodity(c)  PROVE rows' \in RowsType /\ Change
      <4>1. rows.mandatory \cup {c} \in SUBSET Codes  BY <1>0, RowsShape
      <4>2. QED  BY <1>0, <3>3, <4>1, RowsShape DEF SeedCommodity
    <3>4. ASSUME NEW c \in Codes, SeedThreshold(c)  PROVE rows' \in RowsType /\ Change
      <4>1. PICK s \in Percents : rows' = [rows EXCEPT !.minimum = [rows.minimum EXCEPT ![c] = s]]
        BY <3>4 DEF SeedThreshold
      <4>2. [rows.minimum EXCEPT ![c] = s] \in [Codes -> Percents \cup {Unset}]
        BY <1>0, RowsShape
      <4>3. QED  BY <1>0, <3>4, <4>1, <4>2, RowsShape DEF SeedThreshold
    <3>5. ASSUME NEW a \in Accounts, MapAccount(a)  PROVE rows' \in RowsType /\ Change
      <4>1. PICK row \in Account \cup {Unset} : rows' = [rows EXCEPT !.accounts = [rows.accounts EXCEPT ![a] = row]]
        BY <3>5 DEF MapAccount
      <4>2. [rows.accounts EXCEPT ![a] = row] \in [Accounts -> Account \cup {Unset}]
        BY <1>0, RowsShape
      <4>3. QED  BY <1>0, <3>5, <4>1, <4>2, RowsShape DEF MapAccount
    <3>6. ASSUME NEW i \in Items, SaveItem(i)  PROVE rows' \in RowsType /\ Change
      <4>1. PICK row \in CapexItem \cup {Unset} : rows' = [rows EXCEPT !.capex = [rows.capex EXCEPT ![i] = row]]
        BY <3>6 DEF SaveItem
      <4>2. [rows.capex EXCEPT ![i] = row] \in [Items -> CapexItem \cup {Unset}]
        BY <1>0, RowsShape
      <4>3. QED  BY <1>0, <3>6, <4>1, <4>2, RowsShape DEF SaveItem
    <3>7. QED  BY <1>10, <3>1, <3>2, <3>3, <3>4, <3>5, <3>6
  <2>2. QED  BY <2>1, ChangeStep
<1>11. QED
  BY <1>3, <1>4, <1>5, <1>6, <1>7, <1>8, <1>9, <1>10 DEF AnalysisNext, Analyse

LEMMA AnalysisStarts == AnalysisInit => AnalysisInv
<1> SUFFICES ASSUME AnalysisInit PROVE AnalysisInv
  OBVIOUS
<1>1. NewYear \in RowsType  BY DEF NewYear, RowsType
<1>2. <<>> \in Seq(SUBSET RowsType)  OBVIOUS
<1>3. \A p \in Analysts : WorkSound(analysts[p], during, rows)
  BY DEF AnalysisInit, WorkSound, Free
<1>4. QED  BY <1>1, <1>2, <1>3 DEF AnalysisInit, AnalysisInv, AnalysisShape

(* ChecksSound in every reachable state: for any vendors, products, rules  *)
(* and number of runs, whatever changes between a run's queries, what it   *)
(* warns of was so, and what was so throughout it warns of.                *)
THEOREM ChecksAlwaysSound == AnalysisSpec => []ChecksSound
<1>1. AnalysisInit => AnalysisInv  BY AnalysisStarts
<1>2. AnalysisInv => ChecksSound
  <2> SUFFICES ASSUME AnalysisInv PROVE ChecksSound
    OBVIOUS
  <2>1. WarningsEarned
    BY DEF AnalysisInv, WarningSound, BreachEarned, WarningsEarned
  <2>2. NothingMissed
    <3>1. \A k, breaches : Missed(k, breaches) <=> MissedOf(during[k], breaches)
      BY DEF Missed, MissedOf
    <3>2. ASSUME NEW p \in Analysts, analysts[p].op = "warn"
          PROVE  ~Missed(analysts[p].run, analysts[p].breaches)
      BY <3>1, <3>2 DEF AnalysisInv, WorkSound
    <3>3. ASSUME NEW w \in warnings
          PROVE  ~Missed(w.run, {x.breach : x \in {x \in warnings : x.run = w.run}})
      <4> DEFINE of == {x.breach : x \in {x \in warnings : x.run = w.run}}
      <4>1. ~MissedOf(during[w.run], of)  BY DEF AnalysisInv, WarningSound
      <4> HIDE DEF of
      <4>2. ~Missed(w.run, of)  BY <3>1, <4>1
      <4>3. QED  BY <4>2 DEF of
    <3>4. QED  BY <3>2, <3>3 DEF NothingMissed
  <2>3. QED  BY <2>1, <2>2 DEF ChecksSound
<1>3. QED  BY <1>1, <1>2, AnalysisStep, PTL DEF AnalysisSpec

-----------------------------------------------------------------------------
(* Analysis: the figures answered *)

CeilingIn(s) ==
  Weighed(s.accounts, [i \in Present(s.accounts) |->
                         IF s.accounts[i].category = "EXEMPT" THEN -1 ELSE 1])

DepreciationIn(t) ==
  Weighed(t.accounts, [i \in Present(t.accounts) |->
                         IF t.accounts[i].category = "DEPRECIATION" THEN 1 ELSE 0])

NotLocalIn(s) ==
  Weighed(s.capex, [i \in Present(s.capex) |-> IF s.capex[i].origin = "LOCAL" THEN 0 ELSE 1])

(* Rows that count once, less those that are taken off, are a weighted sum.*)
LEMMA WeighedIs ==
  ASSUME NEW table, IsFiniteSet(DOMAIN table),
         \A i \in Present(table) : table[i].amount \in Int,
         NEW weight, NEW P \in SUBSET Present(table), NEW N \in SUBSET Present(table),
         \A i \in Present(table) : weight[i] = (IF i \in P THEN 1 ELSE 0) - (IF i \in N THEN 1 ELSE 0)
  PROVE  Weighed(table, weight) = Total(table, P) - Total(table, N)
<1> DEFINE S == Present(table)
           a == [i \in S |-> table[i].amount]
           w == [i \in S |-> weight[i] * table[i].amount]
           v == [i \in S |-> [amount |-> weight[i] * table[i].amount]]
<1>1. S \subseteq DOMAIN table  BY DEF Present
<1>2. IsFiniteSet(S)  BY <1>1, FS_Subset, Zenon
<1>3. a \in [S -> Int]  OBVIOUS
<1>4. ASSUME NEW i \in S
      PROVE  /\ w[i] = (IF i \in P THEN a[i] ELSE 0) - (IF i \in N THEN a[i] ELSE 0)
             /\ w[i] \in Int /\ v[i].amount = w[i]
  <2>1. PICK x \in Int : x = table[i].amount  OBVIOUS
  <2>2. PICK k \in {-1, 0, 1} : k = weight[i]  OBVIOUS
  <2>3. w[i] = k * x /\ a[i] = x /\ v[i].amount = w[i]  BY <2>1, <2>2
  <2>4. k = (IF i \in P THEN 1 ELSE 0) - (IF i \in N THEN 1 ELSE 0)  BY <2>2
  <2>5. QED  BY <2>1, <2>2, <2>3, <2>4
<1>5. w \in [S -> Int]  BY <1>4
<1>6. Weighed(table, weight) = Total(v, S)  BY Zenon DEF Weighed
<1>7. P \in SUBSET S /\ N \in SUBSET S /\ S \in SUBSET S  OBVIOUS
<1>8. \A i \in S : table[i].amount = a[i] /\ v[i].amount = w[i]  BY <1>4
<1> HIDE DEF S, a, w, v
<1>9. Total(v, S) = SumOf(w)[S]  BY <1>2, <1>5, <1>7, <1>8, TotalIs
<1>10. SumOf(w)[S] = SumOf(a)[S \cap P] - SumOf(a)[S \cap N]
  <2>1. Splits(S, w, a, P, N)  BY <1>4 DEF Splits
  <2>2. \A u \in SUBSET S : SumOf(w)[u] = SumOf(a)[u \cap P] - SumOf(a)[u \cap N]
    BY <1>2, <1>3, <1>5, <2>1, SumSplits
  <2>3. QED  BY <1>7, <2>2
<1>11. S \cap P = P /\ S \cap N = N  BY <1>7
<1>12. Total(table, P) = SumOf(a)[P]  BY <1>2, <1>3, <1>7, <1>8, TotalIs
<1>13. Total(table, N) = SumOf(a)[N]  BY <1>2, <1>3, <1>7, <1>8, TotalIs
<1>14. QED  BY <1>6, <1>9, <1>10, <1>11, <1>12, <1>13

LEMMA NothingTotals ==
  ASSUME NEW table
  PROVE  Total(table, {}) = 0
<1> DEFINE none == [i \in {} |-> 0]
<1>1. none \in [{} -> Int] /\ IsFiniteSet({})  BY FS_EmptySet
<1>2. {} \in SUBSET {} /\ \A i \in {} : table[i].amount = none[i]  OBVIOUS
<1> HIDE DEF none
<1>3. Total(table, {}) = SumOf(none)[{}]  BY <1>1, <1>2, TotalIs
<1>4. SumOf(none)[{}] = 0  BY <1>1, SumIs DEF SumLaws
<1>5. QED  BY <1>3, <1>4

(* What the code adds up is what the rows weigh.                           *)
LEMMA FiguresEarned ==
  ASSUME rows \in RowsType
  PROVE  /\ Ceiling = CeilingIn(rows)
         /\ Total(rows.accounts, Mapped("DEPRECIATION")) = DepreciationIn(rows)
         /\ LET present == {i \in Items : rows.capex[i] # Unset}
            IN  Total(rows.capex, present)
                  - Total(rows.capex, {i \in present : rows.capex[i].origin = "LOCAL"}) = NotLocalIn(rows)
<1> DEFINE accounts == rows.accounts
           capex == rows.capex
           base == Mapped("BASE") \cup Mapped("DEPRECIATION")
           exempt == Mapped("EXEMPT")
           worn == Mapped("DEPRECIATION")
           present == {i \in Items : rows.capex[i] # Unset}
           local == {i \in present : rows.capex[i].origin = "LOCAL"}
<1>1. accounts \in [Accounts -> Account \cup {Unset}] /\ capex \in [Items -> CapexItem \cup {Unset}]
  BY DEF RowsType
<1>2. IsFiniteSet(DOMAIN accounts) /\ IsFiniteSet(DOMAIN capex)
  BY <1>1, AnalysisAssumption
<1>3. \A i \in Present(accounts) : /\ accounts[i].amount \in Int
                                   /\ accounts[i].category \in {"BASE", "DEPRECIATION", "EXEMPT"}
  BY <1>1, AnalysisAssumption DEF Present, Account
<1>4. /\ \A i \in Present(capex) : capex[i].amount \in Int
      /\ present = Present(capex)
  BY <1>1, AnalysisAssumption DEF Present, CapexItem
<1>5. /\ base = {i \in Present(accounts) : accounts[i].category \in {"BASE", "DEPRECIATION"}}
      /\ exempt = {i \in Present(accounts) : accounts[i].category = "EXEMPT"}
      /\ worn = {i \in Present(accounts) : accounts[i].category = "DEPRECIATION"}
  BY <1>1 DEF Present, Mapped
<1>6. Ceiling = CeilingIn(rows)
  <2> DEFINE weight == [i \in Present(accounts) |-> IF accounts[i].category = "EXEMPT" THEN -1 ELSE 1]
  <2>1. \A i \in Present(accounts) : weight[i] = (IF i \in base THEN 1 ELSE 0) - (IF i \in exempt THEN 1 ELSE 0)
    BY <1>3, <1>5
  <2>2. base \in SUBSET Present(accounts) /\ exempt \in SUBSET Present(accounts)  BY <1>5
  <2>3. CeilingIn(rows) = Weighed(accounts, weight)  BY Zenon DEF CeilingIn
  <2>4. Ceiling = Total(accounts, base) - Total(accounts, exempt)  BY Zenon DEF Ceiling
  <2> HIDE DEF weight, accounts, base, exempt
  <2>5. Weighed(accounts, weight) = Total(accounts, base) - Total(accounts, exempt)
    BY <1>2, <1>3, <2>1, <2>2, WeighedIs
  <2>6. QED  BY <2>3, <2>4, <2>5
<1>7. Total(accounts, worn) = DepreciationIn(rows)
  <2> DEFINE weight == [i \in Present(accounts) |-> IF accounts[i].category = "DEPRECIATION" THEN 1 ELSE 0]
             none == {}
  <2>1. \A i \in Present(accounts) : weight[i] = (IF i \in worn THEN 1 ELSE 0) - (IF i \in none THEN 1 ELSE 0)
    BY <1>5
  <2>2. worn \in SUBSET Present(accounts) /\ none \in SUBSET Present(accounts)  BY <1>5
  <2>3. DepreciationIn(rows) = Weighed(accounts, weight)  BY Zenon DEF DepreciationIn
  <2>4. Total(accounts, none) = 0  BY NothingTotals
  <2>5. Total(accounts, worn) \in Int
    <3> DEFINE a == [i \in Present(accounts) |-> accounts[i].amount]
    <3>1. a \in [Present(accounts) -> Int] /\ \A i \in worn : accounts[i].amount = a[i]  BY <1>3, <2>2
    <3>2. Present(accounts) \subseteq DOMAIN accounts  BY DEF Present
    <3>3. IsFiniteSet(Present(accounts))  BY <1>2, <3>2, FS_Subset, Zenon
    <3> HIDE DEF a, accounts, worn
    <3>4. Total(accounts, worn) = SumOf(a)[worn]  BY <2>2, <3>1, <3>3, TotalIs
    <3>5. SumOf(a) \in [SUBSET Present(accounts) -> Int]  BY <3>1, <3>3, SumIs DEF SumLaws
    <3>6. QED  BY <2>2, <3>4, <3>5
  <2> HIDE DEF weight, accounts, worn, none
  <2>6. Weighed(accounts, weight) = Total(accounts, worn) - Total(accounts, none)
    BY <1>2, <1>3, <2>1, <2>2, WeighedIs
  <2>7. QED  BY <2>3, <2>4, <2>5, <2>6
<1>8. Total(capex, present) - Total(capex, local) = NotLocalIn(rows)
  <2> DEFINE weight == [i \in Present(capex) |-> IF capex[i].origin = "LOCAL" THEN 0 ELSE 1]
  <2>1. \A i \in Present(capex) : weight[i] = (IF i \in present THEN 1 ELSE 0) - (IF i \in local THEN 1 ELSE 0)
    BY <1>4
  <2>2. present \in SUBSET Present(capex) /\ local \in SUBSET Present(capex)  BY <1>4
  <2>3. NotLocalIn(rows) = Weighed(capex, weight)  BY Zenon DEF NotLocalIn
  <2> HIDE DEF weight, capex, present, local
  <2>4. Weighed(capex, weight) = Total(capex, present) - Total(capex, local)
    BY <1>2, <1>4, <2>1, <2>2, WeighedIs
  <2>5. QED  BY <2>3, <2>4
<1>9. QED  BY <1>6, <1>7, <1>8

(* A ceiling that waits for the depreciation is one the rows had, and so   *)
(* is every figure answered.                                               *)
CeilingHeld(a, seen) ==
  a.op = "depreciation" => \E s \in seen[a.run] : a.ceiling = CeilingIn(s)

AnswerSound(a, seen) ==
  /\ a.run \in DOMAIN seen
  /\ \E s, t \in seen[a.run] :
       IF a.of = "ceiling"
       THEN a.whole = CeilingIn(s) /\ a.part = DepreciationIn(t)
       ELSE s = t /\ a.whole - a.part = NotLocalIn(s)

AnswersInv ==
  /\ AnalysisInv
  /\ \A p \in Analysts : CeilingHeld(analysts[p], during)
  /\ \A a \in answers : AnswerSound(a, during)

(* What an analysis has seen it has seen for good.                         *)
LEMMA SeenGrows ==
  ASSUME AnalysisShape, [AnalysisNext]_analysisVars
  PROVE  \A n \in DOMAIN during : n \in DOMAIN during' /\ during[n] \subseteq during'[n]
<1>1. CASE UNCHANGED during
  BY <1>1
<1>2. CASE during' = Append(during, {rows})
  <2> DEFINE first == {rows}
  <2> HIDE DEF first
  <2>1. during' = Append(during, first)  BY <1>2 DEF first
  <2>2. QED  BY <2>1 DEF AnalysisShape
<1>3. CASE Change
  <2>1. /\ DOMAIN during' = DOMAIN during
        /\ \A n \in DOMAIN during : during'[n] = IF n \in Running THEN during[n] \cup {rows'} ELSE during[n]
    BY <1>3 DEF Change
  <2>2. QED  BY <2>1
<1>4. QED
  BY <1>1, <1>2, <1>3
  DEF AnalysisNext, analysisVars, Analyse, BeginChecks, BeginCeiling, AnswerCapex, BeginRun,
      ReadLines, RaiseWarnings, AnswerCeiling, LoseRun,
      ImportLine, ScoreVendor, SeedCommodity, SeedThreshold, MapAccount, SaveItem

(* A step that keeps the answers and the work, or leaves nothing to be     *)
(* kept of it.                                                             *)
LEMMA AnswersKept ==
  ASSUME AnswersInv, AnalysisInv',
         \A n \in DOMAIN during : n \in DOMAIN during' /\ during[n] \subseteq during'[n],
         \A p \in Analysts : analysts'[p] = analysts[p] \/ CeilingHeld(analysts'[p], during'),
         \A a \in answers' : a \in answers \/ AnswerSound(a, during')
  PROVE  AnswersInv'
<1>1. ASSUME NEW p \in Analysts  PROVE CeilingHeld(analysts'[p], during')
  <2>1. CASE analysts'[p] = analysts[p] /\ analysts[p].op = "depreciation"
    <3>1. analysts[p].run \in DOMAIN during  BY <2>1 DEF AnswersInv, AnalysisInv, WorkSound
    <3>2. \E s \in during[analysts[p].run] : analysts[p].ceiling = CeilingIn(s)
      BY <2>1 DEF AnswersInv, CeilingHeld
    <3>3. QED  BY <2>1, <3>1, <3>2 DEF CeilingHeld
  <2>2. CASE analysts'[p] = analysts[p] /\ analysts[p].op # "depreciation"
    BY <2>2 DEF CeilingHeld
  <2>3. QED  BY <2>1, <2>2
<1>2. ASSUME NEW a \in answers'  PROVE AnswerSound(a, during')
  <2>1. CASE a \in answers
    <3>1. AnswerSound(a, during)  BY <2>1 DEF AnswersInv
    <3>2. a.run \in DOMAIN during' /\ during[a.run] \subseteq during'[a.run]
      BY <3>1 DEF AnswerSound
    <3>3. QED  BY <3>1, <3>2 DEF AnswerSound
  <2>2. QED  BY <2>1, <1>2
<1>3. QED  BY <1>1, <1>2 DEF AnswersInv

LEMMA AnswersStep == AnswersInv /\ [AnalysisNext]_analysisVars => AnswersInv'
<1> SUFFICES ASSUME AnswersInv, [AnalysisNext]_analysisVars
             PROVE  AnswersInv'
  OBVIOUS
<1>1. AnalysisInv /\ AnalysisShape /\ rows \in RowsType
  BY DEF AnswersInv, AnalysisInv, AnalysisShape
<1>2. AnalysisInv'  BY <1>1, AnalysisStep
<1>3. \A k \in DOMAIN during : k \in DOMAIN during' /\ during[k] \subseteq during'[k]
  BY <1>1, SeenGrows
<1> DEFINE n == Len(during) + 1
           seen == Append(during, {rows})
<1>4. n \in DOMAIN seen /\ rows \in seen[n]  BY <1>1, NewRun
<1>5. CASE UNCHANGED <<answers, analysts>>
  BY <1>2, <1>3, <1>5, AnswersKept
<1>6. ASSUME NEW p \in Analysts, UNCHANGED answers,
             NEW work, Goes(p, work), CeilingHeld(work, during')
      PROVE  AnswersInv'
  <2>1. \A q \in Analysts : analysts'[q] = IF q = p THEN work ELSE analysts[q]
    BY <1>1, <1>6, GoesTo
  <2>2. QED  BY <1>2, <1>3, <1>6, <2>1, AnswersKept
<1>7. ASSUME NEW p \in Analysts,
             \/ BeginChecks(p) \/ ReadLines(p) \/ RaiseWarnings(p) \/ LoseRun(p)
      PROVE  AnswersInv'
  <2>1. UNCHANGED answers /\ \E work : Goes(p, work) /\ work.op # "depreciation"
    BY <1>7 DEF BeginChecks, BeginRun, ReadLines, RaiseWarnings, LoseRun, Free
  <2>2. QED  BY <1>6, <2>1 DEF CeilingHeld
<1>8. ASSUME NEW p \in Analysts, BeginCeiling(p)  PROVE AnswersInv'
  <2> DEFINE work == [op |-> "depreciation", run |-> n, ceiling |-> Ceiling]
  <2>1. Goes(p, work) /\ during' = seen /\ UNCHANGED answers
    BY <1>8 DEF BeginCeiling, BeginRun, NextRun
  <2>2. work.op = "depreciation" /\ work.run = n /\ work.ceiling = Ceiling  OBVIOUS
  <2> HIDE DEF work, seen, n
  <2>3. CeilingHeld(work, seen)  BY <1>1, <1>4, <2>2, FiguresEarned DEF CeilingHeld
  <2>4. QED  BY <1>6, <2>1, <2>3
<1>9. ASSUME NEW p \in Analysts, AnswerCeiling(p)  PROVE AnswersInv'
  <2> DEFINE a == analysts[p]
             answer == [run |-> a.run, of |-> "ceiling", whole |-> a.ceiling,
                        part |-> Total(rows.accounts, Mapped("DEPRECIATION"))]
  <2>1. /\ a.op = "depreciation" /\ answers' = answers \cup {answer}
        /\ Goes(p, Free) /\ UNCHANGED during
    BY <1>9 DEF AnswerCeiling
  <2>2. /\ a.run \in DOMAIN during /\ rows \in during[a.run]
        /\ \E s \in during[a.run] : a.ceiling = CeilingIn(s)
    BY <2>1 DEF AnswersInv, AnalysisInv, WorkSound, CeilingHeld
  <2>3. /\ answer.run = a.run /\ answer.of = "ceiling" /\ answer.whole = a.ceiling
        /\ answer.part = DepreciationIn(rows)
    BY <1>1, FiguresEarned
  <2> HIDE DEF a, answer
  <2>4. AnswerSound(answer, during)  BY <2>2, <2>3 DEF AnswerSound
  <2>5. \A q \in Analysts : analysts'[q] = IF q = p THEN Free ELSE analysts[q]
    BY <1>1, <2>1, GoesTo
  <2>6. CeilingHeld(Free, during')  BY DEF CeilingHeld, Free
  <2>7. QED  BY <1>2, <1>3, <2>1, <2>4, <2>5, <2>6, AnswersKept
<1>10. ASSUME NEW p \in Analysts, AnswerCapex(p)  PROVE AnswersInv'
  <2> DEFINE present == {i \in Items : rows.capex[i] # Unset}
             whole == Total(rows.capex, present)
             part == Total(rows.capex, {i \in present : rows.capex[i].origin = "LOCAL"})
             answer == [run |-> n, of |-> "capex", whole |-> whole, part |-> part]
  <2>1. /\ answers' = answers \cup {answer}
        /\ Goes(p, Free) /\ during' = seen
    BY <1>10 DEF AnswerCapex, BeginRun, NextRun
  <2>2. whole - part = NotLocalIn(rows)  BY <1>1, FiguresEarned
  <2> HIDE DEF whole, part
  <2>3. /\ answer.run = n /\ answer.of # "ceiling"
        /\ answer.whole - answer.part = NotLocalIn(rows)
    BY <2>2
  <2> HIDE DEF answer, seen, n
  <2>4. AnswerSound(answer, seen)  BY <1>4, <2>3 DEF AnswerSound
  <2>5. \A q \in Analysts : analysts'[q] = IF q = p THEN Free ELSE analysts[q]
    BY <1>1, <2>1, GoesTo
  <2>6. CeilingHeld(Free, during')  BY DEF CeilingHeld, Free
  <2>7. QED  BY <1>2, <1>3, <2>1, <2>4, <2>5, <2>6, AnswersKept
<1>11. CASE UNCHANGED analysisVars
  BY <1>5, <1>11 DEF analysisVars
<1>12. CASE \/ ImportLine
            \/ \E v \in Suppliers : ScoreVendor(v)
            \/ \E c \in Codes : SeedCommodity(c) \/ SeedThreshold(c)
            \/ \E a \in Accounts : MapAccount(a)
            \/ \E i \in Items : SaveItem(i)
  BY <1>5, <1>12
  DEF ImportLine, ScoreVendor, SeedCommodity, SeedThreshold, MapAccount, SaveItem, Change
<1>13. QED
  BY <1>7, <1>8, <1>9, <1>10, <1>11, <1>12 DEF AnalysisNext, Analyse

(* AnswersEarned in every reachable state: of any trial balance and any    *)
(* list of items, however their rows change between the queries of a       *)
(* request, the figures it answers are sums the rows had meanwhile.        *)
THEOREM AnswersAlwaysEarned == AnalysisSpec => []AnswersEarned
<1>1. AnalysisInit => AnswersInv
  <2>1. AnalysisInit => AnalysisInv  BY AnalysisStarts
  <2>2. AnalysisInit => \A p \in Analysts : CeilingHeld(analysts[p], during)
    BY DEF AnalysisInit, CeilingHeld, Free
  <2>3. QED  BY <2>1, <2>2 DEF AnalysisInit, AnswersInv
<1>2. AnswersInv => AnswersEarned
  BY Zenon DEF AnswersInv, AnswerSound, AnswersEarned, CeilingIn, DepreciationIn, NotLocalIn
<1>3. QED  BY <1>1, <1>2, AnswersStep, PTL DEF AnalysisSpec
==============================================================================
