-------------------------- MODULE OnboardingProofs --------------------------
(***************************************************************************)
(* Theorems about Onboarding, for any number of tenants, of companies'     *)
(* registrations and of requests at once.                                  *)
(***************************************************************************)
EXTENDS Onboarding, FiniteSetTheorems, TLAPS

Served == workers = [w \in Workers |-> workers[w]]

(* A step of a request leaves the others where they are.                   *)
LEMMA GoMoves ==
  ASSUME Served, NEW w \in Workers, NEW work, Go(w, work)
  PROVE  /\ Served'
         /\ workers'[w] = work
         /\ \A v \in Workers \ {w} : workers'[v] = workers[v]
  BY DEF Served, Go

(* A request that is answered, with success or without.                    *)
LEMMA AnswerMoves ==
  ASSUME Served, NEW w \in Workers, NEW user, NEW asked, NEW of,
         Succeed(w, user, asked, of) \/ Fail(w, user, asked, of)
  PROVE  /\ Served'
         /\ \A v \in Workers \ {w} : workers'[v] = workers[v]
         /\ workers'[w].op = "answer"
  <1>1. PICK n : Go(w, Answer(user, asked, of, n))
    BY DEF Succeed, Fail
  <1>2. workers'[w] = Answer(user, asked, of, n)
    BY <1>1, GoMoves
  <1>3. workers'[w].op = "answer"
    BY <1>2 DEF Answer
  <1>. QED
    BY <1>1, <1>3, GoMoves

-----------------------------------------------------------------------------
(* A step, as far as the tokens see it *)

(* What a request does next is not a ghost's token.                        *)
Plain(w) ==
  /\ Served' /\ \A v \in Workers \ {w} : workers'[v] = workers[v]
  /\ workers'[w].op # "ghost"

Starts(w) ==
  /\ Served' /\ \A v \in Workers \ {w} : workers'[v] = workers[v]
  /\ UNCHANGED issued
  /\ workers[w].op = "idle" /\ workers'[w].op = "ghost" /\ workers'[w].tenant \in Tenants
  /\ sessions' = [sessions EXCEPT ![workers'[w].tenant] = @ + 1]

Issues(w) ==
  /\ Plain(w) /\ workers[w].op = "ghost" /\ UNCHANGED sessions
  /\ issued' = [issued EXCEPT ![workers[w].tenant] = @ + 1]

LEMMA StepShape ==
  ASSUME Served, NEW w \in Workers, Step(w)
  PROVE  \/ Plain(w) /\ UNCHANGED <<sessions, issued>>
         \/ Starts(w)
         \/ Issues(w)
  <1>1. ASSUME NEW user, NEW asked, NEW of, Succeed(w, user, asked, of) \/ Fail(w, user, asked, of)
        PROVE  Plain(w)
    BY <1>1, AnswerMoves DEF Plain
  <1>2. ASSUME NEW work, Go(w, work), work.op # "ghost" PROVE Plain(w)
    BY <1>2, GoMoves DEF Plain
  <1>3. CASE Use(w)
    BY <1>1, <1>3 DEF Use
  <1>4. CASE Audit(w) \/ Die(w)
    BY <1>2, <1>4 DEF Audit, Die, Idle
  <1>5. CASE Provision(w)
    BY <1>2, <1>5 DEF Provision
  <1>6. CASE Insert(w)
    BY <1>1, <1>2, <1>6 DEF Insert
  <1>7. CASE Commit(w) \/ SoftHold(w)
    BY <1>1, <1>7 DEF Commit, SoftHold
  <1>8. CASE StartGhost(w)
    <2>1. PICK t \in Tenants :
            \/ /\ sessions' = [sessions EXCEPT ![t] = @ + 1]
               /\ Go(w, [op |-> "ghost", tenant |-> t])
            \/ Fail(w, Admin, "ghost", t) /\ UNCHANGED sessions
      BY <1>8 DEF StartGhost
    <2>2. workers[w].op = "idle" /\ UNCHANGED issued
      BY <1>8 DEF StartGhost, Idle
    <2>3. CASE Fail(w, Admin, "ghost", t) /\ UNCHANGED sessions
      BY <1>1, <2>2, <2>3
    <2>4. ASSUME sessions' = [sessions EXCEPT ![t] = @ + 1], Go(w, [op |-> "ghost", tenant |-> t])
          PROVE  Starts(w)
      <3>1. workers'[w].op = "ghost" /\ workers'[w].tenant = t
        BY <2>4, GoMoves
      <3>. QED
        BY <2>2, <2>4, <3>1, GoMoves DEF Starts
    <2>. QED
      BY <2>1, <2>3, <2>4
  <1>9. CASE IssueToken(w)
    BY <1>1, <1>9 DEF IssueToken, Issues
  <1>. QED
    BY <1>3, <1>4, <1>5, <1>6, <1>7, <1>8, <1>9 DEF Step

-----------------------------------------------------------------------------
(* The ghost logins *)

Ghosts(t) == {w \in Workers : workers[w].op = "ghost" /\ workers[w].tenant = t}

(* A session on record stands for a token handed out, or one to come, or   *)
(* one that died before it was handed out.                                 *)
GhostInv ==
  /\ Served
  /\ sessions \in [Tenants -> Nat] /\ issued \in [Tenants -> Nat]
  /\ \A w \in Workers : workers[w].op = "ghost" => workers[w].tenant \in Tenants
  /\ \A t \in Tenants : issued[t] + Cardinality(Ghosts(t)) <= sessions[t]

LEMMA GhostsFinite ==
  ASSUME NEW t
  PROVE  IsFiniteSet(Ghosts(t)) /\ Cardinality(Ghosts(t)) \in Nat
  <1>1. IsFiniteSet(Workers)
    BY OnboardingAssumption
  <1>2. Ghosts(t) \subseteq Workers
    BY DEF Ghosts
  <1>. QED
    BY <1>1, <1>2, FS_Subset, FS_CardinalityType

LEMMA StepGhost == GhostInv /\ [Next]_vars => GhostInv'
  <1>. SUFFICES ASSUME GhostInv, [Next]_vars PROVE GhostInv'
    OBVIOUS
  <1>s. Served
    BY DEF GhostInv
  <1>a. ASSUME NEW w \in Workers, Plain(w), UNCHANGED <<sessions, issued>> PROVE GhostInv'
    <2>1. ASSUME NEW t \in Tenants PROVE Cardinality(Ghosts(t)') <= Cardinality(Ghosts(t))
      <3>1. Ghosts(t)' \subseteq Ghosts(t)
        BY <1>a DEF Plain, Ghosts
      <3>. QED
        BY <3>1, GhostsFinite, FS_Subset
    <2>2. ASSUME NEW t \in Tenants PROVE issued'[t] + Cardinality(Ghosts(t)') <= sessions'[t]
      <3>1. Cardinality(Ghosts(t)') \in Nat
        <4>1. Ghosts(t)' \subseteq Workers
          BY DEF Ghosts
        <4>. QED
          BY <4>1, OnboardingAssumption, FS_Subset, FS_CardinalityType
      <3>. QED
        BY <1>a, <2>1, <3>1, GhostsFinite DEF GhostInv
    <2>3. \A v \in Workers : workers'[v].op = "ghost" => workers'[v].tenant \in Tenants
      BY <1>a DEF Plain, GhostInv
    <2>. QED
      BY <1>a, <2>2, <2>3 DEF Plain, GhostInv
  <1>b. ASSUME NEW w \in Workers, Starts(w) PROVE GhostInv'
    <2>. DEFINE s == workers'[w].tenant
    <2>1. s \in Tenants /\ sessions' = [sessions EXCEPT ![s] = @ + 1] /\ issued' = issued
      BY <1>b DEF Starts
    <2>2. ASSUME NEW t \in Tenants PROVE issued'[t] + Cardinality(Ghosts(t)') <= sessions'[t]
      <3>1. CASE t = s
        <4>1. Ghosts(t)' = Ghosts(t) \cup {w} /\ w \notin Ghosts(t)
          BY <1>b, <3>1 DEF Starts, Ghosts
        <4>2. Cardinality(Ghosts(t)') = Cardinality(Ghosts(t)) + 1
          BY <4>1, GhostsFinite, FS_AddElement
        <4>. QED
          BY <2>1, <3>1, <4>2, GhostsFinite DEF GhostInv
      <3>2. CASE t # s
        <4>1. Ghosts(t)' = Ghosts(t)
          BY <1>b, <3>2 DEF Starts, Ghosts
        <4>. QED
          BY <2>1, <3>2, <4>1 DEF GhostInv
      <3>. QED
        BY <3>1, <3>2
    <2>3. \A v \in Workers : workers'[v].op = "ghost" => workers'[v].tenant \in Tenants
      BY <1>b DEF Starts, GhostInv
    <2>. QED
      BY <1>b, <2>1, <2>2, <2>3 DEF Starts, GhostInv
  <1>c. ASSUME NEW w \in Workers, Issues(w) PROVE GhostInv'
    <2>. DEFINE s == workers[w].tenant
    <2>1. s \in Tenants /\ issued' = [issued EXCEPT ![s] = @ + 1] /\ sessions' = sessions
      BY <1>c DEF Issues, GhostInv
    <2>2. ASSUME NEW t \in Tenants PROVE issued'[t] + Cardinality(Ghosts(t)') <= sessions'[t]
      <3>1. CASE t = s
        <4>1. Ghosts(t)' = Ghosts(t) \ {w} /\ w \in Ghosts(t)
          BY <1>c, <3>1 DEF Issues, Plain, Ghosts
        <4>2. Cardinality(Ghosts(t)') = Cardinality(Ghosts(t)) - 1
          BY <4>1, GhostsFinite, FS_RemoveElement
        <4>. QED
          BY <2>1, <3>1, <4>2, GhostsFinite DEF GhostInv
      <3>2. CASE t # s
        <4>1. Ghosts(t)' = Ghosts(t)
          BY <1>c, <3>2 DEF Issues, Plain, Ghosts
        <4>. QED
          BY <2>1, <3>2, <4>1 DEF GhostInv
      <3>. QED
        BY <3>1, <3>2
    <2>3. \A v \in Workers : workers'[v].op = "ghost" => workers'[v].tenant \in Tenants
      BY <1>c DEF Issues, Plain, GhostInv
    <2>. QED
      BY <1>c, <2>1, <2>2, <2>3 DEF Issues, Plain, GhostInv
  <1>1. ASSUME NEW w \in Workers, Step(w) PROVE GhostInv'
    BY <1>1, <1>a, <1>b, <1>c, <1>s, StepShape
  <1>2. CASE EnableRls
    BY <1>2 DEF EnableRls, GhostInv, Served, Ghosts
  <1>3. CASE UNCHANGED vars
    BY <1>3 DEF vars, GhostInv, Served, Ghosts
  <1>. QED
    BY <1>1, <1>2, <1>3 DEF Next

(* No ghost token is without its session on record, however many ghost     *)
(* logins start at once and die between the record and the token           *)
(* (provisioning.py:101-125).                                              *)
THEOREM GhostsOnRecord == Spec => []GhostsRecorded
  <1>1. Init => GhostInv
    <2>. SUFFICES ASSUME Init PROVE GhostInv
      OBVIOUS
    <2>1. Served /\ \A w \in Workers : workers[w].op # "ghost"
      BY DEF Init, Idle, Served
    <2>2. sessions = [t \in Tenants |-> 0] /\ issued = [t \in Tenants |-> 0]
      BY DEF Init
    <2>3. ASSUME NEW t \in Tenants PROVE Cardinality(Ghosts(t)) = 0
      <3>1. Ghosts(t) = {}
        BY <2>1 DEF Ghosts
      <3>. QED
        BY <3>1, FS_EmptySet
    <2>4. \A t \in Tenants : issued[t] + Cardinality(Ghosts(t)) <= sessions[t]
      BY <2>2, <2>3
    <2>. QED
      BY <2>1, <2>2, <2>4 DEF GhostInv
  <1>2. GhostInv => GhostsRecorded
    BY GhostsFinite DEF GhostInv, GhostsRecorded
  <1>. QED
    BY <1>1, <1>2, StepGhost, PTL DEF Spec

-----------------------------------------------------------------------------
(* The wizard: its rows, whatever their order *)

RowsOf(list) == {list[i] : i \in DOMAIN list}

WizardRows(t, cr, branches, years, email) ==
       {TenantRow(t), Branch(t, cr, TRUE)}
  \cup {Branch(t, b, FALSE) : b \in RowsOf(branches)}
  \cup {Year(t, y) : y \in RowsOf(years)}
  \cup {Subscription(t, RowsOf(years)), SuperAdmin(t, email)}

LEMMA ConcatRows ==
  ASSUME NEW S, NEW a \in Seq(S), NEW b \in Seq(S)
  PROVE  a \o b \in Seq(S) /\ RowsOf(a \o b) = RowsOf(a) \cup RowsOf(b)
  <1>1. a \o b \in Seq(S)
    OBVIOUS
  <1>2. DOMAIN (a \o b) = 1 .. Len(a) + Len(b) /\ DOMAIN a = 1 .. Len(a) /\ DOMAIN b = 1 .. Len(b)
    OBVIOUS
  <1>3. \A i \in DOMAIN a : i \in DOMAIN (a \o b) /\ (a \o b)[i] = a[i]
    OBVIOUS
  <1>4. \A i \in DOMAIN b : Len(a) + i \in DOMAIN (a \o b) /\ (a \o b)[Len(a) + i] = b[i]
    OBVIOUS
  <1>5. \A i \in DOMAIN (a \o b) : (a \o b)[i] \in RowsOf(a) \cup RowsOf(b)
    <2>. SUFFICES ASSUME NEW i \in DOMAIN (a \o b) PROVE (a \o b)[i] \in RowsOf(a) \cup RowsOf(b)
      OBVIOUS
    <2>1. CASE i \in DOMAIN a
      BY <1>3, <2>1 DEF RowsOf
    <2>2. CASE i \notin DOMAIN a
      <3>1. i - Len(a) \in DOMAIN b /\ Len(a) + (i - Len(a)) = i
        BY <1>2, <2>2
      <3>2. (a \o b)[i] = b[i - Len(a)]
        BY <1>4, <3>1
      <3>. QED
        BY <3>1, <3>2 DEF RowsOf
    <2>. QED
      BY <2>1, <2>2
  <1>6. \A x \in RowsOf(a) \cup RowsOf(b) : x \in RowsOf(a \o b)
    <2>. SUFFICES ASSUME NEW x \in RowsOf(a) \cup RowsOf(b) PROVE x \in RowsOf(a \o b)
      OBVIOUS
    <2>1. CASE x \in RowsOf(a)
      <3>1. PICK i \in DOMAIN a : x = a[i]
        BY <2>1 DEF RowsOf
      <3>. QED
        BY <1>3, <3>1 DEF RowsOf
    <2>2. CASE x \in RowsOf(b)
      <3>1. PICK i \in DOMAIN b : x = b[i]
        BY <2>2 DEF RowsOf
      <3>. QED
        BY <1>4, <3>1 DEF RowsOf
    <2>. QED
      BY <2>1, <2>2
  <1>7. \A x \in RowsOf(a \o b) : x \in RowsOf(a) \cup RowsOf(b)
    <2>. SUFFICES ASSUME NEW x \in RowsOf(a \o b) PROVE x \in RowsOf(a) \cup RowsOf(b)
      OBVIOUS
    <2>1. PICK i \in DOMAIN (a \o b) : x = (a \o b)[i]
      BY DEF RowsOf
    <2>. QED
      BY <1>5, <2>1
  <1>. QED
    BY <1>1, <1>6, <1>7

LEMMA TailRows ==
  ASSUME NEW S, NEW a \in Seq(S), a # <<>>
  PROVE  /\ Head(a) \in S /\ Tail(a) \in Seq(S)
         /\ RowsOf(a) = {Head(a)} \cup RowsOf(Tail(a))
  <1>1. Head(a) \in S /\ Tail(a) \in Seq(S) /\ Head(a) = a[1] /\ 1 \in DOMAIN a
    OBVIOUS
  <1>2. \A i \in DOMAIN Tail(a) : i + 1 \in DOMAIN a /\ Tail(a)[i] = a[i + 1]
    OBVIOUS
  <1>3. \A i \in DOMAIN a : i # 1 => i - 1 \in DOMAIN Tail(a) /\ Tail(a)[i - 1] = a[i]
    OBVIOUS
  <1>4. \A x \in RowsOf(a) : x \in {Head(a)} \cup RowsOf(Tail(a))
    <2>. SUFFICES ASSUME NEW i \in DOMAIN a PROVE a[i] \in {Head(a)} \cup RowsOf(Tail(a))
      BY DEF RowsOf
    <2>. QED
      BY <1>1, <1>3 DEF RowsOf
  <1>5. \A x \in {Head(a)} \cup RowsOf(Tail(a)) : x \in RowsOf(a)
    <2>1. Head(a) \in RowsOf(a)
      BY <1>1 DEF RowsOf
    <2>2. ASSUME NEW i \in DOMAIN Tail(a) PROVE Tail(a)[i] \in RowsOf(a)
      BY <1>2 DEF RowsOf
    <2>. QED
      BY <2>1, <2>2 DEF RowsOf
  <1>. QED
    BY <1>1, <1>4, <1>5

(* Any list of rows made from another's members.                           *)
LEMMA MappedRows ==
  ASSUME NEW S, NEW list \in Seq(S), NEW made, made = [i \in DOMAIN list |-> made[i]],
         \A i \in DOMAIN list : made[i] \in Rows
  PROVE  made \in Seq(Rows)
  <1>1. DOMAIN list = 1 .. Len(list) /\ Len(list) \in Nat
    OBVIOUS
  <1>2. made \in [1 .. Len(list) -> Rows]
    BY <1>1
  <1>. QED
    BY <1>1, <1>2

LEMMA RowTyped ==
  ASSUME NEW t \in Tenants
  PROVE  /\ TenantRow(t) \in Rows
         /\ \A cr \in CRs, main \in BOOLEAN : Branch(t, cr, main) \in Rows
         /\ \A y \in Years : Year(t, y) \in Rows
         /\ \A ys \in SUBSET Years : Subscription(t, ys) \in Rows
         /\ \A e \in Emails : SuperAdmin(t, e) \in Rows
  <1>1. TenantRow(t) \in {TenantRow(s) : s \in Tenants}
    OBVIOUS
  <1>2. ASSUME NEW cr \in CRs, NEW main \in BOOLEAN
        PROVE  Branch(t, cr, main) \in {Branch(s, c, m) : s \in Tenants, c \in CRs, m \in BOOLEAN}
    OBVIOUS
  <1>3. ASSUME NEW y \in Years PROVE Year(t, y) \in {Year(s, x) : s \in Tenants, x \in Years}
    OBVIOUS
  <1>4. ASSUME NEW ys \in SUBSET Years
        PROVE  Subscription(t, ys) \in {Subscription(s, x) : s \in Tenants, x \in SUBSET Years}
    OBVIOUS
  <1>5. ASSUME NEW e \in Emails PROVE SuperAdmin(t, e) \in {SuperAdmin(s, x) : s \in Tenants, x \in Emails}
    OBVIOUS
  <1>. QED
    BY <1>1, <1>2, <1>3, <1>4, <1>5 DEF Rows

LEMMA EmptyRows == RowsOf(<<>>) = {}
  BY DEF RowsOf

LEMMA WizardMakes ==
  ASSUME NEW t \in Tenants, NEW cr \in CRs, NEW branches \in BranchLists, NEW years \in YearLists,
         NEW e \in Emails
  PROVE  /\ Wizard(t, cr, branches, years, e) \in Seq(Rows)
         /\ RowsOf(Wizard(t, cr, branches, years, e)) = WizardRows(t, cr, branches, years, e)
         /\ WizardRows(t, cr, branches, years, e) \subseteq Rows
  <1>. DEFINE first == <<TenantRow(t), Branch(t, cr, TRUE)>>
              plain == [i \in DOMAIN branches |-> Branch(t, branches[i], FALSE)]
              paid  == [i \in DOMAIN years |-> Year(t, years[i])]
              last  == <<Subscription(t, RowsOf(years)), SuperAdmin(t, e)>>
  <1>1. branches \in Seq(CRs) /\ years \in Seq(Years)
    BY OnboardingAssumption
  <1>2. Wizard(t, cr, branches, years, e) = first \o plain \o paid \o last
    BY DEF Wizard, Mapped, RowsOf
  <1>3. RowsOf(branches) \subseteq CRs /\ RowsOf(years) \subseteq Years
    BY <1>1 DEF RowsOf
  <1>t. TRUE \in BOOLEAN /\ FALSE \in BOOLEAN
    OBVIOUS
  <1>4. first \in Seq(Rows) /\ RowsOf(first) = {TenantRow(t), Branch(t, cr, TRUE)}
    <2>. DEFINE a == TenantRow(t)
                b == Branch(t, cr, TRUE)
    <2>1. a \in Rows /\ b \in Rows
      BY <1>t, RowTyped, Zenon
    <2>. HIDE DEF a, b
    <2>2. <<a, b>> \in Seq(Rows) /\ RowsOf(<<a, b>>) = {a, b}
      BY <2>1 DEF RowsOf
    <2>. QED
      BY <2>2 DEF a, b
  <1>5. last \in Seq(Rows) /\ RowsOf(last) = {Subscription(t, RowsOf(years)), SuperAdmin(t, e)}
    <2>. DEFINE a == Subscription(t, RowsOf(years))
                b == SuperAdmin(t, e)
    <2>1. a \in Rows /\ b \in Rows
      BY <1>3, RowTyped
    <2>. HIDE DEF a, b
    <2>2. <<a, b>> \in Seq(Rows) /\ RowsOf(<<a, b>>) = {a, b}
      BY <2>1 DEF RowsOf
    <2>. QED
      BY <2>2 DEF a, b
  <1>6. plain \in Seq(Rows) /\ RowsOf(plain) = {Branch(t, b, FALSE) : b \in RowsOf(branches)}
    <2>1. \A i \in DOMAIN branches : branches[i] \in CRs
      BY <1>1
    <2>2. \A i \in DOMAIN branches : Branch(t, branches[i], FALSE) \in Rows
      BY <1>t, <2>1, RowTyped, Zenon
    <2>3. plain = [i \in DOMAIN branches |-> plain[i]] /\ \A i \in DOMAIN branches : plain[i] \in Rows
      BY <2>2
    <2>4. RowsOf(plain) = {Branch(t, b, FALSE) : b \in RowsOf(branches)}
      BY Zenon DEF RowsOf
    <2>. HIDE DEF plain
    <2>5. plain \in Seq(Rows)
      BY <1>1, <2>3, MappedRows
    <2>. QED
      BY <2>4, <2>5
  <1>7. paid \in Seq(Rows) /\ RowsOf(paid) = {Year(t, y) : y \in RowsOf(years)}
    <2>1. \A i \in DOMAIN years : years[i] \in Years
      BY <1>1
    <2>2. \A i \in DOMAIN years : Year(t, years[i]) \in Rows
      BY <2>1, RowTyped
    <2>3. paid = [i \in DOMAIN years |-> paid[i]] /\ \A i \in DOMAIN years : paid[i] \in Rows
      BY <2>2
    <2>4. RowsOf(paid) = {Year(t, y) : y \in RowsOf(years)}
      BY Zenon DEF RowsOf
    <2>. HIDE DEF paid
    <2>5. paid \in Seq(Rows)
      BY <1>1, <2>3, MappedRows
    <2>. QED
      BY <2>4, <2>5
  <1>. HIDE DEF first, plain, paid, last
  <1>8. first \o plain \in Seq(Rows) /\ RowsOf(first \o plain) = RowsOf(first) \cup RowsOf(plain)
    BY <1>4, <1>6, ConcatRows
  <1>. DEFINE two == first \o plain
  <1>9. two \o paid \in Seq(Rows) /\ RowsOf(two \o paid) = RowsOf(first) \cup RowsOf(plain) \cup RowsOf(paid)
    <2>1. two \in Seq(Rows) /\ RowsOf(two) = RowsOf(first) \cup RowsOf(plain)
      BY <1>8
    <2>. HIDE DEF two
    <2>. QED
      BY <1>7, <2>1, ConcatRows
  <1>. DEFINE three == two \o paid
  <1>10. /\ three \o last \in Seq(Rows)
         /\ RowsOf(three \o last) = RowsOf(first) \cup RowsOf(plain) \cup RowsOf(paid) \cup RowsOf(last)
    <2>1. three \in Seq(Rows) /\ RowsOf(three) = RowsOf(first) \cup RowsOf(plain) \cup RowsOf(paid)
      BY <1>9
    <2>. HIDE DEF three
    <2>. QED
      BY <1>5, <2>1, ConcatRows
  <1>11. RowsOf(Wizard(t, cr, branches, years, e)) = WizardRows(t, cr, branches, years, e)
    BY <1>2, <1>4, <1>5, <1>6, <1>7, <1>10 DEF WizardRows
  <1>12. WizardRows(t, cr, branches, years, e) \subseteq Rows
    <2>. DEFINE list == Wizard(t, cr, branches, years, e)
    <2>1. list \in Seq(Rows)
      BY <1>2, <1>10
    <2>. HIDE DEF list
    <2>2. RowsOf(list) \subseteq Rows
      BY <2>1 DEF RowsOf
    <2>. QED
      BY <2>2, <1>11 DEF list
  <1>. QED
    BY <1>2, <1>10, <1>11, <1>12

-----------------------------------------------------------------------------
(* What a tenant's rows come to *)

CompanyIn(rows) ==
  LET Of(table) == {row \in rows : row.table = table}
      KeysOf(some) == {row.key : row \in some}
  IN [owners |-> KeysOf(Of("user")),
      main   |-> KeysOf({row \in Of("branch") : row.main}),
      crs    |-> KeysOf(Of("branch")),
      years  |-> KeysOf(Of("year")),
      paid   |-> UNION KeysOf(Of("subscription"))]

Of(t, rows) == {row \in rows : row.tenant = t}

LEMMA CompanyOfIn ==
  /\ \A t \in Tenants : CompanyOf(t) = IF TenantRow(t) \notin db THEN None ELSE CompanyIn(Of(t, db))
  /\ \A t \in Tenants : CompanyOf(t)' = IF TenantRow(t) \notin db' THEN None ELSE CompanyIn(Of(t, db'))
  <1>1. ASSUME NEW t, NEW rows
        PROVE  LET Mine(table) == {row \in rows : row.table = table /\ row.tenant = t}
                   KeysOf(some) == {row.key : row \in some}
               IN CompanyIn(Of(t, rows)) =
                    [owners |-> KeysOf(Mine("user")),
                     main   |-> KeysOf({row \in Mine("branch") : row.main}),
                     crs    |-> KeysOf(Mine("branch")),
                     years  |-> KeysOf(Mine("year")),
                     paid   |-> UNION KeysOf(Mine("subscription"))]
    <2>1. \A table : {row \in Of(t, rows) : row.table = table} = {row \in rows : row.table = table /\ row.tenant = t}
      BY DEF Of
    <2>. QED
      BY <2>1, Zenon DEF CompanyIn
  <1>2. \A t \in Tenants : CompanyOf(t) = IF TenantRow(t) \notin db THEN None ELSE CompanyIn(Of(t, db))
    BY <1>1, Zenon DEF CompanyOf
  <1>3. \A t \in Tenants : CompanyOf(t)' = IF TenantRow(t) \notin db' THEN None ELSE CompanyIn(Of(t, db'))
    BY <1>1, Zenon DEF CompanyOf
  <1>. QED
    BY <1>2, <1>3

LEMMA RowFields ==
  ASSUME NEW row \in Rows
  PROVE  /\ row.tenant \in Tenants
         /\ row.table = "tenant" => row = TenantRow(row.tenant)
         /\ row.table = "user" => row.key \in Emails
         /\ row.table = "branch" => row.key \in CRs
         /\ row.table = "year" => row.key \in Years
         /\ row.table = "subscription" => row.key \in SUBSET Years
  <1>1. CASE \E t \in Tenants : row = TenantRow(t)
    BY <1>1 DEF TenantRow
  <1>2. CASE \E t \in Tenants, cr \in CRs, main \in BOOLEAN : row = Branch(t, cr, main)
    BY <1>2 DEF Branch
  <1>3. CASE \E t \in Tenants, y \in Years : row = Year(t, y)
    BY <1>3 DEF Year
  <1>4. CASE \E t \in Tenants, ys \in SUBSET Years : row = Subscription(t, ys)
    BY <1>4 DEF Subscription
  <1>5. CASE \E t \in Tenants, e \in Emails : row = SuperAdmin(t, e)
    BY <1>5 DEF SuperAdmin
  <1>6. \/ \E t \in Tenants : row = TenantRow(t)
        \/ \E t \in Tenants, cr \in CRs, main \in BOOLEAN : row = Branch(t, cr, main)
        \/ \E t \in Tenants, y \in Years : row = Year(t, y)
        \/ \E t \in Tenants, ys \in SUBSET Years : row = Subscription(t, ys)
        \/ \E t \in Tenants, e \in Emails : row = SuperAdmin(t, e)
    BY DEF Rows
  <1>. QED
    BY <1>1, <1>2, <1>3, <1>4, <1>5, <1>6

LEMMA CompanyTyped ==
  ASSUME NEW rows \in SUBSET Rows
  PROVE  CompanyIn(rows) \in Company /\ CompanyIn(rows) # None
  <1>1. {row.key : row \in {row \in rows : row.table = "user"}} \subseteq Emails
    BY RowFields
  <1>2. {row.key : row \in {row \in rows : row.table = "branch"}} \subseteq CRs
    BY RowFields
  <1>3. {row.key : row \in {row \in {row \in rows : row.table = "branch"} : row.main}} \subseteq CRs
    BY RowFields
  <1>4. {row.key : row \in {row \in rows : row.table = "year"}} \subseteq Years
    BY RowFields
  <1>5. UNION {row.key : row \in {row \in rows : row.table = "subscription"}} \subseteq Years
    <2>1. \A row \in {row \in rows : row.table = "subscription"} : row.key \subseteq Years
      BY RowFields
    <2>. QED
      BY <2>1
  <1>. QED
    BY <1>1, <1>2, <1>3, <1>4, <1>5, NoneAssumption DEF CompanyIn, Company

(* A wizard's rows come to a whole company.                                *)
LEMMA WizardWhole ==
  ASSUME NEW t \in Tenants, NEW cr \in CRs, NEW branches \in BranchLists, NEW years \in YearLists,
         NEW e \in Emails
  PROVE  LET c == CompanyIn(WizardRows(t, cr, branches, years, e))
         IN c.owners = {e} /\ c.main = {cr} /\ c.main \subseteq c.crs /\ c.years # {} /\ c.paid = c.years
  <1>. DEFINE all == WizardRows(t, cr, branches, years, e)
              owner == SuperAdmin(t, e)
              main == Branch(t, cr, TRUE)
              plan == Subscription(t, RowsOf(years))
  <1>1. owner.table = "user" /\ owner.key = e
    BY DEF SuperAdmin
  <1>2. main.table = "branch" /\ main.key = cr /\ main.main = TRUE
    BY DEF Branch
  <1>3. \A b : Branch(t, b, FALSE).table = "branch" /\ Branch(t, b, FALSE).main = FALSE
    BY DEF Branch
  <1>4. \A y : Year(t, y).table = "year" /\ Year(t, y).key = y
    BY DEF Year
  <1>5. plan.table = "subscription" /\ plan.key = RowsOf(years)
    BY DEF Subscription
  <1>6. TenantRow(t).table = "tenant"
    BY DEF TenantRow
  <1>7. \A row \in all :
          \/ row = TenantRow(t)
          \/ row = main
          \/ row = plan
          \/ row = owner
          \/ \E b \in RowsOf(branches) : row = Branch(t, b, FALSE)
          \/ \E y \in RowsOf(years) : row = Year(t, y)
    BY DEF WizardRows
  <1>8. /\ main \in all /\ plan \in all /\ owner \in all
        /\ \A y \in RowsOf(years) : Year(t, y) \in all
    BY DEF WizardRows
  <1>. HIDE DEF all, owner, main, plan
  <1>9. {row \in all : row.table = "user"} = {owner}
    BY <1>1, <1>2, <1>3, <1>4, <1>5, <1>6, <1>7, <1>8
  <1>10. {row \in {row \in all : row.table = "branch"} : row.main} = {main}
    BY <1>1, <1>2, <1>3, <1>4, <1>5, <1>6, <1>7, <1>8
  <1>11. {row.key : row \in {row \in all : row.table = "year"}} = RowsOf(years)
    <2>1. \A row \in {row \in all : row.table = "year"} : row.key \in RowsOf(years)
      BY <1>1, <1>2, <1>3, <1>4, <1>5, <1>6, <1>7
    <2>2. \A y \in RowsOf(years) : \E row \in {row \in all : row.table = "year"} : row.key = y
      BY <1>4, <1>8
    <2>. QED
      BY <2>1, <2>2
  <1>12. {row \in all : row.table = "subscription"} = {plan}
    BY <1>1, <1>2, <1>3, <1>4, <1>5, <1>6, <1>7, <1>8
  <1>13. RowsOf(years) # {}
    <2>1. years \in Seq(Years) /\ years # <<>>
      BY OnboardingAssumption
    <2>2. 1 \in DOMAIN years
      BY <2>1
    <2>. QED
      BY <2>2 DEF RowsOf
  <1>. DEFINE c == CompanyIn(all)
  <1>14. c.owners = {e}
    <2>1. c.owners = {row.key : row \in {owner}}
      BY <1>9 DEF CompanyIn
    <2>. QED
      BY <1>1, <2>1
  <1>15. c.main = {cr}
    <2>1. c.main = {row.key : row \in {main}}
      BY <1>10 DEF CompanyIn
    <2>. QED
      BY <1>2, <2>1
  <1>16. c.main \subseteq c.crs
    BY DEF CompanyIn
  <1>17. c.years = RowsOf(years)
    BY <1>11 DEF CompanyIn
  <1>18. c.paid = RowsOf(years)
    <2>1. c.paid = UNION {row.key : row \in {plan}}
      BY <1>12 DEF CompanyIn
    <2>. QED
      BY <1>5, <2>1
  <1>. QED
    BY <1>13, <1>14, <1>15, <1>16, <1>17, <1>18 DEF all

-----------------------------------------------------------------------------
(* The register of companies *)

Same(row, other) ==
  /\ other.table = row.table /\ other.key = row.key
  /\ row.table = "user" \/ other.tenant = row.tenant

LEMMA ClashSame ==
  ASSUME NEW row, NEW rows
  PROVE  Clash(row, rows) <=> \E other \in rows : Same(row, other)
  BY DEF Clash, Same

LEMMA SameSymmetric ==
  ASSUME NEW row, NEW other, Same(row, other)
  PROVE  Same(other, row)
  BY DEF Same

Making(w) == workers[w].op = "provision"

(* What a transaction has made and has yet to make are one wizard's rows.  *)
Wizardly(made, todo) ==
  /\ todo \in Seq(Rows)
  /\ \E t \in Tenants, cr \in CRs, branches \in BranchLists, years \in YearLists, e \in Emails :
       made \cup RowsOf(todo) = WizardRows(t, cr, branches, years, e)

(* Rows of two transactions, or of one and of those committed, are apart.  *)
Apart(made, rows) == \A r \in made, o \in rows : ~Same(r, o)

(* Whole tenants only are committed, and only they are held; no two open   *)
(* transactions hold one key.                                              *)
Committed ==
  /\ db \subseteq Rows
  /\ \A row \in db : TenantRow(row.tenant) \in db

HoldsKnown ==
  /\ holds = [t \in Tenants |-> holds[t]]
  /\ \A t \in Tenants : holds[t].flag => TenantRow(t) \in db

Transactions ==
  \A w \in Workers : Making(w) =>
    /\ Wizardly(workers[w].made, workers[w].todo)
    /\ Apart(workers[w].made, db)
    /\ \A v \in Workers \ {w} : Making(v) => Apart(workers[w].made, workers[v].made)

RegisterInv == Served /\ Committed /\ HoldsKnown /\ Transactions

(* A request that ends its transaction, or has none.                       *)
Settles(w) ==
  /\ Served' /\ \A v \in Workers \ {w} : workers'[v] = workers[v]
  /\ workers'[w].op # "provision"

LEMMA SettlesKeeps ==
  ASSUME RegisterInv, NEW w \in Workers, Settles(w), UNCHANGED db
  PROVE  Transactions'
  BY DEF RegisterInv, Transactions, Settles, Making

(* A register that is as it was.                                           *)
LEMMA RegisterStutters ==
  ASSUME UNCHANGED <<db, holds>>
  PROVE  UNCHANGED Register!vars
  <1>1. \A t \in Tenants : CompanyOf(t)' = CompanyOf(t)
    BY CompanyOfIn
  <1>. QED
    BY <1>1 DEF Register!vars

LEMMA CommitOpens ==
  ASSUME RegisterInv, NEW w \in Workers, Commit(w)
  PROVE  RegisterInv' /\ Register!Open
  <1>. DEFINE made == workers[w].made
  <1>1. /\ workers[w].op = "provision" /\ workers[w].todo = <<>>
        /\ db' = db \cup made /\ UNCHANGED holds
        /\ Succeed(w, Admin, "provision", None)
    BY DEF Commit
  <1>2. Wizardly(made, <<>>) /\ Apart(made, db)
    BY <1>1 DEF RegisterInv, Transactions, Making
  <1>3. PICK t \in Tenants, cr \in CRs, branches \in BranchLists, years \in YearLists, e \in Emails :
          made = WizardRows(t, cr, branches, years, e)
    <2>1. made \cup RowsOf(<<>>) = made
      BY EmptyRows
    <2>. QED
      BY <1>2, <2>1 DEF Wizardly
  <1>4. made \subseteq Rows
    BY <1>3, WizardMakes
  <1>5. \A row \in made : row.tenant = t
    BY <1>3 DEF WizardRows, TenantRow, Branch, Year, Subscription, SuperAdmin
  <1>6. TenantRow(t) \in made /\ SuperAdmin(t, e) \in made
    BY <1>3 DEF WizardRows
  <1>7. TenantRow(t) \notin db
    <2>1. Same(TenantRow(t), TenantRow(t))
      BY DEF Same
    <2>. QED
      BY <1>2, <1>6, <2>1 DEF Apart
  <1>8. \A row \in db : row.tenant # t
    BY <1>7 DEF RegisterInv, Committed
  <1>. HIDE DEF made
  <1>9. Of(t, db') = made /\ \A s \in Tenants \ {t} : Of(s, db') = Of(s, db)
    BY <1>1, <1>5, <1>8 DEF Of
  <1>10. \A s \in Tenants \ {t} : TenantRow(s) \in db' <=> TenantRow(s) \in db
    <2>. TAKE s \in Tenants \ {t}
    <2>1. TenantRow(s).tenant = s
      BY DEF TenantRow
    <2>. QED
      BY <1>1, <1>5, <2>1
  <1>11. Committed'
    <2>1. \A row \in db' : TenantRow(row.tenant) \in db'
      BY <1>1, <1>5, <1>6 DEF RegisterInv, Committed
    <2>. QED
      BY <1>1, <1>4, <2>1 DEF RegisterInv, Committed
  <1>12. HoldsKnown'
    BY <1>1 DEF RegisterInv, HoldsKnown
  <1>13. Settles(w)
    BY <1>1, AnswerMoves DEF Settles, RegisterInv
  <1>14. Transactions'
    <2>. SUFFICES ASSUME NEW v \in Workers, Making(v)'
                  PROVE  /\ Wizardly(workers'[v].made, workers'[v].todo)
                         /\ Apart(workers'[v].made, db')
                         /\ \A u \in Workers \ {v} : Making(u)' => Apart(workers'[v].made, workers'[u].made)
      BY DEF Transactions
    <2>1. v # w /\ workers'[v] = workers[v] /\ Making(v)
      BY <1>13 DEF Settles, Making
    <2>2. /\ Wizardly(workers[v].made, workers[v].todo) /\ Apart(workers[v].made, db)
          /\ Apart(workers[v].made, made)
      BY <1>1, <2>1 DEF RegisterInv, Transactions, Making, made
    <2>3. Apart(workers[v].made, db')
      BY <1>1, <2>2 DEF Apart
    <2>4. ASSUME NEW u \in Workers \ {v}, Making(u)' PROVE Apart(workers[v].made, workers'[u].made)
      <3>1. workers'[u] = workers[u] /\ Making(u)
        BY <1>13, <2>4 DEF Settles, Making
      <3>. QED
        BY <2>1, <2>4, <3>1 DEF RegisterInv, Transactions
    <2>. QED
      BY <2>1, <2>2, <2>3, <2>4
  <1>15. RegisterInv'
    BY <1>11, <1>12, <1>13, <1>14 DEF RegisterInv, Settles
  <1>16. CompanyOf(t) = None /\ CompanyOf(t)' = CompanyIn(made)
    BY <1>1, <1>6, <1>7, <1>9, CompanyOfIn
  <1>17. CompanyIn(made) # None
    BY <1>4, CompanyTyped
  <1>18. Register!Whole(CompanyIn(made)) /\ CompanyIn(made).owners = {e}
    <2>. DEFINE c == CompanyIn(made)
    <2>1. c.owners = {e} /\ c.main = {cr} /\ c.main \subseteq c.crs /\ c.years # {} /\ c.paid = c.years
      BY <1>3, WizardWhole
    <2>. HIDE DEF c
    <2>2. Register!Whole(c)
      BY <2>1 DEF Register!Whole
    <2>. QED
      BY <2>1, <2>2 DEF c
  <1>19. ASSUME NEW s \in Tenants \ {t}
         PROVE  /\ CompanyOf(s)' = CompanyOf(s)
                /\ CompanyOf(s) # None => CompanyOf(s).owners \cap CompanyIn(made).owners = {}
    <2>1. CompanyOf(s)' = CompanyOf(s)
      BY <1>9, <1>10, CompanyOfIn
    <2>2. ASSUME CompanyOf(s) # None, e \in CompanyOf(s).owners PROVE FALSE
      <3>1. CompanyOf(s).owners = {row.key : row \in {row \in Of(s, db) : row.table = "user"}}
        BY <2>2, CompanyOfIn DEF CompanyIn
      <3>2. PICK row \in db : row.table = "user" /\ row.key = e
        BY <2>2, <3>1 DEF Of
      <3>3. SuperAdmin(t, e).table = "user" /\ SuperAdmin(t, e).key = e
        BY DEF SuperAdmin
      <3>4. Same(SuperAdmin(t, e), row)
        BY <3>2, <3>3 DEF Same
      <3>. QED
        BY <1>2, <1>6, <3>2, <3>4 DEF Apart
    <2>. QED
      BY <1>18, <2>1, <2>2
  <1>. QED
    BY <1>1, <1>15, <1>16, <1>17, <1>18, <1>19 DEF Register!Open

LEMMA InsertKeeps ==
  ASSUME RegisterInv, NEW w \in Workers, Insert(w)
  PROVE  Transactions'
  <1>. DEFINE p == workers[w]
              row == Head(p.todo)
              next == [op |-> "provision", todo |-> Tail(p.todo), made |-> p.made \cup {row}]
  <1>1. /\ Making(w) /\ p.todo # <<>> /\ ~Clash(row, Uncommitted(w)) /\ UNCHANGED db
        /\ \/ Fail(w, Admin, "provision", None)
           \/ ~Clash(row, db \cup p.made) /\ Go(w, next)
    BY DEF Insert, Making
  <1>2. CASE Fail(w, Admin, "provision", None)
    <2>1. Settles(w)
      BY <1>2, AnswerMoves DEF Settles, RegisterInv
    <2>. QED
      BY <1>1, <2>1, SettlesKeeps
  <1>3. CASE ~Clash(row, db \cup p.made) /\ Go(w, next)
    <2>1. Served' /\ workers'[w] = next /\ \A v \in Workers \ {w} : workers'[v] = workers[v]
      BY <1>3, GoMoves DEF RegisterInv
    <2>2. next.op = "provision" /\ next.todo = Tail(p.todo) /\ next.made = p.made \cup {row}
      OBVIOUS
    <2>3. Wizardly(p.made, p.todo) /\ Apart(p.made, db)
      BY <1>1 DEF RegisterInv, Transactions
    <2>. HIDE DEF row, next
    <2>4. Wizardly(next.made, next.todo)
      <3>1. p.todo \in Seq(Rows)
        BY <2>3 DEF Wizardly
      <3>2. Tail(p.todo) \in Seq(Rows) /\ RowsOf(p.todo) = {row} \cup RowsOf(Tail(p.todo))
        BY <1>1, <3>1, TailRows DEF row
      <3>3. next.made \cup RowsOf(next.todo) = p.made \cup RowsOf(p.todo)
        BY <2>2, <3>2
      <3>. QED
        BY <2>2, <2>3, <3>2, <3>3 DEF Wizardly
    <2>5. Apart(next.made, db)
      BY <1>3, <2>2, <2>3, ClashSame DEF Apart
    <2>6. ASSUME NEW v \in Workers \ {w}, Making(v)
          PROVE  Apart(next.made, workers[v].made) /\ Apart(workers[v].made, next.made)
      <3>1. Apart(p.made, workers[v].made) /\ Apart(workers[v].made, p.made)
        BY <1>1, <2>6 DEF RegisterInv, Transactions
      <3>2. workers[v].made \subseteq Uncommitted(w)
        BY <2>6 DEF Uncommitted, Making
      <3>3. \A o \in workers[v].made : ~Same(row, o) /\ ~Same(o, row)
        BY <1>1, <3>2, ClashSame, SameSymmetric
      <3>. QED
        BY <2>2, <3>1, <3>3 DEF Apart
    <2>7. ASSUME NEW v \in Workers, Making(v)'
          PROVE  /\ Wizardly(workers'[v].made, workers'[v].todo)
                 /\ Apart(workers'[v].made, db')
                 /\ \A u \in Workers \ {v} : Making(u)' => Apart(workers'[v].made, workers'[u].made)
      <3>1. CASE v = w
        <4>1. \A u \in Workers \ {v} : Making(u)' => Apart(workers'[v].made, workers'[u].made)
          BY <2>1, <2>6, <3>1 DEF Making
        <4>. QED
          BY <1>1, <2>1, <2>4, <2>5, <3>1, <4>1
      <3>2. CASE v # w
        <4>1. workers'[v] = workers[v] /\ Making(v)
          BY <2>1, <2>7, <3>2 DEF Making
        <4>2. \A u \in Workers \ {v} : Making(u)' => Apart(workers[v].made, workers'[u].made)
          <5>. SUFFICES ASSUME NEW u \in Workers \ {v}, Making(u)'
                        PROVE  Apart(workers[v].made, workers'[u].made)
            OBVIOUS
          <5>1. CASE u = w
            BY <2>1, <2>6, <3>2, <4>1, <5>1
          <5>2. CASE u # w
            <6>1. workers'[u] = workers[u] /\ Making(u)
              BY <2>1, <5>2 DEF Making
            <6>. QED
              BY <4>1, <6>1 DEF RegisterInv, Transactions
          <5>. QED
            BY <5>1, <5>2
        <4>. QED
          BY <1>1, <4>1, <4>2 DEF RegisterInv, Transactions
      <3>. QED
        BY <3>1, <3>2
    <2>. QED
      BY <2>7 DEF Transactions
  <1>. QED
    BY <1>1, <1>2, <1>3

LEMMA ProvisionKeeps ==
  ASSUME RegisterInv, NEW w \in Workers, Provision(w)
  PROVE  Transactions'
  <1>1. PICK t \in Tenants, cr \in CRs, branches \in BranchLists, years \in YearLists, e \in Emails :
          Go(w, [op |-> "provision", todo |-> Wizard(t, cr, branches, years, e), made |-> {}])
    BY DEF Provision
  <1>2. UNCHANGED db
    BY DEF Provision
  <1>. DEFINE next == [op |-> "provision", todo |-> Wizard(t, cr, branches, years, e), made |-> {}]
  <1>3. workers'[w] = next /\ \A v \in Workers \ {w} : workers'[v] = workers[v]
    BY <1>1, GoMoves DEF RegisterInv
  <1>4. next.made = {} /\ next.todo = Wizard(t, cr, branches, years, e)
    OBVIOUS
  <1>. HIDE DEF next
  <1>5. Wizardly(next.made, next.todo)
    <2>1. next.made \cup RowsOf(next.todo) = WizardRows(t, cr, branches, years, e) /\ next.todo \in Seq(Rows)
      BY <1>4, WizardMakes
    <2>. QED
      BY <2>1 DEF Wizardly
  <1>6. \A rows : Apart(next.made, rows) /\ Apart(rows, next.made)
    BY <1>4 DEF Apart
  <1>7. ASSUME NEW v \in Workers, Making(v)'
        PROVE  /\ Wizardly(workers'[v].made, workers'[v].todo)
               /\ Apart(workers'[v].made, db')
               /\ \A u \in Workers \ {v} : Making(u)' => Apart(workers'[v].made, workers'[u].made)
    <2>1. CASE v = w
      BY <1>3, <1>5, <1>6, <2>1
    <2>2. CASE v # w
      <3>1. workers'[v] = workers[v] /\ Making(v)
        BY <1>3, <1>7, <2>2 DEF Making
      <3>2. ASSUME NEW u \in Workers \ {v}, Making(u)' PROVE Apart(workers[v].made, workers'[u].made)
        <4>1. CASE u = w
          BY <1>3, <1>6, <4>1
        <4>2. CASE u # w
          <5>1. workers'[u] = workers[u] /\ Making(u)
            BY <1>3, <3>2, <4>2 DEF Making
          <5>. QED
            BY <3>1, <3>2, <5>1 DEF RegisterInv, Transactions
        <4>. QED
          BY <4>1, <4>2
      <3>. QED
        BY <1>2, <3>1, <3>2 DEF RegisterInv, Transactions
    <2>. QED
      BY <2>1, <2>2
  <1>. QED
    BY <1>7 DEF Transactions

LEMMA HoldHolds ==
  ASSUME RegisterInv, NEW w \in Workers, SoftHold(w)
  PROVE  RegisterInv' /\ Register!Hold
  <1>1. PICK t \in Tenants, hold \in BOOLEAN :
          TenantRow(t) \in db /\ SaveHold(t, hold) /\ Succeed(w, Admin, "hold", t)
    BY DEF SoftHold
  <1>2. UNCHANGED db
    BY DEF SoftHold
  <1>3. Settles(w)
    BY <1>1, AnswerMoves DEF RegisterInv, Settles
  <1>4. Transactions' /\ Served'
    BY <1>2, <1>3, SettlesKeeps DEF Settles
  <1>5. \A s \in Tenants \ {t} : holds'[s] = holds[s]
    BY <1>1 DEF SaveHold, RegisterInv, HoldsKnown
  <1>6. holds' = [s \in Tenants |-> holds'[s]]
    BY <1>1 DEF SaveHold, RegisterInv, HoldsKnown
  <1>7. HoldsKnown'
    BY <1>1, <1>2, <1>5, <1>6 DEF RegisterInv, HoldsKnown
  <1>8. RegisterInv'
    BY <1>2, <1>4, <1>7 DEF RegisterInv, Committed
  <1>9. \A s \in Tenants : CompanyOf(s)' = CompanyOf(s)
    BY <1>2, CompanyOfIn
  <1>10. \A s \in Tenants : TenantRow(s) \in db => CompanyOf(s) # None
    <2>1. \A s \in Tenants : Of(s, db) \in SUBSET Rows
      BY DEF RegisterInv, Committed, Of
    <2>. QED
      BY <2>1, CompanyOfIn, CompanyTyped
  <1>11. \A s \in Tenants : holds'[s].flag => CompanyOf(s) # None
    BY <1>2, <1>7, <1>10 DEF HoldsKnown
  <1>. QED
    BY <1>8, <1>9, <1>11 DEF Register!Hold

LEMMA StepRegister == RegisterInv /\ [Next]_vars => RegisterInv' /\ [Register!Next]_Register!vars
  <1>. SUFFICES ASSUME RegisterInv, [Next]_vars
                PROVE  RegisterInv' /\ [Register!Next]_Register!vars
    OBVIOUS
  <1>s. Served
    BY DEF RegisterInv
  <1>a. ASSUME UNCHANGED <<db, holds>>, Transactions', Served'
        PROVE  RegisterInv' /\ [Register!Next]_Register!vars
    BY <1>a, RegisterStutters DEF RegisterInv, Committed, HoldsKnown
  <1>b. ASSUME NEW w \in Workers, Settles(w), UNCHANGED <<db, holds>>
        PROVE  RegisterInv' /\ [Register!Next]_Register!vars
    BY <1>a, <1>b, SettlesKeeps DEF Settles
  <1>1. ASSUME NEW w \in Workers, Step(w)
        PROVE  RegisterInv' /\ [Register!Next]_Register!vars
    <2>a. ASSUME NEW user, NEW asked, NEW of, Succeed(w, user, asked, of) PROVE Settles(w)
      BY <2>a, <1>s, AnswerMoves DEF Settles
    <2>b. ASSUME NEW user, NEW asked, NEW of, Fail(w, user, asked, of) PROVE Settles(w)
      BY <2>b, <1>s, AnswerMoves DEF Settles
    <2>c. ASSUME NEW next, Go(w, next), next.op # "provision" PROVE Settles(w)
      BY <2>c, <1>s, GoMoves DEF Settles
    <2>1. CASE Use(w)
      <3>1. Settles(w)
        BY <2>1, <2>a, <2>b DEF Use
      <3>. QED
        BY <1>b, <2>1, <3>1 DEF Use
    <2>2. CASE Audit(w)
      BY <1>b, <2>2, <2>c DEF Audit, Idle
    <2>3. CASE Provision(w)
      <3>1. Served'
        BY <1>s, <2>3, GoMoves DEF Provision
      <3>. QED
        BY <1>a, <2>3, <3>1, ProvisionKeeps DEF Provision
    <2>4. CASE Insert(w)
      <3>1. Served'
        BY <1>s, <2>4, GoMoves, AnswerMoves DEF Insert
      <3>. QED
        BY <1>a, <2>4, <3>1, InsertKeeps DEF Insert
    <2>5. CASE Commit(w)
      BY <2>5, CommitOpens DEF Register!Next
    <2>6. CASE SoftHold(w)
      BY <2>6, HoldHolds DEF Register!Next
    <2>7. CASE StartGhost(w)
      <3>1. \A t : [op |-> "ghost", tenant |-> t].op # "provision"
        OBVIOUS
      <3>2. Settles(w)
        BY <2>7, <2>b, <2>c, <3>1 DEF StartGhost
      <3>. QED
        BY <1>b, <2>7, <3>2 DEF StartGhost
    <2>8. CASE IssueToken(w)
      BY <1>b, <2>8, <2>a DEF IssueToken
    <2>9. CASE Die(w)
      BY <1>b, <2>9, <2>c DEF Die, Idle
    <2>. QED
      BY <1>1, <2>1, <2>2, <2>3, <2>4, <2>5, <2>6, <2>7, <2>8, <2>9 DEF Step
  <1>2. CASE EnableRls
    BY <1>2, <1>a DEF EnableRls, RegisterInv, Transactions, Making, Served
  <1>3. CASE UNCHANGED vars
    BY <1>3, <1>a DEF vars, RegisterInv, Transactions, Making, Served
  <1>. QED
    BY <1>1, <1>2, <1>3 DEF Next

(* However wizards race, repeat a registration or a year, fail or die, the *)
(* rows of the platform are a register of whole companies: each step opens *)
(* one, holds one, or changes nothing of it (provisioning.py:32-92).       *)
THEOREM ImplementsRegister == Spec => RegisterSpec
  <1>1. Init => RegisterInv /\ Register!Init
    <2>. SUFFICES ASSUME Init PROVE RegisterInv /\ Register!Init
      OBVIOUS
    <2>1. RegisterInv
      BY DEF Init, RegisterInv, Served, Committed, HoldsKnown, Transactions, Making, Idle
    <2>2. \A t \in Tenants : CompanyOf(t) = None
      BY CompanyOfIn DEF Init
    <2>. QED
      BY <2>1, <2>2 DEF Init, Register!Init
  <1>. QED
    BY <1>1, StepRegister, PTL DEF Spec, RegisterSpec, Register!Spec
==============================================================================
