--------------------------- MODULE YearCloseProofs ---------------------------
(***************************************************************************)
(* Theorems about YearClose, for every set of years, rows and requests.    *)
(***************************************************************************)
EXTENDS YearClose, TLAPS

(* Request, with one line per shape: what a step that ends or advances a   *)
(* request needs to know of it.                                            *)
LEMMA RequestShape ==
  ASSUME NEW r \in Request
  PROVE  /\ r.op = "saveClose" => r.id \in HardCloses /\ r.obj \in Close
         /\ r.op = "saveUpload" => r.id \in Uploads /\ r.obj \in Years
         /\ r.op = "saveRow" => r.id \in Rows /\ r.obj \in Row
         /\ r.op = "deleteClose" => r.id \in HardCloses
         /\ r.op = "deleteUpload" => r.id \in Uploads
         /\ r.op = "deleteRow" => r.id \in Rows
         /\ r.op \in {"sumSalaries", "sumPurchases", "saveVerdict", "saveCheck"} =>
              /\ r.id \in HardCloses /\ r.obj \in Close /\ r.ok \in BOOLEAN
         /\ r.op = "lock" => r.year \in Years
  BY DEF Request, Idle

LEMMA VerdictsAreBoolean ==
  ASSUME NEW c, NEW t
  PROVE  SalariesOK(c, t) \in BOOLEAN /\ PurchasesOK(c, t) \in BOOLEAN
  BY DEF SalariesOK, PurchasesOK, WithinTolerance

LEMMA InitTypeOK == Init => TypeOK
  BY DEF Init, TypeOK, Request

LEMMA EndTyped ==
  ASSUME TypeOK, NEW p \in Requests, End(p)
  PROVE  requests' \in [Requests -> Request]
  BY DEF TypeOK, End, Request

LEMMA AdvanceTyped ==
  ASSUME TypeOK, NEW p \in Requests,
         requests[p].op \in {"sumSalaries", "sumPurchases", "saveVerdict", "saveCheck"},
         NEW op \in {"sumSalaries", "sumPurchases", "saveVerdict", "saveCheck"},
         NEW ok \in BOOLEAN,
         Advance(p, op, ok)
  PROVE  requests' \in [Requests -> Request]
  <1>1. requests[p] \in Request
    BY DEF TypeOK
  <1>2. requests[p].id \in HardCloses /\ requests[p].obj \in Close
    BY <1>1, RequestShape
  <1>3. [op |-> op, id |-> requests[p].id, obj |-> requests[p].obj, ok |-> ok] \in Request
    BY <1>2 DEF Request
  <1>. QED
    BY <1>3 DEF TypeOK, Advance

(* A request starts by recording what it will do and touches no table.     *)
LEMMA StartTyped ==
  ASSUME TypeOK, NEW p \in Requests, Start(p)
  PROVE  TypeOK'
  <1>1. ASSUME NEW h \in HardCloses, NEW y \in Years, NEW d \in DirectCosts,
               NEW g \in Gna, BeginSaveClose(p, h, y, d, g)
        PROVE  TypeOK'
    <2>1. closes[h] # Absent => closes[h].passed \in BOOLEAN
      BY DEF TypeOK, Close
    <2>. QED
      BY <1>1, <2>1 DEF BeginSaveClose, Begin, TypeOK, Request, Close
  <1>2. ASSUME NEW u \in Uploads, NEW y \in Years, BeginSaveUpload(p, u, y)
        PROVE  TypeOK'
    BY <1>2 DEF BeginSaveUpload, Begin, TypeOK, Request
  <1>3. ASSUME NEW r \in Rows, NEW u \in Uploads, NEW a \in Amounts,
               BeginSaveRow(p, r, u, a)
        PROVE  TypeOK'
    BY <1>3 DEF BeginSaveRow, Begin, TypeOK, Request, Row
  <1>4. ASSUME NEW h \in HardCloses, BeginDeleteClose(p, h)
        PROVE  TypeOK'
    BY <1>4 DEF BeginDeleteClose, Begin, TypeOK, Request
  <1>5. ASSUME NEW u \in Uploads, BeginDeleteUpload(p, u)
        PROVE  TypeOK'
    BY <1>5 DEF BeginDeleteUpload, Begin, TypeOK, Request
  <1>6. ASSUME NEW r \in Rows, BeginDeleteRow(p, r)
        PROVE  TypeOK'
    BY <1>6 DEF BeginDeleteRow, Begin, TypeOK, Request
  <1>7. ASSUME NEW h \in HardCloses, BeginReconcile(p, h)
        PROVE  TypeOK'
    BY <1>7 DEF BeginReconcile, Begin, TypeOK, Request
  <1>8. ASSUME NEW y \in Years, BeginLock(p, y)
        PROVE  TypeOK'
    BY <1>8 DEF BeginLock, Begin, TypeOK, Request
  <1>. QED
    BY <1>1, <1>2, <1>3, <1>4, <1>5, <1>6, <1>7, <1>8 DEF Start

(* Every commit stores a typed row and ends, or advances, its request.     *)
LEMMA ContinueTyped ==
  ASSUME TypeOK, NEW p \in Requests, Continue(p)
  PROVE  TypeOK'
  <1>0. requests[p] \in Request
    BY DEF TypeOK
  <1>1. CASE SaveClose(p)
    <2>1. requests[p].id \in HardCloses /\ requests[p].obj \in Close
      BY <1>0, <1>1, RequestShape DEF SaveClose
    <2>2. closes' \in [HardCloses -> Close \cup {Absent}]
      BY <1>1, <2>1 DEF SaveClose, TypeOK
    <2>. QED
      BY <1>1, <2>2, EndTyped DEF SaveClose, TypeOK
  <1>2. CASE SaveUpload(p)
    <2>1. requests[p].id \in Uploads /\ requests[p].obj \in Years
      BY <1>0, <1>2, RequestShape DEF SaveUpload
    <2>2. uploads' \in [Uploads -> Years \cup {Absent}]
      BY <1>2, <2>1 DEF SaveUpload, TypeOK
    <2>. QED
      BY <1>2, <2>2, EndTyped DEF SaveUpload, TypeOK
  <1>3. CASE SaveRow(p)
    <2>1. requests[p].id \in Rows /\ requests[p].obj \in Row
      BY <1>0, <1>3, RequestShape DEF SaveRow
    <2>2. rows' \in [Rows -> Row \cup {Absent}]
      BY <1>3, <2>1 DEF SaveRow, TypeOK
    <2>. QED
      BY <1>3, <2>2, EndTyped DEF SaveRow, TypeOK
  <1>4. CASE DeleteClose(p)
    <2>1. closes' \in [HardCloses -> Close \cup {Absent}]
      BY <1>4 DEF DeleteClose, TypeOK
    <2>. QED
      BY <1>4, <2>1, EndTyped DEF DeleteClose, TypeOK
  <1>5. CASE DeleteUpload(p)
    <2>1. /\ uploads' \in [Uploads -> Years \cup {Absent}]
          /\ rows' \in [Rows -> Row \cup {Absent}]
      BY <1>5 DEF DeleteUpload, TypeOK
    <2>. QED
      BY <1>5, <2>1, EndTyped DEF DeleteUpload, TypeOK
  <1>6. CASE DeleteRow(p)
    <2>1. rows' \in [Rows -> Row \cup {Absent}]
      BY <1>6 DEF DeleteRow, TypeOK
    <2>. QED
      BY <1>6, <2>1, EndTyped DEF DeleteRow, TypeOK
  <1>7. CASE SumSalaries(p)
    <2>1. requests' \in [Requests -> Request]
      BY <1>7, AdvanceTyped, VerdictsAreBoolean DEF SumSalaries
    <2>. QED
      BY <1>7, <2>1 DEF SumSalaries, TypeOK
  <1>8. CASE SumPurchases(p)
    <2>1. /\ requests[p].id \in HardCloses /\ requests[p].obj \in Close
          /\ requests[p].ok \in BOOLEAN
      BY <1>0, <1>8, RequestShape DEF SumPurchases
    <2>2. (requests[p].ok /\ PurchasesOK(requests[p].obj, TenantOf[requests[p].id])) \in BOOLEAN
      BY <2>1, VerdictsAreBoolean
    <2>3. requests' \in [Requests -> Request]
      BY <1>8, <2>2, AdvanceTyped DEF SumPurchases
    <2>4. verified' \in SUBSET (HardCloses \X Years)
      BY <1>8, <2>1 DEF SumPurchases, TypeOK, Close
    <2>. QED
      BY <1>8, <2>3, <2>4 DEF SumPurchases, TypeOK
  <1>9. CASE SaveVerdict(p)
    <2>1. requests[p].id \in HardCloses /\ requests[p].ok \in BOOLEAN
      BY <1>0, <1>9, RequestShape DEF SaveVerdict
    <2>2. requests' \in [Requests -> Request]
      BY <1>9, <2>1, EndTyped, AdvanceTyped DEF SaveVerdict
    <2>3. /\ closes' \in [HardCloses -> Close \cup {Absent}]
          /\ lastVerdict' \in [HardCloses -> {"none", "passed", "failed"}]
      BY <1>9, <2>1 DEF SaveVerdict, TypeOK, Close
    <2>. QED
      BY <1>9, <2>2, <2>3 DEF SaveVerdict, TypeOK
  <1>10. CASE SaveCheck(p)
    BY <1>10, EndTyped DEF SaveCheck, TypeOK
  <1>11. CASE CommitLock(p)
    <2>1. yearState' \in [Years -> {"OPEN", "LOCKED"}]
      BY <1>11 DEF CommitLock, TypeOK
    <2>. QED
      BY <1>11, <2>1, EndTyped DEF CommitLock, TypeOK
  <1>. QED
    BY <1>1, <1>2, <1>3, <1>4, <1>5, <1>6, <1>7, <1>8, <1>9, <1>10, <1>11
    DEF Continue

LEMMA NextTypeOK == TypeOK /\ [Next]_vars => TypeOK'
  <1> SUFFICES ASSUME TypeOK, [Next]_vars
               PROVE  TypeOK'
    OBVIOUS
  <1>1. ASSUME NEW p \in Requests, Start(p) PROVE TypeOK'
    BY <1>1, StartTyped
  <1>2. ASSUME NEW p \in Requests, Continue(p) PROVE TypeOK'
    BY <1>2, ContinueTyped
  <1>3. ASSUME NEW p \in Requests, Die(p) PROVE TypeOK'
    BY <1>3, EndTyped DEF Die, TypeOK
  <1>4. CASE UNCHANGED vars
    BY <1>4 DEF vars, TypeOK
  <1>. QED
    BY <1>1, <1>2, <1>3, <1>4 DEF Next

(* Type correctness: no interleaving of saves, deletes, reconciliations    *)
(* and locks stores a row of the wrong shape, or follows an id of the      *)
(* wrong table.                                                            *)
THEOREM TypeCorrect == Spec => []TypeOK
  BY InitTypeOK, NextTypeOK, PTL DEF Spec

-----------------------------------------------------------------------------
(* The inductive invariant.  The flag alone is not inductive: a save in    *)
(* flight holds a copy of it, a reconciliation in flight the next value.   *)
(* For the lock, a transaction that has read the flag counts as well.      *)

LockIsEarned ==
  /\ \A p \in Requests : requests[p].op = "lock" => verified # {}
  /\ \A y \in Years : yearState[y] = "LOCKED" => verified # {}

Earned == FlagIsEarned /\ LockIsEarned

LEMMA InitEarned == Init => Earned
  BY DEF Init, Earned, FlagIsEarned, LockIsEarned, Idle

(* A request that starts with nothing unearned disturbs nothing.           *)
LEMMA BeginEarned ==
  ASSUME TypeOK, Earned, NEW p \in Requests, NEW req, Begin(p, req),
         req.op = "saveClose" => (req.obj.passed => EverVerified(req.id)),
         req.op # "saveVerdict",
         req.op = "lock" => verified # {}
  PROVE  Earned'
  BY DEF Begin, TypeOK, Earned, FlagIsEarned, LockIsEarned, EverVerified

LEMMA StartEarned ==
  ASSUME TypeOK, Earned, NEW p \in Requests, Start(p)
  PROVE  Earned'
  <1>1. ASSUME NEW h \in HardCloses, NEW y \in Years, NEW d \in DirectCosts,
               NEW g \in Gna, BeginSaveClose(p, h, y, d, g)
        PROVE  Earned'
    <2>1. closes[h] # Absent => (closes[h].passed => EverVerified(h))
      BY DEF Earned, FlagIsEarned
    <2>. QED
      BY <1>1, <2>1, BeginEarned DEF BeginSaveClose
  <1>2. ASSUME NEW u \in Uploads, NEW y \in Years, BeginSaveUpload(p, u, y)
        PROVE  Earned'
    BY <1>2, BeginEarned DEF BeginSaveUpload
  <1>3. ASSUME NEW r \in Rows, NEW u \in Uploads, NEW a \in Amounts,
               BeginSaveRow(p, r, u, a)
        PROVE  Earned'
    BY <1>3, BeginEarned DEF BeginSaveRow
  <1>4. ASSUME NEW h \in HardCloses, BeginDeleteClose(p, h)
        PROVE  Earned'
    BY <1>4, BeginEarned DEF BeginDeleteClose
  <1>5. ASSUME NEW u \in Uploads, BeginDeleteUpload(p, u)
        PROVE  Earned'
    BY <1>5, BeginEarned DEF BeginDeleteUpload
  <1>6. ASSUME NEW r \in Rows, BeginDeleteRow(p, r)
        PROVE  Earned'
    BY <1>6, BeginEarned DEF BeginDeleteRow
  <1>7. ASSUME NEW h \in HardCloses, BeginReconcile(p, h)
        PROVE  Earned'
    BY <1>7, BeginEarned DEF BeginReconcile
  <1>8. ASSUME NEW y \in Years, BeginLock(p, y)
        PROVE  Earned'
    <2>1. verified # {}
      BY <1>8 DEF BeginLock, ExportAllowed, Earned, FlagIsEarned, EverVerified
    <2>. QED
      BY <1>8, <2>1, BeginEarned DEF BeginLock
  <1>. QED
    BY <1>1, <1>2, <1>3, <1>4, <1>5, <1>6, <1>7, <1>8 DEF Start

(* A request that ends without a lock is harmless if each hard close then  *)
(* in the table has an earned flag.                                        *)
LEMMA EndEarned ==
  ASSUME TypeOK, Earned, NEW p \in Requests, End(p),
         UNCHANGED <<yearState, verified>>,
         \A h \in HardCloses :
           closes'[h] # Absent => (closes'[h].passed => EverVerified(h))
  PROVE  Earned'
  BY DEF End, Idle, TypeOK, Earned, FlagIsEarned, LockIsEarned, EverVerified

LEMMA ContinueEarned ==
  ASSUME TypeOK, Earned, NEW p \in Requests, Continue(p)
  PROVE  Earned'
  <1>0. requests[p] \in Request
    BY DEF TypeOK
  <1>1. CASE SaveClose(p)
    <2>1. requests[p].obj.passed => EverVerified(requests[p].id)
      BY <1>1 DEF SaveClose, Earned, FlagIsEarned
    <2>2. \A h \in HardCloses :
            closes'[h] # Absent => (closes'[h].passed => EverVerified(h))
      BY <1>1, <2>1 DEF SaveClose, TypeOK, Earned, FlagIsEarned
    <2>. QED
      BY <1>1, <2>2, EndEarned DEF SaveClose
  <1>2. CASE End(p) /\ UNCHANGED <<yearState, closes, verified>>
    BY <1>2, EndEarned DEF Earned, FlagIsEarned
  <1>3. CASE DeleteClose(p)
    <2>1. \A h \in HardCloses :
            closes'[h] # Absent => (closes'[h].passed => EverVerified(h))
      BY <1>3 DEF DeleteClose, TypeOK, Earned, FlagIsEarned
    <2>. QED
      BY <1>3, <2>1, EndEarned DEF DeleteClose
  <1>4. CASE SumSalaries(p)
    BY <1>4 DEF SumSalaries, Advance, TypeOK, Earned, FlagIsEarned, LockIsEarned,
                EverVerified
  <1>5. CASE SumPurchases(p)
    <2>1. requests[p].id \in HardCloses /\ requests[p].obj.year \in Years
      BY <1>0, <1>5, RequestShape DEF SumPurchases, Close
    <2>2. verified \subseteq verified' /\ UNCHANGED <<yearState, closes>>
      BY <1>5 DEF SumPurchases
    <2>3. (requests[p].ok => EverVerified(requests[p].id))'
      BY <1>5, <2>1 DEF SumPurchases, Advance, TypeOK, EverVerified
    <2>4. /\ requests'[p].op = "saveVerdict"
          /\ \A q \in Requests \ {p} : requests'[q] = requests[q]
      BY <1>5 DEF SumPurchases, Advance, TypeOK
    <2>. QED
      BY <2>2, <2>3, <2>4 DEF TypeOK, Earned, FlagIsEarned, LockIsEarned, EverVerified
  <1>6. CASE SaveVerdict(p)
    <2>1. requests[p].ok => EverVerified(requests[p].id)
      BY <1>6 DEF SaveVerdict, Earned, FlagIsEarned
    <2>2. \A h \in HardCloses :
            closes'[h] # Absent => (closes'[h].passed => EverVerified(h))
      BY <1>6, <2>1 DEF SaveVerdict, TypeOK, Close, Earned, FlagIsEarned
    <2>3. CASE End(p)
      BY <1>6, <2>2, <2>3, EndEarned DEF SaveVerdict
    <2>4. CASE Advance(p, "saveCheck", requests[p].ok)
      BY <1>6, <2>2, <2>4
      DEF SaveVerdict, Advance, TypeOK, Earned, FlagIsEarned, LockIsEarned, EverVerified
    <2>. QED
      BY <1>6, <2>3, <2>4 DEF SaveVerdict
  <1>7. CASE CommitLock(p)
    BY <1>7 DEF CommitLock, End, Idle, TypeOK, Earned, FlagIsEarned, LockIsEarned,
                EverVerified
  <1>. QED
    BY <1>1, <1>2, <1>3, <1>4, <1>5, <1>6, <1>7
    DEF Continue, SaveUpload, SaveRow, DeleteUpload, DeleteRow, SaveCheck

LEMMA NextEarned == TypeOK /\ Earned /\ [Next]_vars => Earned'
  <1> SUFFICES ASSUME TypeOK, Earned, [Next]_vars
               PROVE  Earned'
    OBVIOUS
  <1>1. ASSUME NEW p \in Requests, Start(p) PROVE Earned'
    BY <1>1, StartEarned
  <1>2. ASSUME NEW p \in Requests, Continue(p) PROVE Earned'
    BY <1>2, ContinueEarned
  <1>3. ASSUME NEW p \in Requests, Die(p) PROVE Earned'
    BY <1>3 DEF Die, End, Idle, TypeOK, Earned, FlagIsEarned, LockIsEarned, EverVerified
  <1>4. CASE UNCHANGED vars
    BY <1>4 DEF vars, Earned, FlagIsEarned, LockIsEarned, EverVerified
  <1>. QED
    BY <1>1, <1>2, <1>3, <1>4 DEF Next

LEMMA AlwaysEarned == Spec => []Earned
  BY InitEarned, NextEarned, TypeCorrect, PTL DEF Spec

(* export_allowed and lock_compliance_year trust reconciliation_passed: a  *)
(* TRUE there, or about to be written there by any request, goes back to a *)
(* reconciliation that did find that hard close within 5%.                 *)
THEOREM PassFlagEarned == Spec => []FlagIsEarned
  BY AlwaysEarned, PTL DEF Earned

-----------------------------------------------------------------------------
(* The refinement of YearLock *)

LEMMA StartWritesNothing ==
  ASSUME NEW p \in Requests, Start(p)
  PROVE  UNCHANGED <<yearState, closes, uploads, rows, lastVerdict, verified>>
  <1>1. ASSUME NEW req, Begin(p, req)
        PROVE  UNCHANGED <<yearState, closes, uploads, rows, lastVerdict, verified>>
    BY <1>1 DEF Begin
  <1>. QED
    BY <1>1 DEF Start, BeginSaveClose, BeginSaveUpload, BeginSaveRow, BeginDeleteClose,
                BeginDeleteUpload, BeginDeleteRow, BeginReconcile, BeginLock

LEMMA StepKinds ==
  ASSUME [Next]_vars
  PROVE  \/ UNCHANGED <<yearState, verified>>
         \/ \E p \in Requests : SumPurchases(p) \/ CommitLock(p)
  <1>1. ASSUME NEW p \in Requests, Continue(p)
        PROVE  UNCHANGED <<yearState, verified>> \/ SumPurchases(p) \/ CommitLock(p)
    BY <1>1 DEF Continue, SaveClose, SaveUpload, SaveRow, DeleteClose, DeleteUpload,
                DeleteRow, SumSalaries, SaveVerdict, SaveCheck
  <1>2. ASSUME NEW p \in Requests, Die(p)
        PROVE  UNCHANGED <<yearState, verified>>
    BY <1>2 DEF Die
  <1>. QED
    BY <1>1, <1>2, StartWritesNothing DEF Next, vars

LEMMA StepRefines ==
  ASSUME TypeOK, Earned, [Next]_vars
  PROVE  [Lock!Next]_(Lock!vars)
  <1>1. CASE UNCHANGED <<yearState, verified>>
    BY <1>1 DEF Lock!vars, EverVerified
  <1>2. ASSUME NEW p \in Requests, SumPurchases(p)
        PROVE  [Lock!Next]_(Lock!vars)
    <2>1. requests[p] \in Request
      BY DEF TypeOK
    <2>2. requests[p].id \in HardCloses /\ requests[p].obj.year \in Years
      BY <1>2, <2>1, RequestShape DEF SumPurchases, Close
    <2>3. CASE UNCHANGED verified
      BY <1>2, <2>3 DEF SumPurchases, Lock!vars, EverVerified
    <2>4. CASE verified' = verified \cup {<<requests[p].id, requests[p].obj.year>>}
      <3>1. {h \in HardCloses : EverVerified(h)}' =
              {h \in HardCloses : EverVerified(h)} \cup {requests[p].id}
        BY <2>2, <2>4 DEF EverVerified
      <3>2. Lock!Verify(requests[p].id)
        BY <1>2, <3>1 DEF Lock!Verify, SumPurchases
      <3>. QED
        BY <2>2, <3>2 DEF Lock!Next
    <2>. QED
      BY <1>2, <2>3, <2>4 DEF SumPurchases
  <1>3. ASSUME NEW p \in Requests, CommitLock(p)
        PROVE  [Lock!Next]_(Lock!vars)
    <2>1. requests[p] \in Request /\ requests[p].op = "lock"
      BY <1>3 DEF TypeOK, CommitLock
    <2>2. PICK y \in Years : requests[p].year = y
      BY <2>1, RequestShape
    <2>3. {x \in Years : yearState[x] = "LOCKED"}' =
            {x \in Years : yearState[x] = "LOCKED"} \cup {y}
      BY <1>3, <2>2 DEF CommitLock, TypeOK
    <2>4. {h \in HardCloses : EverVerified(h)} # {}
      <3>1. PICK v \in verified : TRUE
        BY <2>1 DEF Earned, LockIsEarned
      <3>2. PICK h \in HardCloses, z \in Years : v = <<h, z>>
        BY <3>1 DEF TypeOK
      <3>. QED
        BY <3>1, <3>2 DEF EverVerified
    <2>5. UNCHANGED {h \in HardCloses : EverVerified(h)}
      BY <1>3 DEF CommitLock, EverVerified
    <2>6. Lock!Lock(y)
      BY <2>3, <2>4, <2>5 DEF Lock!Lock
    <2>. QED
      BY <2>6 DEF Lock!Next
  <1>. QED
    BY <1>1, <1>2, <1>3, StepKinds

(* YearClose implements YearLock: no year is locked before a hard close    *)
(* was verified, whatever the lock transaction races with, and no save,    *)
(* delete or second lock ever unlocks one.                                 *)
THEOREM ImplementsYearLock == Spec => LockSpec
  <1>1. Init => Lock!Init
    BY DEF Init, Lock!Init, EverVerified
  <1>. QED
    BY <1>1, StepRefines, TypeCorrect, AlwaysEarned, PTL DEF Spec, LockSpec, Lock!Spec

-----------------------------------------------------------------------------
(* The year settles *)

LEMMA TouchesUnprimed ==
  ASSUME NEW q \in Requests, NEW y \in Years,
         requests'[q] = requests[q],
         closes' = closes, uploads' = uploads
  PROVE  Touches(q, y)' <=> Touches(q, y)
  BY DEF Touches, YearOfClose

LEMMA IdleTouchesNothing ==
  ASSUME NEW q \in Requests, NEW y \in Years, requests'[q].op = "idle"
  PROVE  ~Touches(q, y)'
  BY DEF Touches

LEMMA UnwrittenUntouched ==
  ASSUME NEW y \in Years, closes' = closes, uploads' = uploads
  PROVE  Untouched(y)
  BY DEF Untouched

(* A request that starts finds the year locked, and so names no row of it. *)
LEMMA StartSettled ==
  ASSUME TypeOK, NEW p \in Requests, Start(p), NEW y \in Years, Settled(y)
  PROVE  Settled(y)' /\ Untouched(y)
  <1>1. UNCHANGED <<yearState, closes, uploads>>
    BY StartWritesNothing
  <1>2. YearIsLocked(y, TenantOf[y])
    BY DEF Settled, YearIsLocked
  <1>3. ASSUME NEW req, Begin(p, req) PROVE
          /\ requests'[p] = req
          /\ \A q \in Requests \ {p} : requests'[q] = requests[q]
    BY <1>3 DEF Begin, TypeOK
  <1>4. ~Touches(p, y)'
    <2>1. ASSUME NEW h \in HardCloses, NEW z \in Years, NEW d \in DirectCosts,
                 NEW g \in Gna, BeginSaveClose(p, h, z, d, g)
          PROVE  ~Touches(p, y)'
      BY <1>1, <1>2, <1>3, <2>1 DEF BeginSaveClose, Admits, Touches, YearOfClose
    <2>2. ASSUME NEW u \in Uploads, NEW z \in Years, BeginSaveUpload(p, u, z)
          PROVE  ~Touches(p, y)'
      BY <1>1, <1>2, <1>3, <2>2 DEF BeginSaveUpload, Admits, Touches
    <2>3. ASSUME NEW r \in Rows, NEW u \in Uploads, NEW a \in Amounts,
                 BeginSaveRow(p, r, u, a)
          PROVE  ~Touches(p, y)'
      BY <1>3, <2>3 DEF BeginSaveRow, Touches
    <2>4. ASSUME NEW h \in HardCloses, BeginDeleteClose(p, h)
          PROVE  ~Touches(p, y)'
      BY <1>1, <1>2, <1>3, <2>4 DEF BeginDeleteClose, Admits, Touches, YearOfClose
    <2>5. ASSUME NEW u \in Uploads, BeginDeleteUpload(p, u)
          PROVE  ~Touches(p, y)'
      BY <1>1, <1>2, <1>3, <2>5 DEF BeginDeleteUpload, Admits, Touches
    <2>6. ASSUME NEW r \in Rows, BeginDeleteRow(p, r)
          PROVE  ~Touches(p, y)'
      BY <1>3, <2>6 DEF BeginDeleteRow, Touches
    <2>7. ASSUME NEW h \in HardCloses, BeginReconcile(p, h)
          PROVE  ~Touches(p, y)'
      BY <1>1, <1>2, <1>3, <2>7 DEF BeginReconcile, Admits, Touches, YearOfClose
    <2>8. ASSUME NEW z \in Years, BeginLock(p, z)
          PROVE  ~Touches(p, y)'
      BY <1>3, <2>8 DEF BeginLock, Touches
    <2>. QED
      BY <2>1, <2>2, <2>3, <2>4, <2>5, <2>6, <2>7, <2>8 DEF Start
  <1>5. \A q \in Requests \ {p} : requests'[q] = requests[q]
    BY <1>3 DEF Start, BeginSaveClose, BeginSaveUpload, BeginSaveRow, BeginDeleteClose,
                BeginDeleteUpload, BeginDeleteRow, BeginReconcile, BeginLock
  <1>. QED
    BY <1>1, <1>4, <1>5, TouchesUnprimed, UnwrittenUntouched DEF Settled

(* The step leaves the row alone, or writes a row that is not in year y    *)
(* before or after, or is another tenant's.                                *)
CloseElsewhere(h, y) ==
  \/ closes'[h] = closes[h]
  \/ TenantOf[h] # TenantOf[y]
  \/ YearOfClose(h) # y /\ YearOfClose(h)' # y

UploadElsewhere(u, y) ==
  \/ uploads'[u] = uploads[u]
  \/ TenantOf[u] # TenantOf[y]
  \/ uploads[u] # y /\ uploads'[u] # y

(* A write elsewhere than in year y leaves y settled.                      *)
LEMMA WriteElsewhere ==
  ASSUME TypeOK, NEW p \in Requests, NEW y \in Years, Settled(y),
         yearState'[y] = "LOCKED",
         \A q \in Requests \ {p} : requests'[q] = requests[q],
         ~Touches(p, y)',
         \A h \in HardCloses : CloseElsewhere(h, y),
         \A u \in HrUploads : UploadElsewhere(u, y)
  PROVE  Settled(y)' /\ Untouched(y)
  <1>1. ASSUME NEW q \in Requests \ {p}
        PROVE  ~Touches(q, y)'
    <2>1. requests[q] \in Request /\ ~Touches(q, y) /\ requests'[q] = requests[q]
      BY DEF TypeOK, Settled
    <2>2. requests[q].op \in {"saveClose", "deleteClose", "sumSalaries", "sumPurchases",
                              "saveVerdict"} => requests[q].id \in HardCloses
      BY <2>1, RequestShape
    <2>3. \A h \in HardCloses :
            TenantOf[h] = TenantOf[y] /\ YearOfClose(h)' = y => YearOfClose(h) = y
      BY DEF YearOfClose, CloseElsewhere
    <2>4. \A u \in HrUploads :
            TenantOf[u] = TenantOf[y] /\ uploads'[u] = y => uploads[u] = y
      BY DEF UploadElsewhere
    <2>. QED
      BY <2>1, <2>2, <2>3, <2>4 DEF Touches
  <1>. QED
    BY <1>1 DEF Settled, Untouched, CloseElsewhere, UploadElsewhere

LEMMA EndElsewhere ==
  ASSUME TypeOK, NEW p \in Requests, NEW y \in Years, End(p)
  PROVE  /\ \A q \in Requests \ {p} : requests'[q] = requests[q]
         /\ ~Touches(p, y)'
  BY DEF End, TypeOK, Idle, Touches

LEMMA ContinueSettled ==
  ASSUME TypeOK, NEW p \in Requests, Continue(p), NEW y \in Years, Settled(y)
  PROVE  Settled(y)' /\ Untouched(y)
  <1>1. requests[p] \in Request /\ ~Touches(p, y) /\ yearState[y] = "LOCKED"
    BY DEF TypeOK, Settled
  <1>2. y # Absent
    BY AbsentAssumption
  <1>3. CASE End(p) /\ UNCHANGED <<yearState, closes, uploads>>
    BY <1>1, <1>3, EndElsewhere, WriteElsewhere DEF CloseElsewhere, UploadElsewhere
  <1>4. CASE SaveClose(p)
    <2>1. requests[p].id \in HardCloses /\ requests[p].obj \in Close
      BY <1>1, <1>4, RequestShape DEF SaveClose
    <2>2. \/ TenantOf[requests[p].id] # TenantOf[y]
          \/ requests[p].obj.year # y /\ YearOfClose(requests[p].id) # y
      BY <1>1, <1>4 DEF SaveClose, Touches
    <2>3. \A h \in HardCloses : CloseElsewhere(h, y)
      BY <1>2, <1>4, <2>1, <2>2 DEF SaveClose, CloseElsewhere, YearOfClose, TypeOK
    <2>. QED
      BY <1>1, <1>4, <2>3, EndElsewhere, WriteElsewhere DEF SaveClose, UploadElsewhere
  <1>5. CASE SaveUpload(p)
    <2>1. requests[p].id \in HrUploads =>
            \/ TenantOf[requests[p].id] # TenantOf[y]
            \/ requests[p].obj # y /\ uploads[requests[p].id] # y
      BY <1>1, <1>5 DEF SaveUpload, Touches
    <2>2. \A u \in HrUploads : UploadElsewhere(u, y)
      BY <1>5, <2>1 DEF SaveUpload, UploadElsewhere, TypeOK, Uploads
    <2>. QED
      BY <1>1, <1>5, <2>2, EndElsewhere, WriteElsewhere DEF SaveUpload, CloseElsewhere
  <1>6. CASE DeleteClose(p)
    <2>1. TenantOf[requests[p].id] # TenantOf[y] \/ YearOfClose(requests[p].id) # y
      BY <1>1, <1>6 DEF DeleteClose, Touches
    <2>2. \A h \in HardCloses : CloseElsewhere(h, y)
      BY <1>2, <1>6, <2>1 DEF DeleteClose, CloseElsewhere, YearOfClose, TypeOK
    <2>. QED
      BY <1>1, <1>6, <2>2, EndElsewhere, WriteElsewhere DEF DeleteClose, UploadElsewhere
  <1>7. CASE DeleteUpload(p)
    <2>1. requests[p].id \in HrUploads =>
            TenantOf[requests[p].id] # TenantOf[y] \/ uploads[requests[p].id] # y
      BY <1>1, <1>7 DEF DeleteUpload, Touches
    <2>2. \A u \in HrUploads : UploadElsewhere(u, y)
      BY <1>2, <1>7, <2>1 DEF DeleteUpload, UploadElsewhere, TypeOK, Uploads
    <2>. QED
      BY <1>1, <1>7, <2>2, EndElsewhere, WriteElsewhere DEF DeleteUpload, CloseElsewhere
  <1>8. CASE SumSalaries(p) \/ SumPurchases(p)
    <2>1. TenantOf[requests[p].id] # TenantOf[y] \/ YearOfClose(requests[p].id) # y
      BY <1>1, <1>8 DEF SumSalaries, SumPurchases, Touches
    <2>2. /\ \A q \in Requests \ {p} : requests'[q] = requests[q]
          /\ requests'[p].op \in {"sumPurchases", "saveVerdict"}
          /\ requests'[p].id = requests[p].id
          /\ UNCHANGED <<yearState, closes, uploads>>
      BY <1>8 DEF SumSalaries, SumPurchases, Advance, TypeOK
    <2>3. ~Touches(p, y)'
      BY <2>1, <2>2 DEF Touches, YearOfClose
    <2>. QED
      BY <1>1, <2>2, <2>3, WriteElsewhere DEF CloseElsewhere, UploadElsewhere
  <1>9. CASE SaveVerdict(p)
    <2>1. /\ TenantOf[requests[p].id] # TenantOf[y] \/ YearOfClose(requests[p].id) # y
          /\ requests[p].id \in HardCloses
      BY <1>1, <1>9, RequestShape DEF SaveVerdict, Touches
    <2>2. CASE End(p) /\ UNCHANGED closes
      BY <1>3, <1>9, <2>2 DEF SaveVerdict
    <2>3. CASE Advance(p, "saveCheck", requests[p].ok)
      <3>1. \A q \in Requests \ {p} : requests'[q] = requests[q]
        BY <2>3 DEF Advance, TypeOK
      <3>2. ~Touches(p, y)'
        BY <2>3 DEF Advance, TypeOK, Touches
      <3>3. \A h \in HardCloses : YearOfClose(h)' = YearOfClose(h)
        <4>1. ASSUME closes[requests[p].id] # Absent
              PROVE  /\ closes'[requests[p].id] \in Close
                     /\ closes'[requests[p].id].year = closes[requests[p].id].year
          BY <1>1, <1>9, <2>1, <4>1, RequestShape DEF SaveVerdict, TypeOK, Close
        <4>. QED
          BY <1>9, <2>1, <4>1, AbsentAssumption DEF SaveVerdict, YearOfClose, TypeOK
      <3>4. \A h \in HardCloses : h # requests[p].id => closes'[h] = closes[h]
        BY <1>9 DEF SaveVerdict, TypeOK
      <3>5. \A h \in HardCloses : CloseElsewhere(h, y)
        BY <2>1, <3>3, <3>4 DEF CloseElsewhere
      <3>. QED
        BY <1>1, <1>9, <3>1, <3>2, <3>5, WriteElsewhere DEF SaveVerdict, UploadElsewhere
    <2>. QED
      BY <1>9, <2>2, <2>3 DEF SaveVerdict
  <1>10. CASE CommitLock(p)
    <2>1. yearState'[y] = "LOCKED"
      BY <1>1, <1>10 DEF CommitLock, TypeOK
    <2>. QED
      BY <1>10, <2>1, EndElsewhere, WriteElsewhere
      DEF CommitLock, CloseElsewhere, UploadElsewhere
  <1>. QED
    BY <1>3, <1>4, <1>5, <1>6, <1>7, <1>8, <1>9, <1>10
    DEF Continue, SaveRow, DeleteRow, SaveCheck

LEMMA NextSettled ==
  ASSUME TypeOK, Next, NEW y \in Years, Settled(y)
  PROVE  Settled(y)' /\ Untouched(y)
  <1>1. ASSUME NEW p \in Requests, Die(p)
        PROVE  Settled(y)' /\ Untouched(y)
    BY <1>1, EndElsewhere, WriteElsewhere DEF Die, Settled, CloseElsewhere, UploadElsewhere
  <1>. QED
    BY <1>1, StartSettled, ContinueSettled DEF Next

(* The Immutable Data Lock, as far as the guard enforces it: once the      *)
(* requests its tenant had admitted before the lock have ended, the        *)
(* tenant's hard close of the year and its payroll uploads there never     *)
(* change, whatever other tenants do.                                      *)
THEOREM LockedYearsSettle == Spec => LockedYearSettles
  <1>1. TypeOK /\ [Next]_vars =>
          [\A y \in Years : Settled(y) => Settled(y)' /\ Untouched(y)]_vars
    BY NextSettled
  <1>. QED
    BY <1>1, TypeCorrect, PTL DEF Spec, LockedYearSettles
==============================================================================
