------------------------------ MODULE YearClose ------------------------------
(***************************************************************************)
(* The Master Validator and the Immutable Data Lock of Mahalli Pro:        *)
(*   apps/finance/{services,views}.py   reconcile, lock, export_allowed    *)
(*   apps/tenancy/locking.py            YearLockWriteGuard                 *)
(*   apps/hr and apps/procurement       the rows the reconciliation sums   *)
(*                                                                         *)
(* There is no ATOMIC_REQUESTS: every ORM call commits on its own, so a    *)
(* request is a small process that reads, is admitted by the permission    *)
(* classes, and writes later.  Only lock_compliance_year is a transaction, *)
(* under READ COMMITTED and without row locks.                             *)
(*                                                                         *)
(* Tables are total functions from row ids to a row or Absent.  An id has  *)
(* the tenant its row is stamped with: TenantScopedViewSet stamps every    *)
(* new row with the user's tenant, which no serializer lets a client       *)
(* change, and shows a user the rows of its own tenant alone, so whoever   *)
(* writes row h is a user of TenantOf[h].  What a payload refers to is not *)
(* scoped: any tenant's year, or upload, may be named there.               *)
(* Columns no property reads are left out; an upload is its compliance     *)
(* year, a payroll row or an invoice its upload and amount.                *)
(***************************************************************************)
EXTENDS Scoring

CONSTANTS
  Years,        \* ComplianceYear rows, all paid
  HardCloses,   \* ids of AnnualHardClose rows
  HrUploads,    \* ids of HrMonthlyUpload rows
  ProcUploads,  \* ids of ProcMonthlyUpload rows
  HrRows,       \* ids of PayrollRow rows
  ProcRows,     \* ids of Invoice rows
  Requests,     \* web requests and Celery tasks that may run at once
  DirectCosts,  \* the values direct_costs takes
  Gna,          \* the values gna takes
  Amounts,      \* the values a row's gross or net spend takes
  TenantOf,     \* the tenant of each year, hard close, upload and row
  Absent        \* no such row

ASSUME MoneyAssumption ==
  DirectCosts \subseteq Int /\ Gna \subseteq Int /\ Amounts \subseteq Int

ASSUME IdsAssumption ==
  HrUploads \cap ProcUploads = {} /\ HrRows \cap ProcRows = {}

Uploads == HrUploads \cup ProcUploads
Rows    == HrRows \cup ProcRows

VARIABLES
  yearState,    \* ComplianceYear.state
  closes,       \* the AnnualHardClose table
  uploads,      \* the two upload tables: an upload's compliance year
  rows,         \* PayrollRow and Invoice
  requests,     \* what each in-flight request still has to do
  lastVerdict,  \* history: what the newest reconciliation saved in a hard close
  verified      \* history: <<h, y>> when a reconciliation of hard close h found
                \* it within 5% of the totals of year y

vars == <<yearState, closes, uploads, rows, requests, lastVerdict, verified>>

-----------------------------------------------------------------------------
(* Types *)

Close == [year : Years, direct : DirectCosts, gna : Gna, passed : BOOLEAN]

Row == [upload : Uploads, amount : Amounts]

ASSUME AbsentAssumption == Absent \notin Years \cup Close \cup Row

Idle == [op |-> "idle"]

Request ==
       {Idle}
  \cup [op : {"saveClose"},   id : HardCloses, obj : Close]
  \cup [op : {"saveUpload"},  id : Uploads,    obj : Years]
  \cup [op : {"saveRow"},     id : Rows,       obj : Row]
  \cup [op : {"deleteClose"}, id : HardCloses]
  \cup [op : {"deleteUpload"}, id : Uploads]
  \cup [op : {"deleteRow"},   id : Rows]
  \cup [op : {"sumSalaries", "sumPurchases", "saveVerdict", "saveCheck"},
        id : HardCloses, obj : Close, ok : BOOLEAN]
  \cup [op : {"lock"}, year : Years]

TypeOK ==
  /\ yearState \in [Years -> {"OPEN", "LOCKED"}]
  /\ closes \in [HardCloses -> Close \cup {Absent}]
  /\ uploads \in [Uploads -> Years \cup {Absent}]
  /\ rows \in [Rows -> Row \cup {Absent}]
  /\ requests \in [Requests -> Request]
  /\ lastVerdict \in [HardCloses -> {"none", "passed", "failed"}]
  /\ verified \in SUBSET (HardCloses \X Years)

Init ==
  /\ yearState = [y \in Years |-> "OPEN"]
  /\ closes = [h \in HardCloses |-> Absent]
  /\ uploads = [u \in Uploads |-> Absent]
  /\ rows = [r \in Rows |-> Absent]
  /\ requests = [p \in Requests |-> Idle]
  /\ lastVerdict = [h \in HardCloses |-> "none"]
  /\ verified = {}

-----------------------------------------------------------------------------
(* Queries *)

(* A year has at most one hard close (OneToOne).                           *)
HasClose(y) == \E h \in HardCloses : closes[h] # Absent /\ closes[h].year = y

ExportAllowed(y) ==
  \E h \in HardCloses : /\ closes[h] # Absent
                        /\ closes[h].year = y
                        /\ closes[h].passed

(* aggregate_hr_salaries and aggregate_proc_purchases, each one query: the *)
(* tenant's rows, of whichever tenant's upload, in the year.               *)
Total(kind, y, t) ==
  MapThenSumSet(LAMBDA r : rows[r].amount,
                {r \in kind : /\ rows[r] # Absent
                             /\ TenantOf[r] = t
                             /\ uploads[rows[r].upload] = y})

SalariesOK(c, t)  == WithinTolerance(Total(HrRows, c.year, t), c.direct + c.gna)
PurchasesOK(c, t) == WithinTolerance(Total(ProcRows, c.year, t), c.direct)

(***************************************************************************)
(* YearLockWriteGuard.  The permission check of the payload, the fetch of  *)
(* the object and the check of its year are consecutive reads; a lock only *)
(* ever closes a year, so one step at the time of the fetch admits exactly *)
(* the requests the three reads admit.  "No year found" admits, and a year *)
(* of another tenant than the user's is not found.                         *)
(***************************************************************************)
YearIsLocked(y, tenant) ==
  /\ y \in Years
  /\ TenantOf[y] = tenant
  /\ yearState[y] = "LOCKED"

(* Mutant: the compliance year in the payload is not looked at.            *)
AdmitsAnyPayload(payloadYear, objectYear, tenant) ==
  ~YearIsLocked(objectYear, tenant)

Admits(payloadYear, objectYear, tenant) ==
  ~YearIsLocked(payloadYear, tenant) /\ ~YearIsLocked(objectYear, tenant)

YearOfClose(h) == IF closes[h] = Absent THEN Absent ELSE closes[h].year

YearOfRow(r) == IF rows[r] = Absent THEN Absent ELSE uploads[rows[r].upload]

EverVerified(h) == \E y \in Years : <<h, y>> \in verified

(* A new row gets a fresh uuid: nothing in flight can name it.             *)
Named(id) == \E p \in Requests : "id" \in DOMAIN requests[p] /\ requests[p].id = id

Begin(p, req) ==
  /\ requests[p] = Idle
  /\ requests' = [requests EXCEPT ![p] = req]
  /\ UNCHANGED <<yearState, closes, uploads, rows, lastVerdict, verified>>

End(p) == requests' = [requests EXCEPT ![p] = Idle]

-----------------------------------------------------------------------------
(* Mutant: reconciliation_passed is missing from read_only_fields.         *)
BeginSaveCloseWritable(p, h, y, d, g) ==
  /\ Admits(y, YearOfClose(h), TenantOf[h])
  /\ closes[h] = Absent => ~Named(h) /\ ~EverVerified(h)
  /\ \E passed \in BOOLEAN :
       Begin(p, [op |-> "saveClose", id |-> h,
                 obj |-> [year |-> y, direct |-> d, gna |-> g, passed |-> passed]])

(***************************************************************************)
(* POST, PUT and PATCH.  The serializer keeps the fetched instance, sets   *)
(* the client's fields on it and saves every column later; state and       *)
(* reconciliation_passed are read-only, so they are written back as        *)
(* fetched.                                                                *)
(***************************************************************************)
BeginSaveClose(p, h, y, d, g) ==
  /\ Admits(y, YearOfClose(h), TenantOf[h])
  /\ closes[h] = Absent => ~Named(h) /\ ~EverVerified(h)
  /\ Begin(p, [op |-> "saveClose", id |-> h,
               obj |-> [year |-> y, direct |-> d, gna |-> g,
                        passed |-> closes[h] # Absent /\ closes[h].passed]])

(* HrUploadViewSet is guarded, ProcUploadViewSet is not.                   *)
BeginSaveUpload(p, u, y) ==
  /\ u \in HrUploads => Admits(y, uploads[u], TenantOf[u])
  /\ uploads[u] = Absent => ~Named(u)
  /\ Begin(p, [op |-> "saveUpload", id |-> u, obj |-> y])

(* The payload of a payroll row names an upload and no compliance year, so *)
(* only the year of the row as stored is looked at; a new row has none.    *)
(* The rows a parse task inserts take the same path without any guard.     *)
BeginSaveRow(p, r, u, a) ==
  /\ r \in HrRows => u \in HrUploads /\ Admits(Absent, YearOfRow(r), TenantOf[r])
  /\ r \in ProcRows => u \in ProcUploads
  /\ uploads[u] # Absent
  /\ rows[r] = Absent => ~Named(r)
  /\ Begin(p, [op |-> "saveRow", id |-> r,
               obj |-> [upload |-> u, amount |-> a]])

(* A full save is an UPDATE, and an INSERT when no row was updated: it     *)
(* brings a row deleted in the meantime back.  A second hard close for a   *)
(* year, or a row whose upload is gone, is an IntegrityError.              *)
SaveClose(p) ==
  /\ requests[p].op = "saveClose"
  /\ LET h == requests[p].id
         c == requests[p].obj
         taken == \E k \in HardCloses \ {h} : YearOfClose(k) = c.year
     IN closes' = IF taken THEN closes ELSE [closes EXCEPT ![h] = c]
  /\ End(p)
  /\ UNCHANGED <<yearState, uploads, rows, lastVerdict, verified>>

SaveUpload(p) ==
  /\ requests[p].op = "saveUpload"
  /\ uploads' = [uploads EXCEPT ![requests[p].id] = requests[p].obj]
  /\ End(p)
  /\ UNCHANGED <<yearState, closes, rows, lastVerdict, verified>>

SaveRow(p) ==
  /\ requests[p].op = "saveRow"
  /\ rows' = IF uploads[requests[p].obj.upload] = Absent THEN rows
             ELSE [rows EXCEPT ![requests[p].id] = requests[p].obj]
  /\ End(p)
  /\ UNCHANGED <<yearState, closes, uploads, lastVerdict, verified>>

-----------------------------------------------------------------------------
(* DELETE: fetched and admitted, then deleted; an upload's rows cascade.   *)

BeginDeleteClose(p, h) ==
  /\ closes[h] # Absent
  /\ Admits(Absent, YearOfClose(h), TenantOf[h])
  /\ Begin(p, [op |-> "deleteClose", id |-> h])

BeginDeleteUpload(p, u) ==
  /\ uploads[u] # Absent
  /\ u \in HrUploads => Admits(Absent, uploads[u], TenantOf[u])
  /\ Begin(p, [op |-> "deleteUpload", id |-> u])

BeginDeleteRow(p, r) ==
  /\ rows[r] # Absent
  /\ r \in HrRows => Admits(Absent, YearOfRow(r), TenantOf[r])
  /\ Begin(p, [op |-> "deleteRow", id |-> r])

(* Mutant: the deleted row stays, its year set to null.                    *)
DeleteCloseSetNull(p) ==
  /\ requests[p].op = "deleteClose"
  /\ closes' = IF closes[requests[p].id] = Absent THEN closes
               ELSE [closes EXCEPT ![requests[p].id].year = Absent]
  /\ End(p)
  /\ UNCHANGED <<yearState, uploads, rows, lastVerdict, verified>>

DeleteClose(p) ==
  /\ requests[p].op = "deleteClose"
  /\ closes' = [closes EXCEPT ![requests[p].id] = Absent]
  /\ End(p)
  /\ UNCHANGED <<yearState, uploads, rows, lastVerdict, verified>>

DeleteUpload(p) ==
  /\ requests[p].op = "deleteUpload"
  /\ LET u == requests[p].id
     IN /\ uploads' = [uploads EXCEPT ![u] = Absent]
        /\ rows' = [r \in Rows |-> IF rows[r] # Absent /\ rows[r].upload = u
                                   THEN Absent ELSE rows[r]]
  /\ End(p)
  /\ UNCHANGED <<yearState, closes, lastVerdict, verified>>

DeleteRow(p) ==
  /\ requests[p].op = "deleteRow"
  /\ rows' = [rows EXCEPT ![requests[p].id] = Absent]
  /\ End(p)
  /\ UNCHANGED <<yearState, closes, uploads, lastVerdict, verified>>

-----------------------------------------------------------------------------
(***************************************************************************)
(* run_annual_reconciliation: fetch the hard close, sum the payroll, sum   *)
(* the invoices, save the flag, insert the ReconciliationCheck.  Each is a *)
(* commit of its own and the figures compared are those of the fetch.      *)
(***************************************************************************)
Advance(p, op, ok) ==
  requests' = [requests EXCEPT ![p] =
                 [op |-> op, id |-> @.id, obj |-> @.obj, ok |-> ok]]

BeginReconcile(p, h) ==
  /\ closes[h] # Absent
  /\ Admits(Absent, YearOfClose(h), TenantOf[h])
  /\ Begin(p, [op |-> "sumSalaries", id |-> h, obj |-> closes[h], ok |-> FALSE])

SumSalaries(p) ==
  /\ requests[p].op = "sumSalaries"
  /\ Advance(p, "sumPurchases", SalariesOK(requests[p].obj, TenantOf[requests[p].id]))
  /\ UNCHANGED <<yearState, closes, uploads, rows, lastVerdict, verified>>

SumPurchases(p) ==
  /\ requests[p].op = "sumPurchases"
  /\ LET passed == /\ requests[p].ok
                   /\ PurchasesOK(requests[p].obj, TenantOf[requests[p].id])
     IN /\ Advance(p, "saveVerdict", passed)
        /\ verified' = IF passed
                       THEN verified \cup {<<requests[p].id, requests[p].obj.year>>}
                       ELSE verified
  /\ UNCHANGED <<yearState, closes, uploads, rows, lastVerdict>>

(* save(update_fields=...) of a deleted row is a DatabaseError: a 500 and  *)
(* no ReconciliationCheck.                                                 *)
SaveVerdict(p) ==
  /\ requests[p].op = "saveVerdict"
  /\ LET h == requests[p].id
     IN IF closes[h] = Absent
        THEN End(p) /\ UNCHANGED <<closes, lastVerdict>>
        ELSE /\ closes' = [closes EXCEPT ![h].passed = requests[p].ok]
             /\ lastVerdict' = [lastVerdict EXCEPT ![h] =
                                  IF requests[p].ok THEN "passed" ELSE "failed"]
             /\ Advance(p, "saveCheck", requests[p].ok)
  /\ UNCHANGED <<yearState, uploads, rows, verified>>

(* The ReconciliationCheck is inserted; nothing ever reads it back.        *)
SaveCheck(p) ==
  /\ requests[p].op = "saveCheck"
  /\ End(p)
  /\ UNCHANGED <<yearState, closes, uploads, rows, lastVerdict, verified>>

-----------------------------------------------------------------------------
(* Mutant: the hard close must exist, its flag is not read.                *)
BeginLockUnchecked(p, y) ==
  /\ HasClose(y)
  /\ Begin(p, [op |-> "lock", year |-> y])

(***************************************************************************)
(* lock_compliance_year: the flag is read without a row lock and the state *)
(* becomes visible at the commit.  YearCloseViewSet finds the years of the *)
(* user's tenant and has no year guard: a locked year may be locked again, *)
(* which only renews locked_at.  The hard close is looked up by the year   *)
(* alone, whatever its tenant.                                             *)
(***************************************************************************)
BeginLock(p, y) ==
  /\ ExportAllowed(y)
  /\ Begin(p, [op |-> "lock", year |-> y])

CommitLock(p) ==
  /\ requests[p].op = "lock"
  /\ yearState' = [yearState EXCEPT ![requests[p].year] = "LOCKED"]
  /\ End(p)
  /\ UNCHANGED <<closes, uploads, rows, lastVerdict, verified>>

(* A worker dies, or the connection drops, between two commits.            *)
Die(p) ==
  /\ requests[p] # Idle
  /\ End(p)
  /\ UNCHANGED <<yearState, closes, uploads, rows, lastVerdict, verified>>

-----------------------------------------------------------------------------
Start(p) ==
  \/ \E h \in HardCloses, y \in Years, d \in DirectCosts, g \in Gna :
       BeginSaveClose(p, h, y, d, g)
  \/ \E u \in Uploads, y \in Years : BeginSaveUpload(p, u, y)
  \/ \E r \in Rows, u \in Uploads, a \in Amounts : BeginSaveRow(p, r, u, a)
  \/ \E h \in HardCloses : BeginDeleteClose(p, h)
  \/ \E u \in Uploads : BeginDeleteUpload(p, u)
  \/ \E r \in Rows : BeginDeleteRow(p, r)
  \/ \E h \in HardCloses : BeginReconcile(p, h)
  \/ \E y \in Years : BeginLock(p, y)

Continue(p) ==
  \/ SaveClose(p) \/ SaveUpload(p) \/ SaveRow(p)
  \/ DeleteClose(p) \/ DeleteUpload(p) \/ DeleteRow(p)
  \/ SumSalaries(p) \/ SumPurchases(p) \/ SaveVerdict(p) \/ SaveCheck(p)
  \/ CommitLock(p)

Next == \E p \in Requests : Start(p) \/ Continue(p) \/ Die(p)

Spec == Init /\ [][Next]_vars

-----------------------------------------------------------------------------
(* Properties *)

(* A hard close's pass flag, in the table or in what some request will     *)
(* write there, is never invented: a reconciliation of that very hard      *)
(* close found both totals within 5% at some time (services.py:121-150).   *)
FlagIsEarned ==
  /\ \A h \in HardCloses :
       closes[h] # Absent => (closes[h].passed => EverVerified(h))
  /\ \A p \in Requests :
       requests[p].op = "saveClose" =>
         (requests[p].obj.passed => EverVerified(requests[p].id))
  /\ \A p \in Requests :
       requests[p].op = "saveVerdict" =>
         (requests[p].ok => EverVerified(requests[p].id))

(* The year is locked only after some hard close was verified, and a lock  *)
(* is never undone: YearClose implements YearLock (services.py:158-171).   *)
Lock == INSTANCE YearLock WITH locked <- {y \in Years : yearState[y] = "LOCKED"},
                               verified <- {h \in HardCloses : EverVerified(h)}

LockSpec == Lock!Spec

(* A request of the year's tenant, already past the guard, that can still  *)
(* write a hard close or a payroll upload of year y.                       *)
Touches(p, y) ==
  /\ requests[p].op \notin {"idle", "lock"}
  /\ TenantOf[requests[p].id] = TenantOf[y]
  /\ \/ requests[p].op = "saveClose" /\ y \in {requests[p].obj.year, YearOfClose(requests[p].id)}
     \/ /\ requests[p].op \in {"deleteClose", "sumSalaries", "sumPurchases", "saveVerdict"}
        /\ YearOfClose(requests[p].id) = y
     \/ /\ requests[p].op = "saveUpload"
        /\ requests[p].id \in HrUploads
        /\ y \in {requests[p].obj, uploads[requests[p].id]}
     \/ /\ requests[p].op = "deleteUpload"
        /\ requests[p].id \in HrUploads
        /\ uploads[requests[p].id] = y

Settled(y) == yearState[y] = "LOCKED" /\ \A p \in Requests : ~Touches(p, y)

(* The step writes neither a hard close nor a payroll upload that its own  *)
(* tenant has in the year.                                                 *)
Untouched(y) ==
  /\ \A h \in HardCloses :
       TenantOf[h] = TenantOf[y] /\ y \in {YearOfClose(h), YearOfClose(h)'}
         => closes'[h] = closes[h]
  /\ \A u \in HrUploads :
       TenantOf[u] = TenantOf[y] /\ y \in {uploads[u], uploads'[u]}
         => uploads'[u] = uploads[u]

(* The lock does not stop requests admitted before it, but when those have *)
(* ended no user of the year's tenant ever writes the hard close or the    *)
(* payroll uploads it has there again: the guard on payload and object     *)
(* leaves its own users no way in (locking.py:22-48).  It finds a year by  *)
(* the user's tenant, so rows that another tenant's users keep in the year *)
(* are not what this speaks of.                                            *)
LockedYearSettles ==
  [][\A y \in Years : Settled(y) => Settled(y)' /\ Untouched(y)]_vars

-----------------------------------------------------------------------------
(* What the documentation says and the code does not do.                   *)

(* finance/services.py:124: "a variance over ±5% throws the Red Light and  *)
(* blocks export (passed=False)".  Here, when the newest verdict saved in  *)
(* a hard close is a failure and nothing is in flight, the hard close does *)
(* not allow the export.                                                   *)
RedLightBlocksExport ==
  \A h \in HardCloses :
    lastVerdict[h] = "failed" /\ (\A p \in Requests : requests[p] = Idle)
      => closes[h] = Absent \/ ~closes[h].passed
==============================================================================
