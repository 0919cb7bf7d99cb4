----------------------------- MODULE Onboarding -----------------------------
(***************************************************************************)
(* The Master Admin's control plane (apps/accounts: provisioning wizard,   *)
(* soft hold, ghost login) and the pipeline of every API request: the      *)
(* row-level-security middleware, JWT authentication and the audit         *)
(* middleware.                                                             *)
(*                                                                         *)
(* The wizard's inserts are one transaction (provisioning.py:32); a        *)
(* request may die between any two steps, and its transaction with it.     *)
(***************************************************************************)
EXTENDS Naturals, Sequences, FiniteSets

CONSTANTS
  Tenants,     \* ids a new tenant may draw
  CRs, Years, Emails,
  BranchLists, \* the branch_crs a wizard may send
  YearLists,   \* the compliance_years a wizard may send
  Workers,     \* web requests that may run at once
  MaxWrites,   \* bound: writes answered with success
  MaxGhosts,   \* bound: ghost logins of one tenant
  Master, None

ASSUME OnboardingAssumption ==
  /\ BranchLists \subseteq Seq(CRs)
  /\ YearLists \subseteq Seq(Years) \ {<<>>}
  /\ IsFiniteSet(Workers)
  /\ MaxWrites \in Nat /\ MaxGhosts \in Nat
  /\ None \notin Tenants /\ Master \notin Emails

VARIABLES
  db,        \* the rows committed
  holds,     \* the mutable columns of each tenant row
  sessions,  \* GhostLoginSession rows, by tenant
  issued,    \* history: ghost tokens handed out, by tenant
  rls,       \* whether the deployment has enabled row-level security
  log,       \* the audit log
  done,      \* how many writes were answered with success
  workers    \* what each request still has to do

vars == <<db, holds, sessions, issued, rls, log, done, workers>>

-----------------------------------------------------------------------------
(* Rows *)

TenantRow(t)        == [table |-> "tenant", tenant |-> t, key |-> t]
Branch(t, cr, main) == [table |-> "branch", tenant |-> t, key |-> cr, main |-> main]
Year(t, y)          == [table |-> "year", tenant |-> t, key |-> y]
Subscription(t, ys) == [table |-> "subscription", tenant |-> t, key |-> ys]
SuperAdmin(t, e)    == [table |-> "user", tenant |-> t, key |-> e]

Rows ==
       {TenantRow(t) : t \in Tenants}
  \cup {Branch(t, cr, main) : t \in Tenants, cr \in CRs, main \in BOOLEAN}
  \cup {Year(t, y) : t \in Tenants, y \in Years}
  \cup {Subscription(t, ys) : t \in Tenants, ys \in SUBSET Years}
  \cup {SuperAdmin(t, e) : t \in Tenants, e \in Emails}

(* What a tenant's rows come to.                                           *)
Company == [owners : SUBSET Emails, main : SUBSET CRs, crs : SUBSET CRs,
            years : SUBSET Years, paid : SUBSET Years]

ASSUME NoneAssumption == None \notin Company

(* The models that subclass TenantScopedModel (rls.py:15-20).              *)
Scoped(row) == row.table \in {"branch", "year", "subscription"}

(* uq_branch_cr_per_tenant, uq_year_per_tenant, and the unique username,   *)
(* which is the one key two tenants can share.                             *)
Clash(row, rows) ==
  \E other \in rows :
    /\ other.table = row.table /\ other.key = row.key
    /\ row.table = "user" \/ other.tenant = row.tenant

-----------------------------------------------------------------------------
(* Requests *)

Idle == [op |-> "idle"]

(* What a request asked for, and of which tenant: the path of its entry.    *)
Asked == {"provision", "hold", "ghost", "other"}

(* "n" numbers the writes answered with success; 0 is any other answer.    *)
Entry == [actor : Emails \cup {Master}, tenant : Tenants \cup {None},
          asked : Asked, of : Tenants \cup {None}, n : 1..MaxWrites]

Work ==
       {Idle}
  \cup [op : {"provision"}, todo : Seq(Rows), made : SUBSET Rows]
  \cup [op : {"ghost"}, tenant : Tenants]
  \cup [op : {"answer"}, actor : Emails \cup {Master}, tenant : Tenants \cup {None},
        asked : Asked, of : Tenants \cup {None}, n : 0..MaxWrites]

TypeOK ==
  /\ db \subseteq Rows
  /\ holds \in [Tenants -> [flag : BOOLEAN, status : {"ACTIVE", "HOLD"}]]
  /\ sessions \in [Tenants -> 0..MaxGhosts] /\ issued \in [Tenants -> 0..MaxGhosts]
  /\ rls \in BOOLEAN
  /\ log \subseteq Entry /\ done \in 0..MaxWrites
  /\ workers \in [Workers -> Work]

Go(w, work) == workers' = [workers EXCEPT ![w] = work]

Answer(user, asked, of, n) ==
  [op |-> "answer", actor |-> user.key, tenant |-> user.tenant, asked |-> asked, of |-> of, n |-> n]

(* A write that succeeded is answered.                                     *)
Succeed(w, user, asked, of) ==
  /\ done < MaxWrites
  /\ done' = done + 1
  /\ Go(w, Answer(user, asked, of, done + 1))

Fail(w, user, asked, of) == Go(w, Answer(user, asked, of, 0)) /\ UNCHANGED done

(* The Master Admin, who is of no tenant.                                  *)
Admin == [key |-> Master, tenant |-> None]

-----------------------------------------------------------------------------
(* The request pipeline *)

(* The tenant RowLevelSecurityMiddleware finds: it runs before the view    *)
(* authenticates the JWT, so request.user is anonymous; and what it would  *)
(* set is local to a transaction that ends with the statement, since       *)
(* requests run in autocommit.                                             *)
CurrentTenant == None

(* What the policy lets a connection read and write.                       *)
Allowed(row) == rls /\ Scoped(row) => row.tenant = CurrentTenant

(* A request with the token of a tenant's user, their own or a ghost's:    *)
(* a read, or a write some other component makes.  Authentication looks    *)
(* the user up; nothing reads the hold.                                    *)
Use(w) ==
  /\ workers[w] = Idle
  /\ \E user \in {row \in db : row.table = "user"} :
       Fail(w, user, "other", None) \/ Succeed(w, user, "other", None)
  /\ UNCHANGED <<db, holds, sessions, issued, rls, log>>

EntryOf(a) ==
  [actor |-> a.actor, tenant |-> a.tenant, asked |-> a.asked, of |-> a.of, n |-> a.n]

(* Mutant: the status of the answer is not looked at.                      *)
AuditAnyway(w) ==
  LET a == workers[w]
  IN /\ a.op = "answer"
     /\ log' = log \cup {EntryOf(a)} \/ UNCHANGED log
     /\ Go(w, Idle)
     /\ UNCHANGED <<db, holds, sessions, issued, rls, done>>

(* AuditLogMiddleware: an entry for a mutating request that was answered   *)
(* with success; a failing insert is swallowed.                            *)
Audit(w) ==
  LET a == workers[w]
  IN /\ a.op = "answer"
     /\ (a.n > 0 /\ log' = log \cup {EntryOf(a)}) \/ UNCHANGED log
     /\ Go(w, Idle)
     /\ UNCHANGED <<db, holds, sessions, issued, rls, done>>

-----------------------------------------------------------------------------
(* create_tenant_with_admin *)

Mapped(list, Row(_)) == [i \in DOMAIN list |-> Row(list[i])]

(* Its inserts, in order.                                                  *)
Wizard(t, cr, branches, years, email) ==
  LET Plain(b) == Branch(t, b, FALSE)
      Paid(y)  == Year(t, y)
  IN <<TenantRow(t), Branch(t, cr, TRUE)>> \o Mapped(branches, Plain) \o Mapped(years, Paid)
       \o <<Subscription(t, {years[i] : i \in DOMAIN years}), SuperAdmin(t, email)>>

Uncommitted(w) ==
  UNION {workers[v].made : v \in {v \in Workers \ {w} : workers[v].op = "provision"}}

(* ProvisionTenantView: the serializer asks for a year at least; it does   *)
(* not compare the lists' members.  The tenant's id is a fresh uuid.       *)
Provision(w) ==
  /\ workers[w] = Idle
  /\ \E t \in Tenants, cr \in CRs, branches \in BranchLists, years \in YearLists, e \in Emails :
       /\ TenantRow(t) \notin db \cup Uncommitted(w)
       /\ Go(w, [op |-> "provision", todo |-> Wizard(t, cr, branches, years, e), made |-> {}])
  /\ UNCHANGED <<db, holds, sessions, issued, rls, log, done>>

(* Mutant: without @transaction.atomic.                                    *)
InsertAutocommit(w) ==
  LET p   == workers[w]
      row == Head(p.todo)
  IN /\ p.op = "provision" /\ p.todo # <<>>
     /\ IF Clash(row, db) \/ ~Allowed(row)
        THEN Fail(w, Admin, "provision", None) /\ UNCHANGED db
        ELSE /\ db' = db \cup {row}
             /\ Go(w, [op |-> "provision", todo |-> Tail(p.todo), made |-> {}]) /\ UNCHANGED done
     /\ UNCHANGED <<holds, sessions, issued, rls, log>>

(* An insert waits for another transaction's row with its key; when that   *)
(* is committed, or the policy forbids the row, the transaction is undone  *)
(* and the request answered with an error.                                 *)
Insert(w) ==
  LET p   == workers[w]
      row == Head(p.todo)
  IN /\ p.op = "provision" /\ p.todo # <<>>
     /\ ~Clash(row, Uncommitted(w))
     /\ IF Clash(row, db \cup p.made) \/ ~Allowed(row)
        THEN Fail(w, Admin, "provision", None)
        ELSE /\ Go(w, [op |-> "provision", todo |-> Tail(p.todo), made |-> p.made \cup {row}])
             /\ UNCHANGED done
     /\ UNCHANGED <<db, holds, sessions, issued, rls, log>>

Commit(w) ==
  LET p == workers[w]
  IN /\ p.op = "provision" /\ p.todo = <<>>
     /\ db' = db \cup p.made
     /\ Succeed(w, Admin, "provision", None)
     /\ UNCHANGED <<holds, sessions, issued, rls, log>>

-----------------------------------------------------------------------------
(* Soft hold and ghost login *)

(* toggle_soft_hold's save.                                                *)
SaveHold(t, hold) ==
  holds' = [holds EXCEPT ![t] = [flag |-> hold, status |-> IF hold THEN "HOLD" ELSE "ACTIVE"]]

SoftHold(w) ==
  /\ workers[w] = Idle
  /\ \E t \in Tenants, hold \in BOOLEAN :
       TenantRow(t) \in db /\ SaveHold(t, hold) /\ Succeed(w, Admin, "hold", t)
  /\ UNCHANGED <<db, sessions, issued, rls, log>>

(* Mutant: the token is handed out and its session recorded after.         *)
StartGhostTokenFirst(w) ==
  /\ workers[w] = Idle
  /\ \E t \in Tenants :
       /\ TenantRow(t) \in db /\ issued[t] < MaxGhosts
       /\ issued' = [issued EXCEPT ![t] = @ + 1]
       /\ Go(w, [op |-> "ghost", tenant |-> t])
  /\ UNCHANGED <<db, holds, sessions, rls, log, done>>

(* start_ghost_login: the session is recorded before a token is made; a    *)
(* tenant without a Super Admin is answered with 409.                      *)
StartGhost(w) ==
  /\ workers[w] = Idle
  /\ \E t \in Tenants :
       /\ TenantRow(t) \in db /\ sessions[t] < MaxGhosts
       /\ IF \E row \in db : row.table = "user" /\ row.tenant = t
          THEN /\ sessions' = [sessions EXCEPT ![t] = @ + 1]
               /\ Go(w, [op |-> "ghost", tenant |-> t]) /\ UNCHANGED done
          ELSE Fail(w, Admin, "ghost", t) /\ UNCHANGED sessions
  /\ UNCHANGED <<db, holds, issued, rls, log>>

IssueToken(w) ==
  /\ workers[w].op = "ghost"
  /\ issued' = [issued EXCEPT ![workers[w].tenant] = @ + 1]
  /\ Succeed(w, Admin, "ghost", workers[w].tenant)
  /\ UNCHANGED <<db, holds, sessions, rls, log>>

-----------------------------------------------------------------------------
(* The process dies: what it had not committed is gone.                    *)
Die(w) ==
  /\ workers[w] # Idle
  /\ Go(w, Idle)
  /\ UNCHANGED <<db, holds, sessions, issued, rls, log, done>>

(* A deploy with ENABLE_RLS=1 (entrypoint.sh:19-23, rls.py:23-34).         *)
EnableRls ==
  /\ ~rls /\ rls' = TRUE
  /\ UNCHANGED <<db, holds, sessions, issued, log, done, workers>>

Init ==
  /\ db = {}
  /\ holds = [t \in Tenants |-> [flag |-> FALSE, status |-> "ACTIVE"]]
  /\ sessions = [t \in Tenants |-> 0] /\ issued = [t \in Tenants |-> 0]
  /\ rls = FALSE
  /\ log = {} /\ done = 0
  /\ workers = [w \in Workers |-> Idle]

Step(w) ==
  \/ Use(w) \/ Audit(w)
  \/ Provision(w) \/ Insert(w) \/ Commit(w)
  \/ SoftHold(w) \/ StartGhost(w) \/ IssueToken(w)
  \/ Die(w)

Next == (\E w \in Workers : Step(w)) \/ EnableRls

Spec == Init /\ [][Next]_vars

-----------------------------------------------------------------------------
(* Properties *)

(* However wizards with one email, repeated registrations or repeated      *)
(* years race, fail and die, the platform is the register of whole         *)
(* companies, whose years are those paid for and whose owner is nobody     *)
(* else's (provisioning.py:32-92).                                         *)
CompanyOf(t) ==
  LET Of(table) == {row \in db : row.table = table /\ row.tenant = t}
      KeysOf(rows) == {row.key : row \in rows}
  IN IF TenantRow(t) \notin db THEN None
     ELSE [owners |-> KeysOf(Of("user")),
           main   |-> KeysOf({row \in Of("branch") : row.main}),
           crs    |-> KeysOf(Of("branch")),
           years  |-> KeysOf(Of("year")),
           paid   |-> UNION KeysOf(Of("subscription"))]

Register == INSTANCE CompanyRegister WITH
  companies <- [t \in Tenants |-> CompanyOf(t)], held <- {t \in Tenants : holds[t].flag}

RegisterSpec == Register!Spec

(* Every ghost token has its session on record, though the request die     *)
(* between the two ("record the impersonation for audit",                  *)
(* provisioning.py:109).                                                   *)
GhostsRecorded == \A t \in Tenants : issued[t] <= sessions[t]

(* The audit log claims nothing the tables do not bear out: no company it  *)
(* has provisioned was rolled back, no impersonation is without a session, *)
(* and nobody writes before their company is on the platform, though the   *)
(* entry is the last commit of a request and apart from the others         *)
(* (audit/middleware.py:18-36).  The converse is false, an entry may be    *)
(* missing; and a ghost's write is logged as the administrator's own.      *)
AuditBacked ==
  LET For(asked, t) == {e \in log : e.asked = asked /\ e.of = t}
  IN /\ Cardinality(For("provision", None)) <= Cardinality({t \in Tenants : TenantRow(t) \in db})
     /\ \A t \in Tenants : Cardinality(For("ghost", t)) <= sessions[t]
     /\ \A e \in log : e.asked = "other" => SuperAdmin(e.tenant, e.actor) \in db
==============================================================================
