------------------------------ MODULE AuditPack ------------------------------
(***************************************************************************)
(* Reports, exports and the auditor portal of Mahalli Pro:                 *)
(*   apps/reports/{views,services}.py       report, score.xlsx, audit pack *)
(*   apps/integrations/{views,services}.py  portal links, hash check       *)
(*                                                                         *)
(* A report is a row and then its score; an export is a stored file, an    *)
(* artifact row and, for a pack, a log entry.  Each is a commit of its own *)
(* and a request may die between any two.                                  *)
(*                                                                         *)
(* A file's content is its score and the time it was built at, which both  *)
(* formats record; two builds of one score within the clock's resolution   *)
(* are the same bytes.  SHA-256 is taken to be injective, so that a digest *)
(* is the content.                                                         *)
(***************************************************************************)
EXTENDS Integers

CONSTANTS
  Years,        \* ComplianceYear rows
  Reports,      \* ids of LcReport rows
  Links,        \* ids of AuditorPortalLink rows
  Scores,       \* the values a score takes
  Terms,        \* the values of ttl_hours, in ticks
  Requests,     \* web requests that may run at once
  Backends,     \* the storage backends looked at
  LastTick,     \* bound: when the clock stops
  MaxBuilds,    \* bound: how many exports the model stores
  Absent, Null

ASSUME PackAssumption ==
  /\ Terms \subseteq Nat /\ LastTick \in Nat /\ MaxBuilds \in Nat
  /\ Backends \subseteq {"local", "bucket"}

VARIABLES
  reports,    \* LcReport
  artifacts,  \* ExportArtifact
  named,      \* storage: the file under the name asked for
  renamed,    \* storage: files saved under another name
  replaced,   \* history: files a later one was saved over
  links,      \* AuditorPortalLink
  requests,   \* what each in-flight request still has to do
  clock,
  backend,    \* the storage backend
  builds,     \* bound: exports still allowed
  assembled,  \* history: the scores assemble_score returned for each report
  granted,    \* history: the expiry each link was created with
  opened, stored, issued, logged, confirmed   \* history: see PackRegister

tables   == <<reports, artifacts>>
storage  == <<named, renamed, replaced>>
portal   == <<links, granted, confirmed>>
env      == <<clock, backend>>
register == <<opened, stored, issued, logged>>

vars == <<tables, storage, portal, env, register, requests, builds, assembled>>

-----------------------------------------------------------------------------
(* Types *)

Kinds == {"score", "pack"}

Report == [year : Years, score : Scores \cup {Null}]

Content == [score : Scores, built : Nat]

(* The file_ref of every export of a report is one key per kind.           *)
Key == Reports \X Kinds

Artifact == [report : Reports, kind : Kinds, digest : Content]

Link == [year : Years, expires : Nat]

ASSUME NullAssumption ==
  Null \notin Scores /\ Absent \notin Report \cup Link \cup Content

Idle == [op |-> "idle"]

Request ==
       {Idle}
  \cup [op : {"assemble"},   report : Reports]
  \cup [op : {"snapshot"},   report : Reports, score : Scores]
  \cup [op : {"saveReport"}, report : Reports, obj : Report]
  \cup [op : {"gate", "store"}, report : Reports, kind : Kinds, obj : Report]
  \cup [op : {"record"},     report : Reports, kind : Kinds, digest : Content]
  \cup [op : {"log"},        digest : Content]
  \cup [op : {"saveLink"},   link : Links, obj : Link]

(* No artifact outlives its report.                                        *)
TypeOK ==
  /\ reports \in [Reports -> Report \cup {Absent}]
  /\ artifacts \subseteq Artifact
  /\ \A a \in artifacts : reports[a.report] # Absent
  /\ named \in [Key -> Content \cup {Absent}]
  /\ renamed \subseteq Key \X Content /\ replaced \subseteq Key \X Content
  /\ links \in [Links -> Link \cup {Absent}]
  /\ granted \in [Links -> Nat]
  /\ requests \in [Requests -> Request]
  /\ clock \in Nat
  /\ backend \in {"local", "bucket"}
  /\ builds \in Int

Init ==
  /\ reports = [r \in Reports |-> Absent]
  /\ artifacts = {}
  /\ named = [k \in Key |-> Absent]
  /\ renamed = {} /\ replaced = {}
  /\ links = [l \in Links |-> Absent]
  /\ granted = [l \in Links |-> 0]
  /\ requests = [p \in Requests |-> Idle]
  /\ clock = 0
  /\ backend \in Backends
  /\ builds = MaxBuilds
  /\ assembled = {}
  /\ opened = {} /\ stored = {} /\ issued = {} /\ logged = {} /\ confirmed = {}

At(p, op) == requests[p].op = op

Go(p, next) == requests' = [requests EXCEPT ![p] = next]

(* A new row gets a fresh uuid: nothing in flight or in storage names it.  *)
FreshReport(r) ==
  /\ reports[r] = Absent
  /\ \A k \in Kinds : named[<<r, k>>] = Absent
  /\ \A p \in Requests : "report" \in DOMAIN requests[p] => requests[p].report # r

FreshLink(l) ==
  links[l] = Absent /\ granted[l] = 0 /\ \A p \in Requests : At(p, "saveLink") => requests[p].link # l

-----------------------------------------------------------------------------
Tick ==
  /\ clock < LastTick
  /\ clock' = clock + 1
  /\ UNCHANGED <<tables, storage, portal, backend, register, requests, builds,
                 assembled>>

-----------------------------------------------------------------------------
(* Reports *)

(* POST: the row is committed without a score, which is assembled next.    *)
CreateReport(p, r, y) ==
  /\ At(p, "idle") /\ FreshReport(r)
  /\ reports' = [reports EXCEPT ![r] = [year |-> y, score |-> Null]]
  /\ Go(p, [op |-> "assemble", report |-> r])
  /\ UNCHANGED <<artifacts, storage, portal, env, register,
                 builds, assembled>>

(* assemble_score sums the rows of five tables, which other requests write *)
(* meanwhile: it may return any score.                                     *)
Assemble(p) ==
  /\ At(p, "assemble")
  /\ \E s \in Scores :
       /\ Go(p, [op |-> "snapshot", report |-> requests[p].report, score |-> s])
       /\ assembled' = assembled \cup {<<requests[p].report, s>>}
  /\ UNCHANGED <<tables, storage, portal, env, register, builds>>

(* save(update_fields=...) of a report deleted meanwhile is a 500.         *)
Snapshot(p) ==
  /\ At(p, "snapshot")
  /\ reports' = IF reports[requests[p].report] = Absent THEN reports
                ELSE [reports EXCEPT ![requests[p].report].score = requests[p].score]
  /\ Go(p, Idle)
  /\ UNCHANGED <<artifacts, storage, portal, env, register,
                 builds, assembled>>

(* Mutant: computed_score is missing from read_only_fields.                *)
BeginSaveReportWritable(p, r, y) ==
  /\ At(p, "idle") /\ reports[r] # Absent
  /\ \E s \in Scores :
       Go(p, [op |-> "saveReport", report |-> r, obj |-> [year |-> y, score |-> s]])
  /\ UNCHANGED <<tables, storage, portal, env, register, builds, assembled>>

(* PUT and PATCH may name another year; the read-only score is written     *)
(* back as fetched.                                                        *)
BeginSaveReport(p, r, y) ==
  /\ At(p, "idle") /\ reports[r] # Absent
  /\ Go(p, [op |-> "saveReport", report |-> r, obj |-> [reports[r] EXCEPT !.year = y]])
  /\ UNCHANGED <<tables, storage, portal, env, register, builds, assembled>>

(* A full save brings a row deleted meanwhile back.                        *)
SaveReport(p) ==
  /\ At(p, "saveReport")
  /\ reports' = [reports EXCEPT ![requests[p].report] = requests[p].obj]
  /\ Go(p, Idle)
  /\ UNCHANGED <<artifacts, storage, portal, env, register,
                 builds, assembled>>

(* Mutant: the artifacts stay.                                             *)
DeleteReportOnly(r) ==
  /\ reports[r] # Absent
  /\ reports' = [reports EXCEPT ![r] = Absent]
  /\ UNCHANGED <<artifacts, storage, portal, env, register,
                 requests, builds, assembled>>

(* The artifacts cascade, the files stay in storage.                       *)
DeleteReport(r) ==
  /\ reports[r] # Absent
  /\ reports' = [reports EXCEPT ![r] = Absent]
  /\ artifacts' = {a \in artifacts : a.report # r}
  /\ UNCHANGED <<storage, portal, env, register, requests,
                 builds, assembled>>

-----------------------------------------------------------------------------
(* Exports: generate and audit_pack *)

BeginExport(p, r, kind) ==
  /\ At(p, "idle") /\ reports[r] # Absent
  /\ Go(p, [op |-> "gate", report |-> r, kind |-> kind, obj |-> reports[r]])
  /\ UNCHANGED <<tables, storage, portal, env, register, builds, assembled>>

(* export_allowed, for the year the report was fetched with: the flag is   *)
(* YearClose's, which reconciliations set and clear meanwhile.  409 if not. *)
Gate(p) ==
  /\ At(p, "gate")
  /\ \/ /\ Go(p, [requests[p] EXCEPT !.op = "store"])
        /\ opened' = opened \cup {requests[p].obj.year}
     \/ Go(p, Idle) /\ UNCHANGED opened
  /\ UNCHANGED <<tables, storage, portal, env, stored, issued, logged, builds,
                 assembled>>

(* Storage.save: the local file system finds another name for a name that  *)
(* is taken, an object store with its default settings overwrites it.      *)
Save(key, content) ==
  \/ /\ named[key] = Absent
     /\ named' = [named EXCEPT ![key] = content]
     /\ UNCHANGED <<renamed, replaced>>
  \/ /\ named[key] # Absent /\ backend = "bucket"
     /\ named' = [named EXCEPT ![key] = content]
     /\ replaced' = replaced \cup {<<key, named[key]>>}
     /\ UNCHANGED renamed
  \/ /\ named[key] # Absent /\ backend = "local"
     /\ renamed' = renamed \cup {<<key, content>>}
     /\ UNCHANGED <<named, replaced>>

(* The score is the snapshot, or assembled now when there is none; the     *)
(* name the storage returns is dropped.                                    *)
Store(p) ==
  /\ At(p, "store") /\ builds > 0
  /\ LET req == requests[p]
     IN \E s \in IF req.obj.score = Null THEN Scores ELSE {req.obj.score} :
          LET content == [score |-> s, built |-> clock]
          IN /\ Save(<<req.report, req.kind>>, content)
             /\ Go(p, [op |-> "record", report |-> req.report, kind |-> req.kind,
                       digest |-> content])
             /\ stored' = stored \cup {<<req.obj.year, content>>}
             /\ assembled' = IF req.obj.score = Null
                              THEN assembled \cup {<<req.report, s>>} ELSE assembled
  /\ builds' = builds - 1
  /\ UNCHANGED <<tables, portal, env, opened, issued, logged>>

(* Mutant: the hash is taken of a second build.                            *)
RecordRebuilt(p) ==
  /\ At(p, "record")
  /\ LET req == requests[p]
         digest == [req.digest EXCEPT !.built = clock]
     IN IF reports[req.report] = Absent
        THEN Go(p, Idle) /\ UNCHANGED <<artifacts, issued>>
        ELSE /\ artifacts' = artifacts \cup {[report |-> req.report, kind |-> req.kind,
                                              digest |-> digest]}
             /\ issued' = issued \cup {digest}
             /\ Go(p, IF req.kind = "pack" THEN [op |-> "log", digest |-> digest]
                      ELSE Idle)
  /\ UNCHANGED <<reports, storage, portal, env, opened, stored,
                 logged, builds, assembled>>

(* Mutant: an artifact that cannot be recorded is logged all the same.     *)
RecordSwallowed(p) ==
  /\ At(p, "record")
  /\ LET req == requests[p]
     IN /\ IF reports[req.report] = Absent
           THEN UNCHANGED <<artifacts, issued>>
           ELSE /\ artifacts' = artifacts \cup {[report |-> req.report, kind |-> req.kind,
                                                 digest |-> req.digest]}
                /\ issued' = issued \cup {req.digest}
        /\ Go(p, IF req.kind = "pack" THEN [op |-> "log", digest |-> req.digest] ELSE Idle)
  /\ UNCHANGED <<reports, storage, portal, env, opened, stored,
                 logged, builds, assembled>>

(* ExportArtifact.objects.create; an IntegrityError when the report is     *)
(* gone leaves the file alone in storage.  Only a pack is logged.          *)
Record(p) ==
  /\ At(p, "record")
  /\ LET req == requests[p]
     IN IF reports[req.report] = Absent
        THEN Go(p, Idle) /\ UNCHANGED <<artifacts, issued>>
        ELSE /\ artifacts' = artifacts \cup {[report |-> req.report, kind |-> req.kind,
                                              digest |-> req.digest]}
             /\ issued' = issued \cup {req.digest}
             /\ Go(p, IF req.kind = "pack" THEN [op |-> "log", digest |-> req.digest]
                      ELSE Idle)
  /\ UNCHANGED <<reports, storage, portal, env, opened, stored,
                 logged, builds, assembled>>

LogPack(p) ==
  /\ At(p, "log")
  /\ logged' = logged \cup {requests[p].digest}
  /\ Go(p, Idle)
  /\ UNCHANGED <<tables, storage, portal, env, opened, stored, issued, builds,
                 assembled>>

-----------------------------------------------------------------------------
(* The auditor portal *)

CreateLink(l, y, ttl) ==
  /\ FreshLink(l)
  /\ links' = [links EXCEPT ![l] = [year |-> y, expires |-> clock + ttl]]
  /\ granted' = [granted EXCEPT ![l] = clock + ttl]
  /\ UNCHANGED <<tables, storage, confirmed, env, register, requests, builds,
                 assembled>>

(* Mutant: a PATCH grants a new term.                                      *)
BeginSaveLinkRenewed(p, l, y) ==
  /\ At(p, "idle") /\ links[l] # Absent
  /\ \E ttl \in Terms :
       Go(p, [op |-> "saveLink", link |-> l, obj |-> [year |-> y, expires |-> clock + ttl]])
  /\ UNCHANGED <<tables, storage, portal, env, register, builds, assembled>>

(* Only the year of a link can be edited; its term is read-only.           *)
BeginSaveLink(p, l, y) ==
  /\ At(p, "idle") /\ links[l] # Absent
  /\ Go(p, [op |-> "saveLink", link |-> l, obj |-> [links[l] EXCEPT !.year = y]])
  /\ UNCHANGED <<tables, storage, portal, env, register, builds, assembled>>

SaveLink(p) ==
  /\ At(p, "saveLink")
  /\ links' = [links EXCEPT ![requests[p].link] = requests[p].obj]
  /\ Go(p, Idle)
  /\ UNCHANGED <<tables, storage, granted, confirmed, env, register, builds,
                 assembled>>

DeleteLink(l) ==
  /\ links[l] # Absent
  /\ links' = [links EXCEPT ![l] = Absent]
  /\ UNCHANGED <<tables, storage, granted, confirmed, env, register, requests,
                 builds, assembled>>

LinkIsValid(link) == link.expires > clock

VerifyArtifactHash(year, digest) ==
  \E a \in artifacts : reports[a.report].year = year /\ a.digest = digest

(* The auditor posts the hash of the file delivered to her, or any other.  *)
(* One read more or less between link and hash makes no difference.        *)
Verify(l) ==
  /\ links[l] # Absent /\ LinkIsValid(links[l])
  /\ \E s \in Scores, t \in 0 .. LastTick :
       LET digest == [score |-> s, built |-> t]
       IN /\ VerifyArtifactHash(links[l].year, digest)
          /\ confirmed' = confirmed \cup {digest}
  /\ UNCHANGED <<tables, storage, links, granted, env, register, requests, builds,
                 assembled>>

(* A worker dies between two commits, or the client's connection drops.    *)
Die(p) ==
  /\ ~At(p, "idle")
  /\ Go(p, Idle)
  /\ UNCHANGED <<tables, storage, portal, env, register, builds, assembled>>

-----------------------------------------------------------------------------
Serve(p) ==
  \/ \E r \in Reports, y \in Years : CreateReport(p, r, y) \/ BeginSaveReport(p, r, y)
  \/ Assemble(p) \/ Snapshot(p) \/ SaveReport(p)
  \/ \E r \in Reports, kind \in Kinds : BeginExport(p, r, kind)
  \/ Gate(p) \/ Store(p) \/ Record(p) \/ LogPack(p)
  \/ \E l \in Links, y \in Years : BeginSaveLink(p, l, y)
  \/ SaveLink(p)
  \/ Die(p)

Next ==
  \/ \E p \in Requests : Serve(p)
  \/ \E r \in Reports : DeleteReport(r)
  \/ \E l \in Links, y \in Years, ttl \in Terms : CreateLink(l, y, ttl)
  \/ \E l \in Links : DeleteLink(l) \/ Verify(l)
  \/ Tick

Spec == Init /\ [][Next]_vars

-----------------------------------------------------------------------------
(* Properties *)

(* Every file an export has stored, those another was saved over included. *)
Files == {<<key, named[key]>> : key \in {k \in Key : named[k] # Absent}} \cup renamed \cup replaced

(* The hash of every artifact is that of a file stored for its report,     *)
(* though file, row and deletion are separate commits.  With local storage *)
(* that file is still there, under one name or another.  The bucket of the *)
(* deployment (config/settings/prod.py:33) is not that good: it loses the  *)
(* file to the next export of the report, and only to that                 *)
(* (reports/services.py:132-142, 166-175).                                 *)
HashesBacked ==
  /\ \A a \in artifacts : <<<<a.report, a.kind>>, a.digest>> \in Files
  /\ backend = "local" => replaced = {}

(* A score in a report, in a copy of it or in one of its files was         *)
(* assembled for that very report: no stale save, crash or request for     *)
(* another report puts one in.  Of which year it was assembled is not      *)
(* said: a PATCH moves a report to another year and keeps the score        *)
(* (reports/views.py:29-35, reports/services.py:130, 155).                 *)
ScoresAssembled ==
  LET Real(r, s) == s = Null \/ <<r, s>> \in assembled
  IN  /\ \A r \in Reports : reports[r] # Absent => Real(r, reports[r].score)
      /\ \A p \in Requests :
           requests[p].op \in {"saveReport", "gate", "store"} =>
             Real(requests[p].report, requests[p].obj.score)
      /\ \A f \in Files : Real(f[1][1], f[2].score)

(* A portal link never outlives the term it was created with, though saves *)
(* of stale copies move it to other years and bring it back when deleted   *)
(* (integrations/services.py:46-61).                                       *)
TermsKept ==
  \A l \in Links : links[l] # Absent => links[l].expires <= granted[l]

(* Gate, file, row, log and portal together implement the register of      *)
(* packs: no digest is issued of a file that was not stored, none is       *)
(* logged or confirmed that was not issued (reports/services.py:146-183).  *)
Register == INSTANCE PackRegister
RegisterSpec == Register!Spec
==============================================================================
