--------------------------- MODULE AuditPackProofs ---------------------------
(***************************************************************************)
(* Theorems about AuditPack, for every set of years, reports, links,       *)
(* scores and requests, any clock and any number of exports.               *)
(***************************************************************************)
EXTENDS AuditPack, TLAPS

LEMMA IdleIsRequest == Idle \in Request
  BY DEF Request

(* Request, with one line per shape.                                       *)
LEMMA RequestShape ==
  ASSUME NEW r \in Request
  PROVE  /\ r.op = "assemble" => r.report \in Reports
         /\ r.op = "snapshot" => r.report \in Reports /\ r.score \in Scores
         /\ r.op = "saveReport" => r.report \in Reports /\ r.obj \in Report
         /\ r.op \in {"gate", "store"} =>
              /\ r.report \in Reports /\ r.kind \in Kinds /\ r.obj \in Report
              /\ r = [op |-> r.op, report |-> r.report, kind |-> r.kind, obj |-> r.obj]
         /\ r.op = "record" => r.report \in Reports /\ r.kind \in Kinds /\ r.digest \in Content
         /\ r.op = "log" => r.digest \in Content
         /\ r.op = "saveLink" => r.link \in Links /\ r.obj \in Link
  BY DEF Request, Idle

LEMMA GoTyped ==
  ASSUME TypeOK, NEW p \in Requests, NEW req \in Request, Go(p, req)
  PROVE  requests' \in [Requests -> Request]
  BY DEF TypeOK, Go

(* The request that moves is at "req"; the others are where they were.     *)
LEMMA GoElse ==
  ASSUME TypeOK, NEW p \in Requests, NEW req, Go(p, req), NEW q \in Requests
  PROVE  requests'[q] = IF q = p THEN req ELSE requests[q]
  BY DEF TypeOK, Go

(* A name that was free, a file saved over, or a file under another name.  *)
LEMMA SaveTyped ==
  ASSUME TypeOK, NEW key \in Key, NEW content \in Content, Save(key, content)
  PROVE  /\ named' \in [Key -> Content \cup {Absent}]
         /\ renamed' \subseteq Key \X Content /\ replaced' \subseteq Key \X Content
  <1>1. named[key] # Absent => <<key, named[key]>> \in Key \X Content
    BY DEF TypeOK
  <1>2. <<key, content>> \in Key \X Content
    OBVIOUS
  <1>. QED
    BY <1>1, <1>2 DEF Save, TypeOK

-----------------------------------------------------------------------------
(* Types *)

LEMMA InitTyped == Init => TypeOK
  BY PackAssumption, IdleIsRequest DEF Init, TypeOK, Idle

LEMMA ServeTyped ==
  ASSUME TypeOK, NEW p \in Requests, Serve(p)
  PROVE  TypeOK'
  <1>. USE DEF tables, storage, portal, env, register, Go
  <1>r. requests[p] \in Request
    BY DEF TypeOK
  <1>i. Idle \in Request
    BY IdleIsRequest
  <1>1. ASSUME NEW r \in Reports, NEW y \in Years, CreateReport(p, r, y) PROVE TypeOK'
    <2>1. [year |-> y, score |-> Null] \in Report
      BY DEF Report
    <2>2. [op |-> "assemble", report |-> r] \in Request
      BY DEF Request
    <2>3. [year |-> y, score |-> Null] # Absent
      BY <2>1, NullAssumption
    <2>. QED
      BY <1>1, <2>1, <2>2, <2>3 DEF CreateReport, TypeOK, Artifact
  <1>2. ASSUME NEW r \in Reports, NEW y \in Years, BeginSaveReport(p, r, y) PROVE TypeOK'
    <2>1. [reports[r] EXCEPT !.year = y] \in Report
      BY <1>2 DEF BeginSaveReport, TypeOK, Report
    <2>2. [op |-> "saveReport", report |-> r, obj |-> [reports[r] EXCEPT !.year = y]] \in Request
      BY <2>1 DEF Request
    <2>. QED
      BY <1>2, <2>2 DEF BeginSaveReport, TypeOK
  <1>3. CASE Assemble(p)
    <2>1. PICK s \in Scores :
            Go(p, [op |-> "snapshot", report |-> requests[p].report, score |-> s])
      BY <1>3 DEF Assemble
    <2>2. [op |-> "snapshot", report |-> requests[p].report, score |-> s] \in Request
      BY <1>3, <1>r, RequestShape DEF Assemble, At, Request
    <2>. QED
      BY <1>3, <2>1, <2>2 DEF Assemble, TypeOK
  <1>4. CASE Snapshot(p)
    <2>1. requests[p].report \in Reports /\ requests[p].score \in Scores
      BY <1>4, <1>r, RequestShape DEF Snapshot, At
    <2>2. reports' \in [Reports -> Report \cup {Absent}]
      BY <1>4, <2>1 DEF Snapshot, TypeOK, Report
    <2>3. \A r \in Reports : reports[r] # Absent => reports'[r] # Absent
      <3>. SUFFICES ASSUME NEW r \in Reports, reports[r] # Absent PROVE reports'[r] # Absent
        OBVIOUS
      <3>1. CASE r = requests[p].report
        <4>1. reports'[r] = [reports[r] EXCEPT !.score = requests[p].score]
          BY <1>4, <3>1 DEF Snapshot, TypeOK
        <4>2. reports'[r] \in Report
          BY <4>1, <2>1 DEF TypeOK, Report
        <4>. QED
          BY <4>2, NullAssumption
      <3>2. CASE r # requests[p].report
        BY <1>4, <3>2 DEF Snapshot, TypeOK
      <3>. QED
        BY <3>1, <3>2
    <2>. QED
      BY <1>4, <1>i, <2>2, <2>3 DEF Snapshot, TypeOK, Artifact
  <1>5. CASE SaveReport(p)
    <2>1. requests[p].report \in Reports /\ requests[p].obj \in Report
      BY <1>5, <1>r, RequestShape DEF SaveReport, At
    <2>2. requests[p].obj # Absent
      BY <2>1, NullAssumption
    <2>. QED
      BY <1>5, <1>i, <2>1, <2>2 DEF SaveReport, TypeOK, Artifact
  <1>6. ASSUME NEW r \in Reports, NEW kind \in Kinds, BeginExport(p, r, kind) PROVE TypeOK'
    <2>1. [op |-> "gate", report |-> r, kind |-> kind, obj |-> reports[r]] \in Request
      BY <1>6 DEF BeginExport, TypeOK, Request
    <2>. QED
      BY <1>6, <2>1 DEF BeginExport, TypeOK
  <1>7. CASE Gate(p)
    <2>1. [requests[p] EXCEPT !.op = "store"] \in Request
      BY <1>7, <1>r, RequestShape DEF Gate, At, Request
    <2>. QED
      BY <1>7, <1>i, <2>1 DEF Gate, TypeOK
  <1>8. CASE Store(p)
    <2>1. /\ requests[p].report \in Reports /\ requests[p].kind \in Kinds
          /\ requests[p].obj \in Report
      BY <1>8, <1>r, RequestShape DEF Store, At
    <2>2. PICK s \in IF requests[p].obj.score = Null THEN Scores ELSE {requests[p].obj.score} :
            LET content == [score |-> s, built |-> clock]
            IN /\ Save(<<requests[p].report, requests[p].kind>>, content)
               /\ Go(p, [op |-> "record", report |-> requests[p].report,
                         kind |-> requests[p].kind, digest |-> content])
      BY <1>8 DEF Store
    <2>3. [score |-> s, built |-> clock] \in Content
      BY <2>1 DEF TypeOK, Content, Report
    <2>4. [op |-> "record", report |-> requests[p].report, kind |-> requests[p].kind,
           digest |-> [score |-> s, built |-> clock]] \in Request
      BY <2>1, <2>3 DEF Request
    <2>5. /\ named' \in [Key -> Content \cup {Absent}]
          /\ renamed' \subseteq Key \X Content /\ replaced' \subseteq Key \X Content
      <3>1. <<requests[p].report, requests[p].kind>> \in Key
        BY <2>1 DEF Key
      <3>. QED
        BY <2>2, <2>3, <3>1, SaveTyped
    <2>6. requests' \in [Requests -> Request]
      BY <2>2, <2>4, GoTyped
    <2>. QED
      BY <1>8, <2>5, <2>6 DEF Store, TypeOK
  <1>9. CASE Record(p)
    <2>1. /\ requests[p].report \in Reports /\ requests[p].kind \in Kinds
          /\ requests[p].digest \in Content
      BY <1>9, <1>r, RequestShape DEF Record, At
    <2>2. [report |-> requests[p].report, kind |-> requests[p].kind,
           digest |-> requests[p].digest] \in Artifact
      BY <2>1 DEF Artifact
    <2>3. [op |-> "log", digest |-> requests[p].digest] \in Request
      BY <2>1 DEF Request
    <2>4. requests' \in [Requests -> Request]
      BY <1>9, <1>i, <2>3 DEF Record, TypeOK
    <2>5. artifacts' \subseteq Artifact /\ \A a \in artifacts' : reports[a.report] # Absent
      BY <1>9, <2>2 DEF Record, TypeOK
    <2>. QED
      BY <1>9, <2>4, <2>5 DEF Record, TypeOK
  <1>10. CASE LogPack(p)
    BY <1>10, <1>i DEF LogPack, TypeOK
  <1>11. ASSUME NEW l \in Links, NEW y \in Years, BeginSaveLink(p, l, y) PROVE TypeOK'
    <2>1. [links[l] EXCEPT !.year = y] \in Link
      BY <1>11 DEF BeginSaveLink, TypeOK, Link
    <2>2. [op |-> "saveLink", link |-> l, obj |-> [links[l] EXCEPT !.year = y]] \in Request
      BY <2>1 DEF Request
    <2>. QED
      BY <1>11, <2>2 DEF BeginSaveLink, TypeOK
  <1>12. CASE SaveLink(p)
    <2>1. requests[p].link \in Links /\ requests[p].obj \in Link
      BY <1>12, <1>r, RequestShape DEF SaveLink, At
    <2>. QED
      BY <1>12, <1>i, <2>1 DEF SaveLink, TypeOK
  <1>13. CASE Die(p)
    BY <1>13, <1>i DEF Die, TypeOK
  <1>. QED
    BY <1>1, <1>2, <1>3, <1>4, <1>5, <1>6, <1>7, <1>8, <1>9, <1>10, <1>11, <1>12, <1>13 DEF Serve

LEMMA StepTyped == TypeOK /\ [Next]_vars => TypeOK'
  <1>. SUFFICES ASSUME TypeOK, [Next]_vars PROVE TypeOK'
    OBVIOUS
  <1>. USE DEF tables, storage, portal, env, register
  <1>1. ASSUME NEW p \in Requests, Serve(p) PROVE TypeOK'
    BY <1>1, ServeTyped
  <1>2. ASSUME NEW r \in Reports, DeleteReport(r) PROVE TypeOK'
    BY <1>2 DEF DeleteReport, TypeOK, Artifact
  <1>3. ASSUME NEW l \in Links, NEW y \in Years, NEW ttl \in Terms, CreateLink(l, y, ttl)
        PROVE TypeOK'
    <2>1. clock + ttl \in Nat
      BY PackAssumption DEF TypeOK
    <2>2. [year |-> y, expires |-> clock + ttl] \in Link
      BY <2>1 DEF Link
    <2>. QED
      BY <1>3, <2>1, <2>2 DEF CreateLink, TypeOK
  <1>4. ASSUME NEW l \in Links, DeleteLink(l) PROVE TypeOK'
    BY <1>4 DEF DeleteLink, TypeOK
  <1>5. ASSUME NEW l \in Links, Verify(l) PROVE TypeOK'
    BY <1>5 DEF Verify, TypeOK
  <1>6. CASE Tick
    BY <1>6 DEF Tick, TypeOK
  <1>7. CASE UNCHANGED vars
    BY <1>7 DEF vars, TypeOK
  <1>. QED
    BY <1>1, <1>2, <1>3, <1>4, <1>5, <1>6, <1>7 DEF Next

(* Every variable keeps its type, and no artifact outlives its report,     *)
(* which a DELETE takes with it (reports/models.py:37-52).                 *)
THEOREM TypeCorrect == Spec => []TypeOK
  BY InitTyped, StepTyped, PTL DEF Spec

-----------------------------------------------------------------------------
(* The term of a portal link *)

(* A copy in flight has the term of its link.                              *)
TermInv ==
  /\ TermsKept
  /\ \A p \in Requests :
       At(p, "saveLink") => requests[p].obj.expires <= granted[requests[p].link]

LEMMA StepTerm == TypeOK /\ TermInv /\ [Next]_vars => TermInv'
  <1>. SUFFICES ASSUME TypeOK, TermInv, [Next]_vars PROVE TermInv'
    OBVIOUS
  <1>. USE DEF tables, storage, portal, env, register, At
  <1>1. ASSUME NEW p \in Requests, Serve(p) PROVE TermInv'
    <2>r. requests[p] \in Request
      BY DEF TypeOK
    <2>1. ASSUME NEW l \in Links, NEW y \in Years, BeginSaveLink(p, l, y) PROVE TermInv'
      <3>1. links[l] \in Link /\ links[l].expires <= granted[l]
        BY <2>1 DEF BeginSaveLink, TypeOK, TermInv, TermsKept
      <3>2. [links[l] EXCEPT !.year = y].expires = links[l].expires
        BY <3>1 DEF Link
      <3>. QED
        BY <2>1, <3>1, <3>2 DEF BeginSaveLink, TermInv, TermsKept, Go, TypeOK
    <2>2. CASE SaveLink(p)
      <3>1. requests[p].link \in Links /\ requests[p].obj.expires <= granted[requests[p].link]
        BY <2>2, <2>r, RequestShape DEF SaveLink, TermInv
      <3>. QED
        BY <2>2, <3>1 DEF SaveLink, TermInv, TermsKept, Go, TypeOK, Idle
    <2>3. ASSUME UNCHANGED <<links, granted>>,
                 NEW next, Go(p, next), next.op # "saveLink"
          PROVE  TermInv'
      BY <2>3 DEF TermInv, TermsKept, Go, TypeOK
    <2>4. ASSUME NEW r \in Reports, NEW y \in Years, CreateReport(p, r, y) \/ BeginSaveReport(p, r, y)
          PROVE TermInv'
      BY <2>3, <2>4 DEF CreateReport, BeginSaveReport
    <2>5. ASSUME NEW r \in Reports, NEW kind \in Kinds, BeginExport(p, r, kind) PROVE TermInv'
      BY <2>3, <2>5 DEF BeginExport
    <2>6. CASE Assemble(p) \/ Snapshot(p) \/ SaveReport(p) \/ LogPack(p) \/ Die(p)
      BY <2>3, <2>6 DEF Assemble, Snapshot, SaveReport, LogPack, Die, Idle
    <2>7. CASE Gate(p)
      <3>1. [requests[p] EXCEPT !.op = "store"].op = "store"
        BY <2>7, <2>r, RequestShape DEF Gate
      <3>. QED
        BY <2>3, <2>7, <3>1 DEF Gate, Idle
    <2>8. CASE Store(p) \/ Record(p)
      <3>1. ASSUME Store(p) PROVE TermInv'
        BY <3>1, <2>3 DEF Store
      <3>2. ASSUME Record(p) PROVE TermInv'
        BY <3>2, <2>3 DEF Record, Idle
      <3>. QED
        BY <2>8, <3>1, <3>2
    <2>. QED
      BY <1>1, <2>1, <2>2, <2>4, <2>5, <2>6, <2>7, <2>8 DEF Serve
  <1>2. ASSUME NEW r \in Reports, DeleteReport(r) PROVE TermInv'
    BY <1>2 DEF DeleteReport, TermInv, TermsKept
  <1>3. ASSUME NEW l \in Links, NEW y \in Years, NEW ttl \in Terms, CreateLink(l, y, ttl)
        PROVE TermInv'
    <2>1. \A m \in Links \ {l} : links'[m] = links[m] /\ granted'[m] = granted[m]
      BY <1>3 DEF CreateLink, TypeOK
    <2>2. links'[l].expires = granted'[l] /\ granted'[l] \in Nat
      BY <1>3, PackAssumption DEF CreateLink, TypeOK
    <2>3. \A p \in Requests : At(p, "saveLink") => requests[p].link \in Links \ {l}
      BY <1>3, RequestShape DEF CreateLink, FreshLink, TypeOK
    <2>. QED
      BY <1>3, <2>1, <2>2, <2>3 DEF CreateLink, TermInv, TermsKept
  <1>4. ASSUME NEW l \in Links, DeleteLink(l) PROVE TermInv'
    BY <1>4 DEF DeleteLink, TermInv, TermsKept, TypeOK
  <1>5. ASSUME NEW l \in Links, Verify(l) PROVE TermInv'
    BY <1>5 DEF Verify, TermInv, TermsKept
  <1>6. CASE Tick
    BY <1>6 DEF Tick, TermInv, TermsKept
  <1>7. CASE UNCHANGED vars
    BY <1>7 DEF vars, TermInv, TermsKept
  <1>. QED
    BY <1>1, <1>2, <1>3, <1>4, <1>5, <1>6, <1>7 DEF Next

(* No save, stale or not, and no deletion gives a portal link a longer     *)
(* life than it was created with (integrations/services.py:46-61).         *)
THEOREM TermsHold == Spec => []TermsKept
  <1>1. Init => TermInv
    BY DEF Init, TermInv, TermsKept, Idle, At
  <1>. QED
    BY <1>1, InitTyped, StepTyped, StepTerm, PTL DEF Spec, TermInv

-----------------------------------------------------------------------------
(* The register of packs *)

(* What is in flight was earned: the gate was open for what is to be       *)
(* stored, the file is stored for what is to be recorded, and the artifact *)
(* recorded for what is to be logged or can be confirmed.                  *)
PackInv ==
  /\ \A p \in Requests :
       /\ At(p, "store") => requests[p].obj.year \in opened
       /\ At(p, "record") => \E f \in stored : f[2] = requests[p].digest
       /\ At(p, "log") => requests[p].digest \in issued
  /\ \A a \in artifacts : a.digest \in issued

LEMMA ServePack ==
  ASSUME TypeOK, PackInv, NEW p \in Requests, Serve(p)
  PROVE  PackInv' /\ [Register!Next]_(Register!vars)
  <1>. USE DEF tables, storage, portal, env, register, At, Register!vars
  <1>r. requests[p] \in Request
    BY DEF TypeOK
  <1>1. ASSUME UNCHANGED <<artifacts, register, confirmed>>,
               NEW next, Go(p, next), next.op \notin {"store", "record", "log"}
        PROVE  PackInv' /\ [Register!Next]_(Register!vars)
    BY <1>1 DEF PackInv, Go, TypeOK
  <1>2. ASSUME NEW r \in Reports, NEW y \in Years, CreateReport(p, r, y) \/ BeginSaveReport(p, r, y)
        PROVE  PackInv' /\ [Register!Next]_(Register!vars)
    BY <1>1, <1>2 DEF CreateReport, BeginSaveReport
  <1>3. ASSUME NEW r \in Reports, NEW kind \in Kinds, BeginExport(p, r, kind)
        PROVE  PackInv' /\ [Register!Next]_(Register!vars)
    BY <1>1, <1>3 DEF BeginExport
  <1>4. ASSUME NEW l \in Links, NEW y \in Years, BeginSaveLink(p, l, y)
        PROVE  PackInv' /\ [Register!Next]_(Register!vars)
    BY <1>1, <1>4 DEF BeginSaveLink
  <1>5. CASE Assemble(p) \/ Snapshot(p) \/ SaveReport(p) \/ SaveLink(p) \/ Die(p)
    BY <1>1, <1>5 DEF Assemble, Snapshot, SaveReport, SaveLink, Die, Idle
  <1>6. CASE Gate(p)
    <2>1. CASE Go(p, Idle) /\ UNCHANGED opened
      BY <1>1, <1>6, <2>1 DEF Gate, Idle
    <2>2. CASE /\ Go(p, [requests[p] EXCEPT !.op = "store"])
               /\ opened' = opened \cup {requests[p].obj.year}
      <3>1. [requests[p] EXCEPT !.op = "store"] =
              [op |-> "store", report |-> requests[p].report, kind |-> requests[p].kind,
               obj |-> requests[p].obj]
        BY <1>6, <1>r, RequestShape DEF Gate
      <3>2. PackInv'
        BY <1>6, <2>2, <3>1 DEF Gate, PackInv, Go, TypeOK
      <3>3. Register!Open
        BY <1>6, <2>2 DEF Gate, Register!Open
      <3>. QED
        BY <3>2, <3>3 DEF Register!Next
    <2>. QED
      BY <1>6, <2>1, <2>2 DEF Gate
  <1>7. CASE Store(p)
    <2>1. PICK s \in IF requests[p].obj.score = Null THEN Scores ELSE {requests[p].obj.score} :
            LET content == [score |-> s, built |-> clock]
            IN /\ Go(p, [op |-> "record", report |-> requests[p].report,
                         kind |-> requests[p].kind, digest |-> content])
               /\ stored' = stored \cup {<<requests[p].obj.year, content>>}
      BY <1>7 DEF Store
    <2>2. requests[p].obj.year \in opened
      BY <1>7 DEF Store, PackInv
    <2>3. PackInv'
      <3>1. UNCHANGED <<opened, artifacts, issued>> /\ stored \subseteq stored'
        BY <1>7, <2>1 DEF Store
      <3>. DEFINE content == [score |-> s, built |-> clock]
                   next == [op |-> "record", report |-> requests[p].report,
                            kind |-> requests[p].kind, digest |-> content]
      <3>3. Go(p, next) /\ <<requests[p].obj.year, content>> \in stored'
        BY <2>1
      <3>4. next.op = "record" /\ next.digest = content
        OBVIOUS
      <3>5. \E f \in stored' : f[2] = content
        BY <3>3
      <3>. HIDE DEF next, content
      <3>6. \A q \in Requests : requests'[q] = IF q = p THEN next ELSE requests[q]
        BY <3>3, GoElse
      <3>. QED
        BY <3>1, <3>4, <3>5, <3>6 DEF PackInv
    <2>4. Register!Store
      BY <1>7, <2>1, <2>2 DEF Store, Register!Store
    <2>. QED
      BY <2>3, <2>4 DEF Register!Next
  <1>8. CASE Record(p)
    <2>1. CASE Go(p, Idle) /\ UNCHANGED <<artifacts, issued>>
      BY <1>1, <1>8, <2>1 DEF Record, Idle
    <2>2. CASE /\ artifacts' = artifacts \cup {[report |-> requests[p].report,
                                                kind |-> requests[p].kind,
                                                digest |-> requests[p].digest]}
               /\ issued' = issued \cup {requests[p].digest}
               /\ Go(p, IF requests[p].kind = "pack"
                        THEN [op |-> "log", digest |-> requests[p].digest] ELSE Idle)
      <3>1. \E f \in stored : f[2] = requests[p].digest
        BY <1>8 DEF Record, PackInv
      <3>2. PackInv'
        BY <1>8, <2>2 DEF Record, PackInv, Go, TypeOK, Idle
      <3>3. Register!Issue
        BY <1>8, <2>2, <3>1 DEF Record, Register!Issue
      <3>. QED
        BY <3>2, <3>3 DEF Register!Next
    <2>. QED
      BY <1>8, <2>1, <2>2 DEF Record
  <1>9. CASE LogPack(p)
    <2>1. requests[p].digest \in issued
      BY <1>9 DEF LogPack, PackInv
    <2>2. PackInv'
      BY <1>9 DEF LogPack, PackInv, Go, TypeOK, Idle
    <2>3. Register!Log
      BY <1>9, <2>1 DEF LogPack, Register!Log
    <2>. QED
      BY <2>2, <2>3 DEF Register!Next
  <1>. QED
    BY <1>2, <1>3, <1>4, <1>5, <1>6, <1>7, <1>8, <1>9 DEF Serve

LEMMA StepPack ==
  TypeOK /\ PackInv /\ [Next]_vars => PackInv' /\ [Register!Next]_(Register!vars)
  <1>. SUFFICES ASSUME TypeOK, PackInv, [Next]_vars
                PROVE  PackInv' /\ [Register!Next]_(Register!vars)
    OBVIOUS
  <1>. USE DEF tables, storage, portal, env, register, At, Register!vars
  <1>1. ASSUME NEW p \in Requests, Serve(p)
        PROVE  PackInv' /\ [Register!Next]_(Register!vars)
    BY <1>1, ServePack
  <1>2. ASSUME NEW r \in Reports, DeleteReport(r)
        PROVE  PackInv' /\ [Register!Next]_(Register!vars)
    BY <1>2 DEF DeleteReport, PackInv
  <1>3. ASSUME NEW l \in Links, NEW y \in Years, NEW ttl \in Terms, CreateLink(l, y, ttl)
        PROVE  PackInv' /\ [Register!Next]_(Register!vars)
    BY <1>3 DEF CreateLink, PackInv
  <1>4. ASSUME NEW l \in Links, DeleteLink(l)
        PROVE  PackInv' /\ [Register!Next]_(Register!vars)
    BY <1>4 DEF DeleteLink, PackInv
  <1>5. ASSUME NEW l \in Links, Verify(l)
        PROVE  PackInv' /\ [Register!Next]_(Register!vars)
    <2>1. PICK s \in Scores, t \in 0 .. LastTick :
            /\ VerifyArtifactHash(links[l].year, [score |-> s, built |-> t])
            /\ confirmed' = confirmed \cup {[score |-> s, built |-> t]}
      BY <1>5 DEF Verify
    <2>2. [score |-> s, built |-> t] \in issued
      BY <2>1 DEF VerifyArtifactHash, PackInv
    <2>3. PackInv'
      BY <1>5 DEF Verify, PackInv
    <2>4. Register!Confirm
      BY <1>5, <2>1, <2>2 DEF Verify, Register!Confirm
    <2>. QED
      BY <2>3, <2>4 DEF Register!Next
  <1>6. CASE Tick
    BY <1>6 DEF Tick, PackInv
  <1>7. CASE UNCHANGED vars
    BY <1>7 DEF vars, PackInv
  <1>. QED
    BY <1>1, <1>2, <1>3, <1>4, <1>5, <1>6, <1>7 DEF Next

(* The exports and the portal implement the register of packs: no file is  *)
(* stored for a year whose gate was never open, no digest recorded of a    *)
(* file that was not stored, and none logged or confirmed that was not     *)
(* recorded (reports/services.py:146-183, integrations/services.py:64-74). *)
THEOREM ImplementsRegister == Spec => RegisterSpec
  <1>1. Init => PackInv /\ Register!Init
    BY DEF Init, PackInv, Register!Init, Idle, At
  <1>. QED
    BY <1>1, InitTyped, StepTyped, StepPack, PTL DEF Spec, RegisterSpec, Register!Spec

-----------------------------------------------------------------------------
(* Digests and files *)

Backed(report, kind, digest) == <<<<report, kind>>, digest>> \in Files

(* The file of an artifact is stored before the artifact is recorded.      *)
FileInv ==
  /\ \A a \in artifacts : Backed(a.report, a.kind, a.digest)
  /\ \A p \in Requests :
       At(p, "record") => Backed(requests[p].report, requests[p].kind, requests[p].digest)
  /\ backend = "local" => replaced = {}

(* Whatever the backend does with a name that is taken, no file is         *)
(* forgotten.                                                              *)
LEMMA SaveFiles ==
  ASSUME TypeOK, NEW key \in Key, NEW content \in Content, Save(key, content)
  PROVE  Files' = Files \cup {<<key, content>>}
  <1>. DEFINE Named == {<<k, named[k]>> : k \in {k \in Key : named[k] # Absent}}
  <1>c. content # Absent
    BY NullAssumption
  <1>f. Files = Named \cup renamed \cup replaced /\ Files' = Named' \cup renamed' \cup replaced'
    BY DEF Files
  <1>1. ASSUME named' = [named EXCEPT ![key] = content]
        PROVE  /\ Named' \subseteq Named \cup {<<key, content>>} /\ <<key, content>> \in Named'
               /\ Named \subseteq Named' \cup {<<key, named[key]>>}
               /\ named[key] = Absent => Named \subseteq Named'
    <2>1. \A k \in Key : named'[k] = IF k = key THEN content ELSE named[k]
      BY <1>1 DEF TypeOK
    <2>. QED
      BY <1>c, <2>1
  <1>2. named[key] # Absent => <<key, named[key]>> \in Named
    OBVIOUS
  <1>3. named' = named => Named' = Named
    OBVIOUS
  <1>. HIDE DEF Named
  <1>. QED
    BY <1>f, <1>1, <1>2, <1>3 DEF Save

(* No file is forgotten, so only what changes is looked at.                *)
LEMMA FileKept ==
  ASSUME FileInv, Files \subseteq Files', backend' = "local" => replaced' = {},
         \A a \in artifacts' : a \in artifacts \/ <<<<a.report, a.kind>>, a.digest>> \in Files',
         \A p \in Requests :
           \/ requests'[p] = requests[p]
           \/ requests'[p].op = "record" =>
                <<<<requests'[p].report, requests'[p].kind>>, requests'[p].digest>> \in Files'
  PROVE  FileInv'
  BY DEF FileInv, Backed, At

LEMMA SameFiles == UNCHANGED storage => Files' = Files
  BY DEF storage, Files

LEMMA StepFile == TypeOK /\ FileInv /\ [Next]_vars => FileInv'
  <1>. SUFFICES ASSUME TypeOK, FileInv, [Next]_vars PROVE FileInv'
    OBVIOUS
  <1>. USE DEF tables, portal, env, register, At
  <1>l. backend = "local" => replaced = {}
    BY DEF FileInv
  <1>1. ASSUME NEW p \in Requests, Serve(p) PROVE FileInv'
    <2>r. requests[p] \in Request
      BY DEF TypeOK
    <2>1. ASSUME UNCHANGED <<artifacts, storage, backend>>,
                 NEW next, Go(p, next), next.op # "record"
          PROVE  FileInv'
      <3>1. \A q \in Requests : requests'[q] = IF q = p THEN next ELSE requests[q]
        BY <2>1, GoElse
      <3>2. Files' = Files
        BY <2>1, SameFiles
      <3>3. backend' = "local" => replaced' = {}
        BY <2>1, <1>l DEF storage
      <3>. QED
        BY <2>1, <3>1, <3>2, <3>3, FileKept
    <2>2. ASSUME NEW r \in Reports, NEW y \in Years, CreateReport(p, r, y) \/ BeginSaveReport(p, r, y)
          PROVE FileInv'
      BY <2>1, <2>2 DEF CreateReport, BeginSaveReport
    <2>3. ASSUME NEW r \in Reports, NEW kind \in Kinds, BeginExport(p, r, kind) PROVE FileInv'
      BY <2>1, <2>3 DEF BeginExport
    <2>4. ASSUME NEW l \in Links, NEW y \in Years, BeginSaveLink(p, l, y) PROVE FileInv'
      BY <2>1, <2>4 DEF BeginSaveLink
    <2>5. CASE Assemble(p) \/ Snapshot(p) \/ SaveReport(p) \/ SaveLink(p) \/ LogPack(p) \/ Die(p)
      BY <2>1, <2>5 DEF Assemble, Snapshot, SaveReport, SaveLink, LogPack, Die, Idle
    <2>6. CASE Gate(p)
      <3>1. [requests[p] EXCEPT !.op = "store"].op = "store"
        BY <2>6, <2>r, RequestShape DEF Gate
      <3>. QED
        BY <2>1, <2>6, <3>1 DEF Gate, Idle
    <2>7. CASE Store(p)
      <3>1. /\ requests[p].report \in Reports /\ requests[p].kind \in Kinds
            /\ requests[p].obj \in Report
        BY <2>7, <2>r, RequestShape DEF Store
      <3>2. PICK s \in IF requests[p].obj.score = Null THEN Scores ELSE {requests[p].obj.score} :
              LET content == [score |-> s, built |-> clock]
              IN /\ Save(<<requests[p].report, requests[p].kind>>, content)
                 /\ Go(p, [op |-> "record", report |-> requests[p].report,
                           kind |-> requests[p].kind, digest |-> content])
        BY <2>7 DEF Store
      <3>. DEFINE content == [score |-> s, built |-> clock]
                  next == [op |-> "record", report |-> requests[p].report,
                           kind |-> requests[p].kind, digest |-> content]
                  key == <<requests[p].report, requests[p].kind>>
      <3>3. Save(key, content) /\ Go(p, next)
        BY <3>2
      <3>4. /\ next.report = requests[p].report /\ next.kind = requests[p].kind
            /\ next.digest = content
        OBVIOUS
      <3>5. key \in Key /\ content \in Content
        BY <3>1 DEF Key, Content, Report, TypeOK
      <3>. HIDE DEF next, content
      <3>6. Files' = Files \cup {<<key, content>>}
        BY <3>3, <3>5, SaveFiles
      <3>7. backend' = "local" => replaced' = {}
        BY <2>7, <1>l, <3>3 DEF Store, Save
      <3>8. \A q \in Requests : requests'[q] = IF q = p THEN next ELSE requests[q]
        BY <3>3, GoElse
      <3>9. <<<<next.report, next.kind>>, next.digest>> \in Files'
        BY <3>4, <3>6
      <3>10. artifacts' = artifacts
        BY <2>7 DEF Store
      <3>11. \A q \in Requests :
               \/ requests'[q] = requests[q]
               \/ <<<<requests'[q].report, requests'[q].kind>>, requests'[q].digest>> \in Files'
        BY <3>8, <3>9
      <3>. QED
        BY <3>6, <3>7, <3>10, <3>11, FileKept
    <2>8. CASE Record(p)
      <3>1. CASE Go(p, Idle) /\ UNCHANGED artifacts
        BY <2>1, <2>8, <3>1 DEF Record, Idle
      <3>2. CASE /\ artifacts' = artifacts \cup {[report |-> requests[p].report,
                                                  kind |-> requests[p].kind,
                                                  digest |-> requests[p].digest]}
                 /\ Go(p, IF requests[p].kind = "pack"
                          THEN [op |-> "log", digest |-> requests[p].digest] ELSE Idle)
        <4>1. UNCHANGED <<storage, backend>>
          BY <2>8 DEF Record
        <4>2. Files' = Files
          BY <4>1, SameFiles
        <4>3. Backed(requests[p].report, requests[p].kind, requests[p].digest)
          BY <2>8 DEF Record, FileInv
        <4>4. \A a \in artifacts' : a \in artifacts \/ <<<<a.report, a.kind>>, a.digest>> \in Files'
          BY <3>2, <4>2, <4>3 DEF Backed
        <4>5. \A q \in Requests : requests'[q] = requests[q] \/ requests'[q].op # "record"
          BY <3>2, GoElse DEF Idle
        <4>6. backend' = "local" => replaced' = {}
          BY <4>1, <1>l DEF storage
        <4>. QED
          BY <4>2, <4>4, <4>5, <4>6, FileKept
      <3>. QED
        BY <2>8, <3>1, <3>2 DEF Record
    <2>. QED
      BY <1>1, <2>2, <2>3, <2>4, <2>5, <2>6, <2>7, <2>8 DEF Serve
  <1>2. ASSUME UNCHANGED <<storage, backend, requests>>, artifacts' \subseteq artifacts
        PROVE  FileInv'
    <2>1. Files' = Files
      BY <1>2, SameFiles
    <2>2. backend' = "local" => replaced' = {}
      BY <1>2, <1>l DEF storage
    <2>. QED
      BY <1>2, <2>1, <2>2, FileKept
  <1>3. ASSUME NEW r \in Reports, DeleteReport(r) PROVE FileInv'
    BY <1>2, <1>3 DEF DeleteReport
  <1>4. ASSUME NEW l \in Links, NEW y \in Years, NEW ttl \in Terms, CreateLink(l, y, ttl)
        PROVE FileInv'
    BY <1>2, <1>4 DEF CreateLink
  <1>5. ASSUME NEW l \in Links, DeleteLink(l) \/ Verify(l) PROVE FileInv'
    BY <1>2, <1>5 DEF DeleteLink, Verify
  <1>6. CASE Tick \/ UNCHANGED vars
    BY <1>2, <1>6 DEF Tick, vars
  <1>. QED
    BY <1>1, <1>3, <1>4, <1>5, <1>6 DEF Next

(* Every artifact has the hash of a file that was stored for its report,   *)
(* whatever request dies or is overtaken between file and row; with local  *)
(* storage the file is still there, and a bucket loses it only to a later  *)
(* export of the report (reports/services.py:132-142, 166-175).            *)
THEOREM HashesHold == Spec => []HashesBacked
  <1>1. Init => FileInv
    BY DEF Init, FileInv, Idle, At
  <1>2. FileInv => HashesBacked
    BY DEF FileInv, HashesBacked, Backed
  <1>. QED
    BY <1>1, <1>2, InitTyped, StepTyped, StepFile, PTL DEF Spec

-----------------------------------------------------------------------------
(* Scores *)

Real(r, s, got) == s = Null \/ <<r, s>> \in got

(* A request on its way carries a score assembled for its report.          *)
Carries(req, got) ==
  /\ req.op \in {"saveReport", "gate", "store"} => Real(req.report, req.obj.score, got)
  /\ req.op = "snapshot" => Real(req.report, req.score, got)

ScoreInv ==
  /\ \A r \in Reports : reports[r] # Absent => Real(r, reports[r].score, assembled)
  /\ \A p \in Requests : Carries(requests[p], assembled)
  /\ \A f \in Files : Real(f[1][1], f[2].score, assembled)

(* Nothing assembled is forgotten, so only what changes is looked at.      *)
LEMMA ScoreKept ==
  ASSUME TypeOK, ScoreInv, assembled \subseteq assembled',
         \A r \in Reports : \/ reports'[r] \in {reports[r], Absent}
                            \/ Real(r, reports'[r].score, assembled'),
         \A p \in Requests : requests'[p] = requests[p] \/ Carries(requests'[p], assembled'),
         \A f \in Files' : f \in Files \/ Real(f[1][1], f[2].score, assembled')
  PROVE  ScoreInv'
  BY DEF ScoreInv, Carries, Real

LEMMA ServeScore ==
  ASSUME TypeOK, ScoreInv, NEW p \in Requests, Serve(p)
  PROVE  ScoreInv'
  <1>. USE DEF tables, portal, env, register, At
  <1>r. requests[p] \in Request /\ Carries(requests[p], assembled)
    BY DEF TypeOK, ScoreInv
  <1>g. ASSUME NEW next, Go(p, next), Carries(next, assembled')
        PROVE  \A q \in Requests : requests'[q] = requests[q] \/ Carries(requests'[q], assembled')
    BY <1>g, GoElse
  <1>i. Carries(Idle, assembled')
    BY DEF Carries, Idle
  <1>1. ASSUME UNCHANGED <<reports, storage, assembled>>, NEW next, Go(p, next), Carries(next, assembled)
        PROVE  ScoreInv'
    <2>1. \A q \in Requests : requests'[q] = requests[q] \/ Carries(requests'[q], assembled')
      BY <1>1, <1>g
    <2>. QED
      BY <1>1, <2>1, SameFiles, ScoreKept
  <1>2. ASSUME NEW r \in Reports, NEW y \in Years, CreateReport(p, r, y) PROVE ScoreInv'
    <2>1. Carries([op |-> "assemble", report |-> r], assembled')
      BY DEF Carries
    <2>2. [year |-> y, score |-> Null].score = Null
      OBVIOUS
    <2>3. \A s \in Reports : reports'[s] = reports[s] \/ Real(s, reports'[s].score, assembled')
      BY <1>2, <2>2 DEF CreateReport, TypeOK, Real
    <2>. QED
      BY <1>2, <1>g, <2>1, <2>3, SameFiles, ScoreKept DEF CreateReport
  <1>3. ASSUME NEW r \in Reports, NEW y \in Years, BeginSaveReport(p, r, y) PROVE ScoreInv'
    <2>. DEFINE next == [op |-> "saveReport", report |-> r, obj |-> [reports[r] EXCEPT !.year = y]]
    <2>1. reports[r] \in Report /\ Real(r, reports[r].score, assembled)
      BY <1>3 DEF BeginSaveReport, TypeOK, ScoreInv
    <2>2. [reports[r] EXCEPT !.year = y].score = reports[r].score
      BY <2>1 DEF Report
    <2>3. Carries(next, assembled)
      BY <2>1, <2>2 DEF Carries
    <2>. QED
      BY <1>1, <1>3, <2>3 DEF BeginSaveReport
  <1>4. CASE Assemble(p)
    <2>1. PICK s \in Scores :
            /\ Go(p, [op |-> "snapshot", report |-> requests[p].report, score |-> s])
            /\ assembled' = assembled \cup {<<requests[p].report, s>>}
      BY <1>4 DEF Assemble
    <2>. DEFINE next == [op |-> "snapshot", report |-> requests[p].report, score |-> s]
    <2>2. Carries(next, assembled')
      BY <2>1 DEF Carries, Real
    <2>. QED
      BY <1>4, <1>g, <2>1, <2>2, SameFiles, ScoreKept DEF Assemble
  <1>5. CASE Snapshot(p)
    <2>1. /\ requests[p].report \in Reports /\ requests[p].score \in Scores
          /\ Real(requests[p].report, requests[p].score, assembled)
      BY <1>5, <1>r, RequestShape DEF Snapshot, Carries
    <2>2. reports[requests[p].report] # Absent =>
            [reports[requests[p].report] EXCEPT !.score = requests[p].score].score = requests[p].score
      BY <2>1 DEF TypeOK, Report
    <2>3. \A s \in Reports : reports'[s] = reports[s] \/ Real(s, reports'[s].score, assembled')
      BY <1>5, <2>1, <2>2 DEF Snapshot, TypeOK
    <2>. QED
      BY <1>5, <1>g, <1>i, <2>3, SameFiles, ScoreKept DEF Snapshot
  <1>6. CASE SaveReport(p)
    <2>1. requests[p].report \in Reports /\ Real(requests[p].report, requests[p].obj.score, assembled)
      BY <1>6, <1>r, RequestShape DEF SaveReport, Carries
    <2>2. \A s \in Reports : reports'[s] = reports[s] \/ Real(s, reports'[s].score, assembled')
      BY <1>6, <2>1 DEF SaveReport, TypeOK
    <2>. QED
      BY <1>6, <1>g, <1>i, <2>2, SameFiles, ScoreKept DEF SaveReport
  <1>7. ASSUME NEW r \in Reports, NEW kind \in Kinds, BeginExport(p, r, kind) PROVE ScoreInv'
    <2>1. Real(r, reports[r].score, assembled)
      BY <1>7 DEF BeginExport, ScoreInv
    <2>2. Carries([op |-> "gate", report |-> r, kind |-> kind, obj |-> reports[r]], assembled)
      BY <2>1 DEF Carries
    <2>. QED
      BY <1>1, <1>7, <2>2 DEF BeginExport
  <1>8. CASE Gate(p)
    <2>. DEFINE next == [requests[p] EXCEPT !.op = "store"]
    <2>1. next.op = "store" /\ next.obj = requests[p].obj /\ next.report = requests[p].report
      BY <1>8, <1>r, RequestShape DEF Gate
    <2>2. Real(requests[p].report, requests[p].obj.score, assembled)
      BY <1>8, <1>r DEF Gate, Carries
    <2>. HIDE DEF next
    <2>3. Carries(next, assembled)
      BY <2>1, <2>2 DEF Carries
    <2>4. Carries(Idle, assembled)
      BY DEF Carries, Idle
    <2>. QED
      BY <1>1, <1>8, <2>3, <2>4 DEF Gate, next
  <1>9. CASE Store(p)
    <2>1. PICK s \in IF requests[p].obj.score = Null THEN Scores ELSE {requests[p].obj.score} :
            LET content == [score |-> s, built |-> clock]
            IN /\ Save(<<requests[p].report, requests[p].kind>>, content)
               /\ Go(p, [op |-> "record", report |-> requests[p].report,
                         kind |-> requests[p].kind, digest |-> content])
               /\ assembled' = IF requests[p].obj.score = Null
                               THEN assembled \cup {<<requests[p].report, s>>} ELSE assembled
      BY <1>9 DEF Store
    <2>. DEFINE content == [score |-> s, built |-> clock]
                next == [op |-> "record", report |-> requests[p].report,
                         kind |-> requests[p].kind, digest |-> content]
                key == <<requests[p].report, requests[p].kind>>
    <2>2. /\ Real(requests[p].report, requests[p].obj.score, assembled)
          /\ requests[p].report \in Reports /\ requests[p].kind \in Kinds
          /\ requests[p].obj \in Report
      BY <1>9, <1>r, RequestShape DEF Store, Carries
    <2>3. Real(requests[p].report, s, assembled') /\ assembled \subseteq assembled'
      BY <2>1, <2>2 DEF Real
    <2>4. Carries(next, assembled') /\ content.score = s
      BY DEF Carries
    <2>5. Save(key, content) /\ Go(p, next)
      BY <2>1
    <2>6. key \in Key /\ content \in Content /\ key[1] = requests[p].report
      BY <2>1, <2>2 DEF Key, Content, Report, TypeOK
    <2>. HIDE DEF next, content, key
    <2>7. Files' = Files \cup {<<key, content>>}
      BY <2>5, <2>6, SaveFiles
    <2>8. \A f \in Files' : f \in Files \/ Real(f[1][1], f[2].score, assembled')
      BY <2>3, <2>4, <2>6, <2>7
    <2>9. reports' = reports
      BY <1>9 DEF Store
    <2>. QED
      BY <1>g, <2>3, <2>4, <2>5, <2>8, <2>9, ScoreKept
  <1>10. CASE Record(p)
    <2>1. Carries([op |-> "log", digest |-> requests[p].digest], assembled) /\ Carries(Idle, assembled)
      BY DEF Carries, Idle
    <2>2. \E next : Go(p, next) /\ Carries(next, assembled)
      BY <1>10, <2>1 DEF Record
    <2>3. UNCHANGED <<reports, storage, assembled>>
      BY <1>10 DEF Record
    <2>. QED
      BY <1>1, <2>2, <2>3
  <1>11. CASE LogPack(p) \/ SaveLink(p) \/ Die(p)
    <2>1. Carries(Idle, assembled)
      BY DEF Carries, Idle
    <2>. QED
      BY <1>1, <1>11, <2>1 DEF LogPack, SaveLink, Die
  <1>12. ASSUME NEW l \in Links, NEW y \in Years, BeginSaveLink(p, l, y) PROVE ScoreInv'
    <2>1. Carries([op |-> "saveLink", link |-> l, obj |-> [links[l] EXCEPT !.year = y]], assembled)
      BY DEF Carries
    <2>. QED
      BY <1>1, <1>12, <2>1 DEF BeginSaveLink
  <1>. QED
    BY <1>2, <1>3, <1>4, <1>5, <1>6, <1>7, <1>8, <1>9, <1>10, <1>11, <1>12 DEF Serve

LEMMA StepScore == TypeOK /\ ScoreInv /\ [Next]_vars => ScoreInv'
  <1>. SUFFICES ASSUME TypeOK, ScoreInv, [Next]_vars PROVE ScoreInv'
    OBVIOUS
  <1>. USE DEF tables, portal, env, register
  <1>1. ASSUME NEW p \in Requests, Serve(p) PROVE ScoreInv'
    BY <1>1, ServeScore
  <1>2. ASSUME UNCHANGED <<requests, storage, assembled>>,
               \A r \in Reports : reports'[r] \in {reports[r], Absent}
        PROVE  ScoreInv'
    BY <1>2, SameFiles, ScoreKept
  <1>3. ASSUME NEW r \in Reports, DeleteReport(r) PROVE ScoreInv'
    BY <1>2, <1>3 DEF DeleteReport, TypeOK
  <1>4. ASSUME NEW l \in Links, NEW y \in Years, NEW ttl \in Terms, CreateLink(l, y, ttl)
        PROVE ScoreInv'
    BY <1>2, <1>4 DEF CreateLink
  <1>5. ASSUME NEW l \in Links, DeleteLink(l) \/ Verify(l) PROVE ScoreInv'
    BY <1>2, <1>5 DEF DeleteLink, Verify
  <1>6. CASE Tick \/ UNCHANGED vars
    BY <1>2, <1>6 DEF Tick, vars
  <1>. QED
    BY <1>1, <1>3, <1>4, <1>5, <1>6 DEF Next

(* No stale save, crash or cascade puts a score into a report, a copy of   *)
(* it or a file of it that was not assembled for that report               *)
(* (reports/views.py:29-35, reports/services.py:130, 155).                 *)
THEOREM ScoresAlwaysAssembled == Spec => []ScoresAssembled
  <1>1. Init => ScoreInv
    BY DEF Init, ScoreInv, Carries, Idle, Files
  <1>2. ScoreInv => ScoresAssembled
    BY DEF ScoreInv, Carries, Real, ScoresAssembled
  <1>. QED
    BY <1>1, <1>2, InitTyped, StepTyped, StepScore, PTL DEF Spec
==============================================================================
