--------------------------- MODULE WhitelistProofs ---------------------------
(***************************************************************************)
(* Theorems about Whitelist, for every set of vendors, certificates, dates *)
(* and requests and any number of seed runs, and about SeedLoad, for every *)
(* set of containers, images and workbooks and any number of crashes.      *)
(***************************************************************************)
EXTENDS FiniteSetTheorems, Whitelist, SeedLoad, TLAPS

(* Request, with one line per shape.                                       *)
LEMMA RequestShape ==
  ASSUME NEW r \in Request
  PROVE  /\ r.op = "ocr" => r.cert \in Certs
         /\ r.op \in {"push", "insert"} =>
              r.cert \in Certs /\ r.obj \in Cert /\ r.task \in BOOLEAN
         /\ r.op = "fill" => r.cert \in Certs /\ r.obj \in Cert
         /\ r.op \in {"resolveCert", "resolveEntry"} => r.vendor \in Vendors
         /\ r.op = "saveVendor" => r.vendor \in Vendors /\ r.obj \in Vendor
  BY DEF Request, Idle

(* What a push writes is a typed entry.                                    *)
LEMMA PublishedTyped ==
  ASSUME NEW obj \in Cert, obj.score # NoScore, NEW n \in Nat
  PROVE  Published(obj, n) \in Entry
  <1>1. obj.score \in Scores /\ obj.expiry \in Dates \cup {0}
    BY DEF Cert
  <1>2. YearOf[obj.expiry] \in Nat
    BY <1>1, WhitelistAssumption
  <1>. QED
    BY <1>1, <1>2 DEF Published, Entry

LEMMA GoTyped ==
  ASSUME TypeOK, NEW p \in Requests, NEW req \in Request, Go(p, req)
  PROVE  requests' \in [Requests -> Request]
  BY DEF TypeOK, Go

LEMMA IdleIsRequest == Idle \in Request
  BY DEF Request

LEMMA BeginTyped ==
  ASSUME TypeOK, NEW p \in Requests, NEW req \in Request, Begin(p, req)
  PROVE  TypeOK'
  BY DEF Begin, TypeOK

(* A task goes on to fill the vendor, a view ends.                         *)
LEMMA AfterPushTyped ==
  ASSUME TypeOK, NEW p \in Requests, requests[p].op \in {"push", "insert"}, AfterPush(p)
  PROVE  requests' \in [Requests -> Request]
  <1>1. requests[p].cert \in Certs /\ requests[p].obj \in Cert
    BY RequestShape DEF TypeOK
  <1>2. [op |-> "fill", cert |-> requests[p].cert, obj |-> requests[p].obj] \in Request
    BY <1>1 DEF Request
  <1>. QED
    BY <1>2, IdleIsRequest, GoTyped DEF AfterPush

LEMMA InitTypeOK == Init => TypeOK
  BY WhitelistAssumption DEF Init, TypeOK, Cert, Vendor, Request

LEMMA StepTyped ==
  ASSUME TypeOK, NEW p \in Requests, Step(p)
  PROVE  TypeOK'
  <1>0. requests[p] \in Request
    BY DEF TypeOK
  <1>1. ASSUME NEW c \in Certs, BeginParse(p, c)
        PROVE  TypeOK'
    <2>1. [op |-> "ocr", cert |-> c] \in Request
      BY DEF Request
    <2>. QED
      BY <1>1, <2>1, BeginTyped DEF BeginParse
  <1>2. ASSUME NEW c \in Certs, BeginPush(p, c)
        PROVE  TypeOK'
    <2>1. [op |-> "push", cert |-> c, obj |-> certs[c], task |-> FALSE] \in Request
      BY DEF Request, TypeOK
    <2>. QED
      BY <1>2, <2>1, BeginTyped DEF BeginPush
  <1>3. ASSUME NEW v \in Vendors, BeginResolve(p, v)
        PROVE  TypeOK'
    <2>1. [op |-> "resolveCert", vendor |-> v] \in Request
      BY DEF Request
    <2>. QED
      BY <1>3, <2>1, BeginTyped DEF BeginResolve
  <1>4. ASSUME NEW v \in Vendors, BeginPatchVendor(p, v)
        PROVE  TypeOK'
    <2>1. PICK s \in ClientScores \cup {vendors[v].score} :
            Begin(p, [op |-> "saveVendor", vendor |-> v,
                      obj |-> [score |-> s, source |-> vendors[v].source]])
      BY <1>4 DEF BeginPatchVendor
    <2>2. vendors[v] \in Vendor
      BY DEF TypeOK
    <2>3. [score |-> s, source |-> vendors[v].source] \in Vendor
      BY <2>2 DEF Vendor
    <2>4. [op |-> "saveVendor", vendor |-> v,
           obj |-> [score |-> s, source |-> vendors[v].source]] \in Request
      BY <2>3 DEF Request
    <2>. QED
      BY <2>1, <2>4, BeginTyped
  <1>5. CASE Ocr(p)
    <2> DEFINE c == requests[p].cert
               expired == file[c].expiry # 0 /\ file[c].expiry < today
               obj == [score |-> file[c].score, expiry |-> file[c].expiry,
                       expired |-> expired]
               next == IF expired \/ obj.score = NoScore THEN Idle
                       ELSE [op |-> "push", cert |-> c, obj |-> obj, task |-> TRUE]
    <2>1. c \in Certs
      BY <1>0, <1>5, RequestShape DEF Ocr
    <2>2. obj \in Cert
      BY <2>1 DEF Cert, TypeOK
    <2>3. next \in Request
      BY <2>1, <2>2 DEF Request
    <2>4. certs' = [certs EXCEPT ![c] = obj] /\ Go(p, next)
      BY <1>5 DEF Ocr
    <2>5. certs' \in [Certs -> Cert]
      BY <2>1, <2>2, <2>4 DEF TypeOK
    <2>6. requests' \in [Requests -> Request]
      BY <2>3, <2>4, GoTyped
    <2>. QED
      BY <1>5, <2>5, <2>6 DEF Ocr, TypeOK
  <1>6. CASE Regression(p) \/ PushFails(p)
    BY <1>6, IdleIsRequest, GoTyped DEF Regression, PushFails, TypeOK
  <1>7. CASE Update(p)
    <2>1. requests[p].obj \in Cert
      BY <1>0, <1>7, RequestShape DEF Update
    <2>2. entry.version + 1 \in Nat
      BY <1>7 DEF Update, TypeOK, Entry
    <2>3. entry' \in Entry
      BY <1>7, <2>1, <2>2, PublishedTyped DEF Update, RowFits
    <2>. QED
      BY <1>7, <2>3, AfterPushTyped DEF Update, TypeOK
  <1>8. CASE MissEntry(p)
    <2>1. requests[p].cert \in Certs /\ requests[p].obj \in Cert /\ requests[p].task \in BOOLEAN
      BY <1>0, <1>8, RequestShape DEF MissEntry
    <2>2. [op |-> "insert", cert |-> requests[p].cert, obj |-> requests[p].obj,
           task |-> requests[p].task] \in Request
      BY <2>1 DEF Request
    <2>. QED
      BY <1>8, <2>2, GoTyped DEF MissEntry, TypeOK
  <1>9. CASE Insert(p)
    <2>1. requests[p].obj \in Cert
      BY <1>0, <1>9, RequestShape DEF Insert
    <2>2. entry' \in Entry
      BY <1>9, <2>1, PublishedTyped DEF Insert, RowFits
    <2>. QED
      BY <1>9, <2>2, AfterPushTyped DEF Insert, TypeOK
  <1>10. CASE Fill(p)
    <2>1. requests[p].cert \in Certs /\ requests[p].obj \in Cert
      BY <1>0, <1>10, RequestShape DEF Fill
    <2>2. [score |-> requests[p].obj.score, source |-> "CERT"] \in Vendor
      BY <2>1 DEF Cert, Vendor
    <2>. QED
      BY <1>10, <2>2, IdleIsRequest, GoTyped DEF Fill, TypeOK
  <1>11. CASE ResolveCert(p)
    <2>1. requests[p].vendor \in Vendors
      BY <1>0, <1>11, RequestShape DEF ResolveCert
    <2>2. ASSUME NEW c \in Certs
          PROVE  [op |-> "saveVendor", vendor |-> requests[p].vendor,
                  obj |-> [score |-> certs[c].score, source |-> "CERT"]] \in Request
      BY <2>1 DEF Request, Vendor, TypeOK, Cert
    <2>3. [op |-> "resolveEntry", vendor |-> requests[p].vendor] \in Request
      BY <2>1 DEF Request
    <2>4. \E req \in Request : Go(p, req)
      BY <1>11, <2>2, <2>3 DEF ResolveCert, Newest, Candidates
    <2>. QED
      BY <1>11, <2>4, GoTyped DEF ResolveCert, TypeOK
  <1>12. CASE ResolveEntry(p)
    <2> DEFINE new == IF entry # NoEntry
                      THEN [score |-> entry.score, source |-> "GLOBAL_WHITELIST"]
                      ELSE [score |-> Baseline, source |-> "BASELINE"]
    <2>1. requests[p].vendor \in Vendors
      BY <1>0, <1>12, RequestShape DEF ResolveEntry
    <2>2. new \in Vendor
      BY DEF Vendor, TypeOK, Entry
    <2>3. [op |-> "saveVendor", vendor |-> requests[p].vendor, obj |-> new] \in Request
      BY <2>1, <2>2 DEF Request
    <2>. QED
      BY <1>12, <2>3, GoTyped DEF ResolveEntry, TypeOK
  <1>13. CASE SaveVendor(p)
    <2>1. requests[p].vendor \in Vendors /\ requests[p].obj \in Vendor
      BY <1>0, <1>13, RequestShape DEF SaveVendor
    <2>. QED
      BY <1>13, <2>1, IdleIsRequest, GoTyped DEF SaveVendor, TypeOK
  <1>14. CASE Die(p)
    BY <1>14, IdleIsRequest, GoTyped DEF Die, TypeOK
  <1>. QED
    BY <1>1, <1>2, <1>3, <1>4, <1>5, <1>6, <1>7, <1>8, <1>9, <1>10, <1>11,
       <1>12, <1>13, <1>14 DEF Step

LEMMA NextTyped == TypeOK /\ [Next]_vars => TypeOK'
  <1> SUFFICES ASSUME TypeOK, [Next]_vars
               PROVE  TypeOK'
    OBVIOUS
  <1>1. ASSUME NEW p \in Requests, Step(p)
        PROVE  TypeOK'
    BY <1>1, StepTyped
  <1>2. CASE Seed
    <2>1. entry' \in Entry
      BY <1>2, WhitelistAssumption DEF Seed, TypeOK, Entry
    <2>2. seeded' \in 0 .. SeedRuns
      BY <1>2, WhitelistAssumption DEF Seed, TypeOK
    <2>. QED
      BY <1>2, <2>1, <2>2 DEF Seed, TypeOK
  <1>3. CASE NextDay
    BY <1>3, WhitelistAssumption DEF NextDay, TypeOK
  <1>4. CASE UNCHANGED vars
    BY <1>4 DEF vars, TypeOK
  <1>. QED
    BY <1>1, <1>2, <1>3, <1>4 DEF Next

(* The state of the whitelist, the certificates, the vendors and every     *)
(* request in flight stays well typed: in particular a null score never    *)
(* reaches the whitelist (services.py:99-131).                             *)
THEOREM TypeCorrect == Spec => []TypeOK
  <1>. QED
    BY InitTypeOK, NextTyped, PTL DEF Spec

-----------------------------------------------------------------------------
(* The regression protection *)

(* What a publishing step does, whoever takes it: a request publishes its  *)
(* whole certificate over an entry that is not newer.                      *)
Publishes(p) ==
  /\ requests[p].obj \in Cert /\ requests[p].obj.score # NoScore
  /\ entry' = Published(requests[p].obj, IF entry = NoEntry THEN 1 ELSE entry.version + 1)
  /\ entry # NoEntry => ~Older(Published(requests[p].obj, 0), entry)

(* A step of a request publishes, or leaves the entry alone.               *)
LEMMA StepPublishes ==
  ASSUME TypeOK, NEW p \in Requests, Step(p)
  PROVE  Publishes(p) \/ entry' = entry
  <1>0. requests[p] \in Request
    BY DEF TypeOK
  <1>1. CASE Update(p)
    <2>1. requests[p].obj \in Cert
      BY <1>0, <1>1, RequestShape DEF Update
    <2>. QED
      BY <1>1, <2>1 DEF Update, RowFits, Publishes
  <1>2. CASE Insert(p)
    <2>1. requests[p].obj \in Cert
      BY <1>0, <1>2, RequestShape DEF Insert
    <2>. QED
      BY <1>2, <2>1 DEF Insert, RowFits, Publishes
  <1>3. CASE ~Update(p) /\ ~Insert(p)
    BY <1>3 DEF Step, Begin, BeginParse, BeginPush, BeginResolve, BeginPatchVendor,
       Ocr, Regression, MissEntry, PushFails, Fill, ResolveCert, ResolveEntry,
       SaveVendor, Die
  <1>. QED
    BY <1>1, <1>2, <1>3

(* Whatever runs concurrently, every step of Whitelist is a publication, a *)
(* reseed or a stutter of the abstract register (services.py:99-131).      *)
THEOREM ImplementsRegister == Spec => RegisterSpec
  <1>1. Init => Register!Init
    BY DEF Init, Register!Init
  <1>2. TypeOK /\ [Next]_vars => [Register!Next]_entry
    <2> SUFFICES ASSUME TypeOK, [Next]_vars
                 PROVE  [Register!Next]_entry
      OBVIOUS
    <2>1. ASSUME NEW p \in Requests, Publishes(p)
          PROVE  Register!Next
      <3> DEFINE o == requests[p].obj
      <3>1. o.score \in Scores /\ o.expiry \in Dates \cup {0}
        BY <2>1 DEF Publishes, Cert
      <3>2. Register!Publish(o.score, o.expiry, YearOf[o.expiry])
        BY <2>1 DEF Publishes, Published, Register!Publish, Register!Older, Older
      <3>. QED
        BY <3>1, <3>2 DEF Register!Next
    <2>2. ASSUME NEW p \in Requests, Step(p)
          PROVE  [Register!Next]_entry
      BY <2>1, <2>2, StepPublishes
    <2>3. CASE Seed
      <3> DEFINE seed == [score |-> SeedScore, year |-> SeedYear]
      <3>1. SeedRuns # 0
        BY <2>3, WhitelistAssumption DEF Seed, TypeOK
      <3>2. Register!Reseed(seed)
        BY <2>3 DEF Seed, Register!Reseed
      <3>. QED
        BY <3>1, <3>2 DEF Register!Next
    <2>4. CASE NextDay \/ UNCHANGED vars
      BY <2>4 DEF NextDay, vars
    <2>. QED
      BY <2>2, <2>3, <2>4 DEF Next
  <1>. QED
    BY <1>1, <1>2, TypeCorrect, PTL DEF Spec, RegisterSpec, Register!Spec

-----------------------------------------------------------------------------
(* Where a vendor's certificate score comes from *)

(* A client sent the score, or some certificate of the vendor carries it.  *)
Carried(v, s) ==
  \/ s \in ClientScores
  \/ \E c \in Certs : VendorOf[c] = v /\ s = file[c].score

(* A parse task holds the score of its certificate's file, up to the fill. *)
HoldsFileScore(r) ==
  (r.op \in {"push", "insert"} /\ r.task) \/ r.op = "fill"
    => r.obj.score = file[r.cert].score

(* A pending save of a certificate score has a certificate behind it.      *)
SavesCarried(r) ==
  r.op = "saveVendor" /\ r.obj.source = "CERT" => Carried(r.vendor, r.obj.score)

(* VendorScoreBacked, strengthened with the provenance of what is in       *)
(* flight: the tables alone do not say what a request will write.          *)
Backing ==
  /\ \A c \in Certs : certs[c].score \in {NoScore, file[c].score}
  /\ \A v \in Vendors : vendors[v].source = "CERT" => Carried(v, vendors[v].score)
  /\ \A p \in Requests : HoldsFileScore(requests[p]) /\ SavesCarried(requests[p])

(* A request may go on to req when req keeps the provenance.               *)
LEMMA GoBacking ==
  ASSUME TypeOK, Backing, NEW p \in Requests, NEW req, Go(p, req),
         HoldsFileScore(req), SavesCarried(req),
         UNCHANGED <<file, digits, certs, vendors>>
  PROVE  Backing'
  <1>1. \A q \in Requests : requests'[q] = IF q = p THEN req ELSE requests[q]
    BY DEF Go, TypeOK
  <1>. QED
    BY <1>1 DEF Backing, HoldsFileScore, SavesCarried, Carried

LEMMA IdleHoldsNothing == HoldsFileScore(Idle) /\ SavesCarried(Idle)
  BY DEF HoldsFileScore, SavesCarried, Idle

LEMMA AfterPushBacking ==
  ASSUME TypeOK, Backing, NEW p \in Requests, requests[p].op \in {"push", "insert"},
         AfterPush(p), UNCHANGED <<file, digits, certs, vendors>>
  PROVE  Backing'
  <1> DEFINE fill == [op |-> "fill", cert |-> requests[p].cert, obj |-> requests[p].obj]
  <1>1. CASE requests[p].task
    <2>1. HoldsFileScore(fill) /\ SavesCarried(fill)
      BY <1>1 DEF Backing, HoldsFileScore, SavesCarried
    <2>. QED
      BY <1>1, <2>1, GoBacking DEF AfterPush
  <1>2. CASE ~requests[p].task
    BY <1>2, IdleHoldsNothing, GoBacking DEF AfterPush
  <1>. QED
    BY <1>1, <1>2

LEMMA StepBacking ==
  ASSUME TypeOK, Backing, NEW p \in Requests, Step(p)
  PROVE  Backing'
  <1>0. requests[p] \in Request
    BY DEF TypeOK
  <1>1. ASSUME NEW c \in Certs, BeginParse(p, c)
        PROVE  Backing'
    <2> DEFINE req == [op |-> "ocr", cert |-> c]
    <2>1. HoldsFileScore(req) /\ SavesCarried(req)
      BY DEF HoldsFileScore, SavesCarried
    <2>. QED
      BY <1>1, <2>1, GoBacking DEF BeginParse, Begin, Go
  <1>2. ASSUME NEW c \in Certs, BeginPush(p, c)
        PROVE  Backing'
    <2> DEFINE req == [op |-> "push", cert |-> c, obj |-> certs[c], task |-> FALSE]
    <2>1. HoldsFileScore(req) /\ SavesCarried(req)
      BY DEF HoldsFileScore, SavesCarried
    <2>. QED
      BY <1>2, <2>1, GoBacking DEF BeginPush, Begin, Go
  <1>3. ASSUME NEW v \in Vendors, BeginResolve(p, v)
        PROVE  Backing'
    <2> DEFINE req == [op |-> "resolveCert", vendor |-> v]
    <2>1. HoldsFileScore(req) /\ SavesCarried(req)
      BY DEF HoldsFileScore, SavesCarried
    <2>. QED
      BY <1>3, <2>1, GoBacking DEF BeginResolve, Begin, Go
  <1>4. ASSUME NEW v \in Vendors, BeginPatchVendor(p, v)
        PROVE  Backing'
    <2> DEFINE req(s) == [op |-> "saveVendor", vendor |-> v,
                          obj |-> [score |-> s, source |-> vendors[v].source]]
    <2>1. PICK s \in ClientScores \cup {vendors[v].score} : Begin(p, req(s))
      BY <1>4 DEF BeginPatchVendor
    <2>2. vendors[v].source = "CERT" => Carried(v, s)
      BY <2>1 DEF Backing, Carried
    <2>3. HoldsFileScore(req(s)) /\ SavesCarried(req(s))
      BY <2>2 DEF HoldsFileScore, SavesCarried
    <2>. QED
      BY <2>1, <2>3, GoBacking DEF Begin, Go
  <1>5. CASE Ocr(p)
    <2> DEFINE c == requests[p].cert
               expired == file[c].expiry # 0 /\ file[c].expiry < today
               obj == [score |-> file[c].score, expiry |-> file[c].expiry,
                       expired |-> expired]
               next == IF expired \/ obj.score = NoScore THEN Idle
                       ELSE [op |-> "push", cert |-> c, obj |-> obj, task |-> TRUE]
    <2>1. c \in Certs
      BY <1>0, <1>5, RequestShape DEF Ocr
    <2>2. HoldsFileScore(next) /\ SavesCarried(next)
      BY IdleHoldsNothing DEF HoldsFileScore, SavesCarried
    <2>3. certs' = [certs EXCEPT ![c] = obj] /\ Go(p, next) /\ UNCHANGED <<file, vendors>>
      BY <1>5 DEF Ocr
    <2>4. \A d \in Certs : certs'[d] = IF d = c THEN obj ELSE certs[d]
      BY <2>1, <2>3 DEF TypeOK
    <2>5. \A d \in Certs : certs'[d].score \in {NoScore, file[d].score}
      BY <2>4 DEF Backing
    <2>6. \A q \in Requests : requests'[q] = IF q = p THEN next ELSE requests[q]
      BY <2>3 DEF Go, TypeOK
    <2>7. \A q \in Requests : HoldsFileScore(requests'[q]) /\ SavesCarried(requests'[q])
      BY <2>2, <2>6 DEF Backing
    <2>. QED
      BY <2>3, <2>5, <2>7 DEF Backing, HoldsFileScore, SavesCarried, Carried
  <1>6. CASE Regression(p) \/ PushFails(p) \/ Die(p)
    BY <1>6, IdleHoldsNothing, GoBacking DEF Regression, PushFails, Die
  <1>7. CASE Update(p) \/ Insert(p)
    BY <1>7, AfterPushBacking DEF Update, Insert
  <1>8. CASE MissEntry(p)
    <2> DEFINE req == [op |-> "insert", cert |-> requests[p].cert,
                       obj |-> requests[p].obj, task |-> requests[p].task]
    <2>1. HoldsFileScore(req) /\ SavesCarried(req)
      BY <1>8 DEF HoldsFileScore, SavesCarried, Backing, MissEntry
    <2>. QED
      BY <1>8, <2>1, GoBacking DEF MissEntry
  <1>9. CASE Fill(p)
    <2> DEFINE w == VendorOf[requests[p].cert]
               new == [score |-> requests[p].obj.score, source |-> "CERT"]
    <2>1. requests[p].cert \in Certs
      BY <1>0, <1>9, RequestShape DEF Fill
    <2>2. Carried(w, new.score)
      BY <1>9, <2>1 DEF Fill, Backing, HoldsFileScore, Carried
    <2>3. vendors' = [vendors EXCEPT ![w] = new] /\ Go(p, Idle) /\ UNCHANGED <<file, certs>>
      BY <1>9 DEF Fill
    <2>4. \A v \in Vendors : vendors'[v] = IF v = w THEN new ELSE vendors[v]
      BY <2>3 DEF TypeOK
    <2>5. \A v \in Vendors : vendors'[v].source = "CERT" => Carried(v, vendors'[v].score)
      BY <2>2, <2>4 DEF Backing
    <2>6. \A q \in Requests : requests'[q] = IF q = p THEN Idle ELSE requests[q]
      BY <2>3 DEF Go, TypeOK
    <2>7. \A q \in Requests : HoldsFileScore(requests'[q]) /\ SavesCarried(requests'[q])
      BY <2>6, IdleHoldsNothing DEF Backing
    <2>. QED
      BY <2>3, <2>5, <2>7 DEF Backing, HoldsFileScore, SavesCarried, Carried
  <1>10. CASE ResolveCert(p)
    <2> DEFINE v == requests[p].vendor
               save(c) == [op |-> "saveVendor", vendor |-> v,
                           obj |-> [score |-> certs[c].score, source |-> "CERT"]]
               pass == [op |-> "resolveEntry", vendor |-> v]
    <2>1. ASSUME NEW c \in Newest(v), Go(p, save(c))
          PROVE  Backing'
      <3>1. c \in Certs /\ VendorOf[c] = v /\ certs[c].score # NoScore
        BY <2>1 DEF Newest, Candidates
      <3>2. certs[c].score = file[c].score
        BY <3>1 DEF Backing
      <3>3. HoldsFileScore(save(c)) /\ SavesCarried(save(c))
        BY <3>1, <3>2 DEF HoldsFileScore, SavesCarried, Carried
      <3>. QED
        BY <1>10, <2>1, <3>3, GoBacking DEF ResolveCert
    <2>2. CASE Go(p, pass)
      <3>1. HoldsFileScore(pass) /\ SavesCarried(pass)
        BY DEF HoldsFileScore, SavesCarried
      <3>. QED
        BY <1>10, <2>2, <3>1, GoBacking DEF ResolveCert
    <2>. QED
      BY <1>10, <2>1, <2>2 DEF ResolveCert
  <1>11. CASE ResolveEntry(p)
    <2> DEFINE req == [op |-> "saveVendor", vendor |-> requests[p].vendor,
                       obj |-> IF entry # NoEntry
                               THEN [score |-> entry.score, source |-> "GLOBAL_WHITELIST"]
                               ELSE [score |-> Baseline, source |-> "BASELINE"]]
    <2>1. HoldsFileScore(req) /\ SavesCarried(req)
      BY DEF HoldsFileScore, SavesCarried
    <2>. QED
      BY <1>11, <2>1, GoBacking DEF ResolveEntry
  <1>12. CASE SaveVendor(p)
    <2> DEFINE w == requests[p].vendor
               new == requests[p].obj
    <2>1. new.source = "CERT" => Carried(w, new.score)
      BY <1>12 DEF SaveVendor, Backing, SavesCarried
    <2>2. vendors' = [vendors EXCEPT ![w] = new] /\ Go(p, Idle) /\ UNCHANGED <<file, certs>>
      BY <1>12 DEF SaveVendor
    <2>3. \A v \in Vendors : vendors'[v] = IF v = w THEN new ELSE vendors[v]
      BY <2>2 DEF TypeOK
    <2>4. \A v \in Vendors : vendors'[v].source = "CERT" => Carried(v, vendors'[v].score)
      BY <2>1, <2>3 DEF Backing
    <2>5. \A q \in Requests : requests'[q] = IF q = p THEN Idle ELSE requests[q]
      BY <2>2 DEF Go, TypeOK
    <2>6. \A q \in Requests : HoldsFileScore(requests'[q]) /\ SavesCarried(requests'[q])
      BY <2>5, IdleHoldsNothing DEF Backing
    <2>. QED
      BY <2>2, <2>4, <2>6 DEF Backing, HoldsFileScore, SavesCarried, Carried
  <1>. QED
    BY <1>1, <1>2, <1>3, <1>4, <1>5, <1>6, <1>7, <1>8, <1>9, <1>10, <1>11, <1>12 DEF Step

(* A vendor's certificate score is always one of its own certificates', or *)
(* one a client sent, whatever lost updates there are between the parse    *)
(* task, resolve_score and PATCH (tasks.py:135-140).                       *)
THEOREM ScoresBacked == Spec => []VendorScoreBacked
  <1>1. Init => Backing
    BY DEF Init, Backing, HoldsFileScore, SavesCarried, Idle
  <1>2. TypeOK /\ Backing /\ [Next]_vars => Backing'
    <2> SUFFICES ASSUME TypeOK, Backing, [Next]_vars
                 PROVE  Backing'
      OBVIOUS
    <2>1. ASSUME UNCHANGED <<file, certs, vendors, requests>>
          PROVE  Backing'
      BY <2>1 DEF Backing, HoldsFileScore, SavesCarried, Carried
    <2>2. CASE Seed \/ NextDay \/ UNCHANGED vars
      BY <2>1, <2>2 DEF Seed, NextDay, vars
    <2>. QED
      BY <2>2, StepBacking DEF Next
  <1>3. Backing => VendorScoreBacked
    BY DEF Backing, Carried, VendorScoreBacked
  <1>. QED
    BY <1>1, <1>2, <1>3, TypeCorrect, PTL DEF Spec

-----------------------------------------------------------------------------
(* The load of the seed data, which writes the whitelist and three tables  *)
(* beside it (SeedLoad)                                                    *)

(* A set of numbers up to n that has any has a largest.                    *)
LEMMA LargestExists ==
  ASSUME NEW n \in Nat, NEW S \in SUBSET (1 .. n), S # {}
  PROVE  \E i \in S : \A j \in S : j <= i
  <1>. DEFINE Above(i) == {x \in S : x > i}
              T == {Above(i) : i \in S}
              R == StrictSubsetOrdering(S)
  <1>1. IsFiniteSet(S)
    <2>1. 1 \in Int /\ n \in Int
      OBVIOUS
    <2>2. IsFiniteSet(1 .. n)
      BY <2>1, FS_Interval, Zenon
    <2>. QED
      BY <2>2, FS_Subset, Zenon
  <1>2. T \subseteq FiniteSubsetsOf(S) /\ T # {}
    <2>1. T \subseteq SUBSET S
      OBVIOUS
    <2>3. T # {}
      OBVIOUS
    <2>2. FiniteSubsetsOf(S) = SUBSET S
      BY <1>1, FS_FiniteSubsetsOfFinite, Zenon
    <2>. HIDE DEF T
    <2>. QED
      BY <2>1, <2>2, <2>3
  <1>3. IsWellFoundedOn(R, FiniteSubsetsOf(S))
    BY FS_StrictSubsetOrderingWellFounded
  <1>. HIDE DEF R, T
  <1>4. \E x \in T : \A y \in T : ~ (<<y, x>> \in R)
    BY <1>2, <1>3, WFMin
  <1>5. PICK i \in S : \A y \in T : <<y, Above(i)>> \notin R
    BY <1>4 DEF T
  <1>6. ASSUME NEW j \in S, j > i PROVE FALSE
    <2>1. Above(j) \in T
      BY DEF T
    <2>2. Above(j) \subseteq Above(i) /\ Above(j) # Above(i)
      <3>1. i \in Int /\ j \in Int /\ S \subseteq Int
        OBVIOUS
      <3>2. j \in Above(i) /\ j \notin Above(j)
        BY <1>6, <3>1
      <3>3. \A x \in S : x > j => x > i
        BY <1>6, <3>1
      <3>. QED
        BY <3>2, <3>3
    <2>3. <<Above(j), Above(i)>> \in R
      BY <2>2 DEF R, StrictSubsetOrdering
    <2>. QED
      BY <1>5, <2>1, <2>3
  <1>7. i \in Int /\ S \subseteq Int
    OBVIOUS
  <1>. QED
    BY <1>6, <1>7

-----------------------------------------------------------------------------
(* What is read off the workbooks (Workbooks)                              *)

(* Of sets of a finite set's elements, one that no other is inside of.     *)
LEMMA LeastSubset ==
  ASSUME NEW S, IsFiniteSet(S), NEW T \in SUBSET (SUBSET S), T # {}
  PROVE  \E s \in T : \A u \in SUBSET s : u # s => u \notin T
  <1>. DEFINE R == StrictSubsetOrdering(S)
  <1>1. T \subseteq FiniteSubsetsOf(S)
    BY FS_FiniteSubsetsOfFinite, Zenon
  <1>2. IsWellFoundedOn(R, FiniteSubsetsOf(S))
    BY FS_StrictSubsetOrderingWellFounded
  <1>. HIDE DEF R
  <1>3. PICK s \in T : \A u \in T : ~ (<<u, s>> \in R)
    BY <1>1, <1>2, WFMin
  <1>4. ASSUME NEW u \in SUBSET s, u # s PROVE u \notin T
    <2>1. <<u, s>> \in R
      BY <1>4 DEF R, StrictSubsetOrdering
    <2>. QED
      BY <1>3, <2>1
  <1>. QED
    BY <1>4

(* Max is one of the set's numbers.                                        *)
LEMMA MaxIn ==
  ASSUME NEW n \in Nat, NEW S \in SUBSET (1 .. n), S # {}
  PROVE  Max(S) \in S
  <1>1. PICK i \in S : \A j \in S : j <= i
    BY LargestExists
  <1>2. S \subseteq Int
    OBVIOUS
  <1>3. \A j \in S : i >= j
    BY <1>1, <1>2
  <1>4. \E k \in S : \A j \in S : k >= j
    BY <1>3
  <1>. QED
    BY <1>4, Zenon DEF Max

(* FoldLeft goes through a list by a recursive function on the sets of its *)
(* places, from the last down.  F[<<i, a>>] is what the i-th element makes *)
(* of a; g follows F when it is that function.                             *)
Follows(g, F, base, u) ==
  g[u] = IF u = {} THEN base ELSE F[<<Max(u), g[u \ {Max(u)}]>>]

Folds(g, F, base, S) == \A u \in SUBSET S : Follows(g, F, base, u)

Nested(n, S, P) == n \in Nat /\ S \in SUBSET (1 .. n) /\ P \in SUBSET S

(* Two that follow F agree wherever both do.                               *)
LEMMA FoldsAgree ==
  \A n, F, base, g, h, S, P :
    /\ Nested(n, S, P)
    /\ Folds(g, F, base, S) /\ Folds(h, F, base, P)
    => g[P] = h[P]
  <1>. SUFFICES ASSUME NEW n \in Nat, NEW F, NEW base, NEW g, NEW h,
                       NEW S \in SUBSET (1 .. n), NEW P \in SUBSET S,
                       Folds(g, F, base, S), Folds(h, F, base, P)
                PROVE  g[P] = h[P]
    BY DEF Nested
  <1>. DEFINE T == {u \in SUBSET P : g[u] # h[u]}
  <1>1. SUFFICES ASSUME T # {} PROVE FALSE
    <2>1. P \in SUBSET P
      OBVIOUS
    <2>. QED
      BY <2>1
  <1>2. T \in SUBSET (SUBSET P)
    OBVIOUS
  <1>3. IsFiniteSet(P)
    <2>1. 1 \in Int /\ n \in Int
      OBVIOUS
    <2>2. IsFiniteSet(1 .. n)
      BY <2>1, FS_Interval, Zenon
    <2>3. P \in SUBSET (1 .. n)
      OBVIOUS
    <2>. QED
      BY <2>2, <2>3, FS_Subset, Zenon
  <1>. HIDE DEF T
  <1>4. PICK u \in T : \A y \in SUBSET u : y # u => y \notin T
    BY <1>1, <1>2, <1>3, LeastSubset
  <1>5. u \in SUBSET P /\ u \in SUBSET S /\ g[u] # h[u]
    BY <1>2 DEF T
  <1>6. Follows(g, F, base, u) /\ Follows(h, F, base, u)
    BY <1>5 DEF Folds
  <1>7. u # {}
    BY <1>5, <1>6 DEF Follows
  <1>8. PICK p, t : p = Max(u) /\ t = u \ {p}
    OBVIOUS
  <1>9. p \in u
    BY <1>5, <1>7, <1>8, MaxIn
  <1>10. t \in SUBSET u /\ t # u
    BY <1>8, <1>9
  <1>11. g[t] = h[t]
    BY <1>4, <1>5, <1>10 DEF T
  <1>. QED
    BY <1>5, <1>6, <1>7, <1>8, <1>11 DEF Follows

(* One does, for every F.                                                  *)
LEMMA FoldExists ==
  ASSUME NEW n \in Nat, NEW T, NEW base \in T, NEW F \in [(1 .. n) \X T -> T]
  PROVE  \E g : g \in [SUBSET (1 .. n) -> T] /\ Folds(g, F, base, 1 .. n)
  <1>. DEFINE Good(g, u) == g \in [SUBSET u -> T] /\ Folds(g, F, base, u)
              B == {s \in SUBSET (1 .. n) : \A g : ~Good(g, s)}
  <1>1. SUFFICES ASSUME B # {} PROVE FALSE
    <2>1. 1 .. n \in SUBSET (1 .. n)
      OBVIOUS
    <2>. QED
      BY <2>1
  <1>2. B \in SUBSET (SUBSET (1 .. n)) /\ IsFiniteSet(1 .. n)
    <2>1. 1 \in Int /\ n \in Int
      OBVIOUS
    <2>. QED
      BY <2>1, FS_Interval, Zenon
  <1>. HIDE DEF B
  <1>3. PICK s \in B : \A u \in SUBSET s : u # s => u \notin B
    BY <1>1, <1>2, LeastSubset
  <1>4. s \in SUBSET (1 .. n) /\ \A g : ~Good(g, s)
    BY <1>2 DEF B
  <1>. DEFINE Of(u) == CHOOSE g : Good(g, u)
  <1>5. ASSUME NEW u \in SUBSET s, u # s PROVE Good(Of(u), u)
    <2>1. \E g : Good(g, u)
      BY <1>3, <1>4, <1>5 DEF B
    <2>. HIDE DEF Good
    <2>. QED
      BY <2>1, Zenon
  <1>. HIDE DEF Of
  <1>. DEFINE at(u) == u \ {Max(u)}
              top == IF s = {} THEN base ELSE F[<<Max(s), Of(at(s))[at(s)]>>]
              G == [u \in SUBSET s |-> IF u = s THEN top ELSE Of(u)[u]]
  <1>6. s # {} => Max(s) \in s /\ Max(s) \in 1 .. n /\ at(s) \in SUBSET s /\ at(s) # s
    BY <1>4, MaxIn
  <1>7. \A u \in SUBSET s : u # s => Of(u)[u] \in T
    BY <1>5
  <1>8. top \in T
    <2>1. CASE s = {}
      BY <2>1
    <2>2. CASE s # {}
      <3>1. PICK x, y : x = Max(s) /\ y = Of(at(s))[at(s)]
        OBVIOUS
      <3>2. x \in 1 .. n /\ y \in T
        BY <1>6, <1>7, <2>2, <3>1
      <3>3. <<x, y>> \in (1 .. n) \X T
        BY <3>2
      <3>4. F[<<x, y>>] \in T
        BY <3>3
      <3>. QED
        BY <2>2, <3>1, <3>4
    <2>. QED
      BY <2>1, <2>2
  <1>. HIDE DEF top
  <1>9. G \in [SUBSET s -> T]
    BY <1>7, <1>8
  <1>10. ASSUME NEW u \in SUBSET s PROVE Follows(G, F, base, u)
    <2>1. CASE u = s
      <3>1. G[u] = top
        BY <2>1
      <3>2. s # {} => G[at(s)] = Of(at(s))[at(s)]
        BY <1>6
      <3>. HIDE DEF G
      <3>. QED
        BY <2>1, <3>1, <3>2 DEF Follows, top
    <2>2. CASE u # s
      <3>1. Good(Of(u), u) /\ G[u] = Of(u)[u]
        BY <1>5, <2>2
      <3>2. Follows(Of(u), F, base, u)
        BY <3>1 DEF Folds
      <3>3. CASE u # {}
        <4>1. PICK p, v : p = Max(u) /\ v = u \ {p}
          OBVIOUS
        <4>2. p \in u
          BY <1>4, <3>3, <4>1, MaxIn
        <4>3. v \in SUBSET s /\ v # s /\ v \in SUBSET u
          BY <2>2, <4>1, <4>2
        <4>4. Good(Of(v), v) /\ G[v] = Of(v)[v]
          BY <1>5, <4>3
        <4>5. Folds(Of(u), F, base, u) /\ Folds(Of(v), F, base, v)
          BY <3>1, <4>4
        <4>6. u \in SUBSET (1 .. n)
          BY <1>4
        <4>7. Of(u)[v] = Of(v)[v]
          <5>1. PICK g, h : g = Of(u) /\ h = Of(v)
            OBVIOUS
          <5>2. Folds(g, F, base, u) /\ Folds(h, F, base, v)
            BY <4>5, <5>1
          <5>3. Nested(n, u, v)
            BY <4>3, <4>6 DEF Nested
          <5>4. g[v] = h[v]
            BY <5>2, <5>3, FoldsAgree
          <5>. QED
            BY <5>1, <5>4
        <4>. HIDE DEF G
        <4>. QED
          BY <3>1, <3>2, <3>3, <4>1, <4>4, <4>7 DEF Follows
      <3>4. CASE u = {}
        <4>. HIDE DEF G
        <4>. QED
          BY <3>1, <3>2, <3>4 DEF Follows
      <3>. QED
        BY <3>3, <3>4
    <2>. QED
      BY <2>1, <2>2
  <1>. HIDE DEF G
  <1>11. Good(G, s)
    BY <1>9, <1>10 DEF Folds
  <1>. QED
    BY <1>4, <1>11


(* The same as an equation, the form in which the folds choose it.         *)
FoldOf(g, F, base, S) == g = [u \in SUBSET S |-> IF u = {} THEN base
                                                 ELSE F[<<Max(u), g[u \ {Max(u)}]>>]]

LEMMA FoldIs ==
  \A n, T, base, F :
    n \in Nat /\ base \in T /\ F \in [(1 .. n) \X T -> T] =>
      \E g : g \in [SUBSET (1 .. n) -> T] /\ FoldOf(g, F, base, 1 .. n)
  <1>. SUFFICES ASSUME NEW n \in Nat, NEW T, NEW base \in T, NEW F \in [(1 .. n) \X T -> T]
                PROVE  \E g : g \in [SUBSET (1 .. n) -> T] /\ FoldOf(g, F, base, 1 .. n)
    OBVIOUS
  <1>1. PICK g : g \in [SUBSET (1 .. n) -> T] /\ Folds(g, F, base, 1 .. n)
    BY FoldExists
  <1>2. \A u \in SUBSET (1 .. n) :
          g[u] = IF u = {} THEN base ELSE F[<<Max(u), g[u \ {Max(u)}]>>]
    BY <1>1, Zenon DEF Folds, Follows
  <1>. DEFINE R(u) == IF u = {} THEN base ELSE F[<<Max(u), g[u \ {Max(u)}]>>]
  <1>3. g = [u \in SUBSET (1 .. n) |-> R(u)]
    <2>1. \A u \in SUBSET (1 .. n) : g[u] = R(u)
      BY <1>2, Zenon
    <2>2. g \in [SUBSET (1 .. n) -> T]
      BY <1>1
    <2>. HIDE DEF R
    <2>. QED
      BY <2>1, <2>2
  <1>4. FoldOf(g, F, base, 1 .. n)
    BY <1>3, Zenon DEF FoldOf
  <1>. QED
    BY <1>1, <1>4

(* What every step keeps, the whole has.                                   *)
LEMMA FoldTyped ==
  \A n, T, base, it :
    /\ n \in Nat /\ base \in T /\ it[{}] = base
    /\ \A u \in SUBSET (1 .. n) : u # {} /\ it[u \ {Max(u)}] \in T => it[u] \in T
    => it[1 .. n] \in T
  <1>. SUFFICES ASSUME NEW n \in Nat, NEW T, NEW base \in T, NEW it, it[{}] = base,
                       \A u \in SUBSET (1 .. n) : u # {} /\ it[u \ {Max(u)}] \in T => it[u] \in T
                PROVE  it[1 .. n] \in T
    OBVIOUS
  <1>. DEFINE B == {u \in SUBSET (1 .. n) : it[u] \notin T}
  <1>1. SUFFICES ASSUME B # {} PROVE FALSE
    <2>1. 1 .. n \in SUBSET (1 .. n)
      OBVIOUS
    <2>. QED
      BY <2>1
  <1>2. B \in SUBSET (SUBSET (1 .. n)) /\ IsFiniteSet(1 .. n)
    <2>1. 1 \in Int /\ n \in Int
      OBVIOUS
    <2>. QED
      BY <2>1, FS_Interval, Zenon
  <1>. HIDE DEF B
  <1>3. PICK s \in B : \A u \in SUBSET s : u # s => u \notin B
    BY <1>1, <1>2, LeastSubset
  <1>4. s \in SUBSET (1 .. n) /\ it[s] \notin T
    BY <1>2 DEF B
  <1>5. s # {}
    BY <1>4
  <1>6. PICK x, v : x = Max(s) /\ v = s \ {x}
    OBVIOUS
  <1>7. x \in s
    BY <1>4, <1>5, <1>6, MaxIn
  <1>8. v \in SUBSET s /\ v # s /\ v \in SUBSET (1 .. n)
    BY <1>4, <1>6, <1>7
  <1>9. it[v] \in T
    BY <1>3, <1>8 DEF B
  <1>. QED
    BY <1>4, <1>5, <1>6, <1>9

(* The provers do not know that a literal is a string.                     *)
Texts == STRING \cup {"", "sector", "commodity", "threshold", "whitelist"}

(* An upsert whose sector or threshold is a number.                        *)
Upserts == {u \in [key : Texts \X Texts \X Texts, value : Texts] :
              u.key[1] \in {"sector", "threshold"} => u.value \in Decimals}

(* A sequence's elements.                                                  *)
LEMMA ElementIs ==
  \A T, s, i :
    s \in Seq(T) => /\ Len(s) \in Nat /\ DOMAIN s = 1 .. Len(s)
                    /\ i \in DOMAIN s => s[i] \in T
  OBVIOUS

(* A cell is a text, also where the row has none.                          *)
LEMMA CellIs ==
  \A row, c : row \in Row => Cell(row, c) \in Texts
  <1>. SUFFICES ASSUME NEW row \in Row, NEW c PROVE Cell(row, c) \in Texts
    OBVIOUS
  <1>1. DOMAIN row = 1 .. Len(row) /\ \A i \in 1 .. Len(row) : row[i] \in STRING
    BY DEF Row
  <1>2. "" \in Texts /\ \A s \in STRING : s \in Texts
    BY DEF Texts
  <1>. QED
    BY <1>1, <1>2, Zenon DEF Cell

(* What makes an upsert of texts one of Upserts.                           *)
LEMMA UpsertIs ==
  \A table, code, scope, value :
    /\ table \in Texts /\ code \in Texts /\ scope \in Texts /\ value \in Texts
    /\ table \in {"sector", "threshold"} => value \in Decimals
    => Upsert(table, code, scope, value) \in Upserts
  BY DEF Upsert, Upserts

(* One more.                                                               *)
LEMMA Appended ==
  \A out, u : out \in Seq(Upserts) /\ u \in Upserts => Append(out, u) \in Seq(Upserts)
  OBVIOUS

(* A fold that is F as long as it has the type F keeps.                    *)
Iterates(it, F, T, base, n) ==
  /\ it[{}] = base
  /\ \A u \in SUBSET (1 .. n) :
       u # {} /\ it[u \ {Max(u)}] \in T => it[u] = F[<<Max(u), it[u \ {Max(u)}]>>]

(* It always has that type.                                                *)
LEMMA IteratesTyped ==
  \A n, T, base, F, it :
    /\ n \in Nat /\ base \in T /\ F \in [(1 .. n) \X T -> T] /\ Iterates(it, F, T, base, n)
    => it[1 .. n] \in T
  <1>. SUFFICES ASSUME NEW n \in Nat, NEW T, NEW base \in T, NEW F \in [(1 .. n) \X T -> T],
                       NEW it, Iterates(it, F, T, base, n)
                PROVE  it[1 .. n] \in T
    OBVIOUS
  <1>1. ASSUME NEW u \in SUBSET (1 .. n), u # {}, it[u \ {Max(u)}] \in T PROVE it[u] \in T
    <2>1. PICK x, y : x = Max(u) /\ y = it[u \ {Max(u)}]
      OBVIOUS
    <2>2. x \in 1 .. n /\ y \in T
      BY <1>1, <2>1, MaxIn
    <2>3. it[u] = F[<<x, y>>]
      BY <1>1, <2>1 DEF Iterates
    <2>. QED
      BY <2>2, <2>3
  <1>2. it[{}] = base
    BY DEF Iterates
  <1>. QED
    BY <1>1, <1>2, FoldTyped

(* Appendix B's rows make sectors with a score.                            *)
SectorsRead(out, row) ==
  IF Cell(row, 2) \in {"", "Sector"} \/ Cell(row, 3) \notin Decimals THEN out
  ELSE Append(out, Upsert("sector", Cell(row, 2), "", Cell(row, 3)))

LEMMA SectorsAre ==
  ASSUME NEW rows \in Seq(Row) PROVE Sectors(rows) \in Seq(Upserts)
  <1>. DEFINE n == Len(rows)
              T == Seq(Upserts)
              F == [p \in (1 .. n) \X T |-> SectorsRead(p[2], rows[p[1]])]
              Is(g) == g = [u \in SUBSET DOMAIN rows |->
                              IF u = {} THEN << >>
                              ELSE SectorsRead(g[u \ {Max(u)}], rows[Max(u)])]
              it == CHOOSE g : Is(g)
  <1>1. n \in Nat /\ DOMAIN rows = 1 .. n /\ << >> \in T
    OBVIOUS
  <1>2. \A i \in 1 .. n, out \in T : SectorsRead(out, rows[i]) \in T
    <2>. SUFFICES ASSUME NEW i \in 1 .. n, NEW out \in T PROVE SectorsRead(out, rows[i]) \in T
      OBVIOUS
    <2>1. PICK row \in Row : row = rows[i]
      OBVIOUS
    <2>. DEFINE a == Cell(row, 2)  b == Cell(row, 3)
    <2>2. a \in Texts /\ b \in Texts /\ "" \in Texts /\ "sector" \in Texts
      BY CellIs DEF Texts
    <2>3. b \in Decimals => Upsert("sector", a, "", b) \in Upserts
      <3>. HIDE DEF a, b
      <3>. QED
        BY <2>2, UpsertIs
    <2>. QED
      BY <2>1, <2>3, Appended, Zenon DEF SectorsRead
  <1>. HIDE DEF T
  <1>3. F \in [(1 .. n) \X T -> T]
    BY <1>2
  <1>4. \A i \in 1 .. n, acc \in T : F[<<i, acc>>] = SectorsRead(acc, rows[i])
    OBVIOUS
  <1>. HIDE DEF F
  <1>5. PICK g : g \in [SUBSET (1 .. n) -> T] /\ FoldOf(g, F, << >>, 1 .. n)
    BY <1>1, <1>3, FoldIs
  <1>6. Is(g)
    <2>1. ASSUME NEW u \in SUBSET (1 .. n), u # {}
          PROVE  F[<<Max(u), g[u \ {Max(u)}]>>] =
                   SectorsRead(g[u \ {Max(u)}], rows[Max(u)])
      <3>1. Max(u) \in 1 .. n /\ u \ {Max(u)} \in SUBSET (1 .. n)
        BY <1>1, <2>1, MaxIn
      <3>. QED
        BY <1>4, <1>5, <3>1
    <2>. QED
      BY <1>1, <1>5, <2>1 DEF FoldOf
  <1>7. Is(it)
    <2>. HIDE DEF Is
    <2>. QED
      BY <1>6, Zenon
  <1>8. Sectors(rows) = it[DOMAIN rows]
    BY Zenon DEF Sectors, FoldLeft, MapThenFoldSet, SectorsRead
  <1>. HIDE DEF it
  <1>9. Iterates(it, F, T, << >>, n)
    <2>1. \A u \in SUBSET (1 .. n) :
            it[u] = IF u = {} THEN << >>
                    ELSE SectorsRead(it[u \ {Max(u)}], rows[Max(u)])
      BY <1>1, <1>7, Zenon
    <2>2. ASSUME NEW u \in SUBSET (1 .. n), u # {}, it[u \ {Max(u)}] \in T
          PROVE  it[u] = F[<<Max(u), it[u \ {Max(u)}]>>]
      BY <1>1, <1>4, <2>1, <2>2, MaxIn
    <2>. QED
      BY <2>1, <2>2 DEF Iterates
  <1>10. it[1 .. n] \in T
    BY <1>1, <1>3, <1>9, IteratesTyped
  <1>11. Sectors(rows) \in T
    BY <1>1, <1>8, <1>10
  <1>. QED
    BY <1>11 DEF T

(* A Mandatory List sheet's rows make commodities.                         *)
CommoditiesRead(sheet, acc, row) ==
  LET segment == IF Cell(row, ColumnOf(sheet.headers, "segment")) = "" THEN acc.segment
                 ELSE Cell(row, ColumnOf(sheet.headers, "segment"))
      code == Cell(row, ColumnOf(sheet.headers, "etimad"))
  IN  [segment |-> segment,
       out |-> IF code = "" THEN acc.out
              
               ELSE Append(acc.out, Upsert("commodity", code, sheet.title, segment))]

CommoditiesBase == [segment |-> "", out |-> << >>]

LEMMA CommoditiesAre ==
  ASSUME NEW sheet \in Sheet
  PROVE  Commodities(sheet) \in Seq(Upserts)
  <1>a. CASE ColumnOf(sheet.headers, "etimad") = 0
    <2>1. Commodities(sheet) = << >>
      BY <1>a DEF Commodities
    <2>. QED
      BY <2>1
  <1>b. SUFFICES ASSUME ColumnOf(sheet.headers, "etimad") # 0
                 PROVE  Commodities(sheet) \in Seq(Upserts)
    BY <1>a
  <1>c. PICK rows : rows = sheet.rows
    OBVIOUS
  <1>0. sheet.title \in Texts /\ rows \in Seq(Row)
    BY <1>c DEF Sheet, Texts
  <1>. DEFINE n == Len(rows)
              T == [segment : Texts, out : Seq(Upserts)]
              F == [p \in (1 .. n) \X T |-> CommoditiesRead(sheet, p[2], rows[p[1]])]
              Is(g) == g = [u \in SUBSET DOMAIN rows |->
                              IF u = {} THEN CommoditiesBase
                              ELSE CommoditiesRead(sheet, g[u \ {Max(u)}], rows[Max(u)])]
              it == CHOOSE g : Is(g)
  <1>1. n \in Nat /\ DOMAIN rows = 1 .. n /\ CommoditiesBase \in T
    <2>1. n \in Nat /\ DOMAIN rows = 1 .. n
      BY <1>0
    <2>2. "" \in Texts /\ << >> \in Seq(Upserts)
      BY DEF Texts
    <2>. HIDE DEF n
    <2>. QED
      BY <2>1, <2>2 DEF CommoditiesBase
  <1>2. \A i \in 1 .. n, acc \in T : CommoditiesRead(sheet, acc, rows[i]) \in T
    <2>. SUFFICES ASSUME NEW i \in 1 .. n, NEW acc \in T
                  PROVE  CommoditiesRead(sheet, acc, rows[i]) \in T
      OBVIOUS
    <2>1. PICK row \in Row : row = rows[i]
      BY <1>0
    <2>2. PICK a, code : a = Cell(row, ColumnOf(sheet.headers, "segment"))
                         /\ code = Cell(row, ColumnOf(sheet.headers, "etimad"))
      OBVIOUS
    <2>3. a \in Texts /\ code \in Texts
      BY <2>2, CellIs
    <2>4. PICK segment : segment = IF a = "" THEN acc.segment ELSE a
      OBVIOUS
    <2>5. segment \in Texts /\ "commodity" \in Texts /\ acc.out \in Seq(Upserts)
      BY <2>3, <2>4 DEF Texts
    <2>6. Upsert("commodity", code, sheet.title, segment) \in Upserts
      BY <1>0, <2>3, <2>5, UpsertIs
    <2>7. Append(acc.out, Upsert("commodity", code, sheet.title, segment)) \in Seq(Upserts)
      BY <2>5, <2>6, Appended
    <2>8. CommoditiesRead(sheet, acc, rows[i]) =
            [segment |-> segment,
             out |-> IF code = "" THEN acc.out
                    
                     ELSE Append(acc.out, Upsert("commodity", code, sheet.title, segment))]
      BY <2>1, <2>2, <2>4 DEF CommoditiesRead
    <2>9. PICK out : out = IF code = "" THEN acc.out
                          
                           ELSE Append(acc.out, Upsert("commodity", code, sheet.title, segment))
      OBVIOUS
    <2>10. out \in Seq(Upserts)
      BY <2>5, <2>7, <2>9
    <2>11. CommoditiesRead(sheet, acc, rows[i]) = [segment |-> segment, out |-> out]
      BY <2>8, <2>9, Zenon
    <2>12. [segment |-> segment, out |-> out] \in T
      BY <2>5, <2>10
    <2>. QED
      BY <2>11, <2>12
  <1>. HIDE DEF T
  <1>3. F \in [(1 .. n) \X T -> T]
    BY <1>2
  <1>4. \A i \in 1 .. n, acc \in T : F[<<i, acc>>] = CommoditiesRead(sheet, acc, rows[i])
    OBVIOUS
  <1>. HIDE DEF F
  <1>5. PICK g : g \in [SUBSET (1 .. n) -> T] /\ FoldOf(g, F, CommoditiesBase, 1 .. n)
    BY <1>1, <1>3, FoldIs
  <1>6. Is(g)
    <2>1. ASSUME NEW u \in SUBSET (1 .. n), u # {}
          PROVE  F[<<Max(u), g[u \ {Max(u)}]>>] =
                   CommoditiesRead(sheet, g[u \ {Max(u)}], rows[Max(u)])
      <3>1. Max(u) \in 1 .. n /\ u \ {Max(u)} \in SUBSET (1 .. n)
        BY <1>1, <2>1, MaxIn
      <3>. QED
        BY <1>4, <1>5, <3>1
    <2>. QED
      BY <1>1, <1>5, <2>1 DEF FoldOf
  <1>7. Is(it)
    <2>. HIDE DEF Is
    <2>. QED
      BY <1>6, Zenon
  <1>8. Commodities(sheet) = it[DOMAIN rows].out
    BY <1>b, <1>c, Zenon DEF Commodities, FoldLeft, MapThenFoldSet, CommoditiesRead, CommoditiesBase
  <1>. HIDE DEF it
  <1>9. Iterates(it, F, T, CommoditiesBase, n)
    <2>1. \A u \in SUBSET (1 .. n) :
            it[u] = IF u = {} THEN CommoditiesBase
                    ELSE CommoditiesRead(sheet, it[u \ {Max(u)}], rows[Max(u)])
      BY <1>1, <1>7, Zenon
    <2>2. ASSUME NEW u \in SUBSET (1 .. n), u # {}, it[u \ {Max(u)}] \in T
          PROVE  it[u] = F[<<Max(u), it[u \ {Max(u)}]>>]
      BY <1>1, <1>4, <2>1, <2>2, MaxIn
    <2>. QED
      BY <2>1, <2>2 DEF Iterates
  <1>10. it[1 .. n] \in T
    BY <1>1, <1>3, <1>9, IteratesTyped
  <1>. QED
    BY <1>1, <1>8, <1>10 DEF T

(* A column is a number, 0 when no cell names it.                          *)
LEMMA ColumnIs ==
  ASSUME NEW row \in Row, NEW name PROVE ColumnOf(row, name) \in Nat
  <1>. DEFINE cols == {c \in DOMAIN row : row[c] = name}
  <1>1. CASE cols = {}
    BY <1>1 DEF ColumnOf
  <1>2. CASE cols # {}
    <2>1. Len(row) \in Nat /\ cols \in SUBSET (1 .. Len(row))
      BY DEF Row
    <2>2. \E c \in cols : \A k \in cols : k <= c
      <3>. HIDE DEF cols
      <3>. QED
        BY <1>2, <2>1, LargestExists
    <2>3. (CHOOSE c \in cols : \A k \in cols : k <= c) \in cols
      <3>. HIDE DEF cols
      <3>. QED
        BY <2>2, Zenon
    <2>4. ColumnOf(row, name) = CHOOSE c \in cols : \A k \in cols : k <= c
      BY <1>2 DEF ColumnOf
    <2>. QED
      BY <2>1, <2>3, <2>4
  <1>. QED
    BY <1>1, <1>2

(* What is read of a sheet of minimum percentages: the years' columns are  *)
(* columns of the header row last met.                                     *)
ThresholdRows ==
  {a \in [etimad : Nat, years : SUBSET Nat, header : Row, out : Seq(Upserts)] :
     a.years \subseteq DOMAIN a.header}

(* A row of the sheet, and a cell of a row of products.                    *)
ThresholdsRead(acc, row) ==
  IF ColumnOf(row, "etimad") # 0 THEN HeaderColumns(acc, row)
  ELSE ProductRow(acc, row)

ProductsRead(acc, row, out, c) ==
  IF c \in acc.years /\ Cell(row, c) \in Decimals
  THEN Append(out, Upsert("threshold", Cell(row, acc.etimad), acc.header[c], Cell(row, c)))
  ELSE out

(* A header row makes the columns its own.                                 *)
LEMMA HeaderColumnsAre ==
  ASSUME NEW acc \in ThresholdRows, NEW row \in Row
  PROVE  HeaderColumns(acc, row) \in ThresholdRows
  <1>1. ColumnOf(row, "etimad") \in Nat
    BY ColumnIs
  <1>2. PICK etimad, years : etimad = ColumnOf(row, "etimad")
                             /\ years = {c \in DOMAIN row : row[c] \in YearHeaders}
    OBVIOUS
  <1>3. years \in SUBSET Nat /\ years \subseteq DOMAIN row
    BY <1>2 DEF Row
  <1>4. acc.out \in Seq(Upserts)
    BY DEF ThresholdRows
  <1>5. HeaderColumns(acc, row) = [etimad |-> etimad, years |-> years, header |-> row, out |-> acc.out]
    BY <1>2 DEF HeaderColumns
  <1>. QED
    BY <1>1, <1>2, <1>3, <1>4, <1>5 DEF ThresholdRows

(* A row that is no product.                                               *)
Skips(acc, row) == acc.etimad = 0 \/ acc.years = {} \/ Cell(row, acc.etimad) = ""

(* A product's row adds thresholds that are numbers, under texts.          *)
LEMMA ProductFold ==
  ASSUME NEW acc \in ThresholdRows, NEW row \in Row, ~ Skips(acc, row)
  PROVE  \E out \in Seq(Upserts) : ProductRow(acc, row) = [acc EXCEPT !.out = out]
  <1>a. PICK cells : cells = [c \in DOMAIN row |-> c]
    OBVIOUS
  <1>b. PICK start : start = acc.out
    OBVIOUS
  <1>0. cells \in Seq(Nat) /\ start \in Seq(Upserts)
    <2>1. DOMAIN row = 1 .. Len(row) /\ Len(row) \in Nat
      BY DEF Row
    <2>2. cells = [c \in 1 .. Len(row) |-> c]
      BY <1>a, <2>1
    <2>3. cells \in [1 .. Len(row) -> Nat]
      BY <2>1, <2>2
    <2>4. start \in Seq(Upserts)
      BY <1>b DEF ThresholdRows
    <2>. QED
      BY <2>1, <2>3, <2>4
  <1>. DEFINE n == Len(cells)
              T == Seq(Upserts)
              F == [p \in (1 .. n) \X T |-> ProductsRead(acc, row, p[2], cells[p[1]])]
              Is(g) == g = [u \in SUBSET DOMAIN cells |->
                              IF u = {} THEN start
                              ELSE ProductsRead(acc, row, g[u \ {Max(u)}], cells[Max(u)])]
              it == CHOOSE g : Is(g)
  <1>1. n \in Nat /\ DOMAIN cells = 1 .. n /\ start \in T
    BY <1>0
  <1>2. \A i \in 1 .. n, out \in T : ProductsRead(acc, row, out, cells[i]) \in T
    <2>. SUFFICES ASSUME NEW i \in 1 .. n, NEW out \in T
                  PROVE  ProductsRead(acc, row, out, cells[i]) \in T
      OBVIOUS
    <2>1. PICK c : c = cells[i]
      OBVIOUS
    <2>2. CASE ~ (c \in acc.years /\ Cell(row, c) \in Decimals)
      BY <2>1, <2>2, Zenon DEF ProductsRead
    <2>3. CASE c \in acc.years /\ Cell(row, c) \in Decimals
      <3>1. PICK code, year, value : code = Cell(row, acc.etimad) /\ year = acc.header[c]
                                     /\ value = Cell(row, c)
        OBVIOUS
      <3>2. c \in DOMAIN acc.header /\ acc.header \in Seq(STRING)
        BY <2>3 DEF ThresholdRows, Row
      <3>3. year \in Texts
        <4>1. acc.header[c] \in STRING
          BY <3>2, ElementIs
        <4>. QED
          BY <3>1, <4>1 DEF Texts
      <3>4. code \in Texts /\ value \in Texts /\ "threshold" \in Texts
        BY <3>1, CellIs DEF Texts
      <3>5. Upsert("threshold", code, year, value) \in Upserts
        BY <2>3, <3>1, <3>3, <3>4, UpsertIs
      <3>6. Append(out, Upsert("threshold", code, year, value)) \in T
        BY <3>5, Appended
      <3>. HIDE DEF T
      <3>. QED
        BY <2>1, <2>3, <3>1, <3>6, Zenon DEF ProductsRead
    <2>. QED
      BY <2>2, <2>3
  <1>. HIDE DEF T
  <1>3. F \in [(1 .. n) \X T -> T]
    BY <1>2
  <1>4. \A i \in 1 .. n, out \in T : F[<<i, out>>] = ProductsRead(acc, row, out, cells[i])
    OBVIOUS
  <1>. HIDE DEF F
  <1>5. PICK g : g \in [SUBSET (1 .. n) -> T] /\ FoldOf(g, F, start, 1 .. n)
    BY <1>1, <1>3, FoldIs
  <1>6. Is(g)
    <2>1. ASSUME NEW u \in SUBSET (1 .. n), u # {}
          PROVE  F[<<Max(u), g[u \ {Max(u)}]>>] =
                   ProductsRead(acc, row, g[u \ {Max(u)}], cells[Max(u)])
      <3>1. Max(u) \in 1 .. n /\ u \ {Max(u)} \in SUBSET (1 .. n)
        BY <1>1, <2>1, MaxIn
      <3>. QED
        BY <1>4, <1>5, <3>1
    <2>. QED
      BY <1>1, <1>5, <2>1 DEF FoldOf
  <1>7. Is(it)
    <2>. HIDE DEF Is
    <2>. QED
      BY <1>6, Zenon
  <1>8. ProductRow(acc, row) = [acc EXCEPT !.out = it[DOMAIN cells]]
    <2>1. ProductRow(acc, row) =
            [acc EXCEPT !.out = FoldLeft(LAMBDA out, c : ProductsRead(acc, row, out, c), acc.out,
                                         [c \in DOMAIN row |-> c])]
      BY Zenon DEF ProductRow, ProductsRead, Skips
    <2>2. FoldLeft(LAMBDA out, c : ProductsRead(acc, row, out, c), start, cells) = it[DOMAIN cells]
      BY Zenon DEF FoldLeft, MapThenFoldSet
    <2>. QED
      BY <1>a, <1>b, <2>1, <2>2, Zenon
  <1>. HIDE DEF it
  <1>9. Iterates(it, F, T, start, n)
    <2>1. \A u \in SUBSET (1 .. n) :
            it[u] = IF u = {} THEN start
                    ELSE ProductsRead(acc, row, it[u \ {Max(u)}], cells[Max(u)])
      BY <1>1, <1>7, Zenon
    <2>2. ASSUME NEW u \in SUBSET (1 .. n), u # {}, it[u \ {Max(u)}] \in T
          PROVE  it[u] = F[<<Max(u), it[u \ {Max(u)}]>>]
      BY <1>1, <1>4, <2>1, <2>2, MaxIn
    <2>. QED
      BY <2>1, <2>2 DEF Iterates
  <1>10. it[1 .. n] \in T
    BY <1>1, <1>3, <1>9, IteratesTyped
  <1>. QED
    BY <1>1, <1>8, <1>10 DEF T

(* Every row keeps what is read well typed.                                *)
LEMMA ProductRowIs ==
  ASSUME NEW acc \in ThresholdRows, NEW row \in Row
  PROVE  ProductRow(acc, row) \in ThresholdRows
  <1>1. CASE Skips(acc, row)
    BY <1>1 DEF ProductRow, Skips
  <1>2. CASE ~ Skips(acc, row)
    <2>1. PICK out \in Seq(Upserts) : ProductRow(acc, row) = [acc EXCEPT !.out = out]
      BY <1>2, ProductFold
    <2>. QED
      BY <2>1 DEF ThresholdRows
  <1>. QED
    BY <1>1, <1>2

(* The minimum percentages make thresholds that are numbers.               *)
ThresholdsBase == [etimad |-> 0, years |-> {}, header |-> << >>, out |-> << >>]

LEMMA ThresholdsAre ==
  ASSUME NEW rows \in Seq(Row) PROVE Thresholds(rows) \in Seq(Upserts)
  <1>. DEFINE n == Len(rows)
              T == ThresholdRows
              F == [p \in (1 .. n) \X T |-> ThresholdsRead(p[2], rows[p[1]])]
              Is(g) == g = [u \in SUBSET DOMAIN rows |->
                              IF u = {} THEN ThresholdsBase
                              ELSE ThresholdsRead(g[u \ {Max(u)}], rows[Max(u)])]
              it == CHOOSE g : Is(g)
  <1>1. n \in Nat /\ DOMAIN rows = 1 .. n /\ ThresholdsBase \in T
    <2>1. << >> \in Row /\ << >> \in Seq(Upserts)
      BY DEF Row
    <2>2. ThresholdsBase \in ThresholdRows
      BY <2>1 DEF ThresholdsBase, ThresholdRows
    <2>. QED
      BY <2>2
  <1>2. \A i \in 1 .. n, acc \in T : ThresholdsRead(acc, rows[i]) \in T
    <2>. SUFFICES ASSUME NEW i \in 1 .. n, NEW acc \in T
                  PROVE  ThresholdsRead(acc, rows[i]) \in T
      OBVIOUS
    <2>1. PICK row \in Row : row = rows[i]
      OBVIOUS
    <2>. QED
      BY <2>1, HeaderColumnsAre, ProductRowIs, Zenon DEF ThresholdsRead
  <1>. HIDE DEF T
  <1>3. F \in [(1 .. n) \X T -> T]
    BY <1>2
  <1>4. \A i \in 1 .. n, acc \in T : F[<<i, acc>>] = ThresholdsRead(acc, rows[i])
    OBVIOUS
  <1>. HIDE DEF F
  <1>5. PICK g : g \in [SUBSET (1 .. n) -> T] /\ FoldOf(g, F, ThresholdsBase, 1 .. n)
    BY <1>1, <1>3, FoldIs
  <1>6. Is(g)
    <2>1. ASSUME NEW u \in SUBSET (1 .. n), u # {}
          PROVE  F[<<Max(u), g[u \ {Max(u)}]>>] =
                   ThresholdsRead(g[u \ {Max(u)}], rows[Max(u)])
      <3>1. Max(u) \in 1 .. n /\ u \ {Max(u)} \in SUBSET (1 .. n)
        BY <1>1, <2>1, MaxIn
      <3>. QED
        BY <1>4, <1>5, <3>1
    <2>. QED
      BY <1>1, <1>5, <2>1 DEF FoldOf
  <1>7. Is(it)
    <2>. HIDE DEF Is
    <2>. QED
      BY <1>6, Zenon
  <1>8. Thresholds(rows) = it[DOMAIN rows].out
    BY Zenon DEF Thresholds, FoldLeft, MapThenFoldSet, ThresholdsRead, ThresholdsBase
  <1>. HIDE DEF it
  <1>9. Iterates(it, F, T, ThresholdsBase, n)
    <2>1. \A u \in SUBSET (1 .. n) :
            it[u] = IF u = {} THEN ThresholdsBase
                    ELSE ThresholdsRead(it[u \ {Max(u)}], rows[Max(u)])
      BY <1>1, <1>7, Zenon
    <2>2. ASSUME NEW u \in SUBSET (1 .. n), u # {}, it[u \ {Max(u)}] \in T
          PROVE  it[u] = F[<<Max(u), it[u \ {Max(u)}]>>]
      BY <1>1, <1>4, <2>1, <2>2, MaxIn
    <2>. QED
      BY <2>1, <2>2 DEF Iterates
  <1>10. it[1 .. n] \in T
    BY <1>1, <1>3, <1>9, IteratesTyped
  <1>11. it[1 .. n].out \in Seq(Upserts)
    BY <1>10 DEF T, ThresholdRows
  <1>. QED
    BY <1>1, <1>8, <1>11

(* The sheets of the Mandatory List, one after the other.                  *)
Mandatory(sheets) == FoldLeft(LAMBDA out, sheet : out \o Commodities(sheet), << >>, sheets)

LEMMA MandatoryAre ==
  ASSUME NEW sheets \in Seq(Sheet) PROVE Mandatory(sheets) \in Seq(Upserts)
  <1>. DEFINE n == Len(sheets)
              T == Seq(Upserts)
              F == [p \in (1 .. n) \X T |-> (p[2] \o Commodities(sheets[p[1]]))]
              Is(g) == g = [u \in SUBSET DOMAIN sheets |->
                              IF u = {} THEN << >>
                              ELSE (g[u \ {Max(u)}] \o Commodities(sheets[Max(u)]))]
              it == CHOOSE g : Is(g)
  <1>1. n \in Nat /\ DOMAIN sheets = 1 .. n /\ << >> \in T
    OBVIOUS
  <1>2. \A i \in 1 .. n, acc \in T : (acc \o Commodities(sheets[i])) \in T
    <2>. SUFFICES ASSUME NEW i \in 1 .. n, NEW acc \in T PROVE (acc \o Commodities(sheets[i])) \in T
      OBVIOUS
    <2>1. PICK s : s = Commodities(sheets[i])
      OBVIOUS
    <2>2. s \in Seq(Upserts)
      BY <2>1, CommoditiesAre
    <2>. QED
      BY <2>1, <2>2
  <1>. HIDE DEF T
  <1>3. F \in [(1 .. n) \X T -> T]
    BY <1>2
  <1>4. \A i \in 1 .. n, acc \in T : F[<<i, acc>>] = (acc \o Commodities(sheets[i]))
    OBVIOUS
  <1>. HIDE DEF F
  <1>5. PICK g : g \in [SUBSET (1 .. n) -> T] /\ FoldOf(g, F, << >>, 1 .. n)
    BY <1>1, <1>3, FoldIs
  <1>6. Is(g)
    <2>1. ASSUME NEW u \in SUBSET (1 .. n), u # {}
          PROVE  F[<<Max(u), g[u \ {Max(u)}]>>] =
                   (g[u \ {Max(u)}] \o Commodities(sheets[Max(u)]))
      <3>1. Max(u) \in 1 .. n /\ u \ {Max(u)} \in SUBSET (1 .. n)
        BY <1>1, <2>1, MaxIn
      <3>. QED
        BY <1>4, <1>5, <3>1
    <2>. QED
      BY <1>1, <1>5, <2>1 DEF FoldOf
  <1>7. Is(it)
    <2>. HIDE DEF Is
    <2>. QED
      BY <1>6, Zenon
  <1>8. Mandatory(sheets) = it[DOMAIN sheets]
    BY Zenon DEF Mandatory, FoldLeft, MapThenFoldSet
  <1>. HIDE DEF it
  <1>9. Iterates(it, F, T, << >>, n)
    <2>1. \A u \in SUBSET (1 .. n) :
            it[u] = IF u = {} THEN << >>
                    ELSE (it[u \ {Max(u)}] \o Commodities(sheets[Max(u)]))
      BY <1>1, <1>7, Zenon
    <2>2. ASSUME NEW u \in SUBSET (1 .. n), u # {}, it[u \ {Max(u)}] \in T
          PROVE  it[u] = F[<<Max(u), it[u \ {Max(u)}]>>]
      BY <1>1, <1>4, <2>1, <2>2, MaxIn
    <2>. QED
      BY <2>1, <2>2 DEF Iterates
  <1>10. it[1 .. n] \in T
    BY <1>1, <1>3, <1>9, IteratesTyped
  <1>. QED
    BY <1>1, <1>8, <1>10 DEF T

(* The sheets of the minimum percentages.                                  *)
Percentages(sheets) == FoldLeft(LAMBDA out, rows : out \o Thresholds(rows), << >>, sheets)

LEMMA PercentagesAre ==
  ASSUME NEW sheets \in Seq(Seq(Row)) PROVE Percentages(sheets) \in Seq(Upserts)
  <1>. DEFINE n == Len(sheets)
              T == Seq(Upserts)
              F == [p \in (1 .. n) \X T |-> (p[2] \o Thresholds(sheets[p[1]]))]
              Is(g) == g = [u \in SUBSET DOMAIN sheets |->
                              IF u = {} THEN << >>
                              ELSE (g[u \ {Max(u)}] \o Thresholds(sheets[Max(u)]))]
              it == CHOOSE g : Is(g)
  <1>1. n \in Nat /\ DOMAIN sheets = 1 .. n /\ << >> \in T
    OBVIOUS
  <1>2. \A i \in 1 .. n, acc \in T : (acc \o Thresholds(sheets[i])) \in T
    <2>. SUFFICES ASSUME NEW i \in 1 .. n, NEW acc \in T PROVE (acc \o Thresholds(sheets[i])) \in T
      OBVIOUS
    <2>1. PICK s : s = Thresholds(sheets[i])
      OBVIOUS
    <2>2. s \in Seq(Upserts)
      BY <2>1, ThresholdsAre
    <2>. QED
      BY <2>1, <2>2
  <1>. HIDE DEF T
  <1>3. F \in [(1 .. n) \X T -> T]
    BY <1>2
  <1>4. \A i \in 1 .. n, acc \in T : F[<<i, acc>>] = (acc \o Thresholds(sheets[i]))
    OBVIOUS
  <1>. HIDE DEF F
  <1>5. PICK g : g \in [SUBSET (1 .. n) -> T] /\ FoldOf(g, F, << >>, 1 .. n)
    BY <1>1, <1>3, FoldIs
  <1>6. Is(g)
    <2>1. ASSUME NEW u \in SUBSET (1 .. n), u # {}
          PROVE  F[<<Max(u), g[u \ {Max(u)}]>>] =
                   (g[u \ {Max(u)}] \o Thresholds(sheets[Max(u)]))
      <3>1. Max(u) \in 1 .. n /\ u \ {Max(u)} \in SUBSET (1 .. n)
        BY <1>1, <2>1, MaxIn
      <3>. QED
        BY <1>4, <1>5, <3>1
    <2>. QED
      BY <1>1, <1>5, <2>1 DEF FoldOf
  <1>7. Is(it)
    <2>. HIDE DEF Is
    <2>. QED
      BY <1>6, Zenon
  <1>8. Percentages(sheets) = it[DOMAIN sheets]
    BY Zenon DEF Percentages, FoldLeft, MapThenFoldSet
  <1>. HIDE DEF it
  <1>9. Iterates(it, F, T, << >>, n)
    <2>1. \A u \in SUBSET (1 .. n) :
            it[u] = IF u = {} THEN << >>
                    ELSE (it[u \ {Max(u)}] \o Thresholds(sheets[Max(u)]))
      BY <1>1, <1>7, Zenon
    <2>2. ASSUME NEW u \in SUBSET (1 .. n), u # {}, it[u \ {Max(u)}] \in T
          PROVE  it[u] = F[<<Max(u), it[u \ {Max(u)}]>>]
      BY <1>1, <1>4, <2>1, <2>2, MaxIn
    <2>. QED
      BY <2>1, <2>2 DEF Iterates
  <1>10. it[1 .. n] \in T
    BY <1>1, <1>3, <1>9, IteratesTyped
  <1>. QED
    BY <1>1, <1>8, <1>10 DEF T

(* What a load upserts, of any workbooks.                                  *)
LEMMA PlanIs ==
  ASSUME NEW m \in Images
  PROVE  PlanOf[m] \in Seq(Upserts) /\ Len(PlanOf[m]) \in Nat \ {0}
  <1>1. PICK book : book = Books[m]
    OBVIOUS
  <1>2. IsBook(book) /\ PlanOf[m] = Plan(book)
    BY <1>1, SeedAssumption DEF PlanOf
  <1>3. PICK a : a = IF book.sectors = Missing \/ book.sectors = NoSheet THEN << >> ELSE Sectors(book.sectors)
    OBVIOUS
  <1>4. PICK b : b = IF book.mandatory = Missing THEN << >>
  ELSE Mandatory(book.mandatory)
    OBVIOUS
  <1>5. PICK c : c = IF book.thresholds = Missing THEN << >>
  ELSE Percentages(book.thresholds)
    OBVIOUS
  <1>6. PICK d : d = [i \in DOMAIN book.whitelist |->
                        Upsert("whitelist", book.whitelist[i].vat, "", book.whitelist[i].score)]
    OBVIOUS
  <1>7. a \in Seq(Upserts)
    BY <1>2, <1>3, SectorsAre DEF IsBook
  <1>8. b \in Seq(Upserts)
    BY <1>2, <1>4, MandatoryAre DEF IsBook
  <1>9. c \in Seq(Upserts)
    BY <1>2, <1>5, PercentagesAre DEF IsBook
  <1>10. PICK w : w = book.whitelist
    OBVIOUS
  <1>11. w \in Seq(Listing) /\ w # << >>
    BY <1>2, <1>10 DEF IsBook
  <1>12. d \in Seq(Upserts) /\ Len(d) \in Nat \ {0}
    <2>1. DOMAIN w = 1 .. Len(w) /\ Len(w) \in Nat \ {0}
      BY <1>11
    <2>2. ASSUME NEW i \in 1 .. Len(w)
          PROVE  Upsert("whitelist", w[i].vat, "", w[i].score) \in Upserts
      <3>1. PICK x, y : x = w[i].vat /\ y = w[i].score
        OBVIOUS
      <3>2. w[i] \in Listing
        BY <1>11
      <3>5. x \in STRING /\ y \in STRING
        BY <3>1, <3>2 DEF Listing
      <3>3. x \in Texts /\ y \in Texts /\ "" \in Texts /\ "whitelist" \in Texts
        BY <3>5 DEF Texts
      <3>4. Upsert("whitelist", x, "", y) \in Upserts
        BY <3>3, UpsertIs
      <3>. QED
        BY <3>1, <3>4
    <2>3. d = [i \in 1 .. Len(w) |-> Upsert("whitelist", w[i].vat, "", w[i].score)]
      BY <1>6, <1>10, <2>1
    <2>4. d \in [1 .. Len(w) -> Upserts]
      BY <2>2, <2>3
    <2>. QED
      BY <2>1, <2>4
  <1>13. PlanOf[m] = a \o b \o c \o d
    BY <1>2, <1>3, <1>4, <1>5, <1>6, Zenon DEF Plan, Mandatory, Percentages
  <1>. QED
    BY <1>7, <1>8, <1>9, <1>12, <1>13

-----------------------------------------------------------------------------
(* The load *)

(* The place of the last upsert of a key.                                  *)
LastOf(plan, key) ==
  CHOOSE i \in DOMAIN plan : /\ plan[i].key = key
                             /\ \A j \in DOMAIN plan : plan[j].key = key => j <= i

LEMMA LastIs ==
  ASSUME NEW m \in Images, NEW i \in DOMAIN PlanOf[m]
  PROVE  LET plan == PlanOf[m]
             key  == plan[i].key
         IN /\ LastOf(plan, key) \in DOMAIN plan
            /\ plan[LastOf(plan, key)].key = key
            /\ i <= LastOf(plan, key)
            /\ Final(plan, key) = plan[LastOf(plan, key)].value
  <1>. DEFINE plan == PlanOf[m]
              key  == plan[i].key
              S    == {j \in DOMAIN plan : plan[j].key = key}
  <1>1. DOMAIN plan = 1 .. Len(plan) /\ Len(plan) \in Nat
    BY PlanIs
  <1>. HIDE DEF plan
  <1>2. \E j \in S : \A k \in S : k <= j
    <2>1. i \in S
      BY DEF plan
    <2>2. S \in SUBSET (1 .. Len(plan))
      BY <1>1
    <2>. HIDE DEF S
    <2>. QED
      BY <1>1, <2>1, <2>2, LargestExists
  <1>3. \E j \in DOMAIN plan : plan[j].key = key /\ \A k \in DOMAIN plan : plan[k].key = key => k <= j
    BY <1>2
  <1>4. /\ LastOf(plan, key) \in DOMAIN plan
        /\ plan[LastOf(plan, key)].key = key
        /\ \A k \in DOMAIN plan : plan[k].key = key => k <= LastOf(plan, key)
    BY <1>3, Zenon DEF LastOf
  <1>5. Final(plan, key) = plan[LastOf(plan, key)].value
    BY DEF Final, LastOf
  <1>6. i <= LastOf(plan, key)
    BY <1>4 DEF plan
  <1>. QED
    BY <1>4, <1>5, <1>6 DEF plan

(* A container that has yet to write what is to stay under the key, or     *)
(* another image's upserts, which end the claim.                           *)
Pending(d, m, key) ==
  \/ containers[d].state \in {"down", "booting"}
  \/ containers[d].state = "seeding" /\ containers[d].at = 1
  \/ /\ containers[d].state = "seeding" /\ containers[d].image = m
     /\ containers[d].at <= LastOf(PlanOf[m], key)

Settled(m, key) ==
  \/ key \in pushed
  \/ tables[key] = Final(PlanOf[m], key)
  \/ \E d \in Containers : Pending(d, m, key)

(* What a container has loaded stays, or is written again.                 *)
LoadInv ==
  /\ containers \in [Containers -> Container]
  /\ DOMAIN tables = Keys
  /\ alone \subseteq Containers
  /\ \A c \in Containers :
       /\ containers[c].at >= 1
       /\ containers[c].state = "booting" => containers[c].at = 1
       /\ containers[c].state = "serving" => containers[c].at > Len(PlanOf[containers[c].image])
  /\ \A c \in alone : LET m == containers[c].image
                      IN  \A i \in DOMAIN PlanOf[m] :
                            i < containers[c].at => Settled(m, PlanOf[m][i].key)

LEMMA LoadMeans == LoadInv => LoadIdempotent
  <1>. SUFFICES ASSUME LoadInv, \A c \in Containers : containers[c].state = "serving",
                       NEW c \in alone, NEW i \in DOMAIN PlanOf[containers[c].image]
                PROVE  \/ PlanOf[containers[c].image][i].key \in pushed
                       \/ tables[PlanOf[containers[c].image][i].key] =
                         Final(PlanOf[containers[c].image], PlanOf[containers[c].image][i].key)
    BY DEF LoadIdempotent
  <1>. DEFINE m == containers[c].image
  <1>1. c \in Containers /\ m \in Images /\ containers[c].at \in Nat /\ containers[c].at > Len(PlanOf[m])
    BY DEF LoadInv, Container
  <1>2. i \in 1 .. Len(PlanOf[m]) /\ Len(PlanOf[m]) \in Nat
    BY <1>1, PlanIs
  <1>3. i < containers[c].at
    BY <1>1, <1>2
  <1>4. Settled(m, PlanOf[m][i].key)
    BY <1>3 DEF LoadInv
  <1>5. \A d \in Containers : ~Pending(d, m, PlanOf[m][i].key)
    BY DEF Pending
  <1>. QED
    BY <1>4, <1>5 DEF Settled

LEMMA InitLoad == SeedInit => LoadInv
  <1>. SUFFICES ASSUME SeedInit PROVE LoadInv
    OBVIOUS
  <1>1. containers \in [Containers -> Container]
    BY DEF SeedInit, Container
  <1>2. \A c \in Containers : containers[c].at = 1 /\ containers[c].state = "down"
    BY DEF SeedInit
  <1>. QED
    BY <1>1, <1>2 DEF SeedInit, LoadInv

(* A container that moves: the others are where they were.                 *)
Moved(c, r) == containers' = [containers EXCEPT ![c] = r]

LEMMA MovedElse ==
  ASSUME LoadInv, NEW c \in Containers, NEW r \in Container, Moved(c, r)
  PROVE  /\ containers' \in [Containers -> Container]
         /\ \A d \in Containers : containers'[d] = IF d = c THEN r ELSE containers[d]
  BY DEF LoadInv, Moved

(* The tables are left alone: who was to write will, if the one that moves *)
(* has nothing left to write or begins anew.                               *)
LEMMA TablesStay ==
  ASSUME LoadInv, NEW c \in Containers, NEW r \in Container, Moved(c, r), UNCHANGED <<tables, pushed>>,
         alone' \subseteq Containers, \A k \in alone' : k \in alone \/ (k = c /\ r.at = 1),
         c \in alone' /\ r.at # 1 => r.at = containers[c].at /\ r.image = containers[c].image,
         r.at >= 1, r.state = "booting" => r.at = 1,
         r.state = "serving" => r.at > Len(PlanOf[r.image]),
         \/ r.state \in {"down", "booting"} \/ (r.state = "seeding" /\ r.at = 1)
         \/ /\ containers[c].state = "seeding"
            /\ containers[c].at > Len(PlanOf[containers[c].image])
  PROVE  LoadInv'
  <1>1. /\ containers' \in [Containers -> Container]
        /\ \A d \in Containers : containers'[d] = IF d = c THEN r ELSE containers[d]
    BY MovedElse
  <1>2. ASSUME NEW k \in alone', NEW m \in Images, m = containers'[k].image,
               NEW i \in DOMAIN PlanOf[m], i < containers'[k].at, NEW key, key = PlanOf[m][i].key
        PROVE  Settled(m, key)'
    <2>2. i \in 1 .. Len(PlanOf[m]) /\ Len(PlanOf[m]) \in Nat
      BY PlanIs
    <2>3. k \in alone /\ containers'[k].at = containers[k].at /\ m = containers[k].image
      BY <1>1, <1>2, <2>2
    <2>4. Settled(m, key)
      BY <1>2, <2>3 DEF LoadInv
    <2>5. ASSUME NEW d \in Containers, Pending(d, m, key) PROVE Pending(d, m, key)'
      <3>1. CASE d # c
        BY <1>1, <2>5, <3>1 DEF Pending
      <3>2. CASE d = c /\ (r.state \in {"down", "booting"} \/ (r.state = "seeding" /\ r.at = 1))
        BY <1>1, <3>2 DEF Pending
      <3>3. CASE d = c /\ containers[c].state = "seeding"
                       /\ containers[c].at > Len(PlanOf[containers[c].image])
        <4>1. containers[c].image \in Images /\ containers[c].at \in Nat
          BY DEF LoadInv, Container
        <4>2. Len(PlanOf[containers[c].image]) \in Nat \ {0}
          BY <4>1, PlanIs
        <4>3. LastOf(PlanOf[m], key) \in 1 .. Len(PlanOf[m])
          BY <1>2, PlanIs, LastIs
        <4>. QED
          BY <2>2, <2>5, <3>3, <4>1, <4>2, <4>3 DEF Pending
      <3>. QED
        BY <3>1, <3>2, <3>3
    <2>. QED
      BY <2>4, <2>5 DEF Settled
  <1>3. ASSUME NEW d \in Containers
        PROVE  /\ containers'[d].at >= 1
               /\ containers'[d].state = "booting" => containers'[d].at = 1
               /\ containers'[d].state = "serving" =>
                    containers'[d].at > Len(PlanOf[containers'[d].image])
    BY <1>1 DEF LoadInv
  <1>4. DOMAIN tables' = Keys
    BY DEF LoadInv
  <1>5. \A k \in alone' : k \in Containers /\ containers'[k].image \in Images
    BY <1>1 DEF Container
  <1>. QED
    BY <1>1, <1>2, <1>3, <1>4, <1>5 DEF LoadInv


(* An upsert of another image ends the claims of this one; one of the same *)
(* image is the last of its key, or that is still to come.                 *)
LEMMA LoadNextKeeps ==
  ASSUME LoadInv, NEW c \in Containers, LoadNext(c)
  PROVE  LoadInv'
  <1>0. PICK m, at : m = containers[c].image /\ at = containers[c].at
    OBVIOUS
  <1>. DEFINE plan == PlanOf[m]
              r    == [containers[c] EXCEPT !.at = at + 1]
  <1>1. containers[c] \in Container /\ m \in Images /\ at \in Nat /\ at >= 1
    BY <1>0 DEF LoadInv, Container
  <1>2. /\ containers[c].state = "seeding" /\ at <= Len(plan)
        /\ tables' = [tables EXCEPT ![plan[at].key] = plan[at].value]
        /\ containers' = [containers EXCEPT ![c].at = at + 1]
        /\ alone' = {k \in alone : containers[k].image = m}
        /\ pushed' = pushed \ {plan[at].key}
    BY <1>0 DEF LoadNext, UpdateOrCreate, Loading
  <1>3. at \in DOMAIN plan /\ DOMAIN plan = 1 .. Len(plan) /\ Len(plan) \in Nat
    BY <1>1, <1>2, PlanIs
  <1>4. plan[at].key \in Keys
    BY <1>1, <1>3 DEF Keys
  <1>5. r \in Container /\ r.at = at + 1 /\ r.image = m /\ r.state = "seeding"
    BY <1>0, <1>1, <1>2 DEF Container
  <1>6. Moved(c, r)
    BY <1>2 DEF Moved, LoadInv
  <1>. HIDE DEF r
  <1>7. /\ containers' \in [Containers -> Container]
        /\ \A d \in Containers : containers'[d] = IF d = c THEN r ELSE containers[d]
    BY <1>5, <1>6, MovedElse
  <1>8. /\ DOMAIN tables' = Keys
        /\ \A key \in Keys : tables'[key] = IF key = plan[at].key THEN plan[at].value ELSE tables[key]
    BY <1>2, <1>4 DEF LoadInv
  <1>9. ASSUME NEW i \in DOMAIN plan, NEW key, key = plan[i].key,
               Settled(m, key) \/ i = at
        PROVE  Settled(m, key)'
    <2>1. /\ LastOf(plan, key) \in DOMAIN plan
          /\ plan[LastOf(plan, key)].key = key
          /\ i <= LastOf(plan, key)
          /\ Final(plan, key) = plan[LastOf(plan, key)].value
      BY <1>1, <1>9, LastIs
    <2>2. key \in Keys
      BY <1>1, <1>9 DEF Keys
    <2>3. CASE at = LastOf(plan, key)
      <3>1. tables'[key] = Final(plan, key)
        BY <1>8, <2>1, <2>2, <2>3
      <3>. QED
        BY <3>1 DEF Settled
    <2>4. CASE at < LastOf(plan, key)
      <3>1. r.at <= LastOf(plan, key)
        BY <1>1, <1>3, <1>5, <2>1, <2>4
      <3>2. Pending(c, m, key)'
        BY <1>5, <1>7, <3>1 DEF Pending
      <3>. QED
        BY <3>2 DEF Settled
    <2>5. CASE at > LastOf(plan, key)
      <3>1. Settled(m, key)
        BY <1>1, <1>3, <1>9, <2>1, <2>5
      <3>2. plan[at].key # key
        <4>. SUFFICES ASSUME plan[at].key = key PROVE FALSE
          OBVIOUS
        <4>1. at <= LastOf(plan, key)
          BY <1>1, <1>3, LastIs
        <4>. QED
          BY <1>1, <1>3, <2>1, <2>5, <4>1
      <3>5. CASE key \in pushed
        <4>1. key \in pushed'
          BY <1>2, <3>2, <3>5
        <4>. QED
          BY <4>1 DEF Settled
      <3>3. CASE tables[key] = Final(plan, key)
        <4>1. tables'[key] = Final(plan, key)
          BY <1>8, <2>2, <3>2, <3>3
        <4>. QED
          BY <4>1 DEF Settled
      <3>4. ASSUME NEW d \in Containers, Pending(d, m, key) PROVE Settled(m, key)'
        <4>1. d # c
          BY <1>0, <1>1, <1>2, <1>3, <2>1, <2>5, <3>4 DEF Pending
        <4>2. Pending(d, m, key)'
          BY <1>7, <3>4, <4>1 DEF Pending
        <4>. QED
          BY <4>2 DEF Settled
      <3>. QED
        BY <3>1, <3>3, <3>4, <3>5 DEF Settled
    <2>6. at \in Int /\ LastOf(plan, key) \in Int
      BY <1>1, <1>3, <2>1
    <2>. QED
      BY <2>3, <2>4, <2>5, <2>6
  <1>10. ASSUME NEW k \in alone', NEW i \in DOMAIN plan, i < containers'[k].at
         PROVE  containers'[k].image = m /\ Settled(m, plan[i].key)'
    <2>1. k \in alone /\ k \in Containers /\ containers[k].image = m
      BY <1>2 DEF LoadInv
    <2>2. containers'[k].image = m
      BY <1>5, <1>7, <2>1
    <2>3. i < containers[k].at \/ i = at
      BY <1>0, <1>1, <1>3, <1>5, <1>7, <1>10, <2>1
    <2>4. Settled(m, plan[i].key) \/ i = at
      BY <2>1, <2>3 DEF LoadInv
    <2>5. PICK key : key = plan[i].key
      OBVIOUS
    <2>6. Settled(m, key)'
      BY <1>9, <2>4, <2>5
    <2>. QED
      BY <2>2, <2>5, <2>6
  <1>11. \A k \in alone' : containers'[k].image = m
    BY <1>2, <1>5, <1>7 DEF LoadInv
  <1>12. ASSUME NEW d \in Containers
         PROVE  /\ containers'[d].at >= 1
                /\ containers'[d].state = "booting" => containers'[d].at = 1
                /\ containers'[d].state = "serving" =>
                     containers'[d].at > Len(PlanOf[containers'[d].image])
    BY <1>1, <1>5, <1>7 DEF LoadInv
  <1>13. alone' \subseteq Containers
    BY <1>2 DEF LoadInv
  <1>. QED
    BY <1>7, <1>8, <1>10, <1>11, <1>12, <1>13 DEF LoadInv

LEMMA StepLoad == LoadInv /\ [SeedNext]_seedVars => LoadInv'
  <1>. SUFFICES ASSUME LoadInv, [SeedNext]_seedVars PROVE LoadInv'
    OBVIOUS
  <1>c. ASSUME NEW c \in Containers
        PROVE  /\ containers[c] \in Container /\ containers[c].at \in Nat
               /\ containers[c].image \in Images /\ containers[c].at >= 1
    BY DEF LoadInv, Container
  <1>p. \A m \in Images : Len(PlanOf[m]) \in Nat
    BY PlanIs
  <1>1. ASSUME NEW c \in Containers, Start(c) PROVE LoadInv'
    <2>. DEFINE q == [containers[c] EXCEPT !.state = "booting"]
                r == [q EXCEPT !.at = 1]
    <2>1. q \in Container /\ q.state = "booting"
      BY <1>c, <1>1 DEF Container
    <2>2. containers' = [containers EXCEPT ![c] = r]
      BY <1>1 DEF Start, LoadInv
    <2>. HIDE DEF q
    <2>3. r \in Container /\ r.state = "booting" /\ r.at = 1
      BY <2>1 DEF Container
    <2>. HIDE DEF r
    <2>4. UNCHANGED <<tables, pushed>> /\ alone' = alone \cup {c}
      BY <1>1 DEF Start
    <2>5. alone' \subseteq Containers /\ \A k \in alone' : k \in alone \/ (k = c /\ r.at = 1)
      BY <2>3, <2>4 DEF LoadInv
    <2>6. /\ Moved(c, r)
          /\ c \in alone' /\ r.at # 1 => r.at = containers[c].at /\ r.image = containers[c].image
          /\ r.at >= 1 /\ (r.state = "serving" => r.at > Len(PlanOf[r.image]))
          /\ r.state = "booting"
      BY <2>2, <2>3 DEF Moved
    <2>. QED
      BY <2>3, <2>4, <2>5, <2>6, TablesStay
  <1>6. ASSUME NEW c \in Containers, Boot(c) PROVE LoadInv'
    <2>. DEFINE r == [containers[c] EXCEPT !.state = "seeding"]
    <2>1. /\ r \in Container /\ r.state = "seeding" /\ r.at = containers[c].at
          /\ r.image = containers[c].image
      BY <1>c, <1>6 DEF Container
    <2>2. containers' = [containers EXCEPT ![c] = r]
      BY <1>6 DEF Boot, LoadInv
    <2>. HIDE DEF r
    <2>3. UNCHANGED <<tables, pushed>> /\ alone' = alone /\ containers[c].state = "booting"
      BY <1>6 DEF Boot
    <2>4. alone' \subseteq Containers /\ r.at = 1
      BY <2>1, <2>3 DEF LoadInv
    <2>. QED
      BY <1>c, <2>1, <2>2, <2>3, <2>4, TablesStay DEF Moved
  <1>2. ASSUME NEW c \in Containers, Serve(c) PROVE LoadInv'
    <2>. DEFINE r == [containers[c] EXCEPT !.state = "serving"]
    <2>1. /\ r \in Container /\ r.state = "serving" /\ r.at = containers[c].at
          /\ r.image = containers[c].image
      BY <1>c, <1>2 DEF Container
    <2>2. containers' = [containers EXCEPT ![c] = r]
      BY <1>2 DEF Serve, LoadInv
    <2>. HIDE DEF r
    <2>3. /\ UNCHANGED <<tables, pushed>> /\ alone' = alone
          /\ containers[c].state = "seeding"
          /\ containers[c].at > Len(PlanOf[containers[c].image])
      BY <1>2 DEF Serve
    <2>4. alone' \subseteq Containers
      BY <2>3 DEF LoadInv
    <2>. QED
      BY <1>c, <2>1, <2>2, <2>3, <2>4, TablesStay DEF Moved
  <1>3. ASSUME NEW c \in Containers, Crash(c) \/ Abort(c) \/ BootFails(c) PROVE LoadInv'
    <2>. DEFINE r == [containers[c] EXCEPT !.state = "down"]
    <2>1. /\ r \in Container /\ r.state = "down" /\ r.at = containers[c].at
          /\ r.image = containers[c].image
      BY <1>c, <1>3 DEF Container
    <2>2. containers' = [containers EXCEPT ![c] = r]
      BY <1>3 DEF Crash, Abort, BootFails, LoadInv
    <2>. HIDE DEF r
    <2>3. UNCHANGED <<tables, pushed>> /\ alone' = alone
      BY <1>3 DEF Crash, Abort, BootFails
    <2>4. alone' \subseteq Containers
      BY <2>3 DEF LoadInv
    <2>. QED
      BY <1>c, <2>1, <2>2, <2>3, <2>4, TablesStay DEF Moved
  <1>4. ASSUME NEW c \in Containers, Deploy(c) PROVE LoadInv'
    <2>1. PICK m \in Images : containers' = [containers EXCEPT ![c].image = m]
      BY <1>4 DEF Deploy
    <2>. DEFINE r == [containers[c] EXCEPT !.image = m]
    <2>2. r \in Container /\ r.state = "down" /\ r.at = containers[c].at
      BY <1>c, <1>4 DEF Container, Deploy
    <2>3. containers' = [containers EXCEPT ![c] = r]
      BY <2>1 DEF LoadInv
    <2>. HIDE DEF r
    <2>4. UNCHANGED <<tables, pushed>> /\ alone' = alone \ {c}
      BY <1>4 DEF Deploy
    <2>5. alone' \subseteq Containers
      BY <2>4 DEF LoadInv
    <2>. QED
      BY <1>c, <2>2, <2>3, <2>4, <2>5, TablesStay DEF Moved
  <1>5. CASE UNCHANGED seedVars
    <2>1. UNCHANGED <<tables, containers, alone, pushed>>
      BY <1>5 DEF seedVars
    <2>2. \A m \in Images : \A key : Settled(m, key) => Settled(m, key)'
      BY <2>1 DEF Settled, Pending
    <2>. QED
      BY <2>1, <2>2 DEF LoadInv, Settled, Pending
  <1>7. ASSUME NEW key \in Pushable, NEW score \in Decimals, Push(key, score) PROVE LoadInv'
    <2>1. /\ UNCHANGED <<containers, alone>> /\ pushed' = pushed \cup {key}
          /\ tables' = [tables EXCEPT ![key] = score]
      BY <1>7 DEF Push
    <2>2. DOMAIN tables' = Keys /\ \A k \in Keys : k # key => tables'[k] = tables[k]
      BY <2>1 DEF LoadInv
    <2>3. \A m \in Images : \A k \in Keys : Settled(m, k) => Settled(m, k)'
      BY <2>1, <2>2 DEF Settled, Pending
    <2>4. \A m \in Images : \A i \in DOMAIN PlanOf[m] : PlanOf[m][i].key \in Keys
      BY DEF Keys
    <2>5. \A c \in alone : c \in Containers /\ containers[c].image \in Images
      BY <1>c DEF LoadInv
    <2>. HIDE DEF Settled
    <2>6. ASSUME NEW c \in alone', NEW m \in Images, m = containers'[c].image,
                 NEW i \in DOMAIN PlanOf[m], i < containers'[c].at, NEW k, k = PlanOf[m][i].key
          PROVE  Settled(m, k)'
      <3>1. m = containers[c].image /\ c \in alone /\ i < containers[c].at /\ k \in Keys
        BY <2>1, <2>4, <2>6
      <3>2. Settled(m, k)
        BY <2>6, <3>1 DEF LoadInv
      <3>. QED
        BY <2>3, <3>1, <3>2
    <2>7. \A c \in alone' : c \in Containers /\ containers'[c].image \in Images
      BY <2>1, <2>5
    <2>. QED
      BY <2>1, <2>2, <2>6, <2>7 DEF LoadInv
  <1>. QED
    BY <1>1, <1>2, <1>3, <1>4, <1>5, <1>6, <1>7, LoadNextKeeps DEF SeedNext, Run

(* However many containers seed at once, of whatever images, and however   *)
(* many die half way: once all serve, each finds what one uninterrupted    *)
(* load of its workbooks leaves, unless another image wrote since it       *)
(* started, or a certificate was pushed over a whitelist row since a load  *)
(* last wrote it (infra/entrypoint.sh:3, seed_lcgpa.py:12).                *)
THEOREM LoadAlwaysIdempotent == SeedSpec => []LoadIdempotent
  BY InitLoad, StepLoad, LoadMeans, PTL DEF SeedSpec

(* An upsert is of a place in the plan: what LoadInv adds.                 *)
LEMMA PlaceIs ==
  ASSUME LoadInv, NEW c \in Containers, Loading(c)
  PROVE  LET m  == containers[c].image
             at == containers[c].at
         IN  /\ m \in Images /\ at \in DOMAIN PlanOf[m] /\ at \in Nat /\ at >= 1
             /\ PlanOf[m][at] \in Upserts
             /\ PlanOf[m][at].key \in Keys /\ PlanOf[m][at].value \in Values
  <1>1. PICK m, at, plan : /\ m = containers[c].image /\ at = containers[c].at
                           /\ plan = PlanOf[m]
    OBVIOUS
  <1>2. m \in Images /\ at \in Nat /\ at >= 1 /\ at <= Len(plan)
    BY <1>1 DEF LoadInv, Container, Loading
  <1>3. plan \in Seq(Upserts) /\ Len(plan) \in Nat /\ DOMAIN plan = 1 .. Len(plan)
    BY <1>1, <1>2, PlanIs
  <1>4. at \in DOMAIN plan /\ plan[at] \in Upserts
    BY <1>2, <1>3, ElementIs
  <1>5. plan[at].key \in Keys /\ plan[at].value \in Values
    BY <1>1, <1>2, <1>4 DEF Keys, Values
  <1>. QED
    BY <1>1, <1>2, <1>4, <1>5

(* Where a container goes that leaves the tables alone.                    *)
Quietly(c, r) ==
  /\ containers' = [containers EXCEPT ![c] = r]
  /\ UNCHANGED <<tables, pushed>>

LEMMA QuietSteps ==
  ASSUME LoadInv, NEW c \in Containers,
         Run(c) \/ Crash(c) \/ Deploy(c), ~LoadNext(c)
  PROVE  \E r \in Container :
           /\ Quietly(c, r)
           /\ r.state = "seeding" => /\ Boot(c)
                                     /\ r.image = containers[c].image /\ r.at = containers[c].at
           /\ r.state = "serving" => /\ Serve(c)
                                     /\ r.image = containers[c].image /\ r.at = containers[c].at
  <1>1. /\ containers[c] \in Container /\ containers[c].at \in Nat
        /\ containers[c].image \in Images /\ DOMAIN containers = Containers
    BY DEF LoadInv, Container
  <1>. DEFINE to(state) == [containers[c] EXCEPT !.state = state]
  <1>2. \A state \in {"down", "booting", "seeding", "serving"} :
          /\ to(state) \in Container /\ to(state).state = state
          /\ to(state).image = containers[c].image /\ to(state).at = containers[c].at
    BY <1>1 DEF Container
  <1>3. CASE Start(c)
    <2>. DEFINE r == [to("booting") EXCEPT !.at = 1]
    <2>1. r \in Container /\ r.state = "booting"
      BY <1>2 DEF Container
    <2>2. Quietly(c, r)
      BY <1>1, <1>3 DEF Start, Quietly
    <2>. QED
      BY <2>1, <2>2
  <1>4. CASE Boot(c)
    <2>1. Quietly(c, to("seeding"))
      BY <1>1, <1>4 DEF Boot, Quietly
    <2>. HIDE DEF to
    <2>. QED
      BY <1>2, <1>4, <2>1
  <1>5. CASE BootFails(c) \/ Abort(c) \/ Crash(c)
    <2>1. Quietly(c, to("down"))
      BY <1>1, <1>5 DEF BootFails, Abort, Crash, Quietly
    <2>. HIDE DEF to
    <2>. QED
      BY <1>2, <2>1
  <1>6. CASE Serve(c)
    <2>1. Quietly(c, to("serving"))
      BY <1>1, <1>6 DEF Serve, Quietly
    <2>. HIDE DEF to
    <2>. QED
      BY <1>2, <1>6, <2>1
  <1>7. CASE Deploy(c)
    <2>1. PICK m \in Images : containers' = [containers EXCEPT ![c].image = m]
      BY <1>7 DEF Deploy
    <2>. DEFINE r == [containers[c] EXCEPT !.image = m]
    <2>2. r \in Container /\ r.state = "down"
      BY <1>1, <1>7 DEF Container, Deploy
    <2>3. Quietly(c, r)
      BY <1>1, <1>7, <2>1 DEF Deploy, Quietly
    <2>. QED
      BY <2>2, <2>3
  <1>. QED
    BY <1>3, <1>4, <1>5, <1>6, <1>7 DEF Run

LEMMA SeedStep == SeedTypeOK /\ LoadInv /\ [SeedNext]_seedVars => SeedTypeOK'
  <1>. SUFFICES ASSUME SeedTypeOK, LoadInv, [SeedNext]_seedVars PROVE SeedTypeOK'
    OBVIOUS
  <1>1. ASSUME NEW c \in Containers, Run(c) \/ Crash(c) \/ Deploy(c)
        PROVE  crashes' \in Nat /\ alone' \subseteq Containers
    BY <1>1 DEF SeedTypeOK, Run, Start, Boot, BootFails, LoadNext, Abort, Serve, Crash, Deploy
  <1>2. ASSUME NEW c \in Containers, Run(c) \/ Crash(c) \/ Deploy(c), ~LoadNext(c)
        PROVE  SeedTypeOK'
    <2>1. PICK r \in Container : Quietly(c, r)
      BY <1>2, QuietSteps
    <2>. QED
      BY <1>1, <1>2, <2>1 DEF Quietly, SeedTypeOK
  <1>3. ASSUME NEW c \in Containers, LoadNext(c) PROVE SeedTypeOK'
    <2>1. PICK m, at, key, value :
            /\ m = containers[c].image /\ at = containers[c].at
            /\ key = PlanOf[m][at].key /\ value = PlanOf[m][at].value
      OBVIOUS
    <2>2. Loading(c) /\ containers' = [containers EXCEPT ![c].at = at + 1]
          /\ tables' = [tables EXCEPT ![key] = value] /\ pushed' \subseteq pushed
      BY <1>3, <2>1 DEF LoadNext, UpdateOrCreate
    <2>3. at \in Nat /\ PlanOf[m][at] \in Upserts /\ key \in Keys /\ value \in Values
      BY <2>1, <2>2, PlaceIs
    <2>4. key[1] \in {"sector", "threshold"} => value \in Decimals
      BY <2>1, <2>3 DEF Upserts
    <2>. DEFINE r == [containers[c] EXCEPT !.at = at + 1]
    <2>5. r \in Container /\ containers' = [containers EXCEPT ![c] = r]
      BY <2>2, <2>3 DEF Container, SeedTypeOK
    <2>. HIDE DEF r
    <2>6. containers' \in [Containers -> Container]
      BY <2>5 DEF SeedTypeOK
    <2>7. tables' \in [Keys -> Values \cup Decimals \cup {NoRow}]
      BY <2>2, <2>3 DEF SeedTypeOK
    <2>8. \A k \in Keys : k[1] \in {"sector", "threshold"} => tables'[k] \in Decimals \cup {NoRow}
      BY <2>2, <2>3, <2>4 DEF SeedTypeOK
    <2>9. pushed' \subseteq Pushable
      BY <2>2 DEF SeedTypeOK
    <2>. QED
      BY <1>1, <1>3, <2>6, <2>7, <2>8, <2>9 DEF SeedTypeOK, Run
  <1>4. ASSUME NEW key \in Pushable, NEW score \in Decimals, Push(key, score) PROVE SeedTypeOK'
    <2>1. key \in Keys
      BY DEF Pushable
    <2>2. /\ tables' = [tables EXCEPT ![key] = score] /\ pushed' = pushed \cup {key}
          /\ UNCHANGED <<containers, crashes, alone>>
      BY <1>4 DEF Push
    <2>3. tables' \in [Keys -> Values \cup Decimals \cup {NoRow}]
      BY <2>1, <2>2 DEF SeedTypeOK
    <2>4. \A k \in Keys : k[1] \in {"sector", "threshold"} => tables'[k] \in Decimals \cup {NoRow}
      BY <2>1, <2>2 DEF SeedTypeOK
    <2>. QED
      BY <2>2, <2>3, <2>4 DEF SeedTypeOK
  <1>5. CASE UNCHANGED seedVars
    BY <1>5 DEF seedVars, SeedTypeOK
  <1>. QED
    BY <1>2, <1>3, <1>4, <1>5 DEF SeedNext, Run

(* Whatever the workbooks hold, a sector's score and a product's threshold *)
(* are numbers that are not null, and no table gets a key or a value that  *)
(* no image's workbooks and no certificate have (seed_lcgpa.py:106-230,    *)
(* seed/models.py).                                                        *)
THEOREM SeedTypesKept == SeedSpec => []SeedTypeOK
  <1>1. SeedInit => SeedTypeOK
    <2>. SUFFICES ASSUME SeedInit PROVE SeedTypeOK
      OBVIOUS
    <2>1. containers \in [Containers -> Container]
      BY DEF SeedInit, Container
    <2>. QED
      BY <2>1, SeedAssumption DEF SeedInit, SeedTypeOK
  <1>. QED
    BY <1>1, InitLoad, StepLoad, SeedStep, PTL DEF SeedSpec

-----------------------------------------------------------------------------
(* What a container has behind it that serves *)

(* The first at - 1 upserts of an image fit and their rows are there.      *)
Behind(image, at) ==
  \A i \in DOMAIN PlanOf[image] :
    i < at => Fits(PlanOf[image][i]) /\ tables[PlanOf[image][i].key] # NoRow

(* ServesLoaded, and what a container that still loads has behind it.      *)
ServeInv ==
  \A c \in Containers :
    LET m == containers[c].image
    IN  containers[c].state \in {"seeding", "serving"} =>
          /\ m \in Migrating
          /\ containers[c].at > 1 => ~Raises(Books[m])
          /\ Behind(m, containers[c].at)

LEMMA ServeMeans == LoadInv /\ ServeInv => ServesLoaded
  <1>. SUFFICES ASSUME LoadInv, ServeInv, NEW c \in Containers, containers[c].state = "serving"
                PROVE  /\ Loadable(containers[c].image)
                       /\ \A i \in DOMAIN PlanOf[containers[c].image] :
                            tables[PlanOf[containers[c].image][i].key] # NoRow
    BY DEF ServesLoaded
  <1>1. PICK m, at : m = containers[c].image /\ at = containers[c].at
    OBVIOUS
  <1>2. m \in Images /\ at \in Nat /\ at > Len(PlanOf[m])
    BY <1>1 DEF LoadInv, Container
  <1>3. Len(PlanOf[m]) \in Nat \ {0} /\ DOMAIN PlanOf[m] = 1 .. Len(PlanOf[m])
    BY <1>2, PlanIs
  <1>4. \A i \in DOMAIN PlanOf[m] : i < at
    BY <1>2, <1>3
  <1>5. m \in Migrating /\ ~Raises(Books[m]) /\ Behind(m, at)
    BY <1>1, <1>2, <1>3 DEF ServeInv
  <1>. QED
    BY <1>1, <1>4, <1>5 DEF Behind, Loadable

(* Rows that are there stay, whoever writes.                               *)
LEMMA RowsStay ==
  ASSUME SeedTypeOK, NEW key \in Keys, NEW value \in Values \cup Decimals,
         tables' = [tables EXCEPT ![key] = value]
  PROVE  /\ tables'[key] # NoRow
         /\ \A m \in Images : \A at : Behind(m, at) => Behind(m, at)'
  <1>1. tables'[key] = value /\ \A k \in Keys : k # key => tables'[k] = tables[k]
    BY DEF SeedTypeOK
  <1>2. value # NoRow
    BY NoRowAssumption
  <1>3. \A m \in Images : \A i \in DOMAIN PlanOf[m] : PlanOf[m][i].key \in Keys
    BY DEF Keys
  <1>. QED
    BY <1>1, <1>2, <1>3 DEF Behind

LEMMA StepServe ==
  SeedTypeOK /\ LoadInv /\ ServeInv /\ [SeedNext]_seedVars => ServeInv'
  <1>. SUFFICES ASSUME SeedTypeOK, LoadInv, ServeInv, [SeedNext]_seedVars PROVE ServeInv'
    OBVIOUS
  <1>1. ASSUME NEW c \in Containers, Run(c) \/ Crash(c) \/ Deploy(c), ~LoadNext(c)
        PROVE  ServeInv'
    <2>1. PICK r \in Container :
            /\ Quietly(c, r)
            /\ r.state = "seeding" => /\ Boot(c)
                                      /\ r.image = containers[c].image /\ r.at = containers[c].at
            /\ r.state = "serving" => /\ Serve(c)
                                      /\ r.image = containers[c].image /\ r.at = containers[c].at
      BY <1>1, QuietSteps
    <2>2. /\ \A d \in Containers : containers'[d] = IF d = c THEN r ELSE containers[d]
          /\ UNCHANGED tables
      BY <2>1 DEF Quietly, LoadInv
    <2>3. \A m, at : Behind(m, at)' <=> Behind(m, at)
      BY <2>2 DEF Behind
    <2>4. CASE r.state = "seeding"
      <3>1. containers[c].at = 1 /\ containers[c].image \in Migrating
        BY <2>1, <2>4 DEF Boot, LoadInv
      <3>2. containers[c].image \in Images
        BY DEF LoadInv, Container
      <3>3. \A i \in DOMAIN PlanOf[containers[c].image] : ~(i < 1)
        BY <3>2, PlanIs
      <3>4. Behind(containers[c].image, 1)
        BY <3>3 DEF Behind
      <3>. QED
        BY <2>1, <2>2, <2>3, <2>4, <3>1, <3>4 DEF ServeInv
    <2>5. CASE r.state = "serving"
      <3>1. containers[c].state = "seeding"
        BY <2>1, <2>5 DEF Serve
      <3>. QED
        BY <2>1, <2>2, <2>3, <2>5, <3>1 DEF ServeInv
    <2>6. CASE r.state \notin {"seeding", "serving"}
      BY <2>2, <2>3, <2>6 DEF ServeInv
    <2>. QED
      BY <2>4, <2>5, <2>6
  <1>2. ASSUME NEW c \in Containers, LoadNext(c) PROVE ServeInv'
    <2>1. PICK m, at, key, value :
            /\ m = containers[c].image /\ at = containers[c].at
            /\ key = PlanOf[m][at].key /\ value = PlanOf[m][at].value
      OBVIOUS
    <2>2. /\ Loading(c) /\ ~Refused(c)
          /\ containers' = [containers EXCEPT ![c].at = at + 1]
          /\ tables' = [tables EXCEPT ![key] = value]
      BY <1>2, <2>1 DEF LoadNext, UpdateOrCreate
    <2>3. m \in Images /\ at \in Nat /\ at >= 1 /\ key \in Keys /\ value \in Values
      BY <2>1, <2>2, PlaceIs
    <2>4. /\ tables'[key] # NoRow
          /\ \A n \in Images : \A k : Behind(n, k) => Behind(n, k)'
      BY <2>2, <2>3, RowsStay
    <2>5. containers[c].state = "seeding" /\ Fits(PlanOf[m][at]) /\ (at = 1 => ~Raises(Books[m]))
      BY <2>1, <2>2 DEF Loading, Refused
    <2>6. m \in Migrating /\ ~Raises(Books[m]) /\ Behind(m, at)
      BY <2>1, <2>3, <2>5 DEF ServeInv
    <2>7. Behind(m, at)' /\ DOMAIN PlanOf[m] = 1 .. Len(PlanOf[m]) /\ Len(PlanOf[m]) \in Nat
      BY <2>3, <2>4, <2>6, PlanIs
    <2>8. Behind(m, at + 1)'
      BY <2>1, <2>3, <2>4, <2>5, <2>7 DEF Behind
    <2>9. /\ \A d \in Containers : d # c => containers'[d] = containers[d]
          /\ containers'[c].image = m /\ containers'[c].at = at + 1
      BY <2>1, <2>2 DEF LoadInv, Container
    <2>10. \A d \in Containers : containers[d].image \in Images
      BY DEF LoadInv, Container
    <2>. QED
      BY <2>4, <2>6, <2>8, <2>9, <2>10 DEF ServeInv
  <1>3. ASSUME NEW key \in Pushable, NEW score \in Decimals, Push(key, score) PROVE ServeInv'
    <2>1. UNCHANGED containers /\ \A m \in Images : \A at : Behind(m, at) => Behind(m, at)'
      BY <1>3, RowsStay DEF Push, Pushable
    <2>2. \A d \in Containers : containers[d].image \in Images
      BY DEF LoadInv, Container
    <2>. QED
      BY <2>1, <2>2 DEF ServeInv
  <1>4. CASE UNCHANGED seedVars
    BY <1>4 DEF seedVars, ServeInv, Behind
  <1>. QED
    BY <1>1, <1>2, <1>3, <1>4 DEF SeedNext, Run

(* Whatever fails, dies or is deployed, a container serves only with its   *)
(* migrations applied and every row of its workbooks there                 *)
(* (infra/entrypoint.sh:2-4).                                              *)
THEOREM ServesOnlyLoaded == SeedSpec => []ServesLoaded
  <1>1. SeedInit => ServeInv
    BY DEF SeedInit, ServeInv
  <1>. QED
    BY <1>1, InitLoad, StepLoad, SeedTypesKept, StepServe, ServeMeans, PTL DEF SeedSpec
=============================================================================
