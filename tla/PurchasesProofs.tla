--------------------------- MODULE PurchasesProofs ---------------------------
(***************************************************************************)
(* Theorems about Purchases, for every file, every set of VAT numbers,     *)
(* vendors, requests and workers, and any number of invoices.              *)
(***************************************************************************)
EXTENDS Purchases, FiniteSetTheorems, TLAPS

Processes == Requests \cup Workers

(* A task is at a line of the file or behind its end, and has created an   *)
(* invoice for every line before.                                          *)
LineOK(process) ==
  /\ process.op \in {"line", "create"} =>
       process.line \in 1 .. Len(File) + 1 /\ process.created = process.line - 1
  /\ process.op = "create" => process.line <= Len(File)

LinesInFile == \A p \in Processes : LineOK(processes[p])

Typed == TypeOK /\ LinesInFile

LEMMA ProcessShape ==
  ASSUME NEW r \in Process
  PROVE  /\ r.op \in {"line", "create"} =>
              /\ r = [op |-> r.op, line |-> r.line, cache |-> r.cache, created |-> r.created]
              /\ r.line \in Nat /\ r.created \in Nat
              /\ r.cache \in [Vats -> Vendors \cup {Absent}]
         /\ r.op \in {"saveStatus", "saveUpload"} => r.status \in Statuses
         /\ r.op = "saveVendor" => r.vendor \in Vendors /\ r.obj \in Vendor
  BY DEF Process, Idle

LEMMA GoElse ==
  ASSUME TypeOK, NEW p \in Processes, NEW next, Go(p, next), NEW q \in Processes
  PROVE  processes'[q] = IF q = p THEN next ELSE processes[q]
  BY DEF TypeOK, Go, Processes

LEMMA GoTyped ==
  ASSUME Typed, NEW p \in Processes, NEW next \in Process, Go(p, next), LineOK(next)
  PROVE  processes' \in [Processes -> Process] /\ LinesInFile'
  <1>1. processes' \in [Processes -> Process]
    BY DEF Typed, TypeOK, Go, Processes
  <1>2. LinesInFile'
    BY GoElse DEF Typed, LinesInFile, LineOK
  <1>. QED
    BY <1>1, <1>2

LEMMA IdleTyped == Idle \in Process /\ LineOK(Idle)
  BY DEF Process, Idle, LineOK

(* The task at a line of the file, and the VAT number there.               *)
LEMMA AtLine ==
  ASSUME Typed, NEW w \in Workers, InFile(w) \/ At(w, "create")
  PROVE  /\ processes[w] = [op |-> processes[w].op, line |-> processes[w].line,
                            cache |-> processes[w].cache, created |-> processes[w].created]
         /\ processes[w].line \in 1 .. Len(File) /\ processes[w].created \in Nat
         /\ processes[w].created = processes[w].line - 1
         /\ processes[w].cache \in [Vats -> Vendors \cup {Absent}]
         /\ Vat(w) \in Vats
         /\ w \in Processes
  <1>1. w \in Processes /\ processes[w] \in Process /\ processes[w].op \in {"line", "create"}
    BY DEF Typed, TypeOK, Processes, InFile, At
  <1>2. processes[w].line \in 1 .. Len(File)
    BY <1>1, ProcessShape, PurchaseAssumption
    DEF Typed, LinesInFile, LineOK, InFile, At
  <1>3. processes[w].created = processes[w].line - 1
    BY <1>1 DEF Typed, LinesInFile, LineOK
  <1>. QED
    BY <1>1, <1>2, <1>3, ProcessShape, PurchaseAssumption DEF Vat

-----------------------------------------------------------------------------
(* Types *)

LEMMA InitTyped == Init => Typed
  <1>. SUFFICES ASSUME Init PROVE Typed
    OBVIOUS
  <1>1. LinesInFile
    BY IdleTyped DEF Init, LinesInFile, Processes
  <1>2. processes \in [Processes -> Process]
    BY IdleTyped DEF Init, Processes
  <1>3. invoices \in [Vendors -> Nat] /\ \A v \in Vendors : ~(invoices[v] > 0)
    BY DEF Init
  <1>4. mapped \in BOOLEAN /\ complete \in BOOLEAN
    BY DEF Init
  <1>5. /\ status \in Statuses /\ queue \in Nat /\ budget \in Nat /\ overlapped \subseteq Vats
        /\ vendors \in [Vendors -> Vendor \cup {Absent}]
        /\ born \in [Vendors -> Vats \cup {Absent}]
    BY PurchaseAssumption DEF Init, Statuses
  <1>6. TypeOK
    BY <1>2, <1>3, <1>4, <1>5 DEF TypeOK, Processes
  <1>. QED
    BY <1>1, <1>6 DEF Typed

(* What a process does besides its own next step keeps the types.          *)
LEMMA RestTyped ==
  ASSUME Typed, NEW p \in Processes, NEW next \in Process, Go(p, next), LineOK(next),
         status' \in Statuses \cup {"GONE"}, mapped' \in BOOLEAN, complete' \in BOOLEAN,
         vendors' \in [Vendors -> Vendor \cup {Absent}],
         born' \in [Vendors -> Vats \cup {Absent}], overlapped' \subseteq Vats,
         invoices' \in [Vendors -> Nat], queue' \in Nat, budget' \in Nat,
         \A v \in Vendors : invoices'[v] > 0 => status' # "GONE" /\ vendors'[v] # Absent
  PROVE  Typed'
  BY GoTyped DEF Typed, TypeOK, Processes

LEMMA StillTyped ==
  ASSUME Typed, UNCHANGED <<processes, mapped, complete, queue>>,
         status' \in Statuses \cup {"GONE"}, vendors' \in [Vendors -> Vendor \cup {Absent}],
         born' \in [Vendors -> Vats \cup {Absent}], overlapped' \subseteq Vats,
         invoices' \in [Vendors -> Nat], budget' \in Nat,
         \A v \in Vendors : invoices'[v] > 0 => status' # "GONE" /\ vendors'[v] # Absent
  PROVE  Typed'
  BY DEF Typed, TypeOK, LinesInFile

LEMMA ServeTyped ==
  ASSUME Typed, NEW p \in Requests, Serve(p)
  PROVE  Typed'
  <1>. USE DEF upload, table, Processes
  <1>p. p \in Processes /\ processes[p] \in Process
    BY DEF Typed, TypeOK
  <1>i. Idle \in Process /\ LineOK(Idle)
    BY IdleTyped
  <1>1. CASE BeginParse(p)
    <2>1. [op |-> "saveParsing"] \in Process /\ LineOK([op |-> "saveParsing"])
      BY DEF Process, LineOK
    <2>. QED
      BY <1>1, <1>p, <2>1, RestTyped DEF BeginParse, Typed, TypeOK
  <1>2. CASE SaveParsing(p)
    <2>1. status' \in Statuses \cup {"GONE"} /\ (status # "GONE" => status' # "GONE")
      BY <1>2 DEF SaveParsing, Typed, TypeOK, Statuses
    <2>. QED
      BY <1>2, <1>p, <1>i, <2>1, RestTyped DEF SaveParsing, Typed, TypeOK
  <1>3. CASE BeginSaveUpload(p)
    <2>1. status \in Statuses
      BY <1>3 DEF BeginSaveUpload, Typed, TypeOK
    <2>2. [op |-> "saveUpload", status |-> status] \in Process
          /\ LineOK([op |-> "saveUpload", status |-> status])
      BY <2>1 DEF Process, LineOK
    <2>. QED
      BY <1>3, <1>p, <2>2, RestTyped DEF BeginSaveUpload, Typed, TypeOK
  <1>4. CASE SaveUpload(p)
    <2>1. status' \in Statuses /\ status' # "GONE"
      BY <1>4, <1>p, ProcessShape DEF SaveUpload, At, Statuses
    <2>. QED
      BY <1>4, <1>p, <1>i, <2>1, RestTyped DEF SaveUpload, Typed, TypeOK
  <1>5. ASSUME NEW v \in Vendors, NEW vat \in Vats, BeginSaveVendor(p, v, vat) PROVE Typed'
    <2>1. [vendors[v] EXCEPT !.vat = vat] \in Vendor
      BY <1>5 DEF BeginSaveVendor, Typed, TypeOK, Vendor
    <2>2. /\ [op |-> "saveVendor", vendor |-> v, obj |-> [vendors[v] EXCEPT !.vat = vat]] \in Process
          /\ LineOK([op |-> "saveVendor", vendor |-> v, obj |-> [vendors[v] EXCEPT !.vat = vat]])
      BY <2>1 DEF Process, LineOK
    <2>. QED
      BY <1>5, <1>p, <2>2, RestTyped DEF BeginSaveVendor, Typed, TypeOK
  <1>6. CASE SaveVendor(p)
    <2>1. processes[p].vendor \in Vendors /\ processes[p].obj \in Vendor
      BY <1>6, <1>p, ProcessShape DEF SaveVendor, At
    <2>2. processes[p].obj # Absent
      BY <2>1, AbsentAssumption
    <2>3. /\ vendors' \in [Vendors -> Vendor \cup {Absent}]
          /\ \A v \in Vendors : vendors[v] # Absent => vendors'[v] # Absent
      BY <1>6, <2>1, <2>2 DEF SaveVendor, Typed, TypeOK
    <2>. QED
      BY <1>6, <1>p, <1>i, <2>3, RestTyped DEF SaveVendor, Typed, TypeOK
  <1>. QED
    BY <1>1, <1>2, <1>3, <1>4, <1>5, <1>6 DEF Serve

LEMMA WorkTyped ==
  ASSUME Typed, NEW w \in Workers, Work(w)
  PROVE  Typed'
  <1>. USE DEF upload, table, Processes
  <1>p. w \in Processes /\ processes[w] \in Process
    BY DEF Typed, TypeOK
  <1>i. Idle \in Process /\ LineOK(Idle)
    BY IdleTyped
  <1>1. CASE Open(w)
    <2>. DEFINE needs == [op |-> "saveStatus", status |-> "NEEDS_MAPPING"]
                first == [op |-> "line", line |-> 1, created |-> 0,
                          cache |-> [vat \in Vats |-> Absent]]
    <2>1. needs \in Process /\ LineOK(needs)
      BY DEF Process, LineOK, Statuses
    <2>2. first \in Process /\ LineOK(first)
      BY DEF Process, LineOK
    <2>3. Go(w, Idle) \/ Go(w, needs) \/ Go(w, first)
      BY <1>1 DEF Open
    <2>4. queue' \in Nat /\ UNCHANGED <<upload, table, invoices, budget>>
      BY <1>1 DEF Open, Typed, TypeOK
    <2>. HIDE DEF needs, first
    <2>. QED
      BY <1>p, <1>i, <2>1, <2>2, <2>3, <2>4, RestTyped DEF Typed, TypeOK
  <1>2. CASE GetVendor(w)
    <2>0. InFile(w) /\ processes[w].op = "line"
      BY <1>2 DEF GetVendor, InFile, At
    <2>l. /\ processes[w] = [op |-> processes[w].op, line |-> processes[w].line,
                            cache |-> processes[w].cache, created |-> processes[w].created]
          /\ processes[w].line \in 1 .. Len(File) /\ processes[w].created \in Nat
          /\ processes[w].created = processes[w].line - 1
          /\ processes[w].cache \in [Vats -> Vendors \cup {Absent}]
          /\ Vat(w) \in Vats
      BY <2>0, AtLine
    <2>1. overlapped' \subseteq Vats /\ UNCHANGED <<upload, vendors, born, invoices, queue, budget>>
      BY <1>2, <2>l DEF GetVendor, Typed, TypeOK
    <2>2. CASE Go(w, [processes[w] EXCEPT !.op = "create"])
      <3>. DEFINE next == [processes[w] EXCEPT !.op = "create"]
      <3>1. next = [op |-> "create", line |-> processes[w].line,
                    cache |-> processes[w].cache, created |-> processes[w].created]
        BY <2>l
      <3>2. next \in Process /\ LineOK(next)
        BY <2>l, <3>1, PurchaseAssumption DEF Process, LineOK
      <3>3. Go(w, next)
        BY <2>2
      <3>. HIDE DEF next
      <3>. QED
        BY <1>p, <2>1, <3>2, <3>3, RestTyped DEF Typed, TypeOK
    <2>3. ASSUME NEW v \in Vendors, Go(w, [processes[w] EXCEPT !.cache[Vat(w)] = v])
          PROVE  Typed'
      <3>. DEFINE next == [processes[w] EXCEPT !.cache[Vat(w)] = v]
      <3>1. next = [op |-> "line", line |-> processes[w].line,
                    cache |-> [processes[w].cache EXCEPT ![Vat(w)] = v],
                    created |-> processes[w].created]
        BY <2>l, <2>0
      <3>2. [processes[w].cache EXCEPT ![Vat(w)] = v] \in [Vats -> Vendors \cup {Absent}]
        BY <2>l
      <3>3. next \in Process /\ LineOK(next)
        BY <2>l, <3>1, <3>2, PurchaseAssumption DEF Process, LineOK
      <3>4. Go(w, next)
        BY <2>3
      <3>. HIDE DEF next
      <3>. QED
        BY <1>p, <2>1, <3>3, <3>4, RestTyped DEF Typed, TypeOK
    <2>4. CASE Go(w, Idle)
      BY <1>p, <1>i, <2>1, <2>4, RestTyped DEF Typed, TypeOK
    <2>. QED
      BY <1>2, <2>2, <2>3, <2>4 DEF GetVendor, Holding
  <1>3. CASE CreateVendor(w)
    <2>l. /\ processes[w] = [op |-> processes[w].op, line |-> processes[w].line,
                            cache |-> processes[w].cache, created |-> processes[w].created]
          /\ processes[w].line \in 1 .. Len(File) /\ processes[w].created \in Nat
          /\ processes[w].created = processes[w].line - 1
          /\ processes[w].cache \in [Vats -> Vendors \cup {Absent}]
          /\ Vat(w) \in Vats
      BY <1>3, AtLine DEF CreateVendor
    <2>1. PICK v \in Vendors :
            /\ NewVendor(v, Vat(w))
            /\ Go(w, [op |-> "line", line |-> processes[w].line,
                      created |-> processes[w].created,
                      cache |-> [processes[w].cache EXCEPT ![Vat(w)] = v]])
      BY <1>3 DEF CreateVendor
    <2>. DEFINE next == [op |-> "line", line |-> processes[w].line,
                         created |-> processes[w].created,
                         cache |-> [processes[w].cache EXCEPT ![Vat(w)] = v]]
    <2>3. [processes[w].cache EXCEPT ![Vat(w)] = v] \in [Vats -> Vendors \cup {Absent}]
      BY <2>l
    <2>4. next \in Process /\ LineOK(next)
      BY <2>l, <2>3, PurchaseAssumption DEF Process, LineOK
    <2>5. Go(w, next)
      BY <2>1
    <2>. HIDE DEF next
    <2>6. [vat |-> Vat(w), classification |-> ClassifyVendor(Vat(w))] \in Vendor
      BY <2>l DEF Vendor, ClassifyVendor
    <2>7. /\ vendors' \in [Vendors -> Vendor \cup {Absent}]
          /\ \A u \in Vendors : vendors[u] # Absent => vendors'[u] # Absent
          /\ born' \in [Vendors -> Vats \cup {Absent}]
      BY <2>1, <2>6, <2>l, AbsentAssumption DEF NewVendor, Typed, TypeOK
    <2>. QED
      BY <1>3, <1>p, <2>4, <2>5, <2>7, RestTyped DEF CreateVendor, Typed, TypeOK
  <1>4. CASE CreateInvoice(w)
    <2>0. InFile(w) /\ processes[w].op = "line"
      BY <1>4 DEF CreateInvoice, InFile, At
    <2>l. /\ processes[w] = [op |-> processes[w].op, line |-> processes[w].line,
                            cache |-> processes[w].cache, created |-> processes[w].created]
          /\ processes[w].line \in 1 .. Len(File) /\ processes[w].created \in Nat
          /\ processes[w].created = processes[w].line - 1
          /\ processes[w].cache \in [Vats -> Vendors \cup {Absent}]
          /\ Vat(w) \in Vats
      BY <2>0, AtLine
    <2>1. budget' \in Nat /\ UNCHANGED <<upload, table, queue>>
      BY <1>4 DEF CreateInvoice, Typed, TypeOK
    <2>2. CASE Go(w, Idle) /\ UNCHANGED invoices
      BY <1>p, <1>i, <2>1, <2>2, RestTyped DEF Typed, TypeOK
    <2>3. CASE /\ status # "GONE" /\ vendors[Cached(w)] # Absent
               /\ invoices' = [invoices EXCEPT ![Cached(w)] = @ + 1]
               /\ Go(w, [op |-> "line", line |-> processes[w].line + 1,
                         created |-> processes[w].created + 1, cache |-> processes[w].cache])
      <3>. DEFINE next == [op |-> "line", line |-> processes[w].line + 1,
                           created |-> processes[w].created + 1, cache |-> processes[w].cache]
      <3>2. next \in Process /\ LineOK(next)
        <4>1. Len(File) \in Nat
          BY PurchaseAssumption
        <4>2. processes[w].line + 1 \in Nat /\ processes[w].line + 1 >= 1
              /\ processes[w].created + 1 \in Nat
              /\ processes[w].line + 1 <= Len(File) + 1
              /\ processes[w].created + 1 = processes[w].line + 1 - 1
          BY <2>l, <4>1
        <4>. QED
          BY <2>l, <4>2 DEF Process, LineOK
      <3>3. Go(w, next)
        BY <2>3
      <3>. HIDE DEF next
      <3>4. /\ invoices' \in [Vendors -> Nat]
            /\ \A v \in Vendors : invoices'[v] > 0 => invoices[v] > 0 \/ v = Cached(w)
        <4>1. invoices \in [Vendors -> Nat]
          BY DEF Typed, TypeOK
        <4>. DEFINE c == Cached(w)
        <4>2. invoices' = [invoices EXCEPT ![c] = @ + 1]
          BY <2>3
        <4>. HIDE DEF c
        <4>3. \A v \in Vendors : invoices'[v] = IF v = c THEN invoices[v] + 1 ELSE invoices[v]
          BY <4>1, <4>2
        <4>4. invoices' \in [Vendors -> Nat]
          <5>1. \A v \in Vendors : (IF v = c THEN invoices[v] + 1 ELSE invoices[v]) \in Nat
            BY <4>1
          <5>2. invoices' = [v \in Vendors |-> IF v = c THEN invoices[v] + 1 ELSE invoices[v]]
            BY <4>1, <4>2
          <5>. QED
            BY <5>1, <5>2
        <4>. QED
          BY <4>3, <4>4 DEF c
      <3>5. \A v \in Vendors : invoices'[v] > 0 => status' # "GONE" /\ vendors'[v] # Absent
        BY <2>1, <2>3, <3>4 DEF Typed, TypeOK
      <3>. QED
        BY <1>p, <2>1, <3>2, <3>3, <3>4, <3>5, RestTyped DEF Typed, TypeOK
    <2>. QED
      BY <1>4, <2>2, <2>3 DEF CreateInvoice
  <1>5. CASE FinishFile(w)
    <2>1. /\ [op |-> "saveStatus", status |-> "PARSED"] \in Process
          /\ LineOK([op |-> "saveStatus", status |-> "PARSED"])
      BY DEF Process, LineOK, Statuses
    <2>2. complete' \in BOOLEAN
      BY <1>5 DEF FinishFile, Typed, TypeOK
    <2>. QED
      BY <1>5, <1>p, <2>1, <2>2, RestTyped DEF FinishFile, Typed, TypeOK
  <1>6. CASE SaveStatus(w)
    <2>1. status' \in Statuses \cup {"GONE"} /\ (status # "GONE" => status' # "GONE")
      BY <1>6, <1>p, ProcessShape DEF SaveStatus, At, Typed, TypeOK, Statuses
    <2>. QED
      BY <1>6, <1>p, <1>i, <2>1, RestTyped DEF SaveStatus, Typed, TypeOK
  <1>. QED
    BY <1>1, <1>2, <1>3, <1>4, <1>5, <1>6 DEF Work

LEMMA StepTyped == Typed /\ [Next]_vars => Typed'
  <1>. SUFFICES ASSUME Typed, [Next]_vars PROVE Typed'
    OBVIOUS
  <1>. USE DEF upload, table, Processes
  <1>1. ASSUME NEW p \in Requests, Serve(p) PROVE Typed'
    BY <1>1, ServeTyped
  <1>2. ASSUME NEW w \in Workers, Work(w) PROVE Typed'
    BY <1>2, WorkTyped
  <1>3. ASSUME NEW p \in Processes, Die(p) PROVE Typed'
    BY <1>3, IdleTyped, RestTyped DEF Die, Typed, TypeOK
  <1>4. ASSUME NEW v \in Vendors, NEW vat \in Vats, PostVendor(v, vat) PROVE Typed'
    <2>1. [vat |-> vat, classification |-> ClassifyVendor(vat)] \in Vendor
      BY DEF Vendor, ClassifyVendor
    <2>. QED
      BY <1>4, <2>1, AbsentAssumption DEF PostVendor, NewVendor, Typed, TypeOK, LinesInFile
  <1>5. ASSUME NEW v \in Vendors, DeleteVendor(v) PROVE Typed'
    <2>1. /\ vendors' \in [Vendors -> Vendor \cup {Absent}]
          /\ \A u \in Vendors : u # v => vendors'[u] = vendors[u]
      BY <1>5 DEF DeleteVendor, Typed, TypeOK
    <2>2. ~(invoices[v] > 0)
      BY <1>5 DEF DeleteVendor
    <2>. QED
      BY <1>5, <2>1, <2>2, StillTyped DEF DeleteVendor, Typed, TypeOK
  <1>6. ASSUME NEW v \in Vendors, PostInvoice(v) PROVE Typed'
    <2>1. \A u \in Vendors : invoices'[u] = IF u = v THEN invoices[u] + 1 ELSE invoices[u]
      BY <1>6 DEF PostInvoice, Typed, TypeOK
    <2>2. invoices' \in [Vendors -> Nat]
      BY <1>6, <2>1 DEF PostInvoice, Typed, TypeOK
    <2>. QED
      BY <1>6, <2>1, <2>2, StillTyped DEF PostInvoice, Typed, TypeOK
  <1>7. ASSUME NEW v \in Vendors, DeleteInvoice(v) PROVE Typed'
    <2>1. \A u \in Vendors : invoices'[u] = IF u = v THEN invoices[u] - 1 ELSE invoices[u]
      BY <1>7 DEF DeleteInvoice, Typed, TypeOK
    <2>2. invoices' \in [Vendors -> Nat]
      BY <1>7, <2>1 DEF DeleteInvoice, Typed, TypeOK
    <2>3. \A u \in Vendors : invoices'[u] > 0 => invoices[u] > 0
      BY <1>7, <2>1 DEF DeleteInvoice, Typed, TypeOK
    <2>. QED
      BY <1>7, <2>2, <2>3, StillTyped DEF DeleteInvoice, Typed, TypeOK
  <1>8. CASE DeleteUpload
    <2>1. invoices' \in [Vendors -> Nat] /\ \A u \in Vendors : invoices'[u] = 0
      BY <1>8 DEF DeleteUpload
    <2>. QED
      BY <1>8, <2>1, StillTyped DEF DeleteUpload, Typed, TypeOK
  <1>9. CASE SaveMapping
    BY <1>9 DEF SaveMapping, Typed, TypeOK, LinesInFile
  <1>10. CASE UNCHANGED vars
    BY <1>10 DEF vars, Typed, TypeOK, LinesInFile
  <1>. QED
    BY <1>1, <1>2, <1>3, <1>4, <1>5, <1>6, <1>7, <1>8, <1>9, <1>10 DEF Next

(* Every variable keeps its type, and no invoice outlives its vendor or    *)
(* its upload, whatever is deleted or restored meanwhile                   *)
(* (procurement/models.py:81-113).                                         *)
THEOREM TypeCorrect == Spec => []TypeOK
  BY InitTyped, StepTyped, PTL DEF Spec, Typed

-----------------------------------------------------------------------------
(* The status *)

(* Every step that is not of the status keeps what it means.               *)
LEMMA StatusKept ==
  ASSUME Typed, ParsedIsComplete, NEW p \in Processes, NEW next, Go(p, next),
         complete => complete', status' = "PARSED" => complete',
         next.op \in {"saveStatus", "saveUpload"} => (next.status = "PARSED" => complete')
  PROVE  ParsedIsComplete'
  <1>1. \A q \in Processes : processes'[q] = IF q = p THEN next ELSE processes[q]
    BY GoElse DEF Typed
  <1>. QED
    BY <1>1 DEF ParsedIsComplete, Processes

LEMMA StepParsed == Typed /\ ParsedIsComplete /\ [Next]_vars => ParsedIsComplete'
  <1>. SUFFICES ASSUME Typed, ParsedIsComplete, [Next]_vars PROVE ParsedIsComplete'
    OBVIOUS
  <1>. USE DEF upload, table, Processes, At
  <1>1. ASSUME NEW p \in Processes, NEW next, Go(p, next), UNCHANGED <<status, complete>>,
               next.op \in {"saveStatus", "saveUpload"} => (next.status = "PARSED" => complete)
        PROVE  ParsedIsComplete'
    BY <1>1, StatusKept DEF ParsedIsComplete
  <1>2. ASSUME NEW p \in Requests, Serve(p) PROVE ParsedIsComplete'
    <2>1. CASE BeginParse(p)
      BY <1>1, <2>1 DEF BeginParse
    <2>2. CASE SaveParsing(p)
      BY <2>2, StatusKept DEF SaveParsing, Idle, ParsedIsComplete
    <2>3. CASE BeginSaveUpload(p)
      BY <1>1, <2>3 DEF BeginSaveUpload, ParsedIsComplete
    <2>4. CASE SaveUpload(p)
      BY <2>4, StatusKept DEF SaveUpload, Idle, ParsedIsComplete
    <2>5. ASSUME NEW v \in Vendors, NEW vat \in Vats, BeginSaveVendor(p, v, vat)
          PROVE ParsedIsComplete'
      <3>. DEFINE next == [op |-> "saveVendor", vendor |-> v,
                           obj |-> [vendors[v] EXCEPT !.vat = vat]]
      <3>1. next.op = "saveVendor" /\ Go(p, next) /\ UNCHANGED upload
        BY <2>5 DEF BeginSaveVendor
      <3>. HIDE DEF next
      <3>. QED
        BY <1>1, <3>1
    <2>6. CASE SaveVendor(p)
      BY <1>1, <2>6 DEF SaveVendor, Idle
    <2>. QED
      BY <1>2, <2>1, <2>2, <2>3, <2>4, <2>5, <2>6 DEF Serve
  <1>3. ASSUME NEW w \in Workers, Work(w) PROVE ParsedIsComplete'
    <2>1. CASE Open(w)
      <3>. DEFINE needs == [op |-> "saveStatus", status |-> "NEEDS_MAPPING"]
                  first == [op |-> "line", line |-> 1, created |-> 0,
                            cache |-> [vat \in Vats |-> Absent]]
      <3>1. /\ Go(w, Idle) \/ Go(w, needs) \/ Go(w, first)
            /\ UNCHANGED upload
        BY <2>1 DEF Open
      <3>2. Idle.op = "idle" /\ needs.status = "NEEDS_MAPPING" /\ first.op = "line"
        BY DEF Idle
      <3>. HIDE DEF needs, first
      <3>. QED
        BY <1>1, <3>1, <3>2
    <2>2. CASE GetVendor(w) \/ CreateVendor(w) \/ CreateInvoice(w)
      <3>1. InFile(w) \/ At(w, "create")
        BY <2>2 DEF GetVendor, CreateVendor, CreateInvoice
      <3>2. /\ processes[w] = [op |-> processes[w].op, line |-> processes[w].line,
                               cache |-> processes[w].cache, created |-> processes[w].created]
            /\ processes[w].op \in {"line", "create"}
        BY <3>1, AtLine DEF InFile
      <3>3. \A v : [processes[w] EXCEPT !.cache[Vat(w)] = v].op \in {"line", "create"}
        BY <3>2
      <3>4. [processes[w] EXCEPT !.op = "create"].op = "create"
        BY <3>2
      <3>5. ASSUME GetVendor(w) PROVE ParsedIsComplete'
        BY <1>1, <3>3, <3>4, <3>5 DEF GetVendor, Idle
      <3>6. ASSUME CreateVendor(w) PROVE ParsedIsComplete'
        BY <1>1, <3>6 DEF CreateVendor
      <3>7. ASSUME CreateInvoice(w) PROVE ParsedIsComplete'
        BY <1>1, <3>7 DEF CreateInvoice, Idle
      <3>. QED
        BY <2>2, <3>5, <3>6, <3>7
    <2>3. CASE FinishFile(w)
      <3>1. /\ processes[w].line \in 1 .. Len(File) + 1 /\ processes[w].line > Len(File)
            /\ processes[w].created = processes[w].line - 1
        BY <2>3 DEF FinishFile, Typed, LinesInFile, LineOK
      <3>2. Len(File) \in Nat
        BY PurchaseAssumption
      <3>3. processes[w].created = Len(File)
        BY <3>1, <3>2
      <3>4. complete'
        BY <2>3, <3>3, Zenon DEF FinishFile
      <3>. QED
        BY <2>3, <3>4, StatusKept DEF FinishFile
    <2>4. CASE SaveStatus(w)
      BY <2>4, StatusKept DEF SaveStatus, Idle, ParsedIsComplete
    <2>. QED
      BY <1>3, <2>1, <2>2, <2>3, <2>4 DEF Work
  <1>4. ASSUME NEW p \in Processes, Die(p) PROVE ParsedIsComplete'
    BY <1>1, <1>4 DEF Die, Idle
  <1>5. ASSUME NEW v \in Vendors, NEW vat \in Vats, PostVendor(v, vat) PROVE ParsedIsComplete'
    BY <1>5 DEF PostVendor, ParsedIsComplete
  <1>6. ASSUME NEW v \in Vendors, DeleteVendor(v) \/ PostInvoice(v) \/ DeleteInvoice(v)
        PROVE ParsedIsComplete'
    BY <1>6 DEF DeleteVendor, PostInvoice, DeleteInvoice, ParsedIsComplete
  <1>7. CASE DeleteUpload \/ SaveMapping \/ UNCHANGED vars
    BY <1>7 DEF DeleteUpload, SaveMapping, vars, ParsedIsComplete
  <1>. QED
    BY <1>2, <1>3, <1>4, <1>5, <1>6, <1>7 DEF Next

(* However parses overlap, fail and are retried, and whatever is saved     *)
(* stale, PARSED means that some task inserted every line of the file      *)
(* (procurement/tasks.py:61-94).                                           *)
THEOREM ParsedIsEarned == Spec => []ParsedIsComplete
  <1>1. Init => ParsedIsComplete
    BY DEF Init, ParsedIsComplete, Idle
  <1>. QED
    BY <1>1, InitTyped, StepTyped, StepParsed, PTL DEF Spec

-----------------------------------------------------------------------------
(* The classification *)

(* The classification of a vendor, and of every copy about to be saved, is *)
(* that of the VAT number it was created with, not of the one it has now.  *)
ClassifiedWhenCreated ==
  \A v \in Vendors :
    /\ vendors[v] # Absent => vendors[v].classification = ClassifyVendor(born[v])
    /\ \A p \in Requests :
         At(p, "saveVendor") /\ processes[p].vendor = v =>
           processes[p].obj.classification = ClassifyVendor(born[v])

(* A vendor that is there, or about to be saved, was created once.         *)
ClassInv ==
  /\ ClassifiedWhenCreated
  /\ \A v \in Vendors : vendors[v] # Absent => born[v] # Absent
  /\ \A p \in Requests : At(p, "saveVendor") => born[processes[p].vendor] # Absent

LEMMA ClassKept ==
  ASSUME Typed, ClassInv, UNCHANGED <<vendors, born>>,
         NEW p \in Processes, NEW next, Go(p, next), next.op # "saveVendor"
  PROVE  ClassInv'
  <1>1. \A q \in Processes : processes'[q] = IF q = p THEN next ELSE processes[q]
    BY GoElse DEF Typed
  <1>. QED
    BY <1>1 DEF ClassInv, ClassifiedWhenCreated, Processes, At

(* A new vendor is classified, and nothing in flight is of it.             *)
LEMMA NewClassified ==
  ASSUME Typed, ClassInv, NEW v \in Vendors, NEW vat \in Vats, NewVendor(v, vat),
         \A q \in Requests : At(q, "saveVendor")' => processes'[q] = processes[q]
  PROVE  ClassInv'
  <1>1. vat # Absent
    BY AbsentAssumption
  <1>2. /\ vendors'[v].classification = ClassifyVendor(vat) /\ born'[v] = vat
        /\ \A u \in Vendors \ {v} : vendors'[u] = vendors[u] /\ born'[u] = born[u]
    BY DEF NewVendor, Typed, TypeOK
  <1>3. \A q \in Requests :
          At(q, "saveVendor")' =>
            /\ At(q, "saveVendor") /\ processes'[q] = processes[q]
            /\ processes[q].vendor \in Vendors \ {v}
    BY ProcessShape DEF NewVendor, ClassInv, At, Typed, TypeOK, Processes
  <1>. QED
    BY <1>1, <1>2, <1>3 DEF ClassInv, ClassifiedWhenCreated, At

LEMMA StepClass == Typed /\ ClassInv /\ [Next]_vars => ClassInv'
  <1>. SUFFICES ASSUME Typed, ClassInv, [Next]_vars PROVE ClassInv'
    OBVIOUS
  <1>. USE DEF upload, table, Processes
  <1>1. ASSUME NEW p \in Requests, Serve(p) PROVE ClassInv'
    <2>1. CASE BeginParse(p) \/ SaveParsing(p) \/ BeginSaveUpload(p) \/ SaveUpload(p)
      BY <2>1, ClassKept DEF BeginParse, SaveParsing, BeginSaveUpload, SaveUpload, Idle
    <2>2. ASSUME NEW v \in Vendors, NEW vat \in Vats, BeginSaveVendor(p, v, vat) PROVE ClassInv'
      <3>1. vendors[v] \in Vendor /\ vendors[v] # Absent
        BY <2>2 DEF BeginSaveVendor, Typed, TypeOK
      <3>2. [vendors[v] EXCEPT !.vat = vat].classification = vendors[v].classification
        BY <3>1 DEF Vendor
      <3>. DEFINE next == [op |-> "saveVendor", vendor |-> v,
                           obj |-> [vendors[v] EXCEPT !.vat = vat]]
      <3>3. /\ next.op = "saveVendor" /\ next.vendor = v
            /\ next.obj.classification = vendors[v].classification
        BY <3>2
      <3>4. Go(p, next) /\ UNCHANGED <<vendors, born>>
        BY <2>2 DEF BeginSaveVendor
      <3>. HIDE DEF next
      <3>5. \A q \in Processes : processes'[q] = IF q = p THEN next ELSE processes[q]
        BY <3>4, GoElse DEF Typed
      <3>. QED
        BY <3>1, <3>3, <3>4, <3>5 DEF ClassInv, ClassifiedWhenCreated, At
    <2>3. CASE SaveVendor(p)
      <3>1. /\ processes[p].vendor \in Vendors /\ born[processes[p].vendor] # Absent
            /\ processes[p].obj.classification = ClassifyVendor(born[processes[p].vendor])
        BY <2>3, ProcessShape DEF SaveVendor, At, Typed, TypeOK, ClassInv, ClassifiedWhenCreated
      <3>2. /\ vendors'[processes[p].vendor] = processes[p].obj
            /\ \A v \in Vendors \ {processes[p].vendor} : vendors'[v] = vendors[v]
            /\ UNCHANGED born
        BY <2>3, <3>1 DEF SaveVendor, Typed, TypeOK
      <3>3. \A q \in Processes : processes'[q] = IF q = p THEN Idle ELSE processes[q]
        BY <2>3, GoElse DEF Typed, SaveVendor
      <3>. QED
        BY <3>1, <3>2, <3>3 DEF ClassInv, ClassifiedWhenCreated, At, Idle
    <2>. QED
      BY <1>1, <2>1, <2>2, <2>3 DEF Serve
  <1>2. ASSUME NEW w \in Workers, Work(w) PROVE ClassInv'
    <2>1. CASE Open(w)
      <3>. DEFINE needs == [op |-> "saveStatus", status |-> "NEEDS_MAPPING"]
                  first == [op |-> "line", line |-> 1, created |-> 0,
                            cache |-> [vat \in Vats |-> Absent]]
      <3>1. Go(w, Idle) \/ Go(w, needs) \/ Go(w, first)
        BY <2>1 DEF Open
      <3>2. Idle.op = "idle" /\ needs.op = "saveStatus" /\ first.op = "line"
        BY DEF Idle
      <3>3. UNCHANGED table
        BY <2>1 DEF Open
      <3>. HIDE DEF needs, first
      <3>. QED
        BY <3>1, <3>2, <3>3, ClassKept
    <2>2. CASE GetVendor(w)
      <3>1. /\ processes[w] = [op |-> processes[w].op, line |-> processes[w].line,
                               cache |-> processes[w].cache, created |-> processes[w].created]
            /\ processes[w].op = "line"
        BY <2>2, AtLine DEF GetVendor, InFile, At
      <3>2. \A v : [processes[w] EXCEPT !.cache[Vat(w)] = v].op = "line"
        BY <3>1
      <3>3. [processes[w] EXCEPT !.op = "create"].op = "create"
        BY <3>1
      <3>. QED
        BY <2>2, <3>2, <3>3, ClassKept DEF GetVendor, Idle
    <2>3. CASE CreateVendor(w)
      <3>1. PICK v \in Vendors :
              /\ NewVendor(v, Vat(w))
              /\ Go(w, [op |-> "line", line |-> processes[w].line,
                        created |-> processes[w].created,
                        cache |-> [processes[w].cache EXCEPT ![Vat(w)] = v]])
        BY <2>3 DEF CreateVendor
      <3>2. Vat(w) \in Vats
        BY <2>3, AtLine DEF CreateVendor
      <3>3. \A q \in Requests : At(q, "saveVendor")' => processes'[q] = processes[q]
        BY <3>1, GoElse DEF At, Typed
      <3>. QED
        BY <3>1, <3>2, <3>3, NewClassified
    <2>4. CASE CreateInvoice(w)
      BY <2>4, ClassKept DEF CreateInvoice, Idle
    <2>5. CASE FinishFile(w) \/ SaveStatus(w)
      BY <2>5, ClassKept DEF FinishFile, SaveStatus, Idle
    <2>. QED
      BY <1>2, <2>1, <2>2, <2>3, <2>4, <2>5 DEF Work
  <1>3. ASSUME NEW p \in Processes, Die(p) PROVE ClassInv'
    BY <1>3, ClassKept DEF Die, Idle
  <1>4. ASSUME NEW v \in Vendors, NEW vat \in Vats, PostVendor(v, vat) PROVE ClassInv'
    BY <1>4, NewClassified DEF PostVendor, At
  <1>5. ASSUME NEW v \in Vendors, DeleteVendor(v) PROVE ClassInv'
    BY <1>5 DEF DeleteVendor, ClassInv, ClassifiedWhenCreated, At, Typed, TypeOK
  <1>6. ASSUME NEW v \in Vendors, PostInvoice(v) \/ DeleteInvoice(v) PROVE ClassInv'
    BY <1>6 DEF PostInvoice, DeleteInvoice, ClassInv, ClassifiedWhenCreated, At
  <1>7. CASE DeleteUpload \/ SaveMapping \/ UNCHANGED vars
    BY <1>7 DEF DeleteUpload, SaveMapping, vars, ClassInv, ClassifiedWhenCreated, At
  <1>. QED
    BY <1>1, <1>2, <1>3, <1>4, <1>5, <1>6, <1>7 DEF Next

(* No client sets a classification, and none is ever derived anew: a vendor *)
(* keeps that of the VAT number it was created with, whatever number a     *)
(* PATCH gives it (procurement/views.py:39-45, serializers.py:31).         *)
THEOREM ClassificationKept == Spec => []ClassifiedWhenCreated
  <1>1. Init => ClassInv
    BY DEF Init, ClassInv, ClassifiedWhenCreated, At, Idle
  <1>. QED
    BY <1>1, InitTyped, StepTyped, StepClass, PTL DEF Spec, ClassInv

-----------------------------------------------------------------------------
(* Duplicates *)

Creating(vat) == {w \in Workers : At(w, "create") /\ Vat(w) = vat}

(* A VAT number that is not marked has one vendor or one task that creates *)
(* it, at most.                                                            *)
OverlapInv ==
  /\ \A vat \in Vats \ overlapped :
       /\ \A u, v \in Holding(vat) : u = v
       /\ \A w, k \in Creating(vat) : w = k
       /\ Creating(vat) # {} => Holding(vat) = {}
  /\ \A p \in Requests : At(p, "saveVendor") => processes[p].obj.vat \in overlapped

LEMMA OverlapKept ==
  ASSUME OverlapInv, overlapped \subseteq overlapped',
         \A vat \in Vats \ overlapped' :
           Holding(vat)' \subseteq Holding(vat) /\ Creating(vat)' \subseteq Creating(vat),
         \A p \in Requests : At(p, "saveVendor")' => processes'[p].obj.vat \in overlapped'
  PROVE  OverlapInv'
  BY DEF OverlapInv, At

(* A step that leaves the vendors alone and begins to create none.         *)
LEMMA OverlapGone ==
  ASSUME Typed, OverlapInv, UNCHANGED <<vendors, overlapped>>,
         NEW p \in Processes, NEW next, Go(p, next), next.op \notin {"create", "saveVendor"}
  PROVE  OverlapInv'
  <1>1. \A q \in Processes : processes'[q] = IF q = p THEN next ELSE processes[q]
    BY GoElse DEF Typed
  <1>2. \A vat : Holding(vat)' = Holding(vat) /\ Creating(vat)' \subseteq Creating(vat)
    BY <1>1 DEF Holding, Creating, At, Vat, Processes
  <1>3. \A q \in Requests : At(q, "saveVendor")' => processes'[q].obj.vat \in overlapped'
    BY <1>1 DEF OverlapInv, At, Processes
  <1>. QED
    BY <1>2, <1>3, OverlapKept

LEMMA StepOverlap == Typed /\ OverlapInv /\ [Next]_vars => OverlapInv'
  <1>. SUFFICES ASSUME Typed, OverlapInv, [Next]_vars PROVE OverlapInv'
    OBVIOUS
  <1>. USE DEF upload, table, Processes
  <1>1. ASSUME NEW p \in Requests, Serve(p) PROVE OverlapInv'
    <2>1. CASE BeginParse(p) \/ SaveParsing(p) \/ BeginSaveUpload(p) \/ SaveUpload(p)
      BY <2>1, OverlapGone DEF BeginParse, SaveParsing, BeginSaveUpload, SaveUpload, Idle
    <2>2. ASSUME NEW v \in Vendors, NEW vat \in Vats, BeginSaveVendor(p, v, vat)
          PROVE OverlapInv'
      <3>1. vendors[v] \in Vendor
        BY <2>2 DEF BeginSaveVendor, Typed, TypeOK
      <3>2. [vendors[v] EXCEPT !.vat = vat].vat = vat
        BY <3>1 DEF Vendor
      <3>. DEFINE next == [op |-> "saveVendor", vendor |-> v,
                           obj |-> [vendors[v] EXCEPT !.vat = vat]]
      <3>3. next.op = "saveVendor" /\ next.obj.vat = vat
        BY <3>2
      <3>4. Go(p, next) /\ UNCHANGED vendors /\ overlapped' = overlapped \cup {vat}
        BY <2>2 DEF BeginSaveVendor
      <3>. HIDE DEF next
      <3>5. \A q \in Processes : processes'[q] = IF q = p THEN next ELSE processes[q]
        BY <3>4, GoElse DEF Typed
      <3>6. \A x : Holding(x)' = Holding(x) /\ Creating(x)' \subseteq Creating(x)
        BY <3>3, <3>4, <3>5 DEF Holding, Creating, At, Vat
      <3>7. \A q \in Requests : At(q, "saveVendor")' => processes'[q].obj.vat \in overlapped'
        BY <3>3, <3>4, <3>5 DEF OverlapInv, At
      <3>. QED
        BY <3>4, <3>6, <3>7, OverlapKept
    <2>3. CASE SaveVendor(p)
      <3>1. /\ processes[p].vendor \in Vendors /\ processes[p].obj \in Vendor
            /\ processes[p].obj.vat \in overlapped
        BY <2>3, ProcessShape DEF SaveVendor, At, Typed, TypeOK, OverlapInv
      <3>2. \A v \in Vendors :
              vendors'[v] = IF v = processes[p].vendor THEN processes[p].obj ELSE vendors[v]
        BY <2>3 DEF SaveVendor, Typed, TypeOK
      <3>3. \A q \in Processes : processes'[q] = IF q = p THEN Idle ELSE processes[q]
        BY <2>3, GoElse DEF Typed, SaveVendor
      <3>4. UNCHANGED overlapped
        BY <2>3 DEF SaveVendor
      <3>5. \A x \in Vats \ overlapped : Holding(x)' \subseteq Holding(x)
        BY <3>1, <3>2 DEF Holding
      <3>6. \A x : Creating(x)' \subseteq Creating(x)
        BY <3>3 DEF Creating, At, Vat, Idle
      <3>7. \A q \in Requests : At(q, "saveVendor")' => processes'[q].obj.vat \in overlapped'
        BY <3>3, <3>4 DEF OverlapInv, At, Idle
      <3>. QED
        BY <3>4, <3>5, <3>6, <3>7, OverlapKept
    <2>. QED
      BY <1>1, <2>1, <2>2, <2>3 DEF Serve
  <1>2. ASSUME NEW w \in Workers, Work(w) PROVE OverlapInv'
    <2>1. CASE Open(w)
      <3>. DEFINE needs == [op |-> "saveStatus", status |-> "NEEDS_MAPPING"]
                  first == [op |-> "line", line |-> 1, created |-> 0,
                            cache |-> [vat \in Vats |-> Absent]]
      <3>1. Go(w, Idle) \/ Go(w, needs) \/ Go(w, first)
        BY <2>1 DEF Open
      <3>2. Idle.op = "idle" /\ needs.op = "saveStatus" /\ first.op = "line"
        BY DEF Idle
      <3>3. UNCHANGED table
        BY <2>1 DEF Open
      <3>. HIDE DEF needs, first
      <3>. QED
        BY <3>1, <3>2, <3>3, OverlapGone
    <2>2. CASE GetVendor(w)
      <3>1. /\ processes[w] = [op |-> processes[w].op, line |-> processes[w].line,
                               cache |-> processes[w].cache, created |-> processes[w].created]
            /\ processes[w].op = "line"
        BY <2>2, AtLine DEF GetVendor, InFile, At
      <3>2. \A v : [processes[w] EXCEPT !.cache[Vat(w)] = v].op = "line"
        BY <3>1
      <3>3. ASSUME UNCHANGED overlapped,
                   Go(w, Idle) \/ \E v : Go(w, [processes[w] EXCEPT !.cache[Vat(w)] = v])
            PROVE  OverlapInv'
        BY <2>2, <3>2, <3>3, OverlapGone DEF GetVendor, Idle
      <3>4. CASE /\ Holding(Vat(w)) = {}
                 /\ Go(w, [processes[w] EXCEPT !.op = "create"])
                 /\ overlapped' = overlapped \cup
                      {vat \in {Vat(w)} : \E k \in Workers \ {w} : At(k, "create") /\ Vat(k) = vat}
        <4>. DEFINE next == [processes[w] EXCEPT !.op = "create"]
        <4>1. next.op = "create" /\ next.line = processes[w].line
          BY <3>1
        <4>2. Go(w, next)
          BY <3>4
        <4>. HIDE DEF next
        <4>3. \A q \in Processes : processes'[q] = IF q = w THEN next ELSE processes[q]
          BY <4>2, GoElse DEF Typed
        <4>4. \A q \in Requests : At(q, "saveVendor")' => processes'[q].obj.vat \in overlapped'
          BY <3>4, <4>1, <4>3 DEF OverlapInv, At
        <4>5. ASSUME NEW vat \in Vats \ overlapped'
              PROVE  /\ \A u, v \in Holding(vat)' : u = v
                     /\ \A j, k \in Creating(vat)' : j = k
                     /\ Creating(vat)' # {} => Holding(vat)' = {}
          <5>1. vat \in Vats \ overlapped /\ Holding(vat)' = Holding(vat)
            BY <2>2, <3>4, <4>5 DEF GetVendor, Holding
          <5>2. \A k \in Workers : Vat(k)' = Vat(k)
            BY <4>1, <4>3 DEF Vat
          <5>3. CASE vat = Vat(w)
            <6>1. Creating(vat)' \subseteq {w}
              BY <3>4, <4>3, <4>5, <5>2, <5>3 DEF Creating, At
            <6>. QED
              BY <3>4, <5>1, <5>3, <6>1 DEF OverlapInv
          <5>4. CASE vat # Vat(w)
            <6>1. Creating(vat)' \subseteq Creating(vat)
              BY <4>3, <5>2, <5>4 DEF Creating, At
            <6>. QED
              BY <5>1, <6>1 DEF OverlapInv
          <5>. QED
            BY <5>3, <5>4
        <4>. QED
          BY <4>4, <4>5 DEF OverlapInv, At
      <3>. QED
        BY <2>2, <3>3, <3>4 DEF GetVendor
    <2>3. CASE CreateVendor(w)
      <3>0. PICK v \in Vendors :
              /\ NewVendor(v, Vat(w))
              /\ Go(w, [op |-> "line", line |-> processes[w].line,
                        created |-> processes[w].created,
                        cache |-> [processes[w].cache EXCEPT ![Vat(w)] = v]])
        BY <2>3 DEF CreateVendor
      <3>. DEFINE next == [op |-> "line", line |-> processes[w].line,
                           created |-> processes[w].created,
                           cache |-> [processes[w].cache EXCEPT ![Vat(w)] = v]]
      <3>1. Go(w, next) /\ next.op = "line" /\ NewVendor(v, Vat(w)) /\ UNCHANGED overlapped
        BY <2>3, <3>0 DEF CreateVendor
      <3>. HIDE DEF next
      <3>2. \A q \in Processes : processes'[q] = IF q = w THEN next ELSE processes[q]
        BY <3>1, GoElse DEF Typed
      <3>3. \A u \in Vendors :
              vendors'[u] = IF u = v THEN [vat |-> Vat(w), classification |-> ClassifyVendor(Vat(w))]
                            ELSE vendors[u]
        BY <3>1 DEF NewVendor, Typed, TypeOK
      <3>4. \A q \in Requests : At(q, "saveVendor")' => processes'[q].obj.vat \in overlapped'
        BY <3>1, <3>2 DEF OverlapInv, At
      <3>5. \A vat : Creating(vat)' \subseteq Creating(vat) \ {w}
        BY <3>1, <3>2 DEF Creating, At, Vat
      <3>6. w \in Creating(Vat(w)) /\ At(w, "create")
        BY <2>3 DEF CreateVendor, Creating
      <3>7. \A vat : /\ vat # Vat(w) => Holding(vat)' \subseteq Holding(vat)
                     /\ Holding(vat)' \subseteq Holding(vat) \cup {v}
        BY <3>3 DEF Holding
      <3>8. ASSUME NEW vat \in Vats \ overlapped
            PROVE  /\ \A u, k \in Holding(vat)' : u = k
                   /\ \A j, k \in Creating(vat)' : j = k
                   /\ Creating(vat)' # {} => Holding(vat)' = {}
        <4>1. CASE vat = Vat(w)
          <5>1. Holding(vat) = {} /\ Creating(vat)' = {}
            BY <3>5, <3>6, <4>1 DEF OverlapInv
          <5>. QED
            BY <3>7, <5>1
        <4>2. CASE vat # Vat(w)
          BY <3>5, <3>7, <4>2 DEF OverlapInv
        <4>. QED
          BY <4>1, <4>2
      <3>. QED
        BY <3>1, <3>4, <3>8 DEF OverlapInv, At
    <2>4. CASE CreateInvoice(w)
      BY <2>4, OverlapGone DEF CreateInvoice, Idle
    <2>5. CASE FinishFile(w) \/ SaveStatus(w)
      BY <2>5, OverlapGone DEF FinishFile, SaveStatus, Idle
    <2>. QED
      BY <1>2, <2>1, <2>2, <2>3, <2>4, <2>5 DEF Work
  <1>3. ASSUME NEW p \in Processes, Die(p) PROVE OverlapInv'
    BY <1>3, OverlapGone DEF Die, Idle
  <1>4. ASSUME NEW v \in Vendors, NEW vat \in Vats, PostVendor(v, vat) PROVE OverlapInv'
    <2>1. overlapped' = overlapped \cup {vat} /\ UNCHANGED processes
      BY <1>4 DEF PostVendor
    <2>2. \A u \in Vendors : u # v => vendors'[u] = vendors[u]
      BY <1>4 DEF PostVendor, NewVendor, Typed, TypeOK
    <2>3. vendors'[v].vat = vat
      BY <1>4 DEF PostVendor, NewVendor, Typed, TypeOK
    <2>4. \A x \in Vats \ overlapped' : Holding(x)' \subseteq Holding(x)
      BY <2>1, <2>2, <2>3 DEF Holding
    <2>5. \A x : Creating(x)' = Creating(x)
      BY <2>1 DEF Creating, At, Vat
    <2>. QED
      BY <2>1, <2>4, <2>5, OverlapKept DEF OverlapInv, At
  <1>5. ASSUME NEW v \in Vendors, DeleteVendor(v) PROVE OverlapInv'
    <2>1. UNCHANGED <<overlapped, processes>>
      BY <1>5 DEF DeleteVendor
    <2>2. \A x : Holding(x)' \subseteq Holding(x)
      BY <1>5 DEF DeleteVendor, Holding, Typed, TypeOK
    <2>3. \A x : Creating(x)' = Creating(x)
      BY <2>1 DEF Creating, At, Vat
    <2>. QED
      BY <2>1, <2>2, <2>3, OverlapKept DEF OverlapInv, At
  <1>6. ASSUME UNCHANGED <<vendors, overlapped, processes>> PROVE OverlapInv'
    BY <1>6 DEF OverlapInv, Holding, Creating, At, Vat
  <1>7. ASSUME NEW v \in Vendors, PostInvoice(v) \/ DeleteInvoice(v) PROVE OverlapInv'
    BY <1>6, <1>7 DEF PostInvoice, DeleteInvoice
  <1>8. CASE DeleteUpload \/ SaveMapping \/ UNCHANGED vars
    BY <1>6, <1>8 DEF DeleteUpload, SaveMapping, vars
  <1>. QED
    BY <1>1, <1>2, <1>3, <1>4, <1>5, <1>7, <1>8 DEF Next

(* Tasks that do not look for a VAT number at the same time create one     *)
(* vendor for it, though no constraint of the database says so             *)
(* (procurement/tasks.py:68-78).                                           *)
THEOREM DuplicatesOnlyByOverlap == Spec => []DuplicatesNeedOverlap
  <1>1. Init => OverlapInv
    BY DEF Init, OverlapInv, Holding, Creating, At, Idle
  <1>2. OverlapInv => DuplicatesNeedOverlap
    <2>. SUFFICES ASSUME OverlapInv, NEW vat \in Vats \ overlapped
                  PROVE  ~(Cardinality(Holding(vat)) > 1)
      BY DEF DuplicatesNeedOverlap
    <2>1. CASE Holding(vat) = {}
      BY <2>1, FS_EmptySet
    <2>2. ASSUME NEW v \in Holding(vat) PROVE ~(Cardinality(Holding(vat)) > 1)
      <3>1. Holding(vat) = {v}
        BY <2>2 DEF OverlapInv
      <3>2. Cardinality({v}) = 1
        BY FS_Singleton
      <3>. QED
        BY <3>1, <3>2
    <2>. QED
      BY <2>1, <2>2
  <1>. QED
    BY <1>1, <1>2, InitTyped, StepTyped, StepOverlap, PTL DEF Spec
==============================================================================
