---------------------------- MODULE PayrollProofs ----------------------------
(***************************************************************************)
(* Theorems about Payroll, for any number of rows, lines, requests and     *)
(* workers, tasks eager or queued, with or without crashes.                *)
(***************************************************************************)
EXTENDS Payroll, TLAPS, FiniteSetTheorems

Procs == Requests \cup Workers

(* Process, with one line per shape.                                       *)
LEMMA ProcessShape ==
  ASSUME NEW r \in Process
  PROVE  /\ r.op \in {"open", "count", "insert", "classify", "compare", "saveStatus"} =>
              r.job \in Jobs
         /\ r.op \in {"insert", "classify"} => r.data \in Data /\ r.line \in Nat
         /\ r.op = "classify" => r.row \in Rows
         /\ r.op = "compare" => r.rowCount \in Nat
         /\ r.op \in {"saveStatus", "saveUpload"} => r.verdict \in Statuses
         /\ r.op = "saveRow" => r.row \in Rows /\ r.obj \in Row
         /\ r.op = "sum6" => r.labor \in SUBSET Rows
  BY DEF Process, Idle

LEMMA GoTyped ==
  ASSUME TypeOK, NEW p \in Procs, NEW next \in Process, Go(p, next)
  PROVE  processes' \in [Procs -> Process]
  BY DEF TypeOK, Go, Procs

LEMMA IdleIsProcess == Idle \in Process
  BY DEF Process

LEMMA TaskEndsTyped ==
  ASSUME TypeOK, NEW p \in Procs, TaskEnds(p)
  PROVE  processes' \in [Procs -> Process]
  <1>1. [op |-> "saveParsing"] \in Process
    BY DEF Process
  <1>. QED
    BY <1>1, IdleIsProcess, GoTyped DEF TaskEnds

LEMMA NextLineTyped ==
  ASSUME TypeOK, NEW p \in Procs, NEW line \in Nat, line > 0, NEW job \in Jobs,
         NextLine(p, line, job)
  PROVE  processes' \in [Procs -> Process]
  <1>1. Len(File) \in Nat /\ (line <= Len(File) => File[line] \in Data)
    BY PayrollAssumption
  <1>2. CASE line > Len(File)
    <2>1. [op |-> "count", job |-> job] \in Process
      BY DEF Process
    <2>. QED
      BY <1>2, <2>1, GoTyped DEF NextLine
  <1>3. CASE ~(line > Len(File))
    <2>1. [op |-> "insert", data |-> File[line], line |-> line, job |-> job] \in Process
      BY <1>1, <1>3 DEF Process
    <2>. QED
      BY <1>3, <2>1, GoTyped DEF NextLine
  <1>. QED
    BY <1>2, <1>3

LEMMA SplitTyped ==
  ASSUME NEW d \in Data
  PROVE  SplitOf(d) \in Split
  BY DEF Data, Split, SplitOf

(* The two sections never share a row's pay.                               *)
LEMMA SplitExclusive ==
  ASSUME NEW d \in Data, SplitOf(d).s3 # 0
  PROVE  SplitOf(d).s6 = 0
  BY DEF Data, SplitOf

(* A row is created, with no split yet, under an upload that exists.       *)
LEMMA CreateTyped ==
  ASSUME TypeOK, NEW p \in Procs, NEW d \in Data, NEW line \in Nat, NEW job \in Jobs,
         Create(p, d, line, job)
  PROVE  /\ processes' \in [Procs -> Process]
         /\ rows' \in [Rows -> Row \cup {Absent}]
         /\ born' \in [Rows -> Data \cup {Absent}]
  <1>1. PICK r \in Rows :
          /\ born' = [born EXCEPT ![r] = d]
          /\ rows' = [rows EXCEPT ![r] = [data |-> d, split |-> Null]]
          /\ Go(p, [op |-> "classify", row |-> r, data |-> d, line |-> line, job |-> job])
    BY DEF Create
  <1>2. [data |-> d, split |-> Null] \in Row
    BY DEF Row
  <1>3. [op |-> "classify", row |-> r, data |-> d, line |-> line, job |-> job] \in Process
    BY DEF Process
  <1>. QED
    BY <1>1, <1>2, <1>3, GoTyped DEF TypeOK

LEMMA InitTypeOK == Init => TypeOK
  <1>1. Cardinality(Rows) \in Nat
    BY PayrollAssumption, FS_CardinalityType
  <1>2. Init => processes \in [Requests \cup Workers -> Process]
    BY IdleIsProcess DEF Init
  <1>3. Init => eager \in BOOLEAN /\ budget \in Int
    BY <1>1, PayrollAssumption DEF Init
  <1>4. ASSUME Init PROVE TypeOK
    <2>1. status \in Statuses \cup {"GONE"} /\ heads \in Headcounts \cup {0} /\ queue \in Nat
      BY <1>4 DEF Init, Statuses
    <2>2. rows \in [Rows -> Row \cup {Absent}] /\ born \in [Rows -> Data \cup {Absent}]
      BY <1>4 DEF Init
    <2>3. status # "GONE" /\ matched \in BOOLEAN
      BY <1>4 DEF Init
    <2>. QED
      BY <1>2, <1>3, <1>4, <2>1, <2>2, <2>3 DEF TypeOK
  <1>. QED
    BY <1>4

LEMMA TaskStepTyped ==
  ASSUME TypeOK, NEW p \in Procs, TaskStep(p)
  PROVE  TypeOK'
  <1>0. processes[p] \in Process
    BY DEF TypeOK, Procs
  <1>1. CASE Open(p)
    <2>1. processes[p].job \in Jobs
      BY <1>0, <1>1, ProcessShape DEF Open, At
    <2>2. processes' \in [Procs -> Process]
      BY <1>1, <2>1, NextLineTyped, TaskEndsTyped DEF Open
    <2>. QED
      BY <1>1, <2>2 DEF Open, TypeOK, upload, history, Procs
  <1>2. CASE Insert(p)
    <2>1. processes[p].data \in Data /\ processes[p].line \in Nat /\ processes[p].job \in Jobs
      BY <1>0, <1>2, ProcessShape DEF Insert, At
    <2>2. CASE status = "GONE"
      <3>1. processes' \in [Procs -> Process]
        BY <1>2, <2>2, TaskEndsTyped DEF Insert
      <3>. QED
        BY <1>2, <2>2, <3>1 DEF Insert, TypeOK, upload, Procs
    <2>3. CASE status # "GONE"
      BY <1>2, <2>1, <2>3, CreateTyped DEF Insert, TypeOK, upload, Procs
    <2>. QED
      BY <2>2, <2>3
  <1>3. CASE Classify(p)
    <2> DEFINE c == processes[p]
    <2>1. c.row \in Rows /\ c.data \in Data /\ c.line \in Nat /\ c.job \in Jobs
      BY <1>0, <1>3, ProcessShape DEF Classify, At
    <2>2. CASE rows[c.row] = Absent
      <3>1. processes' \in [Procs -> Process]
        BY <1>3, <2>2, TaskEndsTyped DEF Classify
      <3>. QED
        BY <1>3, <2>2, <3>1 DEF Classify, TypeOK, upload, history, Procs
    <2>3. CASE rows[c.row] # Absent
      <3>1. rows' = [rows EXCEPT ![c.row].split = SplitOf(c.data)]
        BY <1>3, <2>3 DEF Classify
      <3>2. rows[c.row] \in Row /\ SplitOf(c.data) \in Split
        BY <2>1, <2>3, SplitTyped DEF TypeOK
      <3>3. rows' \in [Rows -> Row \cup {Absent}]
        BY <2>1, <3>1, <3>2 DEF TypeOK, Row
      <3>4. status # "GONE" /\ UNCHANGED status
        BY <1>3, <2>1, <2>3 DEF Classify, TypeOK, upload
      <3>5. processes' \in [Procs -> Process]
        <4>1. CASE c.job = "post"
          BY <1>3, <2>3, <4>1, IdleIsProcess, GoTyped DEF Classify
        <4>2. CASE c.job # "post"
          <5>1. c.line + 1 \in Nat /\ c.line + 1 > 0
            BY <2>1
          <5>. QED
            BY <1>3, <2>1, <2>3, <4>2, <5>1, NextLineTyped DEF Classify
        <4>. QED
          BY <4>1, <4>2
      <3>. QED
        BY <1>3, <3>3, <3>4, <3>5 DEF Classify, TypeOK, upload, history, Procs
    <2>. QED
      BY <2>2, <2>3
  <1>4. CASE Count(p)
    <2>1. processes[p].job \in Jobs
      BY <1>0, <1>4, ProcessShape DEF Count, At
    <2> DEFINE n == Cardinality({r \in Rows : rows[r] # Absent})
    <2>2. n \in Nat
      BY PayrollAssumption, FS_Subset, FS_CardinalityType
    <2>3. [op |-> "compare", job |-> processes[p].job, rowCount |-> n] \in Process
      BY <2>1, <2>2 DEF Process
    <2>4. processes' \in [Procs -> Process]
      BY <1>4, <2>3, GoTyped DEF Count
    <2>. QED
      BY <1>4, <2>4 DEF Count, TypeOK, upload, history, Procs
  <1>5. CASE Compare(p)
    <2> DEFINE verdict == IF processes[p].rowCount = heads THEN "PARSED" ELSE "GOSI_MISMATCH"
    <2>1. processes[p].job \in Jobs
      BY <1>0, <1>5, ProcessShape DEF Compare, At
    <2>2. [op |-> "saveStatus", job |-> processes[p].job, verdict |-> verdict] \in Process
      BY <2>1 DEF Process, Statuses
    <2>3. processes' \in [Procs -> Process]
      BY <1>5, <2>2, GoTyped DEF Compare
    <2>4. matched' \in BOOLEAN
      BY <1>5 DEF Compare, TypeOK
    <2>. QED
      BY <1>5, <2>3, <2>4 DEF Compare, TypeOK, upload, Procs
  <1>6. CASE SaveStatus(p)
    <2>1. processes[p].verdict \in Statuses
      BY <1>0, <1>6, ProcessShape DEF SaveStatus, At
    <2>2. processes' \in [Procs -> Process]
      BY <1>6, TaskEndsTyped DEF SaveStatus
    <2>. QED
      BY <1>6, <2>1, <2>2 DEF SaveStatus, TypeOK, Statuses, history, Procs
  <1>. QED
    BY <1>1, <1>2, <1>3, <1>4, <1>5, <1>6 DEF TaskStep

LEMMA ServeTyped ==
  ASSUME TypeOK, NEW p \in Requests, Serve(p)
  PROVE  TypeOK'
  <1>0. processes[p] \in Process /\ p \in Procs
    BY DEF TypeOK, Procs
  <1>1. CASE BeginParse(p)
    <2>1. [op |-> "open", job |-> "inline"] \in Process /\ [op |-> "saveParsing"] \in Process
      BY DEF Process, Jobs
    <2>2. processes' \in [Procs -> Process]
      BY <1>0, <1>1, <2>1, GoTyped DEF BeginParse
    <2>3. budget' \in Int /\ queue' \in Nat
      BY <1>1, PayrollAssumption DEF BeginParse, TypeOK
    <2>. QED
      BY <1>1, <2>2, <2>3 DEF BeginParse, TypeOK, upload, history, Procs
  <1>2. CASE SaveParsing(p)
    <2>1. processes' \in [Procs -> Process]
      BY <1>0, <1>2, IdleIsProcess, GoTyped DEF SaveParsing
    <2>. QED
      BY <1>2, <2>1 DEF SaveParsing, TypeOK, Statuses, history, Procs
  <1>3. CASE PostRow(p)
    <2>1. PICK d \in Data : Create(p, d, 0, "post")
      BY <1>3 DEF PostRow
    <2>2. status # "GONE" /\ UNCHANGED status /\ budget' \in Int
      BY <1>3 DEF PostRow, TypeOK, upload
    <2>. QED
      BY <1>0, <1>3, <2>1, <2>2, CreateTyped DEF PostRow, TypeOK, upload, Procs, Jobs
  <1>4. ASSUME NEW r \in Rows, BeginSaveRow(p, r)
        PROVE  TypeOK'
    <2>1. PICK d \in Data : Go(p, [op |-> "saveRow", row |-> r,
                                   obj |-> [data |-> d, split |-> rows[r].split]])
      BY <1>4 DEF BeginSaveRow
    <2>2. [data |-> d, split |-> rows[r].split] \in Row
      BY <1>4 DEF BeginSaveRow, TypeOK, Row
    <2>3. [op |-> "saveRow", row |-> r,
           obj |-> [data |-> d, split |-> rows[r].split]] \in Process
      BY <2>2 DEF Process
    <2>4. processes' \in [Procs -> Process]
      BY <1>0, <2>1, <2>3, GoTyped
    <2>. QED
      BY <1>4, <2>4 DEF BeginSaveRow, TypeOK, upload, history, Procs
  <1>5. CASE SaveRow(p)
    <2>1. processes[p].row \in Rows /\ processes[p].obj \in Row
      BY <1>0, <1>5, ProcessShape DEF SaveRow, At
    <2>2. processes' \in [Procs -> Process]
      BY <1>0, <1>5, IdleIsProcess, GoTyped DEF SaveRow
    <2>3. rows' \in [Rows -> Row \cup {Absent}] /\ (status = "GONE" => rows' = rows)
      BY <1>5, <2>1 DEF SaveRow, TypeOK
    <2>. QED
      BY <1>5, <2>2, <2>3 DEF SaveRow, TypeOK, upload, history, Procs
  <1>6. CASE BeginSaveUpload(p)
    <2>1. [op |-> "saveUpload", verdict |-> status] \in Process
      BY <1>6 DEF BeginSaveUpload, TypeOK, Process
    <2>2. processes' \in [Procs -> Process]
      BY <1>0, <1>6, <2>1, GoTyped DEF BeginSaveUpload
    <2>. QED
      BY <1>6, <2>2 DEF BeginSaveUpload, TypeOK, upload, history, Procs
  <1>7. CASE SaveUpload(p)
    <2>1. processes[p].verdict \in Statuses
      BY <1>0, <1>7, ProcessShape DEF SaveUpload, At
    <2>2. processes' \in [Procs -> Process]
      BY <1>0, <1>7, IdleIsProcess, GoTyped DEF SaveUpload
    <2>. QED
      BY <1>7, <2>1, <2>2 DEF SaveUpload, TypeOK, Statuses, history, Procs
  <1>8. CASE Sum3(p)
    <2>1. [op |-> "sum6", labor |-> Labor] \in Process
      BY DEF Process, Labor, Classified
    <2>2. processes' \in [Procs -> Process]
      BY <1>0, <1>8, <2>1, GoTyped DEF Sum3
    <2>. QED
      BY <1>8, <2>2 DEF Sum3, TypeOK, upload, history, Procs
  <1>9. CASE Sum6(p)
    <2>1. processes' \in [Procs -> Process]
      BY <1>0, <1>9, IdleIsProcess, GoTyped DEF Sum6
    <2>. QED
      BY <1>9, <2>1 DEF Sum6, TypeOK, upload, history, Procs
  <1>. QED
    BY <1>0, <1>1, <1>2, <1>3, <1>4, <1>5, <1>6, <1>7, <1>8, <1>9, TaskStepTyped DEF Serve

LEMMA NextTyped ==
  ASSUME TypeOK, [Next]_vars
  PROVE  TypeOK'
  <1>1. ASSUME NEW w \in Workers, Take(w)
        PROVE  TypeOK'
    <2>1. [op |-> "open", job |-> "worker"] \in Process /\ w \in Procs
      BY DEF Process, Jobs, Procs
    <2>2. processes' \in [Procs -> Process]
      BY <1>1, <2>1, GoTyped DEF Take
    <2>3. queue' \in Nat
      BY <1>1 DEF Take, TypeOK
    <2>. QED
      BY <1>1, <2>2, <2>3 DEF Take, TypeOK, upload, history, Procs
  <1>2. ASSUME NEW p \in Procs, Die(p)
        PROVE  TypeOK'
    <2>1. processes' \in [Procs -> Process]
      BY <1>2, IdleIsProcess, GoTyped DEF Die
    <2>. QED
      BY <1>2, <2>1 DEF Die, TypeOK, upload, history, Procs
  <1>3. ASSUME NEW r \in Rows, DeleteRow(r)
        PROVE  TypeOK'
    BY <1>3 DEF DeleteRow, TypeOK, upload, history
  <1>4. CASE DeleteUpload
    BY <1>4 DEF DeleteUpload, TypeOK, history
  <1>5. CASE SaveGosi
    BY <1>5 DEF SaveGosi, TypeOK, history
  <1>6. CASE UNCHANGED vars
    BY <1>6 DEF vars, TypeOK
  <1>7. \A w \in Workers : w \in Procs
    BY DEF Procs
  <1>. QED
    BY <1>1, <1>2, <1>3, <1>4, <1>5, <1>6, <1>7, ServeTyped, TaskStepTyped
    DEF Next, Work, Procs

(* The upload, its rows and every request and task stay well typed, and no *)
(* row outlives its upload.                                                *)
THEOREM TypeCorrect == Spec => []TypeOK
  BY InitTypeOK, NextTyped, PTL DEF Spec

-----------------------------------------------------------------------------
(* VerdictEarned is inductive: a PARSED that is stored, or that some       *)
(* request or task will store, was found by a cross-check.                 *)

LEMMA VerdictStep ==
  ASSUME TypeOK, VerdictEarned, [Next]_vars
  PROVE  VerdictEarned'
  <1>0. processes \in [Procs -> Process]
    BY DEF TypeOK, Procs
  <1> DEFINE Earns(v, m) == v = "PARSED" => m
  (* A process moves, and what it will save is earned.                     *)
  <1>1. ASSUME NEW p \in Procs, NEW next, Go(p, next),
               next.op \in {"saveStatus", "saveUpload"} => Earns(next.verdict, matched'),
               Earns(status', matched'), matched => matched'
        PROVE  VerdictEarned'
    <2>1. \A q \in Procs : processes'[q] = IF q = p THEN next ELSE processes[q]
      BY <1>0, <1>1 DEF Go
    <2>. QED
      BY <1>1, <2>1 DEF VerdictEarned, Procs
  <1>2. ASSUME NEW p \in Procs, TaskEnds(p), Earns(status', matched'), UNCHANGED matched
        PROVE  VerdictEarned'
    BY <1>1, <1>2 DEF TaskEnds, Idle
  <1>3. ASSUME NEW p \in Procs, NEW line, NEW job, NextLine(p, line, job),
               UNCHANGED <<status, matched>>
        PROVE  VerdictEarned'
    BY <1>1, <1>3 DEF NextLine, VerdictEarned
  <1>4. ASSUME NEW p \in Procs, TaskStep(p)
        PROVE  VerdictEarned'
    <2>1. CASE Open(p)
      BY <1>2, <1>3, <2>1 DEF Open, upload, history, VerdictEarned
    <2>2. CASE Insert(p)
      <3>1. CASE status = "GONE"
        BY <1>2, <2>2, <3>1 DEF Insert, upload, VerdictEarned
      <3>2. CASE status # "GONE"
        BY <1>1, <2>2, <3>2 DEF Insert, Create, upload, VerdictEarned
      <3>. QED
        BY <3>1, <3>2
    <2>3. CASE Classify(p)
      <3>1. UNCHANGED <<status, matched>>
        BY <2>3 DEF Classify, upload, history
      <3>2. Earns(status', matched')
        BY <3>1 DEF VerdictEarned
      <3>3. \/ TaskEnds(p)
            \/ Go(p, Idle)
            \/ NextLine(p, processes[p].line + 1, processes[p].job)
        BY <2>3 DEF Classify
      <3>4. CASE Go(p, Idle)
        BY <1>1, <3>1, <3>2, <3>4 DEF Idle
      <3>. QED
        BY <1>2, <1>3, <3>1, <3>2, <3>3, <3>4
    <2>4. CASE Count(p)
      BY <1>1, <2>4 DEF Count, upload, history, VerdictEarned
    <2>5. CASE Compare(p)
      <3> DEFINE match == processes[p].rowCount = heads
                 next == [op |-> "saveStatus", job |-> processes[p].job,
                          verdict |-> IF match THEN "PARSED" ELSE "GOSI_MISMATCH"]
      <3>1. Go(p, next) /\ matched' = (matched \/ match) /\ UNCHANGED status
        BY <2>5 DEF Compare, upload
      <3>2. Earns(next.verdict, matched') /\ Earns(status', matched')
        BY <3>1 DEF VerdictEarned
      <3>. QED
        BY <1>1, <3>1, <3>2
    <2>6. CASE SaveStatus(p)
      <3>1. Earns(status', matched') /\ UNCHANGED matched
        BY <2>6 DEF SaveStatus, At, history, VerdictEarned, Procs
      <3>. QED
        BY <1>2, <2>6, <3>1 DEF SaveStatus
    <2>. QED
      BY <1>4, <2>1, <2>2, <2>3, <2>4, <2>5, <2>6 DEF TaskStep
  <1>5. ASSUME NEW p \in Requests, Serve(p)
        PROVE  VerdictEarned'
    <2>0. p \in Procs
      BY DEF Procs
    <2>1. CASE BeginParse(p)
      BY <1>1, <2>0, <2>1 DEF BeginParse, upload, history, VerdictEarned
    <2>2. CASE SaveParsing(p)
      BY <1>1, <2>0, <2>2 DEF SaveParsing, history, Idle
    <2>3. CASE PostRow(p)
      BY <1>1, <2>0, <2>3 DEF PostRow, Create, upload, VerdictEarned
    <2>4. ASSUME NEW r \in Rows, BeginSaveRow(p, r)
          PROVE  VerdictEarned'
      BY <1>1, <2>0, <2>4 DEF BeginSaveRow, upload, history, VerdictEarned
    <2>5. CASE SaveRow(p) \/ Sum6(p)
      BY <1>1, <2>0, <2>5 DEF SaveRow, Sum6, upload, history, VerdictEarned, Idle
    <2>6. CASE BeginSaveUpload(p)
      BY <1>1, <2>0, <2>6 DEF BeginSaveUpload, upload, history, VerdictEarned
    <2>7. CASE SaveUpload(p)
      BY <1>1, <2>0, <2>7 DEF SaveUpload, At, history, VerdictEarned, Idle
    <2>8. CASE Sum3(p)
      BY <1>1, <2>0, <2>8 DEF Sum3, upload, history, VerdictEarned
    <2>. QED
      BY <1>4, <1>5, <2>0, <2>1, <2>2, <2>3, <2>4, <2>5, <2>6, <2>7, <2>8 DEF Serve
  <1>6. ASSUME NEW w \in Workers, Take(w)
        PROVE  VerdictEarned'
    BY <1>1, <1>6 DEF Take, upload, history, VerdictEarned, Procs
  <1>7. ASSUME NEW p \in Procs, Die(p)
        PROVE  VerdictEarned'
    BY <1>1, <1>7 DEF Die, upload, history, VerdictEarned, Idle
  <1>8. CASE \/ \E r \in Rows : DeleteRow(r)
             \/ DeleteUpload \/ SaveGosi \/ UNCHANGED vars
    BY <1>8 DEF DeleteRow, DeleteUpload, SaveGosi, vars, upload, history, VerdictEarned
  <1>9. \A w \in Workers : w \in Procs
    BY DEF Procs
  <1>. QED
    BY <1>4, <1>5, <1>6, <1>7, <1>8, <1>9 DEF Next, Work, Procs

(* No stale PATCH, retry, crash or order of the view and its task makes an *)
(* upload PARSED that no cross-check found equal (hr/tasks.py:78-80).      *)
THEOREM ParsedIsEarned == Spec => []VerdictEarned
  <1>1. Init => VerdictEarned
    BY DEF Init, VerdictEarned, Idle
  <1>. QED
    BY <1>1, VerdictStep, TypeCorrect, PTL DEF Spec

-----------------------------------------------------------------------------
(* Sections 3 and 6: a row has no split, or the split of the data it was   *)
(* created with.  NeverCountedTwice is not inductive, since the row a      *)
(* report counted may change before it reads Section 6; what cannot change *)
(* is the split a row may have.                                            *)

OriginalSplit(r, split, b) == b[r] # Absent /\ split \in {Null, SplitOf(b[r])}

(* What a process holds agrees with the rows' creation.                    *)
Agrees(next, b) ==
  /\ next.op = "classify" => b[next.row] = next.data
  /\ next.op = "saveRow" => OriginalSplit(next.row, next.obj.split, b)
  /\ next.op = "sum6" => \A r \in next.labor : b[r] # Absent /\ SplitOf(b[r]).s3 # 0

OriginalSplits ==
  /\ \A r \in Rows : rows[r] # Absent => OriginalSplit(r, rows[r].split, born)
  /\ \A p \in Procs : Agrees(processes[p], born)

LEMMA AbsentIsNoData == Absent \notin Data /\ Absent \notin Row
  BY NullAssumption

(* Creating other rows does not disturb what a process holds.              *)
LEMMA AgreesStays ==
  ASSUME TypeOK, NEW p \in Procs, Agrees(processes[p], born),
         \A r \in Rows : born[r] # Absent => born'[r] = born[r]
  PROVE  Agrees(processes[p], born')
  <1>0. processes[p] \in Process
    BY DEF TypeOK, Procs
  <1>1. CASE processes[p].op = "classify"
    <2>1. processes[p].row \in Rows /\ processes[p].data \in Data
      BY <1>0, <1>1, ProcessShape
    <2>. QED
      BY <1>1, <2>1, AbsentIsNoData DEF Agrees
  <1>2. CASE processes[p].op = "saveRow"
    <2>1. processes[p].row \in Rows
      BY <1>0, <1>2, ProcessShape
    <2>. QED
      BY <1>2, <2>1 DEF Agrees, OriginalSplit
  <1>3. CASE processes[p].op = "sum6"
    <2>1. processes[p].labor \in SUBSET Rows
      BY <1>0, <1>3, ProcessShape
    <2>. QED
      BY <1>3, <2>1 DEF Agrees
  <1>. QED
    BY <1>1, <1>2, <1>3 DEF Agrees

LEMMA OriginalStep ==
  ASSUME TypeOK, OriginalSplits, [Next]_vars
  PROVE  OriginalSplits'
  <1>0. processes \in [Procs -> Process] /\ rows \in [Rows -> Row \cup {Absent}]
    BY DEF TypeOK, Procs
  (* A process moves while no row changes, or is only deleted.             *)
  <1>1. ASSUME NEW p \in Procs, NEW next, Go(p, next), Agrees(next, born),
               UNCHANGED <<rows, born>>
        PROVE  OriginalSplits'
    <2>1. \A q \in Procs : processes'[q] = IF q = p THEN next ELSE processes[q]
      BY <1>0, <1>1 DEF Go
    <2>. QED
      BY <1>1, <2>1 DEF OriginalSplits
  <1>2. ASSUME NEW next, next.op \notin {"classify", "saveRow", "sum6"}
        PROVE  Agrees(next, born)
    BY <1>2 DEF Agrees
  <1>3. ASSUME NEW p \in Procs, TaskEnds(p), UNCHANGED <<rows, born>>
        PROVE  OriginalSplits'
    BY <1>1, <1>2, <1>3 DEF TaskEnds, Idle
  <1>4. ASSUME NEW p \in Procs, NEW line, NEW job, NextLine(p, line, job),
               UNCHANGED <<rows, born>>
        PROVE  OriginalSplits'
    BY <1>1, <1>2, <1>4 DEF NextLine
  <1>5. ASSUME NEW p \in Procs, NEW d \in Data, NEW line, NEW job, Create(p, d, line, job)
        PROVE  OriginalSplits'
    <2> DEFINE next(r) == [op |-> "classify", row |-> r, data |-> d,
                           line |-> line, job |-> job]
    <2>1. PICK r \in Rows :
            /\ born[r] = Absent
            /\ born' = [born EXCEPT ![r] = d]
            /\ rows' = [rows EXCEPT ![r] = [data |-> d, split |-> Null]]
            /\ Go(p, next(r))
      BY <1>5 DEF Create
    <2>2. \A k \in Rows : born'[k] = IF k = r THEN d ELSE born[k]
      BY <2>1 DEF TypeOK
    <2>3. \A k \in Rows : born[k] # Absent => born'[k] = born[k]
      BY <2>1, <2>2
    <2>4. \A q \in Procs : processes'[q] = IF q = p THEN next(r) ELSE processes[q]
      BY <1>0, <2>1 DEF Go
    <2>5. Agrees(next(r), born')
      BY <2>2 DEF Agrees
    <2>6. \A q \in Procs : Agrees(processes'[q], born')
      BY <2>3, <2>4, <2>5, AgreesStays DEF OriginalSplits
    <2>7. \A k \in Rows : rows'[k] = IF k = r THEN [data |-> d, split |-> Null] ELSE rows[k]
      BY <1>0, <2>1
    <2>8. ASSUME NEW k \in Rows, rows'[k] # Absent
          PROVE  OriginalSplit(k, rows'[k].split, born')
      <3>1. CASE k = r
        BY <2>2, <2>7, <3>1, AbsentIsNoData DEF OriginalSplit
      <3>2. CASE k # r
        BY <2>2, <2>7, <2>8, <3>2 DEF OriginalSplits, OriginalSplit
      <3>. QED
        BY <3>1, <3>2
    <2>. QED
      BY <2>6, <2>8 DEF OriginalSplits
  (* A row is written with an original split, and the process ends or goes *)
  (* on inserting.                                                         *)
  <1>6. ASSUME NEW k \in Rows, NEW row \in Row, rows' = [rows EXCEPT ![k] = row],
               OriginalSplit(k, row.split, born), UNCHANGED born,
               NEW p \in Procs, NEW next, Go(p, next), Agrees(next, born)
        PROVE  OriginalSplits'
    <2>1. \A r \in Rows : rows'[r] = IF r = k THEN row ELSE rows[r]
      BY <1>0, <1>6
    <2>2. \A q \in Procs : processes'[q] = IF q = p THEN next ELSE processes[q]
      BY <1>0, <1>6 DEF Go
    <2>. QED
      BY <1>6, <2>1, <2>2 DEF OriginalSplits
  <1>7. ASSUME NEW p \in Procs, TaskStep(p)
        PROVE  OriginalSplits'
    <2>0. processes[p] \in Process /\ Agrees(processes[p], born)
      BY <1>0 DEF OriginalSplits
    <2>1. CASE Open(p)
      BY <1>3, <1>4, <2>1 DEF Open, history
    <2>2. CASE Insert(p)
      <3>1. processes[p].data \in Data
        BY <2>0, <2>2, ProcessShape DEF Insert, At
      <3>2. CASE status = "GONE"
        BY <1>3, <2>2, <3>2 DEF Insert
      <3>3. CASE status # "GONE"
        BY <1>5, <2>2, <3>1, <3>3 DEF Insert
      <3>. QED
        BY <3>2, <3>3
    <2>3. CASE Classify(p)
      <3> DEFINE c == processes[p]
                 row == [rows[c.row] EXCEPT !.split = SplitOf(c.data)]
      <3>1. c.row \in Rows /\ c.data \in Data /\ born[c.row] = c.data /\ UNCHANGED born
        BY <2>0, <2>3, ProcessShape DEF Classify, At, Agrees, history
      <3>2. CASE rows[c.row] = Absent
        BY <1>3, <2>3, <3>1, <3>2 DEF Classify
      <3>3. CASE rows[c.row] # Absent
        <4>1. rows[c.row] \in Row /\ SplitOf(c.data) \in Split
          BY <1>0, <3>1, <3>3, SplitTyped
        <4>2. row \in Row /\ row.split = SplitOf(c.data)
          BY <4>1 DEF Row
        <4>3. rows' = [rows EXCEPT ![c.row] = row]
          BY <2>3, <3>3 DEF Classify
        <4>4. OriginalSplit(c.row, row.split, born)
          BY <3>1, <4>2, AbsentIsNoData DEF OriginalSplit
        <4>5. PICK next : Go(p, next) /\ next.op \in {"idle", "count", "insert"}
          BY <2>3, <3>3 DEF Classify, NextLine, Idle
        <4>. QED
          BY <1>2, <1>6, <3>1, <4>2, <4>3, <4>4, <4>5
      <3>. QED
        BY <3>2, <3>3
    <2>4. CASE Count(p)
      BY <1>1, <1>2, <2>4 DEF Count, history
    <2>5. CASE Compare(p)
      BY <1>1, <1>2, <2>5 DEF Compare
    <2>6. CASE SaveStatus(p)
      BY <1>3, <2>6 DEF SaveStatus, history
    <2>. QED
      BY <1>7, <2>1, <2>2, <2>3, <2>4, <2>5, <2>6 DEF TaskStep
  <1>8. ASSUME NEW p \in Requests, Serve(p)
        PROVE  OriginalSplits'
    <2>0. p \in Procs /\ processes[p] \in Process /\ Agrees(processes[p], born)
      BY <1>0 DEF OriginalSplits, Procs
    <2>1. CASE BeginParse(p)
      BY <1>1, <1>2, <2>0, <2>1 DEF BeginParse, history
    <2>2. CASE SaveParsing(p) \/ Sum6(p)
      BY <1>1, <1>2, <2>0, <2>2 DEF SaveParsing, Sum6, history, Idle
    <2>3. CASE PostRow(p)
      BY <1>5, <2>0, <2>3 DEF PostRow
    <2>4. ASSUME NEW r \in Rows, BeginSaveRow(p, r)
          PROVE  OriginalSplits'
      <3>1. PICK d \in Data : Go(p, [op |-> "saveRow", row |-> r,
                                     obj |-> [data |-> d, split |-> rows[r].split]])
        BY <2>4 DEF BeginSaveRow
      <3>2. OriginalSplit(r, rows[r].split, born)
        BY <2>4 DEF BeginSaveRow, OriginalSplits
      <3>. QED
        BY <1>1, <2>0, <2>4, <3>1, <3>2 DEF BeginSaveRow, history, Agrees
    <2>5. CASE SaveRow(p)
      <3>1. processes[p].row \in Rows /\ processes[p].obj \in Row
        BY <2>0, <2>5, ProcessShape DEF SaveRow, At
      <3>2. OriginalSplit(processes[p].row, processes[p].obj.split, born)
        BY <2>0, <2>5 DEF SaveRow, At, Agrees
      <3>3. Agrees(Idle, born)
        BY <1>2 DEF Idle
      <3>4. CASE status = "GONE"
        BY <1>1, <2>0, <2>5, <3>3, <3>4 DEF SaveRow, history
      <3>5. CASE status # "GONE"
        BY <1>6, <2>0, <2>5, <3>1, <3>2, <3>3, <3>5 DEF SaveRow, history
      <3>. QED
        BY <3>4, <3>5
    <2>6. CASE BeginSaveUpload(p)
      BY <1>1, <1>2, <2>0, <2>6 DEF BeginSaveUpload, history
    <2>7. CASE SaveUpload(p)
      BY <1>1, <1>2, <2>0, <2>7 DEF SaveUpload, history, Idle
    <2>8. CASE Sum3(p)
      <3>1. \A r \in Labor : born[r] # Absent /\ SplitOf(born[r]).s3 # 0
        BY DEF Labor, Classified, OriginalSplits, OriginalSplit
      <3>. QED
        BY <1>1, <2>0, <2>8, <3>1 DEF Sum3, history, Agrees
    <2>. QED
      BY <1>7, <1>8, <2>0, <2>1, <2>2, <2>3, <2>4, <2>5, <2>6, <2>7, <2>8 DEF Serve
  <1>9. ASSUME NEW w \in Workers, Take(w)
        PROVE  OriginalSplits'
    BY <1>1, <1>2, <1>9 DEF Take, history, Procs
  <1>10. ASSUME NEW p \in Procs, Die(p)
         PROVE  OriginalSplits'
    BY <1>1, <1>2, <1>10 DEF Die, history, Idle
  <1>11. CASE (\E r \in Rows : DeleteRow(r)) \/ DeleteUpload
    <2>1. \A k \in Rows : rows'[k] \in {rows[k], Absent}
      BY <1>0, <1>11 DEF DeleteRow, DeleteUpload
    <2>2. UNCHANGED <<processes, born>>
      BY <1>11 DEF DeleteRow, DeleteUpload, history
    <2>. QED
      BY <2>1, <2>2 DEF OriginalSplits
  <1>12. CASE SaveGosi \/ UNCHANGED vars
    BY <1>12 DEF SaveGosi, vars, history, OriginalSplits
  <1>13. \A w \in Workers : w \in Procs
    BY DEF Procs
  <1>. QED
    BY <1>7, <1>8, <1>9, <1>10, <1>11, <1>12, <1>13 DEF Next, Work, Procs

(* A report never counts an employee's pay in both sections, however the   *)
(* parses, edits, deletes and crashes fall between its two queries         *)
(* (reports/services.py:58-60).                                            *)
THEOREM NoDoubleCount == Spec => []NeverCountedTwice
  <1>1. Init => OriginalSplits
    BY DEF Init, OriginalSplits, Agrees, Idle, Procs
  <1>2. TypeOK /\ OriginalSplits => NeverCountedTwice
    <2> SUFFICES ASSUME TypeOK, OriginalSplits, NEW p \in Requests, At(p, "sum6"),
                        NEW r \in processes[p].labor, r \in Training
                 PROVE  FALSE
      BY DEF NeverCountedTwice
    <2>1. r \in Rows /\ rows[r] # Absent /\ rows[r].split # Null /\ rows[r].split.s6 # 0
      BY DEF Training, Classified
    <2>2. born[r] \in Data /\ rows[r].split = SplitOf(born[r])
      BY <2>1 DEF OriginalSplits, OriginalSplit, TypeOK
    <2>3. SplitOf(born[r]).s3 # 0
      BY DEF OriginalSplits, Agrees, At, Procs
    <2>. QED
      BY <2>1, <2>2, <2>3, SplitExclusive
  <1>. QED
    BY <1>1, <1>2, OriginalStep, TypeCorrect, PTL DEF Spec
==============================================================================
