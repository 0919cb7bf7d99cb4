------------------------------- MODULE Payroll -------------------------------
(***************************************************************************)
(* One monthly payroll upload of apps/hr: the parse task and the status it *)
(* shares with the view, the Section 3 / Section 6 split of each row, the  *)
(* GOSI cross-check, and the report (apps/reports) that sums the sections. *)
(*                                                                         *)
(* Every ORM call commits on its own.  A parse runs in a Celery worker, or *)
(* inside the request when tasks are eager (config/settings/prod.py).  The *)
(* broker hands a task out once, before it runs, so a task that dies is    *)
(* lost.  The year is open here: YearClose has the lock.                   *)
(***************************************************************************)
EXTENDS Integers, Sequences, FiniteSets

CONSTANTS
  Rows,        \* ids of PayrollRow rows
  Grosses,     \* the values of basic + housing + transport + bonus
  File,        \* the lines of the payroll Excel
  Headcounts,  \* the sums of the GOSI certificates' headcounts
  Requests,    \* web requests that may run at once
  Workers,     \* Celery workers
  Modes,       \* the values of CELERY_TASK_ALWAYS_EAGER looked at
  Crashes,     \* whether a request or a worker may die
  Absent, Null

Data == [kind : {"REGULAR", "TRAINEE", "VACATION"}, gross : Grosses]

ASSUME PayrollAssumption ==
  /\ IsFiniteSet(Rows) /\ Grosses \subseteq Nat \ {0} /\ File \in Seq(Data)
  /\ Headcounts \subseteq Nat /\ Modes \subseteq BOOLEAN /\ Crashes \in BOOLEAN
  /\ Requests \cap Workers = {}

VARIABLES
  status,     \* HrMonthlyUpload.status, or "GONE" when the upload is deleted
  rows,       \* PayrollRow
  heads,      \* the sum of the upload's GosiCertificate headcounts
  queue,      \* parse tasks in the broker
  processes,  \* what each request and worker does next
  eager,      \* CELERY_TASK_ALWAYS_EAGER
  budget,     \* bound: how many rows the model may still create
  born,       \* history: the data each row was created with
  matched     \* history: some cross-check found the counts equal

vars == <<status, rows, heads, queue, processes, eager, budget, born, matched>>

upload  == <<status, heads>>
history == <<born, matched>>

-----------------------------------------------------------------------------
Statuses == {"PENDING", "PARSING", "PARSED", "GOSI_MISMATCH"}

Split == [s3 : Grosses \cup {0}, s6 : Grosses \cup {0}]

Row == [data : Data, split : Split \cup {Null}]

ASSUME NullAssumption == Null \notin Split /\ Absent \notin Row \cup Data

Idle == [op |-> "idle"]

(* Who inserts a row, or runs the task: a POST, a worker, or a request     *)
(* that runs the task inline.                                              *)
Jobs == {"post", "worker", "inline"}

Process ==
       {Idle}
  \cup [op : {"saveParsing"}]
  \cup [op : {"open", "count"}, job : Jobs]
  \cup [op : {"insert"}, data : Data, line : Nat, job : Jobs]
  \cup [op : {"classify"}, row : Rows, data : Data, line : Nat, job : Jobs]
  \cup [op : {"compare"}, rowCount : Nat, job : Jobs]
  \cup [op : {"saveStatus"}, verdict : Statuses, job : Jobs]
  \cup [op : {"saveRow"}, row : Rows, obj : Row]
  \cup [op : {"saveUpload"}, verdict : Statuses]
  \cup [op : {"sum6"}, labor : SUBSET Rows]

TypeOK ==
  /\ status \in Statuses \cup {"GONE"}
  /\ rows \in [Rows -> Row \cup {Absent}]
  /\ status = "GONE" => \A r \in Rows : rows[r] = Absent
  /\ heads \in Headcounts \cup {0}
  /\ queue \in Nat
  /\ processes \in [Requests \cup Workers -> Process]
  /\ eager \in BOOLEAN
  /\ budget \in Int
  /\ born \in [Rows -> Data \cup {Absent}]
  /\ matched \in BOOLEAN

Init ==
  /\ status = "PENDING" /\ heads = 0
  /\ rows = [r \in Rows |-> Absent]
  /\ queue = 0
  /\ processes = [p \in Requests \cup Workers |-> Idle]
  /\ eager \in Modes
  /\ budget = Cardinality(Rows)
  /\ born = [r \in Rows |-> Absent] /\ matched = FALSE

Go(p, next) == processes' = [processes EXCEPT ![p] = next]

At(p, op) == processes[p].op = op

(* Where a task's end leads: an eager task returns to the view.  A task    *)
(* that fails ends as well: Celery keeps its exception.                    *)
TaskEnds(p) ==
  Go(p, IF processes[p].job = "inline" THEN [op |-> "saveParsing"] ELSE Idle)

-----------------------------------------------------------------------------
(* HrUploadViewSet.parse: the task is handed over first, and PARSING is    *)
(* saved afterwards.                                                       *)
BeginParse(p) ==
  /\ At(p, "idle") /\ status # "GONE" /\ budget >= Len(File)
  /\ budget' = budget - Len(File)
  /\ IF eager
     THEN Go(p, [op |-> "open", job |-> "inline"]) /\ UNCHANGED queue
     ELSE Go(p, [op |-> "saveParsing"]) /\ queue' = queue + 1
  /\ UNCHANGED <<upload, rows, eager, history>>

(* save(update_fields=["status"]) of a deleted upload is an error.         *)
SaveParsing(p) ==
  /\ At(p, "saveParsing")
  /\ status' = IF status = "GONE" THEN "GONE" ELSE "PARSING"
  /\ Go(p, Idle)
  /\ UNCHANGED <<heads, rows, queue, eager, budget, history>>

Take(w) ==
  /\ At(w, "idle") /\ queue > 0
  /\ queue' = queue - 1
  /\ Go(w, [op |-> "open", job |-> "worker"])
  /\ UNCHANGED <<upload, rows, eager, budget, history>>

(***************************************************************************)
(* parse_payroll_upload: get the upload and read its file, which may fail; *)
(* for each line insert a row and save its split; cross-check; save the    *)
(* verdict.                                                                *)
(***************************************************************************)
NextLine(p, line, job) ==
  Go(p, IF line > Len(File) THEN [op |-> "count", job |-> job]
        ELSE [op |-> "insert", data |-> File[line], line |-> line, job |-> job])

Open(p) ==
  /\ At(p, "open")
  /\ \/ status # "GONE" /\ NextLine(p, 1, processes[p].job)
     \/ TaskEnds(p)
  /\ UNCHANGED <<upload, rows, queue, eager, budget, history>>

(* PayrollRow.objects.create.                                              *)
Create(p, data, line, job) ==
  \E r \in Rows :
    /\ born[r] = Absent
    /\ born' = [born EXCEPT ![r] = data]
    /\ rows' = [rows EXCEPT ![r] = [data |-> data, split |-> Null]]
    /\ Go(p, [op |-> "classify", row |-> r, data |-> data, line |-> line, job |-> job])

(* Without its upload the INSERT is an IntegrityError.                     *)
Insert(p) ==
  /\ At(p, "insert")
  /\ IF status = "GONE"
     THEN TaskEnds(p) /\ UNCHANGED <<rows, born>>
     ELSE Create(p, processes[p].data, processes[p].line, processes[p].job)
  /\ UNCHANGED <<upload, queue, eager, budget, matched>>

SplitOf(d) ==
  [s3 |-> IF d.kind = "REGULAR" THEN d.gross ELSE 0,
   s6 |-> IF d.kind = "TRAINEE" THEN d.gross ELSE 0]

(* apply_classification of the row in memory; save(update_fields=...) of a *)
(* row deleted meanwhile is an error.                                      *)
Classify(p) ==
  /\ At(p, "classify")
  /\ LET c == processes[p]
     IN IF rows[c.row] = Absent
        THEN TaskEnds(p) /\ UNCHANGED rows
        ELSE /\ rows' = [rows EXCEPT ![c.row].split = SplitOf(c.data)]
             /\ IF c.job = "post" THEN Go(p, Idle) ELSE NextLine(p, c.line + 1, c.job)
  /\ UNCHANGED <<upload, queue, eager, budget, history>>

(* gosi_cross_check: the rows are counted by one query and the headcounts  *)
(* read by the next.                                                       *)
Count(p) ==
  /\ At(p, "count")
  /\ Go(p, [op |-> "compare", job |-> processes[p].job,
            rowCount |-> Cardinality({r \in Rows : rows[r] # Absent})])
  /\ UNCHANGED <<upload, rows, queue, eager, budget, history>>

Compare(p) ==
  /\ At(p, "compare")
  /\ LET match == processes[p].rowCount = heads
     IN /\ Go(p, [op |-> "saveStatus", job |-> processes[p].job,
                  verdict |-> IF match THEN "PARSED" ELSE "GOSI_MISMATCH"])
        /\ matched' = (matched \/ match)
  /\ UNCHANGED <<upload, rows, queue, eager, budget, born>>

(* Mutant: the task retries for ever on a DatabaseError.                   *)
SaveStatusRetried(p) ==
  /\ At(p, "saveStatus") /\ status # "GONE"
  /\ status' = processes[p].verdict
  /\ TaskEnds(p)
  /\ UNCHANGED <<heads, rows, queue, eager, budget, history>>

SaveStatus(p) ==
  /\ At(p, "saveStatus")
  /\ status' = IF status = "GONE" THEN "GONE" ELSE processes[p].verdict
  /\ TaskEnds(p)
  /\ UNCHANGED <<heads, rows, queue, eager, budget, history>>

-----------------------------------------------------------------------------
(* POST of a row: inserted, then classified.                               *)
PostRow(p) ==
  /\ At(p, "idle") /\ status # "GONE" /\ budget > 0
  /\ \E d \in Data : Create(p, d, 0, "post")
  /\ budget' = budget - 1
  /\ UNCHANGED <<upload, queue, eager, matched>>

(* PUT and PATCH of a row: the split is read-only, so it is saved back as  *)
(* it was fetched, and nothing is classified.                              *)
BeginSaveRow(p, r) ==
  /\ At(p, "idle") /\ rows[r] # Absent
  /\ \E d \in Data : Go(p, [op |-> "saveRow", row |-> r,
                            obj |-> [data |-> d, split |-> rows[r].split]])
  /\ UNCHANGED <<upload, rows, queue, eager, budget, history>>

(* Mutant: perform_update classifies the row again.                        *)
SaveRowClassified(p) ==
  /\ At(p, "saveRow")
  /\ rows' = IF status = "GONE" THEN rows
             ELSE [rows EXCEPT ![processes[p].row] =
                     [data |-> processes[p].obj.data,
                      split |-> SplitOf(processes[p].obj.data)]]
  /\ Go(p, Idle)
  /\ UNCHANGED <<upload, queue, eager, budget, history>>

(* A full save is an UPDATE, or an INSERT when the row was deleted.        *)
SaveRow(p) ==
  /\ At(p, "saveRow")
  /\ rows' = IF status = "GONE" THEN rows
             ELSE [rows EXCEPT ![processes[p].row] = processes[p].obj]
  /\ Go(p, Idle)
  /\ UNCHANGED <<upload, queue, eager, budget, history>>

DeleteRow(r) ==
  /\ rows[r] # Absent
  /\ rows' = [rows EXCEPT ![r] = Absent]
  /\ UNCHANGED <<upload, queue, processes, eager, budget, history>>

(* Mutant: status is missing from read_only_fields.                        *)
BeginSaveUploadWritable(p) ==
  /\ At(p, "idle") /\ status # "GONE"
  /\ \E s \in Statuses : Go(p, [op |-> "saveUpload", verdict |-> s])
  /\ UNCHANGED <<upload, rows, queue, eager, budget, history>>

(* PUT and PATCH of the upload save its read-only status back as fetched.  *)
BeginSaveUpload(p) ==
  /\ At(p, "idle") /\ status # "GONE"
  /\ Go(p, [op |-> "saveUpload", verdict |-> status])
  /\ UNCHANGED <<upload, rows, queue, eager, budget, history>>

SaveUpload(p) ==
  /\ At(p, "saveUpload")
  /\ status' = processes[p].verdict
  /\ Go(p, Idle)
  /\ UNCHANGED <<heads, rows, queue, eager, budget, history>>

(* Mutant: the rows' foreign key does not cascade.                         *)
DeleteUploadOnly ==
  /\ status # "GONE"
  /\ status' = "GONE" /\ heads' = 0
  /\ UNCHANGED <<rows, queue, processes, eager, budget, history>>

DeleteUpload ==
  /\ status # "GONE"
  /\ status' = "GONE" /\ heads' = 0
  /\ rows' = [r \in Rows |-> Absent]
  /\ UNCHANGED <<queue, processes, eager, budget, history>>

(* Any POST, PATCH or DELETE of the upload's GOSI certificates.            *)
SaveGosi ==
  /\ status # "GONE"
  /\ heads' \in Headcounts
  /\ UNCHANGED <<status, rows, queue, processes, eager, budget, history>>

-----------------------------------------------------------------------------
(* assemble_score: the payroll is queried once for Section 3, and again    *)
(* for Section 6; the score is what the two queries counted.               *)
Classified == {r \in Rows : rows[r] # Absent /\ rows[r].split # Null}

Labor    == {r \in Classified : rows[r].split.s3 # 0}
Training == {r \in Classified : rows[r].split.s6 # 0}

Sum3(p) ==
  /\ At(p, "idle")
  /\ Go(p, [op |-> "sum6", labor |-> Labor])
  /\ UNCHANGED <<upload, rows, queue, eager, budget, history>>

Sum6(p) ==
  /\ At(p, "sum6")
  /\ Go(p, Idle)
  /\ UNCHANGED <<upload, rows, queue, eager, budget, history>>

(* A worker's task, or a request, dies between two commits.                *)
Die(p) ==
  /\ Crashes /\ processes[p] # Idle
  /\ Go(p, Idle)
  /\ UNCHANGED <<upload, rows, queue, eager, budget, history>>

-----------------------------------------------------------------------------
TaskStep(p) ==
  \/ Open(p) \/ Insert(p) \/ Classify(p) \/ Count(p) \/ Compare(p) \/ SaveStatus(p)

Work(w) == Take(w) \/ TaskStep(w)

Serve(p) ==
  \/ BeginParse(p) \/ SaveParsing(p) \/ TaskStep(p)
  \/ PostRow(p) \/ (\E r \in Rows : BeginSaveRow(p, r)) \/ SaveRow(p)
  \/ BeginSaveUpload(p) \/ SaveUpload(p)
  \/ Sum3(p) \/ Sum6(p)

Next ==
  \/ \E p \in Requests : Serve(p)
  \/ \E w \in Workers : Work(w)
  \/ \E p \in Requests \cup Workers : Die(p)
  \/ \E r \in Rows : DeleteRow(r)
  \/ DeleteUpload \/ SaveGosi

(* A worker takes what is in the broker and goes on with its task; clients *)
(* need not do anything.                                                   *)
Fairness == \A w \in Workers : WF_vars(Work(w))

Spec == Init /\ [][Next]_vars /\ Fairness

-----------------------------------------------------------------------------
(* Properties *)

(* A score never counts an employee's pay in Section 3 and in Section 6,   *)
(* although it reads the two sections at different times, between which    *)
(* rows are parsed, edited and deleted (hr/services.py:9,                  *)
(* reports/services.py:58-60).                                             *)
NeverCountedTwice ==
  \A p \in Requests : At(p, "sum6") => processes[p].labor \cap Training = {}

(* An upload is PARSED only if a cross-check found as many rows as heads,  *)
(* whatever stale status a PATCH saves back (hr/tasks.py:78-80).           *)
VerdictEarned ==
  /\ status = "PARSED" => matched
  /\ \A p \in Requests \cup Workers :
       processes[p].op \in {"saveStatus", "saveUpload"} =>
         (processes[p].verdict = "PARSED" => matched)

(* A parse that was accepted is taken by a worker and ends: with a verdict, *)
(* an error or a crash, but never left in the broker (hr/views.py:31).      *)
ParsesEnd ==
  /\ queue > 0 ~> queue = 0
  /\ \A w \in Workers : processes[w] # Idle ~> processes[w] = Idle
==============================================================================
