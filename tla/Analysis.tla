------------------------------ MODULE Analysis ------------------------------
(***************************************************************************)
(* The analyses of a year that departments ask for: the mandatory-list and *)
(* threshold checks (apps/procurement), the ceiling of the trial balance   *)
(* (apps/finance) and the CAPEX summary (apps/capex).  An analysis is one  *)
(* or more queries, each a snapshot of its own, and what it concludes is   *)
(* stored or answered later: the rows may change between any two steps.    *)
(***************************************************************************)
EXTENDS Integers, Sequences, FiniteSetsExt

CONSTANTS
  Suppliers,        \* ids of Vendor rows
  ForeignSuppliers, \* those that classify_vendor calls FOREIGN
  Codes,            \* Etimad codes
  Percents,         \* LC scores and minimum percentages
  Accounts,         \* ids of TbAccountMapping rows of one trial balance
  Items,            \* ids of CapexItem rows
  Sums,             \* the amounts looked at
  Analysts,         \* web requests that may run at once
  MaxRuns,          \* bound: analyses begun
  MaxChanges,       \* bound: changes of the rows while an analysis runs
  Unset             \* a null column, or no row

ASSUME AnalysisAssumption ==
  /\ ForeignSuppliers \subseteq Suppliers
  /\ Percents \subseteq Int /\ Sums \subseteq Int
  /\ MaxRuns \in Nat /\ MaxChanges \in Nat
  /\ Unset \notin Percents
  /\ IsFiniteSet(Accounts) /\ IsFiniteSet(Items)

VARIABLES
  rows,       \* the rows the analyses read
  warnings,   \* ComplianceWarning, and which analysis raised it
  answers,    \* history: the figures told to a client
  analysts,   \* what each request does next
  during      \* history: what the rows have been during each analysis

analysisVars == <<rows, warnings, answers, analysts, during>>

(* What the analyses tell apart of the categories of an account: the       *)
(* exemptions, the depreciation, and the rest of the base.                 *)
Account == [category : {"BASE", "DEPRECIATION", "EXEMPT"}, amount : Sums]

CapexItem == [origin : {"LOCAL", "FOREIGN", ""}, amount : Sums]

(* "bought" holds what some invoice line of the year is of.                *)
RowsType ==
  [bought    : SUBSET (Suppliers \X Codes),
   score     : [Suppliers -> Percents \cup {Unset}],
   mandatory : SUBSET Codes,
   minimum   : [Codes -> Percents \cup {Unset}],
   accounts  : [Accounts -> Account \cup {Unset}],
   capex     : [Items -> CapexItem \cup {Unset}]]

Kinds == {"MANDATORY_FOREIGN", "THRESHOLD"}

Breach == [type : Kinds, code : Codes, supplier : Suppliers]

Free == [op |-> "free"]

(* A new year, of vendors without a score.                                 *)
NewYear ==
  [bought    |-> {},
   score     |-> [v \in Suppliers |-> Unset],
   mandatory |-> {},
   minimum   |-> [c \in Codes |-> Unset],
   accounts  |-> [a \in Accounts |-> Unset],
   capex     |-> [i \in Items |-> Unset]]

AnalysisInit ==
  /\ rows = NewYear
  /\ warnings = {} /\ answers = {}
  /\ analysts = [p \in Analysts |-> Free]
  /\ during = <<>>

Goes(p, work) == analysts' = [analysts EXCEPT ![p] = work]

Running == {analysts[p].run : p \in {p \in Analysts : analysts[p].op # "free"}}

(* An analysis begins, reads and goes on.                                  *)
NextRun == Len(during) + 1

BeginRun(p, work) ==
  /\ analysts[p] = Free /\ Len(during) < MaxRuns
  /\ during' = Append(during, {rows})
  /\ Goes(p, work)

-----------------------------------------------------------------------------
(* run_mandatory_checks *)

(* The thresholds of the year are read first, ...                          *)
BeginChecks(p) ==
  /\ BeginRun(p, [op |-> "lines", run |-> NextRun, minimum |-> rows.minimum])
  /\ UNCHANGED <<rows, warnings, answers>>

(* A vendor without a score is below any minimum.                          *)
Below(score, minimum) == minimum # Unset /\ (score = Unset \/ score < minimum)

(* Mutant: a foreign vendor is held to the minimum only.                   *)
BreachesByScore(minimum) ==
  {b \in Breach :
     /\ <<b.supplier, b.code>> \in rows.bought /\ b.code \in rows.mandatory
     /\ b.type = "THRESHOLD" /\ Below(rows.score[b.supplier], minimum[b.code])}

(* ... then the distinct lines with their vendors: what is bought from a   *)
(* foreign vendor is not held to a minimum.                                *)
Breaches(minimum) ==
  {b \in Breach :
     /\ <<b.supplier, b.code>> \in rows.bought /\ b.code \in rows.mandatory
     /\ IF b.supplier \in ForeignSuppliers
        THEN b.type = "MANDATORY_FOREIGN"
        ELSE b.type = "THRESHOLD" /\ Below(rows.score[b.supplier], minimum[b.code])}

ReadLines(p) ==
  LET a == analysts[p]
  IN /\ a.op = "lines"
     /\ Goes(p, [op |-> "warn", run |-> a.run, breaches |-> Breaches(a.minimum)])
     /\ UNCHANGED <<rows, warnings, answers, during>>

(* bulk_create: one statement, of all of them.  What an earlier run raised *)
(* stays.                                                                  *)
RaiseWarnings(p) ==
  LET a == analysts[p]
  IN /\ a.op = "warn"
     /\ warnings' = warnings \cup {[run |-> a.run, breach |-> b] : b \in a.breaches}
     /\ Goes(p, Free)
     /\ UNCHANGED <<rows, answers, during>>

-----------------------------------------------------------------------------
(* The ceiling of the trial balance, and the CAPEX summary *)

Total(table, ids) == MapThenSumSet(LAMBDA i : table[i].amount, ids)

Mapped(category) ==
  {a \in Accounts : rows.accounts[a] # Unset /\ rows.accounts[a].category = category}

(* Mutant: the exemptions are left out of the base, not taken off it.      *)
CeilingNotExempt ==
  Total(rows.accounts, Mapped("BASE") \cup Mapped("DEPRECIATION"))

(* compute_ceiling: base minus statutory exemptions.                       *)
Ceiling ==
  Total(rows.accounts, Mapped("BASE") \cup Mapped("DEPRECIATION"))
    - Total(rows.accounts, Mapped("EXEMPT"))

(* The mappings prefetched with the trial balance, ...                     *)
BeginCeiling(p) ==
  /\ BeginRun(p, [op |-> "depreciation", run |-> NextRun, ceiling |-> Ceiling])
  /\ UNCHANGED <<rows, warnings, answers>>

(* ... and depreciation_from_tb's own query of them.                       *)
AnswerCeiling(p) ==
  LET a == analysts[p]
  IN /\ a.op = "depreciation"
     /\ answers' = answers \cup
          {[run |-> a.run, of |-> "ceiling", whole |-> a.ceiling,
            part |-> Total(rows.accounts, Mapped("DEPRECIATION"))]}
     /\ Goes(p, Free)
     /\ UNCHANGED <<rows, warnings, during>>

(* aggregate_capex: the locally eligible part is of LOCAL origin; an item  *)
(* may have no origin.                                                     *)
AnswerCapex(p) ==
  LET present == {i \in Items : rows.capex[i] # Unset}
  IN /\ BeginRun(p, Free)
     /\ answers' = answers \cup
          {[run |-> NextRun, of |-> "capex", whole |-> Total(rows.capex, present),
            part |-> Total(rows.capex, {i \in present : rows.capex[i].origin = "LOCAL"})]}
     /\ UNCHANGED <<rows, warnings>>

-----------------------------------------------------------------------------
(* What changes the rows meanwhile *)

(* The bounds: rows change while an analysis runs or one is still to come. *)
Change ==
  /\ Len(during) < MaxRuns \/ Running # {}
  /\ \A n \in Running : Cardinality(during[n]) <= MaxChanges
  /\ during' = [n \in DOMAIN during |->
                  IF n \in Running THEN during[n] \cup {rows'} ELSE during[n]]
  /\ UNCHANGED <<warnings, answers, analysts>>

(* Invoice lines have no endpoint and no task of their own.                *)
ImportLine ==
  /\ \E bought \in SUBSET (Suppliers \X Codes) : rows' = [rows EXCEPT !.bought = bought]
  /\ Change

(* A certificate's fill, resolve_score or a PATCH (Whitelist).             *)
ScoreVendor(v) ==
  /\ \E s \in Percents \cup {Unset} :
       rows' = [rows EXCEPT !.score = [rows.score EXCEPT ![v] = s]]
  /\ Change

(* The seed command (SeedLoad) only ever lists a product as mandatory.     *)
SeedCommodity(c) ==
  /\ rows' = [rows EXCEPT !.mandatory = rows.mandatory \cup {c}]
  /\ Change

SeedThreshold(c) ==
  /\ \E s \in Percents : rows' = [rows EXCEPT !.minimum = [rows.minimum EXCEPT ![c] = s]]
  /\ Change

(* Mappings and items are created, edited and deleted.                     *)
MapAccount(a) ==
  /\ \E row \in Account \cup {Unset} :
       rows' = [rows EXCEPT !.accounts = [rows.accounts EXCEPT ![a] = row]]
  /\ Change

SaveItem(i) ==
  /\ \E row \in CapexItem \cup {Unset} :
       rows' = [rows EXCEPT !.capex = [rows.capex EXCEPT ![i] = row]]
  /\ Change

LoseRun(p) ==
  /\ analysts[p] # Free
  /\ Goes(p, Free)
  /\ UNCHANGED <<rows, warnings, answers, during>>

Analyse(p) ==
  \/ BeginChecks(p) \/ ReadLines(p) \/ RaiseWarnings(p)
  \/ BeginCeiling(p) \/ AnswerCeiling(p) \/ AnswerCapex(p)
  \/ LoseRun(p)

AnalysisNext ==
  \/ \E p \in Analysts : Analyse(p)
  \/ ImportLine
  \/ \E v \in Suppliers : ScoreVendor(v)
  \/ \E c \in Codes : SeedCommodity(c) \/ SeedThreshold(c)
  \/ \E a \in Accounts : MapAccount(a)
  \/ \E i \in Items : SaveItem(i)

AnalysisSpec == AnalysisInit /\ [][AnalysisNext]_analysisVars

-----------------------------------------------------------------------------
(* Properties *)

(* A mandatory product that is bought from a vendor.                       *)
Purchased(s, v, c) == <<v, c>> \in s.bought /\ c \in s.mandatory

(* The checks cry no wolf, though lines, scores and minimums change while  *)
(* they run: a warning is of a mandatory product bought at the time from a *)
(* foreign vendor, or from a local one below a minimum of that time; and   *)
(* never both (services.py:157-187).                                       *)
WarningsEarned ==
  \A w \in warnings :
    LET v == w.breach.supplier
        c == w.breach.code
    IN \E s \in during[w.run] :
         /\ Purchased(s, v, c)
         /\ w.breach.type = "MANDATORY_FOREIGN" <=> v \in ForeignSuppliers
         /\ w.breach.type = "THRESHOLD" =>
              \E t \in during[w.run] : Below(s.score[v], t.minimum[c])

(* And they miss nothing: what breaches the rules all the while is among   *)
(* what is warned of, whatever else changes (services.py:157-188).         *)
Missed(n, breaches) ==
  \E v \in Suppliers, c \in Codes :
    /\ \A s \in during[n] : Purchased(s, v, c)
    /\ \/ v \in ForeignSuppliers
       \/ \A s, t \in during[n] : Below(s.score[v], t.minimum[c])
    /\ \A b \in breaches : b.supplier # v \/ b.code # c

NothingMissed ==
  /\ \A p \in Analysts :
       analysts[p].op = "warn" => ~Missed(analysts[p].run, analysts[p].breaches)
  /\ \A w \in warnings :
       ~Missed(w.run, {x.breach : x \in {x \in warnings : x.run = w.run}})

ChecksSound == WarningsEarned /\ NothingMissed

Present(table) == {i \in DOMAIN table : table[i] # Unset}

(* What the rows come to when each counts as often as it weighs.           *)
Weighed(table, weight) ==
  Total([i \in Present(table) |-> [amount |-> weight[i] * table[i].amount]], Present(table))

(* A figure answered is one the rows had while it was asked for, an        *)
(* exemption counting against the ceiling and an item of no origin not as  *)
(* local; the two figures of a ceiling may be of different times           *)
(* (finance/services.py:88-117, capex/services.py:14-36).                  *)
AnswersEarned ==
  \A a \in answers : \E s, t \in during[a.run] :
    IF a.of = "ceiling"
    THEN /\ a.whole = Weighed(s.accounts, [i \in Present(s.accounts) |->
                        IF s.accounts[i].category = "EXEMPT" THEN -1 ELSE 1])
         /\ a.part = Weighed(t.accounts, [i \in Present(t.accounts) |->
                        IF t.accounts[i].category = "DEPRECIATION" THEN 1 ELSE 0])
    ELSE /\ s = t
         /\ a.whole - a.part = Weighed(s.capex, [i \in Present(s.capex) |->
                        IF s.capex[i].origin = "LOCAL" THEN 0 ELSE 1])
==============================================================================
