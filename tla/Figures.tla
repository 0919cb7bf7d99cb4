------------------------------ MODULE Figures ------------------------------
(***************************************************************************)
(* The figures Finance keeps of an open year: the monthly soft closes, the *)
(* asset register and the trial balance (apps/finance, apps/assets), and   *)
(* the vendor spends the Top-40 run adds up (apps/procurement).            *)
(*                                                                         *)
(* A soft close and an asset are inserted by one commit and completed by a *)
(* second one, which writes the derived columns only; an edit saves every  *)
(* column as it was fetched, and inserts the row anew when it was deleted  *)
(* meanwhile.                                                              *)
(***************************************************************************)
EXTENDS Scoring, Lists

CONSTANTS
  Closes,      \* ids of MonthlySoftClose rows of one month
  Assets,      \* ids of Asset rows of one register
  Amounts,     \* the totals looked at
  Requests,    \* web requests that may run at once
  Absent, Gone, Null

ASSUME FiguresAssumption == Amounts \subseteq Int

VARIABLES
  actual,      \* what the month's payroll rows and invoices add up to
  closes,      \* MonthlySoftClose
  assets,      \* Asset
  requests,    \* what each request still has to do
  typed,       \* history: the totals each soft close was created with
  since,       \* history: what "actual" has been since it was created
  unsettled    \* history: assets being created, cut off there, or edited

figureVars == <<actual, closes, assets, requests, typed, since, unsettled>>

Totals == [hr : Amounts, proc : Amounts]

(* within_tolerance's second result, as a ratio.                           *)
Variance(a, b) == <<Abs(a - b), Larger(Abs(a), Abs(b))>>

Variances == {Variance(a, b) : a, b \in Amounts}

SoftClose == [totals : Totals, hr : Variances \cup {Null}, proc : Variances \cup {Null}]

Asset == [ksa : BOOLEAN, included : BOOLEAN, depreciation : Amounts]

ASSUME MarkersAssumption ==
  /\ Absent # Gone /\ {Absent, Gone} \cap (SoftClose \cup Asset) = {}
  /\ Null \notin Variances /\ Absent \notin Totals

Idle == [op |-> "idle"]

Request ==
       {Idle}
  \cup [op : {"hr"}, id : Closes, totals : Totals]
  \cup [op : {"proc"}, id : Closes, totals : Totals, hr : Variances]
  \cup [op : {"variances"}, id : Closes, hr : Variances, proc : Variances]
  \cup [op : {"apply"}, id : Assets, ksa : BOOLEAN]
  \cup [op : {"patchClose"}, id : Closes, row : SoftClose]
  \cup [op : {"patchAsset"}, id : Assets, row : Asset]

FiguresTypeOK ==
  /\ actual \in Totals
  /\ closes \in [Closes -> SoftClose \cup {Absent, Gone}]
  /\ assets \in [Assets -> Asset \cup {Absent, Gone}]
  /\ requests \in [Requests -> Request]
  /\ typed \in [Closes -> Totals \cup {Absent}]
  /\ since \in [Closes -> SUBSET Totals]
  /\ unsettled \subseteq Assets

Go(p, next) == requests' = [requests EXCEPT ![p] = next]

At(p, op) == requests[p].op = op

There(row) == row \notin {Absent, Gone}

-----------------------------------------------------------------------------
(* Soft closes *)

(* HR and Procurement change the month's rows (modelled in YearClose).     *)
Upload ==
  /\ actual' \in Totals \ {actual}
  /\ since' = [s \in Closes |-> IF since[s] = {} THEN {} ELSE since[s] \cup {actual'}]
  /\ UNCHANGED <<closes, assets, requests, typed, unsettled>>

(* perform_create's insert.                                                *)
CreateClose(p, s) ==
  /\ requests[p] = Idle /\ closes[s] = Absent
  /\ \E totals \in Totals :
       /\ closes' = [closes EXCEPT ![s] = [totals |-> totals, hr |-> Null, proc |-> Null]]
       /\ typed' = [typed EXCEPT ![s] = totals]
       /\ Go(p, [op |-> "hr", id |-> s, totals |-> totals])
  /\ since' = [since EXCEPT ![s] = {actual}]
  /\ UNCHANGED <<actual, assets, unsettled>>

(* Mutant: the typed purchases are compared with the payroll.              *)
ReadHrCrossed(p) ==
  LET r == requests[p]
  IN /\ At(p, "hr")
     /\ Go(p, [op |-> "proc", id |-> r.id, totals |-> r.totals,
               hr |-> Variance(r.totals.proc, actual.hr)])
     /\ UNCHANGED <<actual, closes, assets, typed, since, unsettled>>

(* run_monthly_reconciliation reads the payroll, ...                       *)
ReadHr(p) ==
  LET r == requests[p]
  IN /\ At(p, "hr")
     /\ Go(p, [op |-> "proc", id |-> r.id, totals |-> r.totals,
               hr |-> Variance(r.totals.hr, actual.hr)])
     /\ UNCHANGED <<actual, closes, assets, typed, since, unsettled>>

(* ... then the invoices, ...                                              *)
ReadProc(p) ==
  LET r == requests[p]
  IN /\ At(p, "proc")
     /\ Go(p, [op |-> "variances", id |-> r.id, hr |-> r.hr,
               proc |-> Variance(r.totals.proc, actual.proc)])
     /\ UNCHANGED <<actual, closes, assets, typed, since, unsettled>>

(* ... and saves both variances, which fails when the row was deleted.     *)
SaveVariances(p) ==
  LET r == requests[p]
  IN /\ At(p, "variances")
     /\ closes' = IF closes[r.id] = Gone THEN closes
                  ELSE [closes EXCEPT ![r.id] = [totals |-> closes[r.id].totals,
                                                 hr |-> r.hr, proc |-> r.proc]]
     /\ Go(p, Idle)
     /\ UNCHANGED <<actual, assets, typed, since, unsettled>>

BeginPatchClose(p, s) ==
  /\ requests[p] = Idle /\ There(closes[s])
  /\ Go(p, [op |-> "patchClose", id |-> s, row |-> closes[s]])
  /\ UNCHANGED <<actual, closes, assets, typed, since, unsettled>>

(* The variances are read-only and not computed again.                     *)
SavePatchClose(p) ==
  /\ At(p, "patchClose")
  /\ \E totals \in Totals :
       LET row == requests[p].row
       IN  closes' = [closes EXCEPT ![requests[p].id] =
                        [totals |-> totals, hr |-> row.hr, proc |-> row.proc]]
  /\ Go(p, Idle)
  /\ UNCHANGED <<actual, assets, typed, since, unsettled>>

DeleteClose(s) ==
  /\ There(closes[s])
  /\ closes' = [closes EXCEPT ![s] = Gone]
  /\ UNCHANGED <<actual, assets, requests, typed, since, unsettled>>

-----------------------------------------------------------------------------
(* Assets *)

CreateAsset(p, a) ==
  /\ requests[p] = Idle /\ assets[a] = Absent
  /\ \E ksa \in BOOLEAN, amount \in Amounts :
       /\ assets' = [assets EXCEPT ![a] = [ksa |-> ksa, included |-> TRUE, depreciation |-> amount]]
       /\ Go(p, [op |-> "apply", id |-> a, ksa |-> ksa])
  /\ unsettled' = unsettled \cup {a}
  /\ UNCHANGED <<actual, closes, typed, since>>

(* Mutant: the row is saved as it was, without the rule.                   *)
ApplyDefault(p) ==
  LET a == requests[p].id
  IN /\ At(p, "apply")
     /\ IF assets[a] = Gone THEN UNCHANGED <<assets, unsettled>>
        ELSE /\ assets' = [assets EXCEPT ![a].included = TRUE]
             /\ unsettled' = IF assets[a].ksa = requests[p].ksa THEN unsettled \ {a} ELSE unsettled
     /\ Go(p, Idle)
     /\ UNCHANGED <<actual, closes, typed, since>>

(* apply_in_kingdom_rule, on the asset as it was created.                  *)
Apply(p) ==
  LET a == requests[p].id
  IN /\ At(p, "apply")
     /\ IF assets[a] = Gone THEN UNCHANGED <<assets, unsettled>>
        ELSE /\ assets' = [assets EXCEPT ![a] = [assets[a] EXCEPT !.included = requests[p].ksa]]
             /\ unsettled' = IF assets[a].ksa = requests[p].ksa THEN unsettled \ {a} ELSE unsettled
     /\ Go(p, Idle)
     /\ UNCHANGED <<actual, closes, typed, since>>

BeginPatchAsset(p, a) ==
  /\ requests[p] = Idle /\ There(assets[a])
  /\ Go(p, [op |-> "patchAsset", id |-> a, row |-> assets[a]])
  /\ UNCHANGED <<actual, closes, assets, typed, since, unsettled>>

(* included_in_score is read-only, and the rule is not applied again.      *)
SavePatchAsset(p) ==
  /\ At(p, "patchAsset")
  /\ \E ksa \in BOOLEAN, amount \in Amounts :
       assets' = [assets EXCEPT ![requests[p].id] =
                    [ksa |-> ksa, included |-> requests[p].row.included, depreciation |-> amount]]
  /\ unsettled' = unsettled \cup {requests[p].id}
  /\ Go(p, Idle)
  /\ UNCHANGED <<actual, closes, typed, since>>

DeleteAsset(a) ==
  /\ There(assets[a])
  /\ assets' = [assets EXCEPT ![a] = Gone]
  /\ UNCHANGED <<actual, closes, requests, typed, since, unsettled>>

Die(p) ==
  /\ requests[p] # Idle
  /\ Go(p, Idle)
  /\ UNCHANGED <<actual, closes, assets, typed, since, unsettled>>

-----------------------------------------------------------------------------
(* What is computed from the rows *)

(* register_depreciation_total: what the score counts.                     *)
RegisterDepreciation ==
  MapThenSumSet(LAMBDA a : assets[a].depreciation,
                {a \in Assets : There(assets[a]) /\ assets[a].included})

NetSpend(invoices, ids) == MapThenSumSet(LAMBDA k : invoices[k].net, ids)

(* run_top40: the net spend of each vendor, the vendors in the order of    *)
(* their first invoice.                                                    *)
VendorSpends(invoices) ==
  LET first == InOrder({k \in DOMAIN invoices :
                          \A j \in 1..(k - 1) : invoices[j].vendor # invoices[k].vendor})
  IN  [h \in DOMAIN first |->
         LET v == invoices[first[h]].vendor
         IN  [vendor |-> v,
              spend  |-> NetSpend(invoices, {k \in DOMAIN invoices : invoices[k].vendor = v})]]

-----------------------------------------------------------------------------
FiguresInit ==
  /\ actual \in Totals
  /\ closes = [s \in Closes |-> Absent]
  /\ assets = [a \in Assets |-> Absent]
  /\ requests = [p \in Requests |-> Idle]
  /\ typed = [s \in Closes |-> Absent]
  /\ since = [s \in Closes |-> {}]
  /\ unsettled = {}

Handle(p) ==
  \/ \E s \in Closes : CreateClose(p, s) \/ BeginPatchClose(p, s)
  \/ ReadHr(p) \/ ReadProc(p) \/ SaveVariances(p) \/ SavePatchClose(p)
  \/ \E a \in Assets : CreateAsset(p, a) \/ BeginPatchAsset(p, a)
  \/ Apply(p) \/ SavePatchAsset(p)
  \/ Die(p)

FiguresNext ==
  \/ Upload
  \/ \E p \in Requests : Handle(p)
  \/ \E s \in Closes : DeleteClose(s)
  \/ \E a \in Assets : DeleteAsset(a)

FiguresSpec == FiguresInit /\ [][FiguresNext]_figureVars

-----------------------------------------------------------------------------
(* Properties *)

(* The variances of a soft close come together, and are those of the       *)
(* totals it was created with and of what the uploads added up to at some  *)
(* time since, through edits, deletions and crashes (finance/views.py:38,  *)
(* services.py:69-81).                                                     *)
VarianceEarned ==
  \A s \in Closes : There(closes[s]) =>
    LET row == closes[s]
    IN /\ row.hr = Null <=> row.proc = Null
       /\ row.hr # Null =>
            /\ \E t \in since[s] : row.hr = Variance(typed[s].hr, t.hr)
            /\ \E t \in since[s] : row.proc = Variance(typed[s].proc, t.proc)

(* The depreciation that counts toward the score is that of the assets     *)
(* that operate in the Kingdom, once the creation of each has ended and    *)
(* while none was edited (assets/views.py:43-45, services.py:29-33).       *)
KingdomOnly ==
  LET present == {a \in Assets : There(assets[a])}
  IN  present \cap unsettled = {} =>
        RegisterDepreciation =
          MapThenSumSet(LAMBDA a : assets[a].depreciation, {a \in present : assets[a].ksa})
==============================================================================
