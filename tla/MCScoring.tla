------------------------------ MODULE MCScoring ------------------------------
(***************************************************************************)
(* The figures of a year, its analyses and the copilot.  Soft closes,      *)
(* assets and conversations are worked on by several requests at once;     *)
(* rows change while a year is analysed; and the pure functions are        *)
(* compared with reference definitions, over every list of up to           *)
(* MaxInvoices invoices with nets in Spends (credit notes are negative),   *)
(* every pair of reconciled figures, and every text of up to MaxText       *)
(* characters.                                                             *)
(***************************************************************************)
EXTENDS Figures, Copilot, Analysis, TLC

CONSTANTS Spends, Compared, MaxInvoices, MaxText, p1, p2, u1, m1, x1, x2, v1, v2, b1, b2, i1, i2, g1, g2

ASSUME ComparedAssumption == Compared \subseteq Int /\ Spends \subseteq Int

SmallFigures == -42 .. 42
SomeSpends   == {-5, 0, 1, 3, 7, 10}
TwoAmounts   == {3, 4}
TwoSums      == {-1, 2}
Alike        == Permutations({p1, p2}) \cup Permutations({b1, b2}) \cup Permutations({i1, i2})

(* A Master Admin and a user of one of two tenants.                        *)
Tenancy == [u \in {m1, u1} |-> IF u = m1 THEN Nobody ELSE x1]

VARIABLES
  invoices,  \* what run_top40 reads
  compared,  \* the arguments of within_tolerance
  text       \* the arguments of chunk_text

inputs == <<invoices, compared, text>>

vars == <<figureVars, copilotVars, analysisVars, inputs>>

NoInput == <<<<>>, <<0, 0>>, <<>>>>

(* Every other role is assigned from here.                                 *)
Unasked == CopilotInit /\ \A u \in People : role[u] \in {"MASTER_ADMIN", "HR_ADMIN"}

Init ==
  /\ FiguresInit /\ Unasked /\ AnalysisInit
  /\ invoices = <<>> /\ compared = <<0, 0>> /\ text = <<>>

NoCloses == closes = [s \in Closes |-> Absent]
NoAssets == assets = [a \in Assets |-> Absent]

(* The tables share nothing: a behaviour has rows in one of them, or is    *)
(* one of the copilot or of one function's arguments.                      *)
Work ==
  /\ inputs = NoInput /\ Unasked /\ AnalysisInit
  /\ FiguresNext /\ (NoCloses' \/ NoAssets')
  /\ UNCHANGED <<copilotVars, analysisVars, inputs>>

NoFigures == NoCloses /\ NoAssets /\ actual = CHOOSE totals \in Totals : TRUE

Chat ==
  /\ inputs = NoInput /\ NoFigures /\ AnalysisInit
  /\ CopilotNext
  /\ UNCHANGED <<figureVars, analysisVars, inputs>>

(* The rows of one kind of analysis.                                       *)
OneTable ==
  \/ rows = [NewYear EXCEPT !.accounts = rows.accounts]
  \/ rows = [NewYear EXCEPT !.capex = rows.capex]
  \/ rows.accounts = NewYear.accounts /\ rows.capex = NewYear.capex

Study ==
  /\ inputs = NoInput /\ NoFigures /\ Unasked
  /\ AnalysisNext /\ OneTable'
  /\ UNCHANGED <<figureVars, copilotVars, inputs>>

Untouched == NoFigures /\ Unasked /\ AnalysisInit

(* Vendors are named in the order they appear in.                          *)
AddInvoice ==
  /\ Untouched /\ Len(invoices) < MaxInvoices
  /\ inputs = [NoInput EXCEPT ![1] = invoices]
  /\ \E net \in Spends, vendor \in 1..(Cardinality({invoices[k].vendor : k \in DOMAIN invoices}) + 1) :
       invoices' = Append(invoices, [vendor |-> vendor, net |-> net])
  /\ UNCHANGED <<figureVars, copilotVars, analysisVars, compared, text>>

Compare ==
  /\ Untouched /\ inputs = NoInput
  /\ \E a, b \in Compared : compared' = <<a, b>>
  /\ UNCHANGED <<figureVars, copilotVars, analysisVars, invoices, text>>

(* A character is told apart by its place.                                 *)
Type ==
  /\ Untouched /\ Len(text) < MaxText
  /\ inputs = [NoInput EXCEPT ![3] = text]
  /\ \E c \in {Blank, Len(text) + 1} : text' = Append(text, c)
  /\ UNCHANGED <<figureVars, copilotVars, analysisVars, invoices, compared>>

Next == Work \/ Chat \/ Study \/ AddInvoice \/ Compare \/ Type

Spec == Init /\ [][Next]_vars

-----------------------------------------------------------------------------
SetSpend(vendors, chosen) == MapThenSumSet(LAMBDA i : vendors[i].spend, chosen)

Elements(seq) == {seq[k] : k \in DOMAIN seq}

(* engine.py:45-47: the selection covers at least 70% of a positive total, *)
(* and no set of fewer vendors does, credit notes or not.                  *)
SmallestCover ==
  LET vendors  == VendorSpends(invoices)
      selected == Elements(TopVendors(vendors))
      total    == NetSpend(invoices, DOMAIN invoices)
      covering(set) == 10 * SetSpend(vendors, set) >= 7 * total
  IN  total > 0 =>
        /\ covering(selected)
        /\ \A set \in SUBSET DOMAIN vendors :
             covering(set) => Cardinality(set) >= Cardinality(selected)

(* engine.py:63: the weighted score divides by the spend of the selection, *)
(* which is never zero when vendors were selected, whatever their signs.   *)
WeightDefined ==
  LET vendors  == VendorSpends(invoices)
      selected == Elements(TopVendors(vendors))
  IN  selected # {} => SetSpend(vendors, selected) # 0

SelectedSpends(list) ==
  LET all    == VendorSpends(list)
      chosen == TopVendors(all)
  IN  [k \in DOMAIN chosen |-> all[chosen[k]].spend]

(* services.py:203-215: the invoices come in whatever order the database   *)
(* returns them; the spends selected do not depend on it.                  *)
OrderInsensitive ==
  LET swapped(k) == [invoices EXCEPT ![k] = invoices[k + 1], ![k + 1] = invoices[k]]
      here == SelectedSpends(invoices)
  IN  \A k \in 1..(Len(invoices) - 1) : SelectedSpends(swapped(k)) = here

(* The optimizer's selection is sound, by all three.                       *)
SelectionSound == SmallestCover /\ WeightDefined /\ OrderInsensitive

(* engine.py:26-33: of two figures of one sign each must be at least 95%   *)
(* of the other; figures of opposite signs agree only when both are zero.  *)
StrictBlock ==
  LET a == compared[1]
      b == compared[2]
  IN  WithinTolerance(a, b) <=>
        \/ a = b
        \/ a * b > 0 /\ 20 * Abs(a) >= 19 * Abs(b) /\ 20 * Abs(b) >= 19 * Abs(a)

(* copilot/services.py:40-48: every character of a document but its blanks *)
(* can be found in some chunk, and no chunk is blank or longer than the    *)
(* size, whatever the sizes, an overlap larger than the chunk included.    *)
ChunksCover ==
  \A size \in 1..3, overlap \in 0..3 :
    LET chunks == ChunkText(text, size, overlap)
        Inked(c) == {c[i] : i \in DOMAIN c} \ {Blank}
    IN /\ UNION {Inked(chunks[k]) : k \in DOMAIN chunks} = Inked(text)
       /\ \A k \in DOMAIN chunks : Inked(chunks[k]) # {} /\ Len(chunks[k]) <= size
==============================================================================
