------------------------------ MODULE Purchases ------------------------------
(***************************************************************************)
(* One monthly upload of purchases, apps/procurement/{views,tasks}.py: the *)
(* parse task that turns the lines of an ERP export into invoices and      *)
(* finds or creates their vendors, and the clients that edit both.         *)
(*                                                                         *)
(* Every ORM call commits on its own, and Vendor has no unique constraint, *)
(* so get_or_create is a query and an insert with nothing between them.    *)
(* Two workers stand for tasks that overlap, be they Celery's or, when     *)
(* tasks are eager, two web requests.                                      *)
(***************************************************************************)
EXTENDS Integers, Sequences, FiniteSets

CONSTANTS
  Vats,        \* VAT numbers
  LocalVats,   \* those that is_local_vat holds of
  Vendors,     \* ids of Vendor rows
  File,        \* the VAT number of each line of the export
  Requests,    \* web requests that may run at once
  Workers,     \* tasks that may run at once
  MaxInvoices, \* bound: how many invoices the model inserts
  Absent

ASSUME PurchaseAssumption ==
  /\ LocalVats \subseteq Vats /\ File \in Seq(Vats) /\ MaxInvoices \in Nat
  /\ IsFiniteSet(Vendors)

Vendor == [vat : Vats, classification : {"LOCAL", "FOREIGN"}]

ASSUME AbsentAssumption == Absent \notin Vats \cup Vendors \cup Vendor

VARIABLES
  status,     \* ProcMonthlyUpload.status, or "GONE" when it is deleted
  mapped,     \* whether the tenant has a ColumnMapping
  vendors,    \* Vendor
  invoices,   \* how many invoices of the upload each vendor has
  queue,      \* parse tasks in the broker
  processes,  \* what each request and task does next
  budget,     \* bound: invoices still to be inserted
  born,       \* history: the VAT number each vendor was created with
  overlapped, \* history: VAT numbers two tasks were creating at once, or
              \* that a client gave to a vendor
  complete    \* history: some task has inserted all the lines of the file

vars == <<status, mapped, vendors, invoices, queue, processes, budget, born,
          overlapped, complete>>

table   == <<vendors, born, overlapped>>
upload  == <<status, mapped, complete>>

-----------------------------------------------------------------------------
Statuses == {"PENDING", "PARSING", "PARSED", "NEEDS_MAPPING"}

Idle == [op |-> "idle"]

(* A task carries its vendor_cache, the line it is at and the invoices it  *)
(* has created.                                                            *)
Process ==
       {Idle}
  \cup [op : {"saveParsing"}]
  \cup [op : {"line", "create"}, line : Nat, cache : [Vats -> Vendors \cup {Absent}],
        created : Nat]
  \cup [op : {"saveStatus", "saveUpload"}, status : Statuses]
  \cup [op : {"saveVendor"}, vendor : Vendors, obj : Vendor]

(* The database keeps both foreign keys of an invoice.                     *)
TypeOK ==
  /\ status \in Statuses \cup {"GONE"}
  /\ mapped \in BOOLEAN
  /\ vendors \in [Vendors -> Vendor \cup {Absent}]
  /\ invoices \in [Vendors -> Nat]
  /\ \A v \in Vendors : invoices[v] > 0 => status # "GONE" /\ vendors[v] # Absent
  /\ queue \in Nat
  /\ processes \in [Requests \cup Workers -> Process]
  /\ budget \in Nat
  /\ born \in [Vendors -> Vats \cup {Absent}]
  /\ overlapped \subseteq Vats
  /\ complete \in BOOLEAN

Init ==
  /\ status = "PENDING"
  /\ mapped \in BOOLEAN
  /\ vendors = [v \in Vendors |-> Absent]
  /\ invoices = [v \in Vendors |-> 0]
  /\ queue = 0
  /\ processes = [p \in Requests \cup Workers |-> Idle]
  /\ budget = MaxInvoices
  /\ born = [v \in Vendors |-> Absent]
  /\ overlapped = {}
  /\ complete = FALSE

At(p, op) == processes[p].op = op

Go(p, next) == processes' = [processes EXCEPT ![p] = next]

Holding(vat) == {v \in Vendors : vendors[v] # Absent /\ vendors[v].vat = vat}

ClassifyVendor(vat) == IF vat \in LocalVats THEN "LOCAL" ELSE "FOREIGN"

(* A new vendor gets a fresh uuid.                                         *)
NewVendor(v, vat) ==
  /\ born[v] = Absent
  /\ vendors' = [vendors EXCEPT ![v] = [vat |-> vat, classification |-> ClassifyVendor(vat)]]
  /\ born' = [born EXCEPT ![v] = vat]

-----------------------------------------------------------------------------
(* The parse view: the task is handed over, then PARSING is saved.         *)

BeginParse(p) ==
  /\ At(p, "idle") /\ status # "GONE"
  /\ queue = 0   \* bound: one task waits at a time
  /\ queue' = queue + 1
  /\ Go(p, [op |-> "saveParsing"])
  /\ UNCHANGED <<upload, table, invoices, budget>>

SaveParsing(p) ==
  /\ At(p, "saveParsing")
  /\ status' = IF status = "GONE" THEN status ELSE "PARSING"
  /\ Go(p, Idle)
  /\ UNCHANGED <<mapped, complete, table, invoices, queue, budget>>

-----------------------------------------------------------------------------
(* parse_invoice_upload *)

(* Without a column mapping nothing is parsed; without an upload the task  *)
(* ends with DoesNotExist.                                                 *)
Open(w) ==
  /\ At(w, "idle") /\ queue > 0
  /\ queue' = queue - 1
  /\ Go(w, CASE status = "GONE" -> Idle
             [] status # "GONE" /\ ~mapped -> [op |-> "saveStatus", status |-> "NEEDS_MAPPING"]
             [] OTHER -> [op |-> "line", line |-> 1, created |-> 0,
                          cache |-> [vat \in Vats |-> Absent]])
  /\ UNCHANGED <<upload, table, invoices, budget>>

Vat(w) == File[processes[w].line]

Cached(w) == processes[w].cache[Vat(w)]

InFile(w) == At(w, "line") /\ processes[w].line <= Len(File)

(* Mutant: the vendor is created before it is looked for.                  *)
GetVendorLate(w) ==
  /\ InFile(w) /\ Cached(w) = Absent
  /\ Go(w, [processes[w] EXCEPT !.op = "create"])
  /\ UNCHANGED <<upload, table, invoices, queue, budget>>

(* The query of get_or_create.  Two vendors of one VAT number are a        *)
(* MultipleObjectsReturned, which ends the task.                           *)
GetVendor(w) ==
  /\ InFile(w) /\ Cached(w) = Absent
  /\ LET found == Holding(Vat(w))
     IN \/ /\ found = {}
           /\ Go(w, [processes[w] EXCEPT !.op = "create"])
           /\ overlapped' = overlapped \cup
                {vat \in {Vat(w)} : \E k \in Workers \ {w} : At(k, "create") /\ Vat(k) = vat}
        \/ /\ Cardinality(found) = 1
           /\ \E v \in found : Go(w, [processes[w] EXCEPT !.cache[Vat(w)] = v])
           /\ UNCHANGED overlapped
        \/ Cardinality(found) > 1 /\ Go(w, Idle) /\ UNCHANGED overlapped
  /\ UNCHANGED <<upload, vendors, born, invoices, queue, budget>>

CreateVendor(w) ==
  /\ At(w, "create")
  /\ \E v \in Vendors :
       /\ NewVendor(v, Vat(w))
       /\ Go(w, [op |-> "line", line |-> processes[w].line, created |-> processes[w].created,
                 cache |-> [processes[w].cache EXCEPT ![Vat(w)] = v]])
  /\ UNCHANGED <<upload, overlapped, invoices, queue, budget>>

(* Mutant: a line whose invoice is refused is skipped.                     *)
CreateInvoiceOrSkip(w) ==
  /\ InFile(w) /\ Cached(w) # Absent /\ budget > 0
  /\ IF status = "GONE" \/ vendors[Cached(w)] = Absent
     THEN Go(w, [processes[w] EXCEPT !.line = @ + 1]) /\ UNCHANGED invoices
     ELSE /\ invoices' = [invoices EXCEPT ![Cached(w)] = @ + 1]
          /\ Go(w, [op |-> "line", line |-> processes[w].line + 1,
                    created |-> processes[w].created + 1, cache |-> processes[w].cache])
  /\ budget' = budget - 1
  /\ UNCHANGED <<upload, table, queue>>

(* The upload, or the vendor in the cache, may be gone: an IntegrityError  *)
(* that ends the task and leaves the invoices before it.                   *)
CreateInvoice(w) ==
  /\ InFile(w) /\ Cached(w) # Absent /\ budget > 0
  /\ IF status = "GONE" \/ vendors[Cached(w)] = Absent
     THEN Go(w, Idle) /\ UNCHANGED invoices
     ELSE /\ invoices' = [invoices EXCEPT ![Cached(w)] = @ + 1]
          /\ Go(w, [op |-> "line", line |-> processes[w].line + 1,
                    created |-> processes[w].created + 1, cache |-> processes[w].cache])
  /\ budget' = budget - 1
  /\ UNCHANGED <<upload, table, queue>>

FinishFile(w) ==
  /\ At(w, "line") /\ processes[w].line > Len(File)
  /\ complete' = (complete \/ processes[w].created = Len(File))
  /\ Go(w, [op |-> "saveStatus", status |-> "PARSED"])
  /\ UNCHANGED <<status, mapped, table, invoices, queue, budget>>

(* save(update_fields=["status"]); a DatabaseError when the upload is gone. *)
SaveStatus(w) ==
  /\ At(w, "saveStatus")
  /\ status' = IF status = "GONE" THEN status ELSE processes[w].status
  /\ Go(w, Idle)
  /\ UNCHANGED <<mapped, complete, table, invoices, queue, budget>>

-----------------------------------------------------------------------------
(* The clients *)

(* POST of a vendor classifies it by its VAT number.                       *)
PostVendor(v, vat) ==
  /\ NewVendor(v, vat)
  /\ overlapped' = overlapped \cup {vat}
  /\ UNCHANGED <<upload, invoices, queue, processes, budget>>

(* PUT and PATCH: the classification is read-only and is written back as   *)
(* fetched, for the new VAT number too.                                    *)
BeginSaveVendor(p, v, vat) ==
  /\ At(p, "idle") /\ vendors[v] # Absent
  /\ Go(p, [op |-> "saveVendor", vendor |-> v, obj |-> [vendors[v] EXCEPT !.vat = vat]])
  /\ overlapped' = overlapped \cup {vat}
  /\ UNCHANGED <<upload, vendors, born, invoices, queue, budget>>

SaveVendor(p) ==
  /\ At(p, "saveVendor")
  /\ vendors' = [vendors EXCEPT ![processes[p].vendor] = processes[p].obj]
  /\ Go(p, Idle)
  /\ UNCHANGED <<upload, born, overlapped, invoices, queue, budget>>

(* Mutant: the invoices do not protect their vendor.                       *)
DeleteVendorAnyway(v) ==
  /\ vendors[v] # Absent
  /\ vendors' = [vendors EXCEPT ![v] = Absent]
  /\ UNCHANGED <<upload, born, overlapped, invoices, queue, processes, budget>>

(* on_delete=PROTECT; the foreign key stops an invoice inserted meanwhile. *)
DeleteVendor(v) ==
  /\ vendors[v] # Absent /\ invoices[v] = 0
  /\ vendors' = [vendors EXCEPT ![v] = Absent]
  /\ UNCHANGED <<upload, born, overlapped, invoices, queue, processes, budget>>

PostInvoice(v) ==
  /\ status # "GONE" /\ vendors[v] # Absent /\ budget > 0
  /\ invoices' = [invoices EXCEPT ![v] = @ + 1]
  /\ budget' = budget - 1
  /\ UNCHANGED <<upload, table, queue, processes>>

DeleteInvoice(v) ==
  /\ invoices[v] > 0
  /\ invoices' = [invoices EXCEPT ![v] = @ - 1]
  /\ UNCHANGED <<upload, table, queue, processes, budget>>

BeginSaveUpload(p) ==
  /\ At(p, "idle") /\ status # "GONE"
  /\ Go(p, [op |-> "saveUpload", status |-> status])
  /\ UNCHANGED <<upload, table, invoices, queue, budget>>

(* A full save writes the status as fetched, and brings a deleted upload   *)
(* back.                                                                   *)
SaveUpload(p) ==
  /\ At(p, "saveUpload")
  /\ status' = processes[p].status
  /\ Go(p, Idle)
  /\ UNCHANGED <<mapped, complete, table, invoices, queue, budget>>

(* The invoices cascade.                                                   *)
DeleteUpload ==
  /\ status # "GONE"
  /\ status' = "GONE"
  /\ invoices' = [v \in Vendors |-> 0]
  /\ UNCHANGED <<mapped, complete, table, queue, processes, budget>>

(* The tenant's column mappings are saved or deleted.                      *)
SaveMapping ==
  /\ mapped' = ~mapped
  /\ UNCHANGED <<status, complete, table, invoices, queue, processes, budget>>

Die(p) ==
  /\ ~At(p, "idle")
  /\ Go(p, Idle)
  /\ UNCHANGED <<upload, table, invoices, queue, budget>>

-----------------------------------------------------------------------------
Serve(p) ==
  \/ BeginParse(p) \/ SaveParsing(p) \/ BeginSaveUpload(p) \/ SaveUpload(p)
  \/ \E v \in Vendors, vat \in Vats : BeginSaveVendor(p, v, vat)
  \/ SaveVendor(p)

Work(w) ==
  Open(w) \/ GetVendor(w) \/ CreateVendor(w) \/ CreateInvoice(w) \/ FinishFile(w)
  \/ SaveStatus(w)

Next ==
  \/ \E p \in Requests : Serve(p)
  \/ \E w \in Workers : Work(w)
  \/ \E p \in Requests \cup Workers : Die(p)
  \/ \E v \in Vendors, vat \in Vats : PostVendor(v, vat)
  \/ \E v \in Vendors : DeleteVendor(v) \/ PostInvoice(v) \/ DeleteInvoice(v)
  \/ DeleteUpload \/ SaveMapping

Spec == Init /\ [][Next]_vars

-----------------------------------------------------------------------------
(* Properties *)

(* Two vendors share a VAT number only when two tasks were creating it at  *)
(* the same time, or a client gave it: a task that runs alone finds what   *)
(* earlier ones created (tasks.py:68-78).                                  *)
DuplicatesNeedOverlap ==
  \A vat \in Vats : Cardinality(Holding(vat)) > 1 => vat \in overlapped

(* An upload is called PARSED only if some task inserted an invoice for    *)
(* every line of its file, whatever is deleted, fails or is saved stale    *)
(* meanwhile (tasks.py:61-94).                                             *)
ParsedIsComplete ==
  /\ status = "PARSED" => complete
  /\ \A p \in Requests \cup Workers :
       processes[p].op \in {"saveStatus", "saveUpload"} =>
         (processes[p].status = "PARSED" => complete)

(* "Classification + score are system-derived, never client-set.": every   *)
(* vendor is classified by the VAT number it has                           *)
(* (procurement/serializers.py:30, views.py:40, services.py:33-34).  Only  *)
(* a POST and the parse task classify: a PATCH of the number keeps the     *)
(* classification of the number before it.                                 *)
ClassificationDerived ==
  \A v \in Vendors :
    vendors[v] # Absent => vendors[v].classification = ClassifyVendor(vendors[v].vat)
==============================================================================
