------------------------------ MODULE Whitelist ------------------------------
(***************************************************************************)
(* The self-enriching Global Whitelist and the vendors it auto-fills:      *)
(*   procurement/services.py  resolve_vendor_lc_score,                     *)
(*                            push_certificate_to_whitelist                *)
(*   procurement/tasks.py     parse_vendor_certificate                     *)
(*   procurement/views.py     push_to_whitelist, resolve_score, PATCH      *)
(*   seed_lcgpa.py            seed_global_whitelist, run on every deploy   *)
(*                                                                         *)
(* One number, hence one whitelist row (vat_number is unique); several     *)
(* tenants may have a vendor with it, each vendor with certificates.  A    *)
(* push writes the number into cr_number too, which has ten characters:    *)
(* room for a commercial registration, not for a VAT number.  What else is *)
(* in that column, the name and the source are left out.                   *)
(***************************************************************************)
EXTENDS Validity

CONSTANTS
  Vendors,
  Certs,
  VendorOf,      \* the vendor each certificate was uploaded for
  Scores,        \* the LC scores a certificate can carry
  Dates,         \* the expiry dates it can carry, days > 0; 0 is no date
  YearOf,        \* the year of a date, which a push records; 0 for no date
  NoScore,       \* the OCR found no score; also a null verified_lc_score
  Baseline,      \* the least sector baseline score
  SeedScore, SeedYear,
  ClientScores,  \* what clients send as verified_lc_score when they do
  NoEntry,
  Requests,      \* web requests and Celery tasks that may run at once
  Crashes,       \* whether a worker may die
  \* Bounds of the model
  LastDay,       \* the clock stops there
  SeedRuns,      \* deploys with RUN_SEED=1; 0 when this number is no seed
  MaxVersion     \* no push once the row has this version

ASSUME WhitelistAssumption ==
  /\ VendorOf \in [Certs -> Vendors]
  /\ Dates \subseteq Nat \ {0}
  /\ YearOf \in [Dates \cup {0} -> Nat]
  /\ LastDay \in Nat \ {0} /\ SeedRuns \in Nat /\ MaxVersion \in Nat /\ SeedYear \in Nat
  /\ Crashes \in BOOLEAN
  /\ NoScore \notin Scores

VARIABLES
  file,      \* what the OCR reads off each uploaded certificate
  digits,    \* of the number the certificates carry
  certs,     \* VendorLcgpaCertificate: the parsed columns
  entry,     \* GlobalWhitelistEntry of the VAT number, or NoEntry
  vendors,   \* Vendor: verified_lc_score and lc_score_source
  requests,
  today,
  seeded     \* how often the seed command has run

vars == <<file, digits, certs, entry, vendors, requests, today, seeded>>

-----------------------------------------------------------------------------
Cert == [score : Scores \cup {NoScore}, expiry : Dates \cup {0}, expired : BOOLEAN]

Vendor == [score : Scores \cup ClientScores \cup {NoScore, Baseline, SeedScore},
           source : {"CERT", "GLOBAL_WHITELIST", "BASELINE"}]

Entry == [score : Scores \cup {SeedScore}, expiry : Dates \cup {0},
          year : Nat, version : Nat]

ASSUME NoEntryAssumption == NoEntry \notin Entry

Idle == [op |-> "idle"]

Request ==
       {Idle}
  \cup [op : {"ocr"}, cert : Certs]
  \cup [op : {"push", "insert"}, cert : Certs, obj : Cert, task : BOOLEAN]
  \cup [op : {"fill"}, cert : Certs, obj : Cert]
  \cup [op : {"resolveCert", "resolveEntry"}, vendor : Vendors]
  \cup [op : {"saveVendor"}, vendor : Vendors, obj : Vendor]

TypeOK ==
  /\ digits \in {10, 15}
  /\ file \in [Certs -> [score : Scores \cup {NoScore}, expiry : Dates \cup {0}]]
  /\ certs \in [Certs -> Cert]
  /\ entry \in Entry \cup {NoEntry}
  /\ vendors \in [Vendors -> Vendor]
  /\ requests \in [Requests -> Request]
  /\ today \in 1 .. LastDay
  /\ seeded \in 0 .. SeedRuns

Init ==
  /\ digits \in {10, 15}
  /\ file \in [Certs -> [score : Scores \cup {NoScore}, expiry : Dates \cup {0}]]
  /\ certs = [c \in Certs |-> [score |-> NoScore, expiry |-> 0, expired |-> FALSE]]
  /\ entry = NoEntry
  /\ vendors = [v \in Vendors |-> [score |-> NoScore, source |-> "BASELINE"]]
  /\ requests = [p \in Requests |-> Idle]
  /\ today = 1
  /\ seeded = 0

Begin(p, req) ==
  /\ requests[p] = Idle
  /\ requests' = [requests EXCEPT ![p] = req]
  /\ UNCHANGED <<file, digits, certs, entry, vendors, today, seeded>>

Go(p, req) == requests' = [requests EXCEPT ![p] = req]

-----------------------------------------------------------------------------
(* parse_vendor_certificate: the OCR result is saved with the expiry flag  *)
(* of the day; only an unexpired certificate with a score goes on.         *)
BeginParse(p, c) == Begin(p, [op |-> "ocr", cert |-> c])

Ocr(p) ==
  /\ requests[p].op = "ocr"
  /\ LET c == requests[p].cert
         expired == file[c].expiry # 0 /\ file[c].expiry < today
         obj == [score |-> file[c].score, expiry |-> file[c].expiry,
                 expired |-> expired]
     IN /\ certs' = [certs EXCEPT ![c] = obj]
        /\ Go(p, IF expired \/ obj.score = NoScore THEN Idle
                 ELSE [op |-> "push", cert |-> c, obj |-> obj, task |-> TRUE])
  /\ UNCHANGED <<file, digits, entry, vendors, today, seeded>>

(* The push_to_whitelist action looks neither at is_expired nor at a null  *)
(* score; the latter fails in the database.                                *)
BeginPush(p, c) ==
  Begin(p, [op |-> "push", cert |-> c, obj |-> certs[c], task |-> FALSE])

(***************************************************************************)
(* push_certificate_to_whitelist.  SELECT FOR UPDATE on an existing row    *)
(* makes the comparison and the update one step; when there is no row it   *)
(* locks nothing, and the INSERT comes later.                              *)
(***************************************************************************)
Published(obj, version) ==
  [score |-> obj.score, expiry |-> obj.expiry, year |-> YearOf[obj.expiry],
   version |-> version]

AfterPush(p) ==
  Go(p, IF requests[p].task
        THEN [op |-> "fill", cert |-> requests[p].cert, obj |-> requests[p].obj]
        ELSE Idle)

(* The values fit the columns of the row: lc_score is not null, cr_number  *)
(* is varchar(10).                                                         *)
RowFits(obj) == obj.score # NoScore /\ digits <= 10

Regression(p) ==
  /\ requests[p].op = "push" /\ entry # NoEntry
  /\ Older(Published(requests[p].obj, 0), entry)
  /\ Go(p, Idle)
  /\ UNCHANGED <<file, digits, certs, entry, vendors, today, seeded>>

(* Mutant: the entry is overwritten whatever its validity.                 *)
UpdateAnyway(p) ==
  /\ requests[p].op = "push" /\ entry # NoEntry /\ RowFits(requests[p].obj)
  /\ entry.version < MaxVersion
  /\ entry' = Published(requests[p].obj, entry.version + 1)
  /\ AfterPush(p)
  /\ UNCHANGED <<file, digits, certs, vendors, today, seeded>>

Update(p) ==
  /\ requests[p].op = "push" /\ entry # NoEntry /\ RowFits(requests[p].obj)
  /\ ~Older(Published(requests[p].obj, 0), entry)
  /\ entry.version < MaxVersion
  /\ entry' = Published(requests[p].obj, entry.version + 1)
  /\ AfterPush(p)
  /\ UNCHANGED <<file, digits, certs, vendors, today, seeded>>

MissEntry(p) ==
  /\ requests[p].op = "push" /\ entry = NoEntry
  /\ Go(p, [op |-> "insert", cert |-> requests[p].cert, obj |-> requests[p].obj,
            task |-> requests[p].task])
  /\ UNCHANGED <<file, digits, certs, entry, vendors, today, seeded>>

(* Mutant: the lc_score column of the whitelist is nullable.               *)
InsertNull(p) ==
  /\ requests[p].op = "insert" /\ entry = NoEntry /\ digits <= 10
  /\ entry' = Published(requests[p].obj, 1)
  /\ AfterPush(p)
  /\ UNCHANGED <<file, digits, certs, vendors, today, seeded>>

Insert(p) ==
  /\ requests[p].op = "insert" /\ entry = NoEntry /\ RowFits(requests[p].obj)
  /\ entry' = Published(requests[p].obj, 1)
  /\ AfterPush(p)
  /\ UNCHANGED <<file, digits, certs, vendors, today, seeded>>

(* A second INSERT of the number is an IntegrityError, as is a null score; *)
(* a VAT number in cr_number is a DataError.  The request or task fails.   *)
PushFails(p) ==
  /\ \/ requests[p].op = "insert" /\ entry # NoEntry
     \/ /\ requests[p].op = "insert" \/ (requests[p].op = "push" /\ entry # NoEntry)
        /\ ~RowFits(requests[p].obj)
        /\ entry # NoEntry => ~Older(Published(requests[p].obj, 0), entry)
  /\ Go(p, Idle)
  /\ UNCHANGED <<file, digits, certs, entry, vendors, today, seeded>>

(* The vendor is filled after the push's transaction, from the task's own  *)
(* copy of the certificate.                                                *)
Fill(p) ==
  /\ requests[p].op = "fill"
  /\ vendors' = [vendors EXCEPT ![VendorOf[requests[p].cert]] =
                   [score |-> requests[p].obj.score, source |-> "CERT"]]
  /\ Go(p, Idle)
  /\ UNCHANGED <<file, digits, certs, entry, today, seeded>>

-----------------------------------------------------------------------------
(* resolve_vendor_lc_score: the newest unexpired scored certificate first; *)
(* PostgreSQL sorts a null expiry before every date in descending order.   *)
Candidates(v) ==
  {c \in Certs : VendorOf[c] = v /\ ~certs[c].expired /\ certs[c].score # NoScore}

Newest(v) ==
  {c \in Candidates(v) : \A d \in Candidates(v) :
     certs[c].expiry = 0 \/ (certs[d].expiry # 0 /\ certs[c].expiry >= certs[d].expiry)}

BeginResolve(p, v) == Begin(p, [op |-> "resolveCert", vendor |-> v])

ResolveCert(p) ==
  /\ requests[p].op = "resolveCert"
  /\ LET v == requests[p].vendor
         valid(c) == certs[c].expiry = 0 \/ certs[c].expiry >= today
     IN \/ \E c \in Newest(v) :
             /\ valid(c)
             /\ Go(p, [op |-> "saveVendor", vendor |-> v,
                       obj |-> [score |-> certs[c].score, source |-> "CERT"]])
        \/ /\ \A c \in Newest(v) : ~valid(c)
           /\ Go(p, [op |-> "resolveEntry", vendor |-> v])
  /\ UNCHANGED <<file, digits, certs, entry, vendors, today, seeded>>

ResolveEntry(p) ==
  /\ requests[p].op = "resolveEntry"
  /\ Go(p, [op |-> "saveVendor", vendor |-> requests[p].vendor,
            obj |-> IF entry # NoEntry
                    THEN [score |-> entry.score, source |-> "GLOBAL_WHITELIST"]
                    ELSE [score |-> Baseline, source |-> "BASELINE"]])
  /\ UNCHANGED <<file, digits, certs, entry, vendors, today, seeded>>

(* PATCH /vendors: every column is saved back as fetched, except a         *)
(* verified_lc_score the client sent.                                      *)
BeginPatchVendor(p, v) ==
  \E s \in ClientScores \cup {vendors[v].score} :
    Begin(p, [op |-> "saveVendor", vendor |-> v,
              obj |-> [score |-> s, source |-> vendors[v].source]])

(* Mutant: save(update_fields=["lc_score_source"]) leaves the score out.   *)
SaveVendorSource(p) ==
  /\ requests[p].op = "saveVendor"
  /\ vendors' = [vendors EXCEPT ![requests[p].vendor].source = requests[p].obj.source]
  /\ Go(p, Idle)
  /\ UNCHANGED <<file, digits, certs, entry, today, seeded>>

SaveVendor(p) ==
  /\ requests[p].op = "saveVendor"
  /\ vendors' = [vendors EXCEPT ![requests[p].vendor] = requests[p].obj]
  /\ Go(p, Idle)
  /\ UNCHANGED <<file, digits, certs, entry, today, seeded>>

-----------------------------------------------------------------------------
(* seed_global_whitelist: update_or_create keeps the expiry date and sets  *)
(* the score, the year and the version.  The seeds have VAT numbers.       *)
Seed ==
  /\ digits = 15 /\ seeded < SeedRuns
  /\ seeded' = seeded + 1
  /\ entry' = [score |-> SeedScore, year |-> SeedYear, version |-> 1,
               expiry |-> IF entry = NoEntry THEN 0 ELSE entry.expiry]
  /\ UNCHANGED <<file, digits, certs, vendors, requests, today>>

NextDay ==
  /\ today < LastDay
  /\ today' = today + 1
  /\ UNCHANGED <<file, digits, certs, entry, vendors, requests, seeded>>

Die(p) ==
  /\ Crashes /\ requests[p] # Idle
  /\ Go(p, Idle)
  /\ UNCHANGED <<file, digits, certs, entry, vendors, today, seeded>>

Step(p) ==
  \/ \E c \in Certs : BeginParse(p, c) \/ BeginPush(p, c)
  \/ \E v \in Vendors : BeginResolve(p, v) \/ BeginPatchVendor(p, v)
  \/ Ocr(p) \/ Regression(p) \/ Update(p) \/ MissEntry(p) \/ Insert(p)
  \/ PushFails(p) \/ Fill(p)
  \/ ResolveCert(p) \/ ResolveEntry(p) \/ SaveVendor(p)
  \/ Die(p)

Next == (\E p \in Requests : Step(p)) \/ Seed \/ NextDay

Spec == Init /\ [][Next]_vars

-----------------------------------------------------------------------------
(* Properties *)

(* Whatever the order of uploads, parses, pushes, retries, crashes and     *)
(* deploys, the entry is an atomic register of whole certificates: a push  *)
(* never goes back to an older one and the version counts the pushes; only *)
(* the seed command may put its score and year over it, and the expiry     *)
(* date the entry is known for never moves back (services.py:99-131,       *)
(* seed_lcgpa.py:259-268).                                                 *)
Register == INSTANCE VerifiedRegister
              WITH Scores <- Scores, NoEntry <- NoEntry, entry <- entry,
                   Dates <- Dates \cup {0},
                   FiscalYears <- {YearOf[d] : d \in Dates \cup {0}},
                   Seeds <- IF SeedRuns = 0 THEN {}
                            ELSE {[score |-> SeedScore, year |-> SeedYear]}

RegisterSpec == Register!Spec

(* A vendor that says its score comes from a certificate has the score of  *)
(* one of its own certificates, even after lost updates between a parse    *)
(* task, resolve_score and a PATCH (tasks.py:135-140, views.py:47-55), or  *)
(* one a client sent.  That excuse is the code's: serializers.py:30 says   *)
(* "score [is] system-derived, never client-set", but line 31 leaves       *)
(* verified_lc_score writable, so no more than this holds.                 *)
VendorScoreBacked ==
  \A v \in Vendors : vendors[v].source = "CERT" =>
    \/ vendors[v].score \in ClientScores
    \/ \E c \in Certs : VendorOf[c] = v /\ vendors[v].score = file[c].score
==============================================================================
