# Mahalli Pro — TLA+ verification

Mahalli Pro is a Django platform in which a Saudi company collects its payroll,
its purchases, its CAPEX and its assets, reconciles them against audited
figures, computes its Local Content (LC) score and exports it for an external
auditor; a Next.js frontend is its browser side. This directory holds TLA+
modules translated from the source, the TLC configurations that check them on
small instances, and TLAPS proofs for every instance. `apps/` below is
`src/backend/apps/`, `lib/` is `src/frontend/src/lib/`.

Run TLC on a model with `tlc -config X.cfg M` and the prover with `tlapm M.tla`.

## 1. How the program runs

- The database is PostgreSQL. There is no `ATOMIC_REQUESTS`: outside the few
  `transaction.atomic` blocks **every ORM call commits on its own**. So a request
  is modelled as a small process: it reads, is admitted by its permission
  classes, and writes in later steps, while other requests run.
- A DRF update fetches the instance, sets the client's fields on it and calls
  `save()`, which writes **every column** as fetched, and inserts the row anew when
  it was deleted meanwhile. Only `save(update_fields=…)` writes some, and fails on a
  row that is gone.
- Celery tasks run in a worker (`config/settings/dev.py:12`) or inline in the
  request (`config/settings/prod.py:30`).
- `infra/entrypoint.sh` re-runs migrations and, with `RUN_SEED=1`, the seed on
  every deploy, in every container that starts.
- A tab of the browser runs one handler from one `await` to the next; the tabs share
  `localStorage` and nothing else.

## 2. Inventory

| Component | State | Operations | Hard behaviour | What makes it correct |
|---|---|---|---|---|
| Year close and lock (`finance`, `tenancy/locking.py`) | `ComplianceYear.state`, `AnnualHardClose` (figures, pass flag), `ReconciliationCheck` | save and delete of hard closes, reconcile, lock, `export_allowed` | guard and write apart; two aggregates then two saves; full-row saves; lock without row lock; crashes | a pass flag is earned; a lock needs one and is for ever; its tenant does not write what the guard covers in a locked year |
| Scoring (`scoring/engine.py`) | none | 5% tolerance, 70% vendor selection, weighted score, bidding gain | equality at 5% and 70%, zero and negative figures, row order | agrees with the rule it documents |
| Vendors and Whitelist (`procurement`, `seed`) | `Vendor`, `VendorLcgpaCertificate`, `GlobalWhitelistEntry` | parse (OCR) a certificate, push it, resolve a score, PATCH, seed | first insert race, out-of-order parses, lost updates, re-seeding, midnight | the newest certificate wins; a score has a certificate behind it, or a client |
| Payroll (`hr`) | `HrMonthlyUpload`, `PayrollRow`, `GosiCertificate` | parse, classify, cross-check, CRUD | task before status, re-parse, two-step insert, edit without reclassifying | split matches the amounts; a verdict is about the data |
| Purchases (`procurement`) | `ProcMonthlyUpload`, `Invoice`, `Vendor`, `ColumnMapping`; lines, warnings, selections | parse, CRUD, mandatory checks, Top-40 | vendor `get_or_create` race, two parses of one file, stale saves, cascading deletes, checks against rows that change | one vendor per VAT number unless tasks overlap; PARSED means every line is in; a check invents no breach and misses none |
| Reports (`reports`) | `LcReport`, `ExportArtifact`, stored files | create with score snapshot, export `.xlsx`, audit pack | snapshot after insert, renamed files, three writes per export, deletes between them | a hash on record is that of a file that was stored, which is still there unless a bucket lost it to a later export; nothing is exported of a year never opened |
| Auditor portal (`integrations`) | links, API keys, webhooks | create, check expiry, verify hash | expiry, stale PATCH | only recorded hashes are confirmed; a link ends when it was to end |
| Soft close, trial balance (`finance`) | `MonthlySoftClose`, `TbAccountMapping` | create then reconcile, CRUD, ceiling | second commit, moving uploads, stale PATCH, figures of two queries | variances are of the figures typed and of what the uploads were; a ceiling is one the mappings had |
| Assets, CAPEX | registers, items | create then apply the In-Kingdom rule, CRUD, sums | rule is a second commit | assets abroad are not summed; what has no origin is not local |
| Accounts, Master Admin (`accounts`) | users, tenants, subscriptions, soft hold, ghost sessions | provisioning wizard, hold, ghost login | one transaction over many rows, unique keys, two wizards, crashes | a company is there whole or not at all; a ghost token has its session on record |
| Copilot | documents, chunks, conversations | ingest, retrieve, question, answer | a role changes while a question runs; three tables of who may see what | answers draw on nothing the asker's role or tenant is walled off from |
| Audit (`audit`) | `AuditLog` | one insert per successful mutating request | written last, failures swallowed | no entry of what was rolled back |
| Common (`common`) | — | tenant scoping, encrypted columns, RLS, validators | when the middleware runs | — |
| Seed (`seed`, `entrypoint.sh`) | LCGPA reference tables | load of the workbooks, row by row | two containers and two images at once, crashes and errors half way, pushes beside them | a load that ends leaves what one load leaves; nothing serves half loaded; an image that loads gets served |
| Frontend session (`lib/`) | token pair, current user, mounted page | sign in and out, fetch with refresh and retry, ask | answers after a sign-out or a switch of the language; other tabs | tokens are one user's; nothing loads or retries for ever |

Interactions. HR and Procurement uploads feed the totals the year close and the
soft close sum; the year close gates the exports of Reports and, through the lock
guard, the writes of HR, Finance, Assets and CAPEX; a certificate pushed by one
tenant enriches the Whitelist that resolves the vendors of all; the engine is
called by the year close, by Procurement, by Assets and by Reports; the portal
reads what Reports stored; every mutating request ends in the audit middleware;
what a role may see is decided in three tables that code reads (API, copilot, browser).
`PROJECT.json` lists the hazards of each at their lines.

## 3. Modules

| Module | Models | Notes |
|---|---|---|
| `Scoring` | `scoring/engine.py` | operators; their reference definitions are in `MCScoring` |
| `YearLock` | — | abstract: hard closes get verified; a year is locked, for ever, only after that |
| `YearClose` | `finance/{services,views}.py`, `tenancy/locking.py`, rows of `hr` and `procurement` | extends `Scoring`; implements `YearLock` |
| `Validity` | `procurement/services.py:75-77` | the order of certificates |
| `VerifiedRegister` | — | abstract: an atomic register of whole certificates that a push never takes back |
| `Whitelist` | `procurement/{services,tasks,views}.py`, `seed_lcgpa.py` | implements `VerifiedRegister` |
| `Payroll` | `hr/{views,tasks,services}.py`, the two payroll sums of `reports/services.py` | one upload with its parse tasks |
| `Purchases` | `procurement/{tasks,views,serializers}.py` | one upload of purchases, its vendors and parse tasks |
| `PackRegister` | — | abstract: gates, files, digests, log, confirmations |
| `AuditPack` | `reports/{services,views}.py`, `integrations/{services,views}.py` | implements `PackRegister` |
| `Lists` | — | how lists are built by going through something in its order |
| `Figures` | soft closes (`finance`), assets (`assets`), `run_top40`'s spends | extends `Scoring`, `Lists` |
| `Analysis` | `run_mandatory_checks` (`procurement`), the ceiling of a trial balance (`finance`), `aggregate_capex` | what is asked of a year while its rows change |
| `Access` | `accounts/permissions.py`, `lib/nav.ts`, the copilot's categories | three tables of one wall |
| `Copilot` | `copilot/services.py`, `copilot/views.py` | extends `Access`, `Lists` |
| `CompanyRegister` | — | abstract: whole companies, one owner each |
| `Onboarding` | `accounts/{provisioning,master_views}.py`, `audit/middleware.py`, `common/{middleware,rls}.py` | implements `CompanyRegister` |
| `Workbooks`, `SeedLoad` | `seed_lcgpa.py`, `infra/entrypoint.sh`, the effect of a push | what a load reads; how loads run |
| `ClientSession` | `lib/{api.ts,auth.tsx,useApi.ts}`, login and copilot pages, dashboard layout, `LangSwitcher` | several tabs of one browser |
| `MC…` | | instances for TLC; `MCScoring` composes `Figures`, `Copilot`, `Analysis` and the pure functions |
| `…Proofs` | | theorems and proofs of the module they are named after |

### Year close

`closes`, `uploads` and `rows` are the tables, keyed by the ids a client may use;
`yearState` is the lock of each year. `TenantOf` gives each year, hard close, upload and
row its tenant: rows are stamped with their writer's tenant and shown to no other, but
a payload may name any tenant's year or upload, as the serializers' querysets are not
scoped. `requests[p]` is what in-flight request `p` still has to do; its `op` names the
next commit. A `Begin…` action is the permission check and the fetch, the action
named after the write is the write. `Admits(payloadYear, objectYear, tenant)` is
`YearLockWriteGuard`: it looks at the year in the payload and at the year of the
object, and admits when the user's tenant has no such year (`locking.py:25-27`). Which of
the two a view gives it is in each `Begin…` action: a payroll row's payload names an upload
and no year, and the procurement views have no guard. `verified` and `lastVerdict` are
history, read by no action: the reconciliations that found both totals within 5%, and what
the newest one saved in each hard close.

`Begin…` of a new row needs a fresh id (`Named`): ids are random UUIDs. A full-row
save is an upsert, as `Model.save()` is, so it can bring a deleted row back;
`SaveVerdict` (`update_fields`) cannot. One `Die` action ends any request between
two commits. `lock_compliance_year` is a transaction: what it reads is
`BeginLock`, its one visible commit `CommitLock`.

### Whitelist

One number: one `entry`, the `vendors` of the tenants that have it and their
certificates. `file` is what the OCR will read off each certificate, chosen
initially; `certs` is what has been parsed of it. A push to an existing row holds
`SELECT FOR UPDATE` from the comparison to the update, so that is one step
(`Update`, `Regression`); with no row the lock locks nothing and `MissEntry` and
`Insert` are two. `digits` is the length of the number the certificates carry, 10 or 15:
a push writes it into `cr_number` as well, where `RowFits` has room for ten characters
only. `PushFails` is the error of a second insert, of a null score and of a number that is
too long. The seed's numbers have fifteen digits, so that a row is the seed's or the
certificates', and no certificate is ever pushed over a seeded one as things are. `today`
moves, so a certificate can expire between two steps. `Seed` is
`update_or_create` with its defaults, which leave the expiry date alone.

### Payroll

One monthly upload, which a client may delete (`status = "GONE"`) and a stale PATCH
bring back. `processes[p]` is what a request or a worker does next. `BeginParse` hands
the task over, to the broker's `queue` or, when tasks are eager, to the request
itself; only then does `SaveParsing` write the status, as in `hr/views.py:31-33`. The
task is `Open`, `Insert` and `Classify` for each line, `Count` and `Compare` (the
cross-check's two queries) and `SaveStatus`. A step whose row or upload is gone is an
error that ends the task, and Celery keeps it. `SaveRow` and `SaveUpload` write every
column as fetched, the read-only split and status included. `Sum3` and `Sum6` are the
two queries of a score. `born` and `matched` are history variables; `budget` bounds
the rows created. Deletes and writes of GOSI certificates are one step: nothing
depends on what they fetched.

### Purchases

The counterpart of Payroll in Procurement. `File` is the VAT number of each line of the
ERP export. A worker's task is, for each line, `GetVendor` (the task's cache, then the
query of `get_or_create`: none, one, or more than one, which is
`MultipleObjectsReturned`), `CreateVendor` and `CreateInvoice`, and then `SaveStatus`.
Between the query and the insert nothing is locked and no constraint forbids a second
vendor. `invoices[v]` counts the upload's invoices of a vendor: deleting a vendor that
has one is refused (`PROTECT`), deleting the upload takes them along (`CASCADE`).
`SaveVendor` writes every column as fetched, the read-only classification included.
`overlapped` is history: the VAT numbers two tasks were creating at once, or that a
client posts a vendor with or is about to save one with; `born` and `complete` are history too.

### AuditPack

`reports` and `artifacts` are tables; `named` and `renamed` are the storage: Django's
local storage gives a file another name when its name is taken, a bucket overwrites it,
and `replaced` is history of that. `backend` is chosen initially.
A report is inserted (`CreateReport`), its score assembled (`Assemble`) and saved
(`Snapshot`, `update_fields`). An export is `Gate` (`export_allowed`, environment here:
the year close decides it), `Store`, `Record` and, of a pack, `LogPack`, one commit
each; the object it works on is the one fetched at `BeginExport`. A file's content is
its score and the time it was built at; SHA-256 is taken to be injective. `Verify` is
the portal: a link that is valid now confirms a digest on record for its year.
`assembled` (per report), `granted` and the variables of `PackRegister` are history.

### Figures

A soft close is inserted, then two sums are read at two moments, then the variances are
saved (`update_fields`); an asset is inserted, then `apply_in_kingdom_rule` saves
`included_in_score`. Edits save every column as fetched. `typed`, `since` and `unsettled`
are history: the totals a close was created with, what the uploads have been since, and
the assets that are being created, were cut off, or were edited. `VendorSpends` is the
accumulation of `run_top40`, over whose result `Scoring!TopVendors` selects: the vendors in
the order the dictionary gets its keys, each with the sum of its invoices.

### Analysis

`rows` is what three analyses read of a year. An analysis is a request in `analysts`: a
mandatory check reads the minimums (`BeginChecks`), then the distinct lines with their
vendors' scores (`ReadLines`), and inserts its warnings in one statement
(`RaiseWarnings`); a ceiling is the sum of the mappings prefetched with the trial balance,
then the depreciation by a query of its own; the CAPEX summary is one query. `Change` is
everything that writes the rows meanwhile. `during[n]` is history, the states the rows
have been in during analysis *n*, and so is `answers`. Invoice lines are rows that no code
creates; `ImportLine` gives the check something to read. A vendor's classification is read in
the one query of the lines and is fixed here.

### Access and Copilot

`Access` states the allowed roles of each department's API, the pages `navForRole`
offers and the categories the copilot searches. In `Copilot` a question is fetched with
the role of that moment, retrieved, stored, put to the model, and its answer stored with
the chunks it came from; `Assign` changes a role and `LoadMe` is the browser asking
`/auth/me/`. What retrieval finds is any set of at most `TopK` of the documents it
filters: similarity is external. `ChunkText` is the chunker, its windows as a fold.

### Onboarding

`db` holds committed rows, with the unique constraints that matter in `Clash`; a
wizard's transaction carries its `todo` and what it has `made`. `Insert` waits for
another transaction's row of the same key and fails when that is committed or when
row-level security forbids the row; `Commit` makes all of it visible. `Answer` is the
response on its way through `AuditLogMiddleware`; `Audit` inserts the entry or swallows
the failure. An entry has what the request asked for, of which tenant, and the number the
counter `done` gave the write. `CurrentTenant == None`: the RLS middleware runs before DRF
authenticates the token, so it never sees a user. A ghost's request is one of the
administrator whose token it carries, as in the code. `issued` is history.

### Workbooks and SeedLoad

`Plan(book)` is the sequence of upserts a load makes: sectors, commodities (segments
filled forward through merged cells), thresholds (a header row restarts the column map),
whitelist. It follows the workbooks more closely than the properties need: of the columns
they use only which upserts there are, in which order, and that scores and thresholds are
numbers. `Final(plan, key)` is what a whole plan leaves under a key. `SeedLoad` starts
containers of several images (`Start`), migrates (`Boot`) and runs these plans one
`update_or_create` at a time. A load ends the container under `set -e` when a migration
fails (`BootFails`), when the directory or the template's sheet is missing (`Raises`) and at
a row that does not fit its column (`Fits`); what it wrote before stays (`Abort`). `Push` is
what `push_certificate_to_whitelist` does to a seeded row whose number is short enough;
which of two certificates wins is `Whitelist`'s. `alone` and `pushed` are history:
containers since whose start no other image wrote, and rows a certificate wrote last.

### ClientSession

`store` is `localStorage`; a token stands for the user it was issued to. `tab[t]` is the
provider's user and `loading`, the page, and the call its form or `useApi` waits for.
`call[c]` is an API call in flight; an answer that is read is `Answered`, a 401 turns it
into a refresh when it may retry (`Unauthorized`), a refresh answered stores the access
token and sends the request again without a retry (`Refreshed`). `Render` and `GoTo`
are what mounting does: a dashboard without a user redirects, leaving a page drops its
state. A mount (`Mount`) runs `loadMe` in a new provider: after a `Reload` the tab's calls are
gone, after a switch of the language (`Remount`) those of the provider before go on without
it. Of these a login still stores its tokens (`LeftLoginAnswered`) and a failing `/auth/me/`
still clears the store (`LeftNotMe`); no other answer is of use (`Drop`).
`late`, `stale` and `spoiled` are history: a refresh begun in a session since
given up, tabs whose session was changed under them, and that such a refresh was stored.

### Scoring

`WithinTolerance(a, b)` is `within_tolerance` over integers, without the division
and the rounding: the difference is at most 5% of the larger magnitude.
`TopVendors` is `top_vendors_70`: the shortest prefix of the vendors in descending
spend that covers 70%, and all of them when none does. `Ranked` is the stable sort by what it
does: in place *k* comes the vendor that *k* − 1 are ahead of. `Lists!InOrder` puts the vendors
of `VendorSpends` and the chunks of `ChunkText` in order in the same way: a definition by
`SortSeq` or `SelectSeq` is closed to the provers.

## 4. Runs

Passing runs:

| Run | Instance | Distinct states | Properties |
|---|---|---|---|
| `year_races` | 2 years of 2 tenants, 2 hard closes, 1 payroll upload and row, 1 purchases upload and invoice, 2 requests | 1.98 M | `TypeOK`, `FlagIsEarned`, `LockSpec`, `LockedYearSettles` |
| `scoring` | 1 soft close, 2 assets, 2 requests; 2 users, 1 document, 1 conversation; 2 vendors (one foreign), 1 product, 2 mappings, 2 items, 1 analysis and 2 changes; up to 4 invoices of either sign; figures −42 … 42; texts of up to 7 characters | 642 k | `VarianceEarned`, `KingdomOnly`, `SelectionSound`, `StrictBlock`, `ChunksCover`, `WallHolds`, `ChecksSound`, `AnswersEarned` |
| `payroll_races` | 2 rows, an Excel of one line, 2 requests, 1 worker, inline and queued, crashes | 1.26 M | `TypeOK`, `NeverCountedTwice`, `VerdictEarned` |
| `payroll_ends` | the same with 1 request, queued | 162 k | `ParsesEnd` (liveness) |
| `whitelist` | a number of 10 or of 15 digits, 1 vendor, 2 certificates, 2 scores, 2 dates, 2 requests, 1 seed, 2 days, a client-sent score | 784 k | `TypeOK`, `VendorScoreBacked`, `RegisterSpec` |
| `purchases` | 2 VAT numbers, 2 vendors, a file of two lines of one vendor, 1 request, 2 tasks, 3 invoices | 2.6 M | `TypeOK`, `DuplicatesNeedOverlap`, `ParsedIsComplete` |
| `audit_pack` | 2 years, 1 report, 1 link, 2 requests, 2 exports, 1 tick, local storage and a bucket | 3.75 M | `TypeOK`, `HashesBacked`, `ScoresAssembled`, `TermsKept`, `RegisterSpec` |
| `seed_load` | 2 containers, 2 images with differing workbooks and 3 that cannot be loaded, 3 crashes or deploys, pushes to 1 row | 325 k | `SeedTypeOK`, `LoadIdempotent`, `ServesLoaded`, `EverServes` (liveness) |
| `client_session` | 2 tabs, 2 calls in flight, 2 users | 519 k | `TypeOK`, `TokensPaired`, `SessionAgrees`, `EveryQuestionAnswered`, `LoadingWaits`, `RefreshesOnce` |
| `onboarding` | 2 tenants, 2 requests, 2 emails, lists that repeat, 2 successful writes, RLS switched on at any time | 466 k | `GhostsRecorded`, `AuditBacked`, `RegisterSpec` |

What the properties say.

- Year: `FlagIsEarned`, a pass flag stored or about to be stored was found by a
  reconciliation of that hard close; `LockSpec`, the year close implements `YearLock`;
  `LockedYearSettles`, once the requests admitted before a lock have ended, no user of the
  year's own tenant writes the hard close or the payroll uploads it has there.
- Whitelist: `RegisterSpec`, the row implements `VerifiedRegister`; `VendorScoreBacked`, a
  vendor's certificate score is one of its certificates' or a client's.
- Payroll: `NeverCountedTwice`, a score counts no row in Section 3 and in Section 6;
  `VerdictEarned`, PARSED was found by a cross-check; `ParsesEnd`, an accepted parse is
  taken and ends.
- Purchases: `DuplicatesNeedOverlap`, a VAT number has two vendors only if two tasks were
  creating it at once or a client gave it; `ParsedIsComplete`, PARSED means that some task
  inserted every line.
- Packs: `HashesBacked`, the hash of every artifact is of a file stored for its report, which
  local storage still has; `ScoresAssembled`, no score in a report, in flight or in a file
  was assembled for another report or for none; `TermsKept`, no link outlives its
  term; `RegisterSpec`, exports and portal implement `PackRegister`.
- Figures: `VarianceEarned`, variances come together, and from the totals typed and what the
  uploads were at some time since; `KingdomOnly`, assets abroad do not count, once created
  and while not edited.
- Analysis: `ChecksSound`, a warning is of a breach there was while the check ran
  (`WarningsEarned`) and no breach that lasted all the while is missed (`NothingMissed`);
  `AnswersEarned`, a ceiling, a depreciation and a CAPEX figure are what the rows had.
- Functions: `SelectionSound`, the selection covers 70% and no smaller set does
  (`SmallestCover`), its spend is not zero (`WeightDefined`), and the spends selected do not
  depend on the order (`OrderInsensitive`); `StrictBlock`, the tolerance is the 95% band;
  `ChunksCover`, no character of a document is lost by the chunker.
- Copilot: `WallHolds`, an answer draws on no other tenant and on no department whose API
  would refuse the role it was asked with, and the browser offers a page exactly where the
  API serves it.
- Onboarding: `RegisterSpec`, provisioning implements `CompanyRegister`; `GhostsRecorded`,
  every ghost token has its session on record; `AuditBacked`, the log
  claims no company that was rolled back, no impersonation without a session, and no write
  before its company was there.
- Seed: `LoadIdempotent`, when all serve, the tables are what one uninterrupted load leaves,
  but for rows a certificate was pushed to since; `ServesLoaded`, nothing serves with a
  migration or a row missing; `EverServes`, a container that stays with an image that can be
  loaded serves again and again, whatever failed half way before.
- Browser: `TokensPaired`, both tokens are one user's, but for a refresh of a session given
  up; `SessionAgrees`, a tab shows the user its tokens are of; `EveryQuestionAnswered`, only
  the question the form waits for is unanswered; `LoadingWaits`, who loads waits for a call
  of their own; `RefreshesOnce`, no answer takes a call farther from its end.

Bounds. Two requests (or tasks, tabs, containers) at once are enough for every race
listed: each is between two writers, or between a check and a write; `purchases` has two
tasks and a client beside them. Two competing hard closes are needed for the
one-per-year constraint, two years for moves, of two tenants for what the guard does not
find, two scores for a certificate to be
distinguishable from another. Amounts 100 and 120 are on either side of the tolerance.
`LastDay = 2` lets a certificate of day 1 expire once; `MaxVersion = 2` allows an insert
and one update of the row, and the seed's reset allows more. A file of two lines of one
vendor uses the task's cache, and finds two vendors that two tasks created; a third
invoice lets a second task get past its first line. `MaxBuilds = 2` exports meet under one
file name, and `LastTick = 1` tells two builds apart and lets a link expire; one score
value is enough beside the time, as all scores are interchangeable and `ScoresAssembled`
compares with what was assembled. Three crashes cut a load off, replace its image and cut
that off; of the images that fail, one does so at a row, one before the first and one at a
migration. Two calls let a refresh of one session be in flight while the next begins.

`MCScoring` puts several small systems that share nothing in one run: a behaviour has rows
in the closes or in the assets, or belongs to an analysis, to the copilot or to one function's
arguments. `MaxRuns = 1` analysis sees up to `MaxChanges = 2` changes, enough for one in each
of the two gaps of a check; what one analysis leaves behind no other reads.

Requests are interchangeable, and so are the certificates, scores, vendors, years, tabs,
calls, users, tenants and emails of their runs, hence the symmetry sets; the liveness runs
(`payroll_ends`, `seed_load`) use none. `year_races` has `VIEW Tables`: states that differ in
`lastVerdict` alone, which no action and none of its properties reads, are one state. `audit_pack` has
`VIEW Packs`, without the digests logged and confirmed: no action reads them, and the
register asks of each one added that it is issued, which is for ever.

Deadlock is off where a system may really stop: `year_races` (all ids may be in the history
so that no new row can be made), `scoring` (the enumeration of inputs ends), `audit_pack`
and `purchases` (ids and the bounds on exports, invoices and the clock are used up),
`client_session` (nobody is obliged to act and nothing need be in flight) and `seed_load`
(all serve and no crash is left).

Two runs in which the code and a text of the repository disagree:

| Run | Text | What the code does |
|---|---|---|
| `red_light_ignored` | `finance/services.py:124` | a PATCH fetched before a failing reconciliation writes the old flag back after its verdict; nothing is in flight any more, and the export stays allowed |
| `classification_kept` | `procurement/serializers.py:30` | a vendor created with a local VAT number is PATCHed to a foreign one and stays classified as local |

Fairness. `Payroll` assumes weak fairness of each worker: a Celery worker polls the broker
and goes on with the task it has. Requests get none: a client may leave, and nothing in the
code retries them. A task that dies ends too, since the broker hands it out before it runs.
`SeedLoad` assumes weak fairness of each container's own steps: the platform starts a
container again when it exits (the plan is Cloud Run, `docs/PLAN.md:204`) and a process
that runs goes on; crashes and deploys are bounded and never forced. A container whose image
cannot be loaded starts and ends for ever, and `EverServes` promises nothing of it. The other
specifications assume no fairness and state safety only; `LoadingWaits` and `RefreshesOnce`
are the safe halves of "a page stops loading": a tab that loads has a call, and a call has
a bounded number of answers left.

## 5. Proofs

For any number of years, hard closes, uploads, rows, vendors, certificates, reports,
links, tenants, tabs, calls, containers and requests, from the named assumptions on the
constants only (`Vendors` and `Workers` are finite where something is counted). Most of
them say that a marker (`Null`, `Absent`, `None`, `Nobody`) is no row. `SeedAssumption` says that
workbooks are sheets of rows of strings or are missing, and that the whitelist has a vendor:
those are in the code, and of an image whose load writes nothing, a container redeployed
over a half-loaded one would serve what that one left.

The properties were model-checked before they were proved. Nearly all invariants have one
shape: the property speaks of the tables, and the invariant adds
what every request in flight has fetched and is about to write.

`YearCloseProofs`:

- `TypeCorrect`: `Spec => []TypeOK`, one step per action.
- `PassFlagEarned`: `Spec => []FlagIsEarned`. `FlagIsEarned` alone is not inductive for
  the lock, so the proof carries `Earned`: the flag part, and that a
  request about to commit a lock, or a locked year, implies that some hard close
  was verified. A save in flight carries a fetched flag, so the flag must be
  earned there too: that is why the invariant speaks of requests.
- `ImplementsYearLock`: `Spec => LockSpec`; each step of `YearClose` is a `Verify`
  (`SumPurchases` that passed), a `Lock` (`CommitLock`) or a stutter.
- `LockedYearsSettle`: `Spec => LockedYearSettles`, an action property: in a settled
  year no request of its tenant can be admitted that would touch the year, because every
  guard looks at the year of the payload and of the object, and a lock is never undone.

`WhitelistProofs`:

- `TypeCorrect`: `Spec => []TypeOK`.
- `ImplementsRegister`: `Spec => RegisterSpec`. The invariant `Publishes` says that what a
  pushing request carries has a date of the domain; each step is a `Publish`, a
  `Reseed` or a stutter.
- `ScoresBacked`: `Spec => []VendorScoreBacked`, by the invariant `Backing`: parsed
  columns, whatever a request carries of them, and what will be saved to a
  vendor are all read off one of its own certificates, or sent by a client.
- `SeedTypesKept` (of `SeedLoad`): `SeedSpec => []SeedTypeOK`, for any workbooks. That a step keeps it rests
  on `PlanIs`, what a plan is whatever the sheets hold. A plan is made by folds over rows, which the
  provers know nothing of: `FoldIs` says that the function `FoldLeft` chooses exists, and
  `FoldTyped` that it has the type every step keeps, both from a least counterexample
  (`LeastSubset`), and each of the six folds is then unfolded once (`SectorsAre` to `PercentagesAre`).
- `LoadAlwaysIdempotent` (of `SeedLoad`): `SeedSpec => []LoadIdempotent`. The property speaks of the
  moment when all serve; `LoadInv` speaks of every moment: under each key a container has
  passed there is the last value of its plan, or some container is still to come to it
  (`Pending`), one that is down or begins included, or a certificate was pushed there last.
  Among the upserts of a key there is a last one (`LargestExists`), as the subsets of a finite set are well-founded.
- `ServesOnlyLoaded` (of `SeedLoad`): `SeedSpec => []ServesLoaded`. The invariant speaks of the loads
  that run: what is before a container's place in its plan fits and is in the tables, and
  neither an upsert nor a push ever takes a row away.

`ScoringProofs`: `ToleranceIsBand` for all integers, by cases on the signs; from it
`StrictBlockAlways`, and `ToleranceSymmetric`, on which callers rely that pass the figures
in different orders. And of the modules `MCScoring` composes:

- `FiguresTypeCorrect`: `FiguresSpec => []FiguresTypeOK`, with `Inserted`: what a request is to
  write belongs to a row that was inserted.
- `VariancesAlwaysEarned`: `FiguresSpec => []VarianceEarned`. `VarianceInv` adds that the totals a
  request carries are those typed, that a variance in flight is of a state since, and that
  the present state is among those (`ActualSince`), which a first sum needs.
- `KingdomAlwaysOnly`: `FiguresSpec => []KingdomOnly`, by `KingdomInv`: an asset whose rule is yet to
  apply is unsettled, and has one creation only (`OneCreation`), so that settling it is final.
- `WallAlwaysHolds`: `CopilotSpec => []WallHolds`, by `WallInv`: what a question in flight and a stored
  answer draw on is within the wall of the role and owner they were asked with.
- `SelectionAlwaysSound`: `Spec => []SelectionSound`. The invariant only types the invoices; the rest
  is of any list of them. A strict order gives each element of a finite set a place
  (`OrderPlaces`), so `Ranked` is a permutation by falling spend (`RankedIs`), and the
  vendors' spends come to the invoices' (`VendorSpendsIs`, `SumGrouped`). The first *k*
  of numbers that fall come to at least as much as any *k* (`FirstMost`): no smaller set
  covers as much (`CoverIsSmallest`). Falling numbers that are the same but for their
  names are the same (`NoMore`), so the order of the invoices does not matter.
- `ChunksAlwaysCover`: `Spec => []ChunksCover`. `ChunkTextIs` has it of every text, size and overlap:
  the steps of the windows are no longer than the size and reach the end (`StepsReach`).
- `AnswersAlwaysEarned`: `AnalysisSpec => []AnswersEarned`, by `AnswersInv`: what a request
  has summed is of a state since it began. A sum with weights 1 and −1 is one sum less another
  (`SumSplits`), which is how the code computes the ceiling.
- `ChecksAlwaysSound`: `AnalysisSpec => []ChecksSound`, by `AnalysisInv`: the minimums read and the
  breaches found are of states the check has seen, the present one among them; more
  states earn more breaches and miss fewer (`SoundGrows`).

`PayrollProofs`:

- `TypeCorrect`: `Spec => []TypeOK`, which includes that no row outlives its upload.
- `ParsedIsEarned`: `Spec => []VerdictEarned`, which is inductive as it speaks of what is in
  flight as well.
- `NoDoubleCount`: `Spec => []NeverCountedTwice`. That is not inductive: the row a report
  counted may change before it reads Section 6. The invariant `OriginalSplits` is:
  every split, stored or in flight, is missing or the one of the data its row was
  created with, which pays one section only.

`PurchasesProofs`:

- `TypeCorrect`: `Spec => []TypeOK`, no invoice outliving its vendor or its upload.
- `ParsedIsEarned`: `Spec => []ParsedIsComplete`, by `LinesInFile`: a task at line *k* has
  inserted the *k* − 1 lines before it.
- `ClassificationKept`: `Spec => []ClassifiedWhenCreated`, by `ClassInv`: every classification, stored
  or in flight, is of the VAT number the vendor was created with. So a PATCH never derives it
  anew, which is why `ClassificationDerived` fails.
- `DuplicatesOnlyByOverlap`: `Spec => []DuplicatesNeedOverlap`, by `OverlapInv`: of a VAT number
  that is not marked there is at most one vendor or one task about to insert one, and
  the number of every vendor fetched for a save is marked.

`AuditPackProofs`:

- `TypeCorrect`: `Spec => []TypeOK`, no artifact outliving its report.
- `TermsHold`: `Spec => []TermsKept`, by `TermInv`: a link fetched for a save is within its term as well.
- `ImplementsRegister`: `Spec => RegisterSpec`. `PackInv` ties what an export has in flight to the
  register: about to store, its year was open; about to record, its content is stored; about
  to log, its digest is issued.
- `HashesHold`: `Spec => []HashesBacked`, by `FileInv`: a file is stored before its row, for the
  report and the kind the row names, and only a bucket saves another over it.
- `ScoresAlwaysAssembled`: `Spec => []ScoresAssembled`, by `ScoreInv`: the score in a stale copy of a
  report, about to be saved or in a file is null or one assembled for that report, and nothing
  assembled is forgotten.

`ClientSessionProofs`:

- `TokensStayPaired`: `Spec => []TokensPaired`, by `PairInv`: a call that waits for a refresh carries
  the stored refresh token, or is marked late. The proof sorts the steps first by what they do
  to store and calls (`Begins`, `Loads`, `Ends`, `Enters`, `Retries`).
- `RetriesEnd`: `Spec => RefreshesOnce`, an action property: `Left` never grows, for each of those shapes.
- `SessionTypeCorrect`, `SessionsAgree`, `LoadingAlwaysWaits`, `QuestionsAnswered`: `Spec` implies
  `[]TypeOK`, `[]SessionAgrees`, `[]LoadingWaits`, `[]EveryQuestionAnswered`, by one invariant
  `AllInv`. To pair tokens it adds `TabsSound`: what a tab shows fits its page, and who loads, or
  has sent a form, waits for a call that is in flight and theirs; and
  `StaleInv`: in a tab whose session was not changed under it, the user shown, the calls
  in flight and the stored token are of one user. Each needs the others: that an answer
  reaches the tab that asked is what keeps the users the same; and `Orphan`, that the call of
  a provider that is gone is no tab's to wait for, is what a remount rests on. Of `TypeOK` only
  that `unanswered` stays a natural number needs any of this.

`OnboardingProofs`:

- `GhostsOnRecord`: `Spec => []GhostsRecorded`, by `GhostInv`: of each tenant the tokens handed
  out and those about to be are together no more than the sessions on record. The count
  over the requests in flight is by the theorems on finite sets.
- `ImplementsRegister`: `Spec => RegisterSpec`, the refinement of `CompanyRegister`. `RegisterInv` says
  that the rows a transaction has made and those it has still to make are together a
  wizard's (`Wizardly`), that those of two transactions, or of one and the committed ones,
  clash nowhere (`Apart`), and that committed rows are of tenants that are there. So
  `Commit` is an `Open` of a whole company with an owner nobody else has, `SoftHold` a
  `Hold`, and every other step, each insert, failure and crash included, a stutter.

The sums are folds over finite sets. The library's induction theorems take an operator, which
the provers cannot instantiate; the laws of sums (`SumLaws`) are had without them, from a minimal
counterexample: among the subsets of a finite set for which something fails there is a
minimal one (`MinimalExists`), as strict inclusion is well-founded. `SumIs` says that the sum
exists, and `TotalIs`, `SpendIs`, `NetSpendIs` and `SetSpendIs` that the folds of the model are it.

Only model-checked. Liveness under fairness and `ENABLED` are out of reach: `ParsesEnd` and
`EverServes`. `AuditBacked`, which counts the entries of the log. `red_light_ignored` and
`classification_kept` are counterexamples, which a proof does not give.

## 6. Not modelled, and why

- Columns that no property reads: names, months, branches, VAT details.
- The insert of a Top-40 selection, which every run repeats.
- The views of CAPEX and of the trial balance: CRUD behind the guard that `YearClose` models.
  API keys and webhooks are one insert each: no code authenticates
  with a key or sends a webhook. The bidding simulator is one multiplication.
- Editing, deleting or replacing the file of a certificate: the `Whitelist` keeps a fixed
  set, so that a vendor whose certificate has expired and was replaced is not covered.
- Encryption, validators, Document AI, Vertex AI, layout, translations: data conversion or
  external I/O. Settings and migrations: configuration, of which the modules use autocommit,
  the constraints and the queueing of tasks.

Seen while reading, and stated by no run:

- Nothing clears the pass flag when figures or rows change after a passing reconciliation
  (`finance/services.py:174`, against `:4-5`). A passed hard close can be PATCHed to another
  year, which is then locked (`:161,167`).
- Payroll rows can be POSTed to, and purchases changed in, a LOCKED year (`hr/views.py:62`,
  `procurement/views.py:81`, against `tenancy/locking.py:4-6`). Another tenant's users may name a
  locked year in hard closes and uploads of their own: the guard looks the year up by their
  tenant and admits (`locking.py:25-27`), and it takes the year's one hard close when that is free.
- A payroll row PATCHed from regular to trainee stays in Section 3 (`hr/services.py:9-10`).
- Of two first pushes of a VAT number the second fails, even with the newer certificate
  (`procurement/services.py:121`); `push_to_whitelist` does not look at `is_expired`
  (`procurement/views.py:106`); an expired certificate leaves its score with the vendor
  (`tasks.py:118`).
- A certificate with a VAT number of fifteen digits is never pushed: its number does not fit
  `cr_number` (`tasks.py:124`, `seed/models.py:92`, against `seed/models.py:81-84`).
- A client may send `verified_lc_score` (`procurement/serializers.py:31`, against `:30`):
  `VendorScoreBacked` excuses the scores clients sent, and holds of no others.
- The status stays PARSING when tasks run inline (`hr/views.py:31-33`).
- The second export of a report is stored under another name than its artifact records
  (`reports/services.py:166-173`), or, with the bucket of the deployment
  (`config/settings/prod.py:33`, `.do/app.yaml:48`), over the first one's file: the hash on record
  of that has no file any more (against `reports/services.py:146-151`, `reports/models.py:4-6`,
  `docs/PLAN.md:247`). Hence what `HashesBacked` says of the two. A report that is moved to
  another year keeps the score of the year before (`reports/views.py:29-35`).
- Entries of the audit log may be missing, as a failing insert is swallowed and a worker may die
  before it (`audit/middleware.py:34`, against `:2` and `audit/models.py:4`); a ghost's writes are
  logged as the Super Admin's whose token it is.
- The soft-hold flag is read by no code, though it "locks out" (`provisioning.py:97`);
  `end_ghost_login` is called by nothing, and no code reads a ghost token's claims.
- `ROLE_SECTION_ACCESS` (`accounts/models.py:24-29`) gives a COMPANY_ADMIN setup and export only, where
  the permission classes let one into every department. No code but tests reads it, so that
  `Access` has the three tables that decide something.
- The RLS middleware finds an anonymous user, and its `set_config(…, is_local)` ends with
  its statement under autocommit: with `ENABLE_RLS=1` tenant-scoped rows are invisible to the
  application's role and the wizard's inserts fail (against `provisioning.py:4-5`).
- The copilot's `tenant_id__in=[None, tenant]` matches no NULL, so that rulebooks of no tenant
  are not found (against `copilot/services.py:79-82`); a user whose role was changed still sees
  the answers of before.
- Nothing creates the `InvoiceLine` rows the mandatory checks read (`procurement/services.py:146-156`);
  warnings of earlier runs stay beside the new ones (`:187-188`).
- `_to_score` reads a certificate's "1%" as 100% (`procurement/docai.py`).
- A late refresh stores an access token after a sign-out (`lib/api.ts:46`), and a failed
  late `/auth/me/` signs the next session out (`lib/auth.tsx:48`): `TokensPaired` and
  `SessionAgrees` name these cases. Two `setItem` calls are taken as one step.

## 7. Plan

1. **Done**: `Scoring`, `YearClose`, `Whitelist`, `Payroll`, `AuditPack`, `Purchases`, `Figures`,
   `Analysis`, `Copilot`, `Onboarding`, `SeedLoad`, `ClientSession`, and the proofs of section 5:
   every invariant and action property of the passing runs but those section 5 names.
2. Models next: replacing the file of a certificate in `Whitelist`; the gate of `AuditPack` taken
   from `YearClose` instead of an environment that opens and shuts.
3. Proofs next: the invariants of those.
