------------------------------- MODULE SeedLoad -------------------------------
(***************************************************************************)
(* infra/entrypoint.sh with RUN_SEED=1: every container that starts makes  *)
(* the extensions and migrates, loads the workbooks baked into its image,  *)
(* one update_or_create at a time, and then serves.  A command that fails  *)
(* ends the container (set -e), and the orchestrator starts it again.      *)
(* There is no transaction around the load and no lock between containers: *)
(* a rolling deploy has several of them seeding at once, of the old image  *)
(* and of the new, and any may die half way.  Meanwhile the containers     *)
(* that serve, and the workers, push certificates into the whitelist rows. *)
(* With ENABLE_RLS=1 two more commands follow the load; they are left out. *)
(***************************************************************************)
EXTENDS Workbooks

CONSTANTS
  Containers,
  Images,
  Books,       \* the workbooks of each image
  Migrating,   \* the images whose extensions and migrations apply
  ShortVats,   \* the VAT numbers that fit cr_number, where a push puts them too
  MaxCrashes,  \* bound: how often containers die
  NoRow

ASSUME SeedAssumption ==
  /\ MaxCrashes \in Nat /\ Migrating \subseteq Images
  /\ DOMAIN Books = Images /\ \A m \in Images : IsBook(Books[m])

(* The upserts of each image, in the order they are made.                  *)
PlanOf == [image \in Images |-> Plan(Books[image])]

Keys == UNION {{PlanOf[m][i].key : i \in DOMAIN PlanOf[m]} : m \in Images}

Values == UNION {{PlanOf[m][i].value : i \in DOMAIN PlanOf[m]} : m \in Images}

ASSUME NoRowAssumption == NoRow \notin Values \cup Decimals

(* The seeded whitelist rows a certificate can write.  A longer VAT number *)
(* is a DataError, and those of seed_lcgpa.py:254-256 have 15 digits: the  *)
(* pushes matter for a list that has another.                              *)
Pushable == {key \in Keys : key[1] = "whitelist" /\ key[2] \in ShortVats}

VARIABLES
  tables,      \* the reference tables: key to the last defaults written
  containers,  \* what each container does
  crashes,     \* bound: crashes left
  alone,       \* history: containers started since another image last wrote
  pushed       \* history: whitelist rows that a certificate wrote last

seedVars == <<tables, containers, crashes, alone, pushed>>

Container == [state : {"down", "booting", "seeding", "serving"}, image : Images, at : Nat]

(* Scores and percentages are numbers that are not null.                   *)
SeedTypeOK ==
  /\ tables \in [Keys -> Values \cup Decimals \cup {NoRow}]
  /\ \A key \in Keys : key[1] \in {"sector", "threshold"} => tables[key] \in Decimals \cup {NoRow}
  /\ containers \in [Containers -> Container]
  /\ crashes \in Nat
  /\ alone \subseteq Containers
  /\ pushed \subseteq Pushable

SeedInit ==
  /\ tables = [key \in Keys |-> NoRow]
  /\ containers \in [Containers -> {[state |-> "down", image |-> m, at |-> 1] : m \in Images}]
  /\ crashes = MaxCrashes
  /\ alone = {}
  /\ pushed = {}

(* The orchestrator starts a container, or starts it again after it died.  *)
Start(c) ==
  /\ containers[c].state = "down"
  /\ containers' = [containers EXCEPT ![c].state = "booting", ![c].at = 1]
  /\ alone' = alone \cup {c}
  /\ UNCHANGED <<tables, crashes, pushed>>

(* setup_extensions and migrate.  That they fail for a while, as when the  *)
(* database is not up or another container migrates, is a Crash.           *)
Boot(c) ==
  /\ containers[c].state = "booting" /\ containers[c].image \in Migrating
  /\ containers' = [containers EXCEPT ![c].state = "seeding"]
  /\ UNCHANGED <<tables, crashes, alone, pushed>>

BootFails(c) ==
  /\ containers[c].state = "booting" /\ containers[c].image \notin Migrating
  /\ containers' = [containers EXCEPT ![c].state = "down"]
  /\ UNCHANGED <<tables, crashes, alone, pushed>>

(* Mutant: rows that are there already are left alone.                     *)
UpdateOrCreateMissing(key, value) ==
  tables' = IF tables[key] = NoRow THEN [tables EXCEPT ![key] = value] ELSE tables

(* update_or_create locks the row it finds, and takes another container's  *)
(* row when its insert meets the unique constraint: one step.              *)
UpdateOrCreate(key, value) == tables' = [tables EXCEPT ![key] = value]

(* The next upsert, or what comes before the first, is an error.           *)
Refused(c) ==
  \/ containers[c].at = 1 /\ Raises(Books[containers[c].image])
  \/ ~Fits(PlanOf[containers[c].image][containers[c].at])

Loading(c) ==
  containers[c].state = "seeding" /\ containers[c].at <= Len(PlanOf[containers[c].image])

(* Mutant: a key that is there already is an error, and the container      *)
(* exits (set -e).                                                         *)
LoadNextInserting(c) ==
  LET plan == PlanOf[containers[c].image]
      at   == containers[c].at
  IN /\ Loading(c) /\ ~Refused(c)
     /\ IF tables[plan[at].key] = NoRow
        THEN /\ tables' = [tables EXCEPT ![plan[at].key] = plan[at].value]
             /\ containers' = [containers EXCEPT ![c].at = at + 1]
        ELSE /\ containers' = [containers EXCEPT ![c].state = "down"]
             /\ UNCHANGED tables
     /\ UNCHANGED <<crashes, alone, pushed>>

LoadNext(c) ==
  LET plan == PlanOf[containers[c].image]
      at   == containers[c].at
  IN /\ Loading(c) /\ ~Refused(c)
     /\ UpdateOrCreate(plan[at].key, plan[at].value)
     /\ containers' = [containers EXCEPT ![c].at = at + 1]
     /\ alone' = {k \in alone : containers[k].image = containers[c].image}
     /\ pushed' = pushed \ {plan[at].key}
     /\ UNCHANGED crashes

(* Mutant: an error while loading is logged and the entrypoint goes on.    *)
AbortAnyway(c) ==
  /\ Loading(c) /\ Refused(c)
  /\ containers' = [containers EXCEPT ![c].at = @ + 1]
  /\ UNCHANGED <<tables, crashes, alone, pushed>>

(* The rows written before the error stay, and the next start meets the    *)
(* same error.                                                             *)
Abort(c) ==
  /\ Loading(c) /\ Refused(c)
  /\ containers' = [containers EXCEPT ![c].state = "down"]
  /\ UNCHANGED <<tables, crashes, alone, pushed>>

Serve(c) ==
  /\ containers[c].state = "seeding"
  /\ containers[c].at > Len(PlanOf[containers[c].image])
  /\ containers' = [containers EXCEPT ![c].state = "serving"]
  /\ UNCHANGED <<tables, crashes, alone, pushed>>

Crash(c) ==
  /\ crashes > 0 /\ containers[c].state # "down"
  /\ crashes' = crashes - 1
  /\ containers' = [containers EXCEPT ![c].state = "down"]
  /\ UNCHANGED <<tables, alone, pushed>>

(* A deploy gives a container that is down another image.                  *)
Deploy(c) ==
  /\ crashes > 0 /\ containers[c].state = "down"
  /\ crashes' = crashes - 1
  /\ \E m \in Images : containers' = [containers EXCEPT ![c].image = m]
  /\ alone' = alone \ {c}
  /\ UNCHANGED <<tables, pushed>>

(* push_certificate_to_whitelist, from a request or a worker: inserted, or *)
(* written over what is there.  Which of them are older is Whitelist's.     *)
Push(key, score) ==
  /\ tables' = [tables EXCEPT ![key] = score]
  /\ pushed' = pushed \cup {key}
  /\ UNCHANGED <<containers, crashes, alone>>

Run(c) ==
  Start(c) \/ Boot(c) \/ BootFails(c) \/ LoadNext(c) \/ Abort(c) \/ Serve(c)

SeedNext ==
  \/ \E c \in Containers : Run(c) \/ Crash(c) \/ Deploy(c)
  \/ \E key \in Pushable, score \in Decimals : Push(key, score)

(* The orchestrator keeps its containers up, and a process that runs goes  *)
(* on; crashes are few.                                                    *)
SeedFairness == \A c \in Containers : WF_seedVars(Run(c))

SeedSpec == SeedInit /\ [][SeedNext]_seedVars /\ SeedFairness

-----------------------------------------------------------------------------
(* Properties *)

(* When every container serves, each finds, for every row of its           *)
(* workbooks, what one uninterrupted load into empty tables leaves there,  *)
(* however many loads died before, of whatever image, and however many of  *)
(* its own image ran beside it, if no other image wrote since it started;  *)
(* a whitelist row may have been pushed to since a load last wrote it.     *)
(* While another container still loads, a product that a workbook lists    *)
(* twice may be set back for a moment (entrypoint.sh:3, seed_lcgpa.py:12). *)
LoadIdempotent ==
  (\A c \in Containers : containers[c].state = "serving") =>
    \A c \in alone :
      LET plan == PlanOf[containers[c].image]
      IN  \A i \in DOMAIN plan :
            plan[i].key \in pushed \/ tables[plan[i].key] = Final(plan, plan[i].key)

Loadable(image) ==
  /\ image \in Migrating /\ ~Raises(Books[image])
  /\ \A i \in DOMAIN PlanOf[image] : Fits(PlanOf[image][i])

(* A container serves only with the schema and every row of its workbooks  *)
(* in place: one whose image cannot be loaded never does, and rows that    *)
(* another container of its image is still to write are there already      *)
(* (entrypoint.sh:2-4).                                                    *)
ServesLoaded ==
  \A c \in Containers : containers[c].state = "serving" =>
    /\ Loadable(containers[c].image)
    /\ \A i \in DOMAIN PlanOf[containers[c].image] :
         tables[PlanOf[containers[c].image][i].key] # NoRow

(* A container that stays with an image that can be loaded serves again    *)
(* and again, however often its load was cut off and whatever rows it      *)
(* finds, those of loads that failed half way too (entrypoint.sh:3).       *)
EverServes ==
  \A c \in Containers :
    <>[]Loadable(containers[c].image) => []<>(containers[c].state = "serving")
==============================================================================
