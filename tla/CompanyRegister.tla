--------------------------- MODULE CompanyRegister ---------------------------
(* What the Master Admin's wizard promises: a company is on the platform     *)
(* whole or not at all, with one main registration, the years it paid for    *)
(* and one Super Admin whose login is nobody else's; what it was opened with *)
(* stays, and holding it back changes nothing but that it is held.           *)
CONSTANTS Tenants, None

VARIABLES
  companies,   \* what each tenant consists of; None: not on the platform
  held         \* tenants on hold

vars == <<companies, held>>

Whole(c) ==
  /\ \E owner \in c.owners : c.owners = {owner}
  /\ \E cr \in c.main \cap c.crs : c.main = {cr}
  /\ c.years # {} /\ c.paid = c.years

Init == companies = [t \in Tenants |-> None] /\ held = {}

Open ==
  \E t \in Tenants :
    /\ companies[t] = None /\ companies'[t] # None
    /\ Whole(companies'[t])
    /\ \A s \in Tenants \ {t} :
         /\ companies'[s] = companies[s]
         /\ companies[s] # None => companies[s].owners \cap companies'[t].owners = {}
    /\ UNCHANGED held

Hold ==
  /\ \A t \in held' : companies[t] # None
  /\ UNCHANGED companies

Next == Open \/ Hold

Spec == Init /\ [][Next]_vars
==============================================================================
