---------------------------- MODULE ClientSession ----------------------------
(***************************************************************************)
(* The browser's side of a session: lib/api.ts keeps the token pair in     *)
(* localStorage, which the tabs of a browser share; lib/auth.tsx keeps the *)
(* signed-in user in each tab's memory.  A tab's code runs from one await  *)
(* to the next without interruption, so a step is the part of a handler    *)
(* between two awaits; the answers of the calls in flight come in any      *)
(* order.                                                                  *)
(*                                                                         *)
(* A token stands for the user it was issued to.  The server may refuse    *)
(* any of them at any time: access tokens expire in minutes.               *)
(***************************************************************************)
EXTENDS Naturals, FiniteSets

CONSTANTS Tabs, Calls, Users, None

ASSUME SessionAssumption == None \notin Users \cup Calls

Pages == {"login", "data", "copilot"}

VARIABLES
  store,    \* localStorage: the access and the refresh token
  tab,      \* each tab: the provider's state and the mounted page's
  call,     \* the API calls in flight
  stale,    \* history: tabs whose session was changed under them
  spoiled   \* history: a refresh stored its token into a later session

vars == <<store, tab, call, stale, spoiled>>

Store == [access : Users \cup {None}, refresh : Users \cup {None}]

(* "busy" and "fetch" name the call the mounted form or page waits for.    *)
Tab == [user : Users \cup {None}, loading : BOOLEAN, page : Pages,
        busy : Calls \cup {None}, fetch : Calls \cup {None},
        shown : Users \cup {None}, unanswered : Nat]

(* "as" is the user whose token, or password, the request carries; "late"  *)
(* is history: the session its refresh token is of was given up.           *)
Idle == [op |-> "idle"]

(* The calls of the provider that is mounted, and those an unmounted one   *)
(* left: its logins, its loadMe's and all others.                          *)
Ops == {"login", "enter", "mount", "data", "ask"} \cup {"leftLogin", "leftMe", "left"}

Call == {Idle} \cup
        [op : Ops, tab : Tabs, stage : {"sent", "refresh"},
         as : Users \cup {None}, retry : BOOLEAN, late : BOOLEAN]

TypeOK ==
  /\ store \in Store
  /\ tab \in [Tabs -> Tab]
  /\ call \in [Calls -> Call]
  /\ stale \subseteq Tabs
  /\ spoiled \in BOOLEAN

-----------------------------------------------------------------------------
(* The page *)

Visible(w) == w.page # "login" /\ ~w.loading /\ w.user # None

(* Leaving a page drops its state; the dashboard has no state to show      *)
(* while the user loads, and sends nobody to the login page.               *)
Leave(w) == [w EXCEPT !.busy = None, !.fetch = None, !.shown = None, !.unanswered = 0]

Render(w) ==
  IF w.page = "login" \/ Visible(w) THEN w
  ELSE Leave(IF w.loading THEN w ELSE [w EXCEPT !.page = "login"])

GoTo(w, page) == Render(Leave([w EXCEPT !.page = page]))

Show(t, w) == tab' = [tab EXCEPT ![t] = w]

-----------------------------------------------------------------------------
(* The token store *)

Own(t) == {c \in Calls : call[c] # Idle /\ call[c].tab = t}

(* Replacing the session: history only.  Every other tab keeps a user it   *)
(* read before; so does this one if it still waits for /auth/me/.  What is *)
(* being refreshed belongs to the session before.                          *)
SwitchBy(t, c) ==
  /\ stale' = (Tabs \ {t}) \cup
              {u \in {t} : \E d \in Own(t) \ {c} : call[d].op \in {"enter", "mount"}}
  /\ spoiled' = FALSE

Outdate(calls) ==
  [c \in Calls |-> IF calls[c] = Idle THEN Idle
                   ELSE [calls[c] EXCEPT !.late = @ \/ calls[c].stage = "refresh"]]

(* Mutant: the refresh token of an earlier session stays.                  *)
SetTokensShort(u) == store' = [store EXCEPT !.access = u]

SetTokens(u) == store' = [access |-> u, refresh |-> u]

(* Mutant: the refresh token is left in localStorage.                      *)
ClearShort == store' = [store EXCEPT !.access = None]

Clear == store' = [access |-> None, refresh |-> None]

(* apiFetch up to its fetch: the token is the store's of this moment.      *)
Fetch(op, t, retry) ==
  [op |-> op, tab |-> t, stage |-> "sent", as |-> store.access, retry |-> retry, late |-> FALSE]

-----------------------------------------------------------------------------
(* What the user does *)

(* A provider is mounted and runs loadMe at once, which finds nobody when  *)
(* there is no token; "kept" is what becomes of the calls in flight.       *)
Mount(t, kept) ==
  \E page \in Pages, c \in Calls :
    LET fresh == Leave([tab[t] EXCEPT !.user = None, !.loading = TRUE, !.page = page])
    IN /\ kept[c] = Idle
       /\ IF store.access = None
          THEN Show(t, Render([fresh EXCEPT !.loading = FALSE])) /\ call' = kept
          ELSE Show(t, fresh) /\ call' = [kept EXCEPT ![c] = Fetch("mount", t, TRUE)]
       /\ stale' = IF spoiled THEN stale \cup {t} ELSE stale \ {t}
       /\ UNCHANGED <<store, spoiled>>

(* The page is loaded, or loaded again: the tab's memory is new and its    *)
(* calls are gone, localStorage stays.                                     *)
Reload(t) == Mount(t, [c \in Calls |-> IF c \in Own(t) THEN Idle ELSE call[c]])

(* The LangSwitcher, or the browser's history, changes the locale, which   *)
(* mounts another provider; the calls of the one before go on without it.  *)
LeftBehind(op) ==
  IF op \in {"login", "leftLogin"} THEN "leftLogin"
  ELSE IF op \in {"enter", "mount", "leftMe"} THEN "leftMe" ELSE "left"

Remount(t) ==
  Mount(t, [c \in Calls |-> IF c \in Own(t) THEN [call[c] EXCEPT !.op = LeftBehind(@)]
                            ELSE call[c]])

(* A link, or the browser's history; the provider stays mounted.           *)
Navigate(t) ==
  \E page \in Pages \ {tab[t].page} :
    /\ Show(t, GoTo(tab[t], page))
    /\ UNCHANGED <<store, call, stale, spoiled>>

(* onSubmit of the login form, up to the request; the button is disabled   *)
(* while busy.  Nothing keeps a signed-in user from the form.              *)
Submit(t, c) ==
  /\ tab[t].page = "login" /\ tab[t].busy = None /\ call[c] = Idle
  /\ \E u \in Users :
       call' = [call EXCEPT ![c] = [Fetch("login", t, FALSE) EXCEPT !.as = u]]
  /\ Show(t, [tab[t] EXCEPT !.busy = c])
  /\ UNCHANGED <<store, stale, spoiled>>

(* Mutant: the tab keeps its user.                                         *)
SignOutTokensOnly(t) ==
  /\ Visible(tab[t])
  /\ Clear /\ SwitchBy(t, None)
  /\ Show(t, GoTo(tab[t], "login"))
  /\ call' = Outdate(call)

SignOut(t) ==
  /\ Visible(tab[t])
  /\ Clear /\ SwitchBy(t, None)
  /\ Show(t, GoTo([tab[t] EXCEPT !.user = None], "login"))
  /\ call' = Outdate(call)

(* useApi of the page that is mounted; its call is made once.              *)
Open(t, c) ==
  /\ Visible(tab[t]) /\ tab[t].page = "data"
  /\ tab[t].fetch = None /\ tab[t].shown = None /\ call[c] = Idle
  /\ call' = [call EXCEPT ![c] = Fetch("data", t, TRUE)]
  /\ Show(t, [tab[t] EXCEPT !.fetch = c])
  /\ UNCHANGED <<store, stale, spoiled>>

(* Mutant: the form is not disabled while the answer is awaited.           *)
AskAgain(t, c) ==
  /\ Visible(tab[t]) /\ tab[t].page = "copilot" /\ call[c] = Idle
  /\ call' = [call EXCEPT ![c] = Fetch("ask", t, TRUE)]
  /\ Show(t, [tab[t] EXCEPT !.busy = c, !.unanswered = @ + 1])
  /\ UNCHANGED <<store, stale, spoiled>>

(* A question to the copilot; input and button are disabled while busy.    *)
Ask(t, c) ==
  /\ Visible(tab[t]) /\ tab[t].page = "copilot" /\ tab[t].busy = None /\ call[c] = Idle
  /\ call' = [call EXCEPT ![c] = Fetch("ask", t, TRUE)]
  /\ Show(t, [tab[t] EXCEPT !.busy = c, !.unanswered = @ + 1])
  /\ UNCHANGED <<store, stale, spoiled>>

-----------------------------------------------------------------------------
(* What the answers do *)

(* login's tokens are stored, and loadMe of signIn sends its request.      *)
LoginAnswered(c) ==
  LET t == call[c].tab
      u == call[c].as
  IN /\ call[c].op = "login"
     /\ \/ /\ SetTokens(u) /\ SwitchBy(t, c)
           /\ Show(t, Render([tab[t] EXCEPT !.loading = TRUE]))
           /\ call' = Outdate([call EXCEPT ![c] = [@ EXCEPT !.op = "enter", !.retry = TRUE]])
        \/ /\ Show(t, [tab[t] EXCEPT !.busy = IF @ = c THEN None ELSE @])
           /\ call' = [call EXCEPT ![c] = Idle]
           /\ UNCHANGED <<store, stale, spoiled>>

(* signIn ends: its form, if it is still there, goes to the dashboard,     *)
(* whether /auth/me/ was answered or not.                                  *)
Enter(c, w) == IF call[c].op = "enter" THEN GoTo(w, "data") ELSE Render(w)

(* Mutant: "loading" is reset only when the user was found.                *)
NotMeLoading(c) ==
  LET t == call[c].tab
  IN /\ call[c].op \in {"enter", "mount"}
     /\ Clear /\ SwitchBy(t, c)
     /\ Show(t, Enter(c, [tab[t] EXCEPT !.user = None]))
     /\ call' = Outdate([call EXCEPT ![c] = Idle])

(* loadMe's catch clears the store, whoever's tokens it holds by now.      *)
NotMe(c) ==
  LET t == call[c].tab
  IN /\ call[c].op \in {"enter", "mount"}
     /\ Clear /\ SwitchBy(t, c)
     /\ Show(t, Enter(c, [tab[t] EXCEPT !.user = None, !.loading = FALSE]))
     /\ call' = Outdate([call EXCEPT ![c] = Idle])

Me(c, u) ==
  /\ call[c].op \in {"enter", "mount"}
  /\ Show(call[c].tab, Enter(c, [tab[call[c].tab] EXCEPT !.user = u, !.loading = FALSE]))
  /\ call' = [call EXCEPT ![c] = Idle]
  /\ UNCHANGED <<store, stale, spoiled>>

(* The tokens of a login that was left are stored, and its loadMe goes on: *)
(* it changes the session of every tab.                                    *)
LeftLoginAnswered(c) ==
  /\ call[c].op = "leftLogin"
  /\ \/ /\ SetTokens(call[c].as) /\ stale' = Tabs /\ spoiled' = FALSE
        /\ call' = Outdate([call EXCEPT ![c] = [@ EXCEPT !.op = "leftMe", !.retry = TRUE]])
        /\ UNCHANGED tab
     \/ /\ call' = [call EXCEPT ![c] = Idle]
        /\ UNCHANGED <<store, tab, stale, spoiled>>

(* So does the catch of a loadMe that was left, which clears the store.    *)
LeftNotMe(c) ==
  /\ call[c].op = "leftMe"
  /\ Clear /\ stale' = Tabs /\ spoiled' = FALSE
  /\ call' = Outdate([call EXCEPT ![c] = Idle])
  /\ UNCHANGED tab

(* No other answer is of use to a provider that is gone; where its login   *)
(* form still goes, Navigate and Remount go too.                           *)
Drop(c, ops) ==
  /\ call[c].op \in ops
  /\ call' = [call EXCEPT ![c] = Idle]
  /\ UNCHANGED <<store, tab, stale, spoiled>>

(* Mutant: the answer is shown though the page that asked has gone.        *)
DataReadAnyway(c, u) ==
  LET w == tab[call[c].tab]
  IN /\ call[c].op = "data"
     /\ Show(call[c].tab, IF Visible(w) /\ w.page = "data" THEN [w EXCEPT !.shown = u] ELSE w)
     /\ call' = [call EXCEPT ![c] = Idle]
     /\ UNCHANGED <<store, stale, spoiled>>

(* useApi shows an answer only to the mount that asked ("active").         *)
DataRead(c, u) ==
  LET w == tab[call[c].tab]
  IN /\ call[c].op = "data"
     /\ Show(call[c].tab, IF w.fetch = c THEN [w EXCEPT !.shown = u] ELSE w)
     /\ call' = [call EXCEPT ![c] = Idle]
     /\ UNCHANGED <<store, stale, spoiled>>

(* Mutant: an answer is counted though its page was left.                  *)
AnswerReadAnyway(c) ==
  LET w == tab[call[c].tab]
  IN /\ call[c].op = "ask"
     /\ Show(call[c].tab, [w EXCEPT !.busy = None, !.unanswered = @ - 1])
     /\ call' = [call EXCEPT ![c] = Idle]
     /\ UNCHANGED <<store, stale, spoiled>>

(* ask appends the answer, or the error, and enables the form.             *)
AnswerRead(c) ==
  LET w == tab[call[c].tab]
  IN /\ call[c].op = "ask"
     /\ Show(call[c].tab, IF w.busy = c THEN [w EXCEPT !.busy = None, !.unanswered = @ - 1] ELSE w)
     /\ call' = [call EXCEPT ![c] = Idle]
     /\ UNCHANGED <<store, stale, spoiled>>

Resolve(c, u) == Me(c, u) \/ DataRead(c, u) \/ AnswerRead(c) \/ Drop(c, {"leftMe", "left"})

(* Every refusal, network failure or unreadable answer rejects the call.   *)
Reject(c) ==
  NotMe(c) \/ DataRead(c, None) \/ AnswerRead(c) \/ LeftNotMe(c) \/ Drop(c, {"left"})

(* A 401 of the first try, with a refresh token in the store.              *)
Unauthorized(c) ==
  /\ call[c].retry /\ store.refresh # None
  /\ call' = [call EXCEPT ![c] = [@ EXCEPT !.stage = "refresh", !.as = store.refresh]]
  /\ UNCHANGED <<store, tab, stale, spoiled>>

Answered(c) ==
  /\ call[c] # Idle /\ call[c].stage = "sent" /\ call[c].op \notin {"login", "leftLogin"}
  /\ \/ call[c].as # None /\ Resolve(c, call[c].as)
     \/ Unauthorized(c)
     \/ Reject(c)

(* Mutant: the second try may refresh again.                               *)
RefreshedRetrying(c) ==
  LET u == call[c].as
  IN /\ call[c] # Idle /\ call[c].stage = "refresh"
     /\ \/ /\ store' = [store EXCEPT !.access = u]
           /\ call' = [call EXCEPT ![c] = [Fetch(call[c].op, call[c].tab, TRUE) EXCEPT !.as = u]]
           /\ stale' = IF call[c].late THEN Tabs ELSE stale
           /\ spoiled' = (spoiled \/ call[c].late)
           /\ UNCHANGED tab
        \/ Reject(c)

(* The refresh is answered: its access token is stored, whatever happened  *)
(* to the session meanwhile, and the request is sent once more.            *)
Refreshed(c) ==
  LET u == call[c].as
  IN /\ call[c] # Idle /\ call[c].stage = "refresh"
     /\ \/ /\ store' = [store EXCEPT !.access = u]
           /\ call' = [call EXCEPT ![c] = [Fetch(call[c].op, call[c].tab, FALSE) EXCEPT !.as = u]]
           /\ stale' = IF call[c].late THEN Tabs ELSE stale
           /\ spoiled' = (spoiled \/ call[c].late)
           /\ UNCHANGED tab
        \/ Reject(c)

Answer(c) == LoginAnswered(c) \/ LeftLoginAnswered(c) \/ Answered(c) \/ Refreshed(c)

-----------------------------------------------------------------------------
Init ==
  /\ store = [access |-> None, refresh |-> None]
  /\ tab = [t \in Tabs |-> [user |-> None, loading |-> FALSE, page |-> "login", busy |-> None,
                            fetch |-> None, shown |-> None, unanswered |-> 0]]
  /\ call = [c \in Calls |-> Idle]
  /\ stale = {}
  /\ spoiled = FALSE

Act(t) ==
  \/ Reload(t) \/ Remount(t) \/ Navigate(t) \/ SignOut(t)
  \/ \E c \in Calls : Submit(t, c) \/ Open(t, c) \/ Ask(t, c)

Next == (\E t \in Tabs : Act(t)) \/ (\E c \in Calls : Answer(c))

Spec == Init /\ [][Next]_vars

-----------------------------------------------------------------------------
(* Properties *)

(* localStorage "holds the JWT access/refresh pair" (api.ts:4): both       *)
(* tokens of one user, or none, whatever tabs sign in and out while calls  *)
(* fail and refresh; only the answer of a refresh begun in a session that  *)
(* was given up meanwhile puts an access token beside another's refresh    *)
(* token, or beside none.                                                  *)
TokensPaired == ~spoiled => store.access = store.refresh

(* A tab that is not loading has the user the tokens are of, and shows     *)
(* data of that user: until another tab, or an /auth/me/ answered after    *)
(* its session was given up, changes the session under it                  *)
(* (auth.tsx:41-70, useApi.ts:21-29).                                      *)
SessionAgrees ==
  \A t \in Tabs \ stale :
    /\ ~tab[t].loading => tab[t].user = store.access
    /\ tab[t].shown \in {None, tab[t].user}

(* Every question on the page has its answer or its error, but the one the *)
(* form still waits for (copilot/page.tsx:24-45).                          *)
EveryQuestionAnswered ==
  \A t \in Tabs :
    tab[t].unanswered =
      Cardinality({c \in {tab[t].busy} \ {None} : tab[t].page = "copilot"})

(* A tab that loads waits for an /auth/me/ of its own, so that it stops    *)
(* loading when that is answered or fails (auth.tsx:41-55).                *)
LoadingWaits ==
  \A t \in Tabs : tab[t].loading => \E c \in Own(t) : call[c].op \in {"enter", "mount"}

(* How many answers a call still takes at most.                            *)
Left(frame) ==
  IF frame = Idle THEN 0
  ELSE IF frame.op \in {"login", "leftLogin"} THEN 4
  ELSE IF frame.stage = "refresh" THEN 2
  ELSE IF frame.retry THEN 3 ELSE 1

(* apiFetch "refreshes once and retries" (api.ts:5): no answer takes a call *)
(* farther from its end, though the server refuse every access token it    *)
(* issues.  Only the mount of a provider begins a call in another's place. *)
RefreshesOnce ==
  [][\A c \in Calls : call[c] # Idle =>
       \/ Left(call'[c]) <= Left(call[c])
       \/ call'[c] = Fetch("mount", call'[c].tab, TRUE)]_vars
==============================================================================
