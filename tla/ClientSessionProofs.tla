------------------------- MODULE ClientSessionProofs -------------------------
(***************************************************************************)
(* Theorems about ClientSession, for every number of tabs, of calls in     *)
(* flight and of users.                                                    *)
(***************************************************************************)
EXTENDS ClientSession, FiniteSetTheorems, TLAPS

Frame == [op : Ops, tab : Tabs, stage : {"sent", "refresh"},
          as : Users \cup {None}, retry : BOOLEAN, late : BOOLEAN]

LEMMA CallShape == Call = {Idle} \cup Frame /\ Idle \notin Frame
  BY DEF Call, Frame, Idle

(* store and call, of which the theorems are.                              *)
NetTyped == store \in Store /\ call \in [Calls -> Call]

LEMMA FetchTyped ==
  ASSUME NetTyped, NEW op \in {"login", "enter", "mount", "data", "ask"}, NEW t \in Tabs,
         NEW retry \in BOOLEAN
  PROVE  /\ Fetch(op, t, retry) \in Frame
         /\ Fetch(op, t, retry).op = op /\ Fetch(op, t, retry).tab = t
         /\ Fetch(op, t, retry).stage = "sent" /\ Fetch(op, t, retry).retry = retry
  BY DEF NetTyped, Store, Fetch, Frame, Ops

(* A request that carries another user than the store's.                   *)
Sent(op, t, u) ==
  [op |-> op, tab |-> t, stage |-> "sent", as |-> u, retry |-> FALSE, late |-> FALSE]

LEMMA SentAs ==
  ASSUME NEW op, NEW t, NEW u
  PROVE  [Fetch(op, t, FALSE) EXCEPT !.as = u] = Sent(op, t, u)
  <1>1. ASSUME NEW a, NEW retry, NEW late
        PROVE  [[op |-> op, tab |-> t, stage |-> "sent", as |-> a, retry |-> retry, late |-> late]
                  EXCEPT !.as = u] =
               [op |-> op, tab |-> t, stage |-> "sent", as |-> u, retry |-> retry, late |-> late]
    OBVIOUS
  <1>. QED
    BY <1>1, Zenon DEF Fetch, Sent

Retry(f) == Sent(f.op, f.tab, f.as)

LEMMA RetryTyped ==
  ASSUME NEW f \in Frame
  PROVE  Retry(f) \in Frame /\ Retry(f).stage = "sent" /\ ~Retry(f).retry /\ Retry(f).op = f.op
  BY DEF Frame, Retry, Sent

(* A call that its provider left.                                          *)
LeftOps == {"leftLogin", "leftMe", "left"}

Orphan(f) == [f EXCEPT !.op = LeftBehind(@)]

LEMMA OrphanTyped ==
  ASSUME NEW f \in Frame
  PROVE  /\ Orphan(f) \in Frame /\ Orphan(f) # Idle
         /\ Orphan(f).op = LeftBehind(f.op) /\ Orphan(f).op \in LeftOps
         /\ Orphan(f).tab = f.tab /\ Orphan(f).stage = f.stage /\ Orphan(f).as = f.as
         /\ Orphan(f).retry = f.retry /\ Orphan(f).late = f.late
  <1>1. LeftBehind(f.op) \in LeftOps /\ LeftOps \subseteq Ops
    BY DEF LeftBehind, LeftOps, Ops
  <1>. DEFINE op == LeftBehind(f.op)
  <1>2. Orphan(f) = [f EXCEPT !.op = op]
    BY DEF Orphan
  <1>. HIDE DEF op
  <1>3. op \in LeftOps /\ op \in Ops
    BY <1>1 DEF op
  <1>4. /\ [f EXCEPT !.op = op] \in Frame /\ [f EXCEPT !.op = op].op = op
        /\ [f EXCEPT !.op = op].tab = f.tab /\ [f EXCEPT !.op = op].stage = f.stage
        /\ [f EXCEPT !.op = op].as = f.as /\ [f EXCEPT !.op = op].retry = f.retry
        /\ [f EXCEPT !.op = op].late = f.late
    BY <1>3 DEF Frame
  <1>. QED
    BY <1>2, <1>3, <1>4, CallShape DEF op

LEMMA OutdateType ==
  ASSUME NEW calls \in [Calls -> Call]
  PROVE  Outdate(calls) \in [Calls -> Call]
  <1>1. ASSUME NEW d \in Calls, calls[d] # Idle
        PROVE  [calls[d] EXCEPT !.late = @ \/ calls[d].stage = "refresh"] \in Frame
    <2>1. calls[d] \in Frame
      BY <1>1, CallShape
    <2>2. (calls[d].late \/ calls[d].stage = "refresh") \in BOOLEAN
      OBVIOUS
    <2>. QED
      BY <2>1, <2>2 DEF Frame
  <1>. QED
    BY <1>1, CallShape DEF Outdate

LEMMA OutdateTyped ==
  ASSUME NEW calls \in [Calls -> Call], NEW c \in Calls
  PROVE  /\ Outdate(calls) \in [Calls -> Call]
         /\ calls[c] = Idle => Outdate(calls)[c] = Idle
         /\ calls[c] # Idle =>
              /\ calls[c] \in Frame
              /\ Outdate(calls)[c] =
                   [calls[c] EXCEPT !.late = @ \/ calls[c].stage = "refresh"]
              /\ Outdate(calls)[c] \in Frame
  <1>1. ASSUME NEW d \in Calls, calls[d] # Idle
        PROVE  /\ calls[d] \in Frame
               /\ [calls[d] EXCEPT !.late = @ \/ calls[d].stage = "refresh"] \in Frame
    <2>1. calls[d] \in Frame
      BY <1>1, CallShape
    <2>2. (calls[d].late \/ calls[d].stage = "refresh") \in BOOLEAN
      OBVIOUS
    <2>. QED
      BY <2>1, <2>2 DEF Frame
  <1>. QED
    BY <1>1, CallShape DEF Outdate

-----------------------------------------------------------------------------
(* A step, as far as the calls and the token store see it                  *)

(* A call is begun in the place of one that is over.                       *)
Begins(c) ==
  /\ call[c] = Idle
  /\ \E frame \in Frame : frame.stage = "sent" /\ call' = [call EXCEPT ![c] = frame]
  /\ UNCHANGED <<store, spoiled>>

Mounted(f) == f = Fetch("mount", f.tab, TRUE)

(* The calls of a page that stays are left alone; those of a page that is  *)
(* gone end or go on without it.                                           *)
Loads ==
  /\ \A c \in Calls : \/ call'[c] \in {call[c], Idle} \/ Mounted(call'[c])
                      \/ call[c] # Idle /\ call'[c] = Orphan(call[c])
  /\ call' \in [Calls -> Call]
  /\ UNCHANGED <<store, spoiled>>

(* A call is over, and the session may be with it.                         *)
Ends(c) ==
  /\ call[c] # Idle
  /\ \/ call' = [call EXCEPT ![c] = Idle] /\ UNCHANGED <<store, spoiled>>
     \/ call' = Outdate([call EXCEPT ![c] = Idle]) /\ Clear /\ ~spoiled'

Entering(f, op) == [f EXCEPT !.op = op, !.retry = TRUE]

LEMMA EnteringCall ==
  ASSUME NEW c \in Calls, call \in [Calls -> Call], NEW op
  PROVE  [call EXCEPT ![c] = [@ EXCEPT !.op = op, !.retry = TRUE]] =
         [call EXCEPT ![c] = Entering(call[c], op)]
  BY DEF Entering

Enters(c) ==
  /\ call[c].op \in {"login", "leftLogin"}
  /\ SetTokens(call[c].as) /\ ~spoiled'
  /\ \E op \in {"enter", "leftMe"} :
       call' = Outdate([call EXCEPT ![c] = Entering(call[c], op)])

Retries(c) ==
  /\ call[c] # Idle /\ call[c].stage = "refresh"
  /\ store' = [store EXCEPT !.access = call[c].as]
  /\ call' = [call EXCEPT ![c] = Retry(call[c])]
  /\ spoiled' = (spoiled \/ call[c].late)

(* What a provider that is mounted leaves of the calls before it.          *)
KeptBy(t, kept) ==
  /\ kept \in [Calls -> Call]
  /\ \A d \in Calls :
       IF call[d] # Idle /\ call[d].tab = t THEN kept[d] \in {Idle, Orphan(call[d])}
       ELSE kept[d] = call[d]

LEMMA MountKeeps ==
  ASSUME NetTyped, NEW t \in Tabs, Reload(t) \/ Remount(t)
  PROVE  \E kept : KeptBy(t, kept) /\ Mount(t, kept)
  <1>1. \A d \in Calls : call[d] \in Call /\ (call[d] # Idle => Orphan(call[d]) \in Call)
    BY CallShape, OrphanTyped DEF NetTyped
  <1>2. Idle \in Call
    BY CallShape
  <1>3. CASE Reload(t)
    <2>. DEFINE kept == [c \in Calls |-> IF c \in Own(t) THEN Idle ELSE call[c]]
    <2>1. KeptBy(t, kept)
      BY <1>1, <1>2 DEF KeptBy, Own
    <2>2. Mount(t, kept)
      BY <1>3 DEF Reload
    <2>. QED
      BY <2>1, <2>2
  <1>4. CASE Remount(t)
    <2>. DEFINE kept == [c \in Calls |-> IF c \in Own(t) THEN Orphan(call[c]) ELSE call[c]]
    <2>1. KeptBy(t, kept)
      BY <1>1, <1>2 DEF KeptBy, Own
    <2>2. Mount(t, kept)
      BY <1>4 DEF Remount, Orphan
    <2>. QED
      BY <2>1, <2>2
  <1>. QED
    BY <1>3, <1>4

LEMMA MountShape ==
  ASSUME NetTyped, NEW t \in Tabs, NEW kept, KeptBy(t, kept), Mount(t, kept)
  PROVE  Loads
  <1>1. PICK page \in Pages, c \in Calls :
          /\ call' = kept \/ call' = [kept EXCEPT ![c] = Fetch("mount", t, TRUE)]
          /\ UNCHANGED <<store, spoiled>>
    BY DEF Mount
  <1>2. Fetch("mount", t, TRUE) \in Frame /\ Fetch("mount", t, TRUE).tab = t
    BY FetchTyped, Zenon
  <1>3. Fetch("mount", t, TRUE) \in Call /\ Mounted(Fetch("mount", t, TRUE))
    BY <1>2, CallShape, Zenon DEF Mounted
  <1>4. kept \in [Calls -> Call]
    BY DEF KeptBy
  <1>5. \A d \in Calls : \/ kept[d] \in {call[d], Idle}
                         \/ call[d] # Idle /\ kept[d] = Orphan(call[d])
    BY DEF KeptBy
  <1>6. \A d \in Calls : call'[d] = kept[d] \/ call'[d] = Fetch("mount", t, TRUE)
    BY <1>1, <1>4
  <1>7. \A d \in Calls : call'[d] = kept[d] \/ Mounted(call'[d])
    BY <1>3, <1>6, Zenon
  <1>8. call' \in [Calls -> Call]
    BY <1>1, <1>3, <1>4
  <1>. QED
    BY <1>1, <1>5, <1>7, <1>8 DEF Loads

LEMMA ActShape ==
  ASSUME NetTyped, NEW t \in Tabs, Act(t)
  PROVE  \/ Loads
         \/ \E c \in Calls : Begins(c)
         \/ UNCHANGED <<store, call, spoiled>>
         \/ Clear /\ ~spoiled' /\ call' = Outdate(call)
  <1>1. CASE Reload(t) \/ Remount(t)
    BY <1>1, MountKeeps, MountShape
  <1>2. CASE Navigate(t)
    BY <1>2 DEF Navigate
  <1>3. CASE SignOut(t)
    BY <1>3 DEF SignOut, SwitchBy
  <1>4. ASSUME NEW c \in Calls, Submit(t, c) PROVE Begins(c)
    <2>1. PICK u \in Users : call' = [call EXCEPT ![c] = [Fetch("login", t, FALSE) EXCEPT !.as = u]]
      BY <1>4 DEF Submit
    <2>2. Sent("login", t, u) \in Frame /\ Sent("login", t, u).stage = "sent"
      BY DEF Sent, Frame, Ops
    <2>3. call' = [call EXCEPT ![c] = Sent("login", t, u)]
      BY <2>1, SentAs
    <2>4. call[c] = Idle /\ UNCHANGED <<store, spoiled>>
      BY <1>4 DEF Submit
    <2>. QED
      BY <2>2, <2>3, <2>4 DEF Begins
  <1>5. ASSUME NEW c \in Calls, Open(t, c) PROVE Begins(c)
    BY <1>5, FetchTyped DEF Open, Begins
  <1>6. ASSUME NEW c \in Calls, Ask(t, c) PROVE Begins(c)
    BY <1>6, FetchTyped DEF Ask, Begins
  <1>. QED
    BY <1>1, <1>2, <1>3, <1>4, <1>5, <1>6 DEF Act

LEMMA RejectShape ==
  ASSUME NEW c \in Calls, call[c] # Idle, NEW u, Reject(c) \/ Resolve(c, u)
  PROVE  Ends(c)
  BY DEF Reject, Resolve, NotMe, Me, DataRead, AnswerRead, LeftNotMe, Drop, SwitchBy, Ends

LEMMA AnswerShape ==
  ASSUME NetTyped, NEW c \in Calls, Answer(c)
  PROVE  Ends(c) \/ Enters(c) \/ Retries(c) \/ (Unauthorized(c) /\ call[c] # Idle)
  <1>1. CASE LoginAnswered(c)
    <2>1. call[c] # Idle
      BY <1>1 DEF LoginAnswered, Idle
    <2>2. call \in [Calls -> Call]
      BY DEF NetTyped
    <2>. QED
      BY <1>1, <2>1, <2>2, EnteringCall DEF LoginAnswered, SwitchBy, Enters, Ends
  <1>4. CASE LeftLoginAnswered(c)
    <2>1. call[c] # Idle
      BY <1>4 DEF LeftLoginAnswered, Idle
    <2>2. call \in [Calls -> Call]
      BY DEF NetTyped
    <2>. QED
      BY <1>4, <2>1, <2>2, EnteringCall DEF LeftLoginAnswered, Enters, Ends
  <1>2. CASE Answered(c)
    BY <1>2, RejectShape DEF Answered
  <1>3. CASE Refreshed(c)
    <2>1. [Fetch(call[c].op, call[c].tab, FALSE) EXCEPT !.as = call[c].as] = Retry(call[c])
      BY SentAs DEF Retry
    <2>. QED
      BY <1>3, <2>1, RejectShape DEF Refreshed, Retries
  <1>. QED
    BY <1>1, <1>2, <1>3, <1>4 DEF Answer

-----------------------------------------------------------------------------
(* Where each call may be after a step *)

Refreshing(f, u) == [f EXCEPT !.stage = "refresh", !.as = u]

LEMMA FrameEdits ==
  ASSUME NEW f \in Frame, NEW u \in Users \cup {None}, NEW op \in {"enter", "leftMe"}
  PROVE  /\ Entering(f, op) \in Frame /\ Entering(f, op).op = op
         /\ Entering(f, op).stage = f.stage /\ Entering(f, op).tab = f.tab
         /\ Refreshing(f, u) \in Frame /\ Refreshing(f, u).stage = "refresh"
         /\ Refreshing(f, u).as = u /\ Refreshing(f, u).late = f.late
         /\ Refreshing(f, u).op = f.op
  <1>. DEFINE g == [f EXCEPT !.op = op]
              h == [f EXCEPT !.stage = "refresh"]
  <1>1. g \in Frame /\ g.op = op /\ g.stage = f.stage /\ g.tab = f.tab
    BY DEF Frame, Ops
  <1>2. h \in Frame /\ h.stage = "refresh" /\ h.late = f.late /\ h.op = f.op
    BY DEF Frame
  <1>3. Entering(f, op) = [g EXCEPT !.retry = TRUE]
    BY DEF Entering
  <1>4. Refreshing(f, u) = [h EXCEPT !.as = u]
    BY DEF Refreshing
  <1>. HIDE DEF g, h
  <1>5. /\ [g EXCEPT !.retry = TRUE] \in Frame /\ [g EXCEPT !.retry = TRUE].op = op
        /\ [g EXCEPT !.retry = TRUE].stage = f.stage /\ [g EXCEPT !.retry = TRUE].tab = f.tab
    BY <1>1 DEF Frame
  <1>6. /\ [h EXCEPT !.as = u] \in Frame /\ [h EXCEPT !.as = u].stage = "refresh"
        /\ [h EXCEPT !.as = u].as = u /\ [h EXCEPT !.as = u].late = f.late
        /\ [h EXCEPT !.as = u].op = f.op
    BY <1>2 DEF Frame
  <1>. QED
    BY <1>3, <1>4, <1>5, <1>6

(* What a step makes of a call: nothing else than before, the end of it, a *)
(* new one, a fresh mount in the place of any, or what its answer says;    *)
(* and a call that waits for a refresh is marked when the session is.      *)
LEMMA NetStep ==
  ASSUME NetTyped, [Next]_vars
  PROVE  /\ NetTyped'
         /\ \/ Loads \/ (\E c \in Calls : Begins(c)) \/ UNCHANGED <<store, call, spoiled>>
            \/ Clear /\ ~spoiled' /\ call' = Outdate(call)
            \/ \E c \in Calls :
                 \/ Ends(c) \/ Enters(c) \/ Retries(c)
                 \/ Unauthorized(c) /\ call[c] # Idle
  <1>1. \/ Loads \/ (\E c \in Calls : Begins(c)) \/ UNCHANGED <<store, call, spoiled>>
        \/ Clear /\ ~spoiled' /\ call' = Outdate(call)
        \/ \E c \in Calls :
             \/ Ends(c) \/ Enters(c) \/ Retries(c)
             \/ Unauthorized(c) /\ call[c] # Idle
    BY ActShape, AnswerShape DEF Next, vars
  <1>2. ASSUME NEW c \in Calls, call[c] # Idle
        PROVE  call[c] \in Frame /\ call[c].as \in Users \cup {None}
    BY <1>2, CallShape DEF NetTyped, Frame
  <1>3. [access |-> None, refresh |-> None] \in Store
    BY DEF Store
  <1>4. CASE Loads
    BY <1>4 DEF Loads, NetTyped
  <1>5. ASSUME NEW c \in Calls, Begins(c) PROVE NetTyped'
    BY <1>5, CallShape DEF Begins, NetTyped
  <1>6. CASE UNCHANGED <<store, call, spoiled>>
    BY <1>6 DEF NetTyped
  <1>7. ASSUME Clear, call' = Outdate(call) PROVE NetTyped'
    <2>1. Outdate(call) \in [Calls -> Call]
      BY OutdateType DEF NetTyped
    <2>2. store' \in Store
      BY <1>3, <1>7 DEF Clear
    <2>. QED
      BY <1>7, <2>1, <2>2 DEF NetTyped
  <1>8. ASSUME NEW c \in Calls, Ends(c) PROVE NetTyped'
    <2>1. [call EXCEPT ![c] = Idle] \in [Calls -> Call]
      BY CallShape DEF NetTyped
    <2>2. Outdate([call EXCEPT ![c] = Idle]) \in [Calls -> Call]
      BY <2>1, OutdateTyped
    <2>. QED
      BY <1>3, <1>8, <2>1, <2>2 DEF Ends, Clear, NetTyped
  <1>9. ASSUME NEW c \in Calls, Enters(c) PROVE NetTyped'
    <2>1. call[c] # Idle
      BY <1>9 DEF Enters, Idle
    <2>4. PICK op \in {"enter", "leftMe"} :
            call' = Outdate([call EXCEPT ![c] = Entering(call[c], op)])
      BY <1>9 DEF Enters
    <2>2. Entering(call[c], op) \in Call
      BY <1>2, <2>1, FrameEdits, CallShape
    <2>3. [call EXCEPT ![c] = Entering(call[c], op)] \in [Calls -> Call]
      BY <2>2 DEF NetTyped
    <2>5. store' \in Store
      BY <1>2, <1>9, <2>1 DEF Enters, SetTokens, Store
    <2>. QED
      BY <2>3, <2>4, <2>5, OutdateTyped DEF NetTyped
  <1>10. ASSUME NEW c \in Calls, Retries(c) PROVE NetTyped'
    <2>1. call[c] \in Frame /\ call[c].as \in Users \cup {None}
      BY <1>2, <1>10 DEF Retries
    <2>2. Retry(call[c]) \in Frame
      BY <2>1, RetryTyped
    <2>3. call' \in [Calls -> Call]
      BY <1>10, <2>2, CallShape DEF Retries, NetTyped
    <2>4. store' \in Store
      BY <1>10, <2>1 DEF Retries, NetTyped, Store
    <2>. QED
      BY <2>3, <2>4 DEF NetTyped
  <1>11. ASSUME NEW c \in Calls, Unauthorized(c), call[c] # Idle PROVE NetTyped'
    <2>1. store.refresh \in Users \cup {None}
      BY DEF NetTyped, Store
    <2>2. Refreshing(call[c], store.refresh) \in Call
      BY <1>2, <1>11, <2>1, FrameEdits, CallShape
    <2>3. call' = [call EXCEPT ![c] = Refreshing(call[c], store.refresh)]
      BY <1>11 DEF Unauthorized, Refreshing
    <2>. QED
      BY <1>11, <2>2, <2>3 DEF Unauthorized, NetTyped
  <1>. QED
    BY <1>1, <1>4, <1>5, <1>6, <1>7, <1>8, <1>9, <1>10, <1>11

-----------------------------------------------------------------------------
(* The tokens *)

(* What waits for a refresh carries the refresh token of the session, or   *)
(* is marked as that of an earlier one.                                    *)
PairInv ==
  /\ TokensPaired
  /\ \A c \in Calls :
       call[c] # Idle /\ call[c].stage = "refresh" /\ ~call[c].late => call[c].as = store.refresh

(* After a change of session everything that waits is marked.              *)
LEMMA AllLate ==
  ASSUME NEW calls \in [Calls -> Call], call' = Outdate(calls), ~spoiled',
         store'.access = store'.refresh
  PROVE  PairInv'
  <1>1. ASSUME NEW c \in Calls, call'[c] # Idle, call'[c].stage = "refresh" PROVE call'[c].late
    <2>1. calls[c] # Idle
      BY <1>1, OutdateTyped
    <2>2. /\ calls[c] \in Frame
          /\ call'[c] = [calls[c] EXCEPT !.late = @ \/ calls[c].stage = "refresh"]
      BY <2>1, OutdateTyped
    <2>3. calls[c].stage = "refresh"
      BY <1>1, <2>2 DEF Frame
    <2>. QED
      BY <2>2, <2>3 DEF Frame
  <1>. QED
    BY <1>1 DEF PairInv, TokensPaired

LEMMA StepPair == NetTyped /\ PairInv /\ [Next]_vars => PairInv'
  <1>. SUFFICES ASSUME NetTyped, PairInv, [Next]_vars PROVE PairInv'
    OBVIOUS
  <1>0. /\ NetTyped'
        /\ \/ Loads \/ (\E c \in Calls : Begins(c)) \/ UNCHANGED <<store, call, spoiled>>
           \/ Clear /\ ~spoiled' /\ call' = Outdate(call)
           \/ \E c \in Calls :
                \/ Ends(c) \/ Enters(c) \/ Retries(c)
                \/ Unauthorized(c) /\ call[c] # Idle
    BY NetStep
  <1>c. call \in [Calls -> Call]
    BY DEF NetTyped
  <1>f. \A c \in Calls : call[c] # Idle => call[c] \in Frame
    BY <1>c, CallShape
  <1>1. CASE Loads
    <2>1. \A c \in Calls : Mounted(call'[c]) => call'[c].stage = "sent"
      <3>. SUFFICES ASSUME NEW c \in Calls, Mounted(call'[c]) PROVE call'[c].stage = "sent"
        OBVIOUS
      <3>1. Fetch("mount", call'[c].tab, TRUE).stage = "sent"
        BY DEF Fetch
      <3>. QED
        BY <3>1, Zenon DEF Mounted
    <2>2. \A c \in Calls : call[c] # Idle /\ call'[c] = Orphan(call[c]) =>
             /\ call'[c].stage = call[c].stage /\ call'[c].late = call[c].late
             /\ call'[c].as = call[c].as
      BY <1>f, OrphanTyped
    <2>. QED
      BY <1>1, <2>1, <2>2 DEF Loads, PairInv, TokensPaired
  <1>2. ASSUME NEW c \in Calls, Begins(c) PROVE PairInv'
    BY <1>2, <1>c DEF Begins, PairInv, TokensPaired
  <1>3. CASE UNCHANGED <<store, call, spoiled>>
    BY <1>3 DEF PairInv, TokensPaired
  <1>4. CASE Clear /\ ~spoiled' /\ call' = Outdate(call)
    BY <1>4, <1>c, AllLate DEF Clear
  <1>5. ASSUME NEW c \in Calls, Ends(c) PROVE PairInv'
    <2>1. [call EXCEPT ![c] = Idle] \in [Calls -> Call]
      BY <1>c, CallShape
    <2>2. CASE call' = [call EXCEPT ![c] = Idle] /\ UNCHANGED <<store, spoiled>>
      BY <1>c, <2>2 DEF PairInv, TokensPaired
    <2>3. CASE call' = Outdate([call EXCEPT ![c] = Idle]) /\ Clear /\ ~spoiled'
      BY <2>1, <2>3, AllLate DEF Clear
    <2>. QED
      BY <1>5, <2>2, <2>3 DEF Ends
  <1>6. ASSUME NEW c \in Calls, Enters(c) PROVE PairInv'
    <2>1. call[c] \in Frame
      BY <1>6, <1>f DEF Enters, Idle
    <2>3. PICK op \in {"enter", "leftMe"} :
            call' = Outdate([call EXCEPT ![c] = Entering(call[c], op)])
      BY <1>6 DEF Enters
    <2>2. [call EXCEPT ![c] = Entering(call[c], op)] \in [Calls -> Call]
      BY <1>c, <2>1, FrameEdits, CallShape
    <2>. QED
      BY <1>6, <2>2, <2>3, AllLate DEF Enters, SetTokens
  <1>7. ASSUME NEW c \in Calls, Retries(c) PROVE PairInv'
    <2>1. call[c] \in Frame
      BY <1>7, <1>f DEF Retries
    <2>2. Retry(call[c]).stage = "sent"
      BY <2>1, RetryTyped
    <2>3. call' = [call EXCEPT ![c] = Retry(call[c])]
      BY <1>7 DEF Retries
    <2>4. store'.access = call[c].as /\ store'.refresh = store.refresh
      BY <1>7 DEF Retries, NetTyped, Store
    <2>5. TokensPaired'
      BY <1>7, <2>4 DEF Retries, PairInv, TokensPaired
    <2>. QED
      BY <1>c, <2>2, <2>3, <2>4, <2>5 DEF PairInv
  <1>8. ASSUME NEW c \in Calls, Unauthorized(c), call[c] # Idle PROVE PairInv'
    <2>1. call' = [call EXCEPT ![c] = Refreshing(call[c], store.refresh)] /\ UNCHANGED <<store, spoiled>>
      BY <1>8 DEF Unauthorized, Refreshing
    <2>2. store.refresh \in Users \cup {None}
      BY DEF NetTyped, Store
    <2>3. Refreshing(call[c], store.refresh).as = store.refresh
      BY <1>8, <1>f, <2>2, FrameEdits
    <2>. QED
      BY <1>c, <2>1, <2>3 DEF PairInv, TokensPaired
  <1>. QED
    BY <1>0, <1>1, <1>2, <1>3, <1>4, <1>5, <1>6, <1>7, <1>8

LEMMA InitNet == Init => NetTyped /\ PairInv
  BY CallShape DEF Init, NetTyped, Store, PairInv, TokensPaired

LEMMA StepNet == NetTyped /\ [Next]_vars => NetTyped'
  BY NetStep

(* The access and the refresh token are one user's, however many tabs sign *)
(* in and out while calls fail and refresh, until a refresh of a session   *)
(* given up is answered (api.ts:4, 33-76).                                 *)
THEOREM TokensStayPaired == Spec => []TokensPaired
  BY InitNet, StepNet, StepPair, PTL DEF Spec, PairInv

-----------------------------------------------------------------------------
(* The retries *)

LEMMA LeftOf ==
  ASSUME NEW f \in Frame
  PROVE  Left(f) = IF f.op \in {"login", "leftLogin"} THEN 4
                   ELSE IF f.stage = "refresh" THEN 2
                   ELSE IF f.retry THEN 3 ELSE 1
  <1>1. f # Idle
    BY CallShape
  <1>. QED
    BY <1>1 DEF Left

LEMMA LeftOrphan ==
  ASSUME NEW f \in Frame
  PROVE  Left(Orphan(f)) = Left(f)
  <1>1. Orphan(f).op \in {"login", "leftLogin"} <=> f.op \in {"login", "leftLogin"}
    BY OrphanTyped DEF LeftBehind
  <1>. QED
    BY <1>1, OrphanTyped, LeftOf

LEMMA LeftIdle == Left(Idle) = 0
  BY DEF Left

(* Marking a call does not take it farther from its end.                   *)
LEMMA LeftLate ==
  ASSUME NEW calls \in [Calls -> Call], NEW c \in Calls
  PROVE  Left(Outdate(calls)[c]) = Left(calls[c])
  <1>1. CASE calls[c] = Idle
    BY <1>1, OutdateTyped
  <1>2. CASE calls[c] # Idle
    <2>1. /\ calls[c] \in Frame /\ Outdate(calls)[c] \in Frame
          /\ Outdate(calls)[c] = [calls[c] EXCEPT !.late = @ \/ calls[c].stage = "refresh"]
      BY <1>2, OutdateTyped
    <2>2. /\ Outdate(calls)[c].op = calls[c].op /\ Outdate(calls)[c].stage = calls[c].stage
          /\ Outdate(calls)[c].retry = calls[c].retry
      BY <2>1 DEF Frame
    <2>. QED
      BY <2>1, <2>2, LeftOf
  <1>. QED
    BY <1>1, <1>2

(* Of every call that was in flight.                                       *)
Nearer == \A c \in Calls : call[c] # Idle =>
            \/ Left(call'[c]) <= Left(call[c])
            \/ Mounted(call'[c])

LEMMA StepNearer == NetTyped /\ [Next]_vars => [Nearer]_vars
  <1>. SUFFICES ASSUME NetTyped, [Next]_vars PROVE Nearer
    OBVIOUS
  <1>0. /\ NetTyped'
        /\ \/ Loads \/ (\E c \in Calls : Begins(c)) \/ UNCHANGED <<store, call, spoiled>>
           \/ Clear /\ ~spoiled' /\ call' = Outdate(call)
           \/ \E c \in Calls :
                \/ Ends(c) \/ Enters(c) \/ Retries(c)
                \/ Unauthorized(c) /\ call[c] # Idle
    BY NetStep
  <1>c. call \in [Calls -> Call]
    BY DEF NetTyped
  <1>f. \A c \in Calls : call[c] # Idle => call[c] \in Frame
    BY <1>c, CallShape
  <1>l. \A c \in Calls : Left(call[c]) \in 0 .. 4
    BY <1>f, LeftOf, LeftIdle
  <1>1. CASE Loads
    BY <1>1, <1>f, <1>l, LeftIdle, LeftOrphan DEF Loads, Nearer
  <1>2. ASSUME NEW c \in Calls, Begins(c) PROVE Nearer
    BY <1>2, <1>c, <1>l DEF Begins, Nearer
  <1>3. CASE UNCHANGED <<store, call, spoiled>>
    BY <1>3, <1>l DEF Nearer
  <1>4. CASE Clear /\ ~spoiled' /\ call' = Outdate(call)
    BY <1>4, <1>c, <1>l, LeftLate DEF Nearer
  <1>5. ASSUME NEW c \in Calls, Ends(c) PROVE Nearer
    <2>. DEFINE ended == [call EXCEPT ![c] = Idle]
    <2>1. ended \in [Calls -> Call] /\ \A d \in Calls : ended[d] = IF d = c THEN Idle ELSE call[d]
      BY <1>c, CallShape
    <2>2. call' = ended \/ call' = Outdate(ended)
      BY <1>5 DEF Ends
    <2>. HIDE DEF ended
    <2>3. \A d \in Calls : Left(call'[d]) = Left(ended[d])
      BY <2>1, <2>2, LeftLate
    <2>4. \A d \in Calls : Left(call'[d]) <= Left(call[d])
      BY <1>l, <2>1, <2>3, LeftIdle
    <2>. QED
      BY <2>4 DEF Nearer
  <1>6. ASSUME NEW c \in Calls, Enters(c) PROVE Nearer
    <2>1. call[c] \in Frame /\ call[c].op \in {"login", "leftLogin"}
      BY <1>6, <1>f DEF Enters, Idle
    <2>0. PICK op \in {"enter", "leftMe"} :
            call' = Outdate([call EXCEPT ![c] = Entering(call[c], op)])
      BY <1>6 DEF Enters
    <2>. DEFINE entered == [call EXCEPT ![c] = Entering(call[c], op)]
    <2>2. /\ entered \in [Calls -> Call]
          /\ \A d \in Calls : entered[d] = IF d = c THEN Entering(call[c], op) ELSE call[d]
      BY <1>c, <2>1, FrameEdits, CallShape
    <2>3. call' = Outdate(entered)
      BY <2>0
    <2>. HIDE DEF entered
    <2>4. \A d \in Calls : Left(call'[d]) = Left(entered[d])
      BY <2>2, <2>3, LeftLate
    <2>5. Left(call[c]) = 4
      BY <2>1, LeftOf
    <2>6. Left(Entering(call[c], op)) \in 1 .. 4
      BY <2>1, FrameEdits, LeftOf
    <2>. QED
      BY <1>l, <2>2, <2>4, <2>5, <2>6 DEF Nearer
  <1>7. ASSUME NEW c \in Calls, Retries(c) PROVE Nearer
    <2>1. call[c] \in Frame /\ call[c].stage = "refresh"
      BY <1>7, <1>f DEF Retries
    <2>2. call' = [call EXCEPT ![c] = Retry(call[c])]
      BY <1>7 DEF Retries
    <2>3. Left(Retry(call[c])) <= Left(call[c])
      BY <2>1, RetryTyped, LeftOf
    <2>. QED
      BY <1>c, <1>l, <2>2, <2>3 DEF Nearer
  <1>8. ASSUME NEW c \in Calls, Unauthorized(c), call[c] # Idle PROVE Nearer
    <2>1. call' = [call EXCEPT ![c] = Refreshing(call[c], store.refresh)]
      BY <1>8 DEF Unauthorized, Refreshing
    <2>2. store.refresh \in Users \cup {None} /\ call[c] \in Frame /\ call[c].retry
      BY <1>8, <1>f DEF NetTyped, Store, Unauthorized
    <2>3. Left(Refreshing(call[c], store.refresh)) <= Left(call[c])
      BY <2>2, FrameEdits, LeftOf
    <2>. QED
      BY <1>c, <1>l, <2>1, <2>3 DEF Nearer
  <1>. QED
    BY <1>0, <1>1, <1>2, <1>3, <1>4, <1>5, <1>6, <1>7, <1>8

(* However often the server refuses a token it has just issued, no answer  *)
(* takes a call farther from its end (api.ts:5, 60-76).                    *)
THEOREM RetriesEnd == Spec => RefreshesOnce
  <1>1. Init => NetTyped
    BY InitNet
  <1>2. NetTyped /\ [Next]_vars =>
          [\A c \in Calls : call[c] # Idle =>
             \/ Left(call'[c]) <= Left(call[c])
             \/ call'[c] = Fetch("mount", call'[c].tab, TRUE)]_vars
    BY StepNearer, Zenon DEF Nearer, Mounted
  <1>. QED
    BY <1>1, <1>2, StepNet, PTL DEF Spec, RefreshesOnce

-----------------------------------------------------------------------------
(* The tabs *)

Cleared(w) == w.busy = None /\ w.fetch = None /\ w.shown = None /\ w.unanswered = 0

(* The state a page may have: nothing while the user loads or without one, *)
(* and else that of its own form or table only.                            *)
Fits(w) ==
  /\ w.page = "login" \/ Visible(w) \/ Cleared(w)
  /\ w.page = "data" => w.busy = None
  /\ w.page # "data" => w.fetch = None /\ w.shown = None
  /\ w.unanswered = IF w.page = "copilot" /\ w.busy # None THEN 1 ELSE 0

LEMMA TabFields ==
  ASSUME NEW w \in Tab
  PROVE  /\ w.user \in Users \cup {None} /\ w.loading \in BOOLEAN /\ w.page \in Pages
         /\ w.busy \in Calls \cup {None} /\ w.fetch \in Calls \cup {None}
         /\ w.shown \in Users \cup {None} /\ w.unanswered \in Nat
  BY DEF Tab

LEMMA LeaveTab ==
  ASSUME NEW w \in Tab
  PROVE  /\ Leave(w) \in Tab /\ Cleared(Leave(w))
         /\ Leave(w).user = w.user /\ Leave(w).loading = w.loading /\ Leave(w).page = w.page
  BY DEF Tab, Leave, Cleared

(* One field of a tab's record replaced.                                   *)
LEMMA TabUser ==
  ASSUME NEW w \in Tab, NEW u \in Users \cup {None}
  PROVE  LET x == [w EXCEPT !.user = u]
         IN /\ x \in Tab /\ x.user = u /\ x.loading = w.loading /\ x.page = w.page
            /\ x.busy = w.busy /\ x.fetch = w.fetch /\ x.shown = w.shown
            /\ x.unanswered = w.unanswered
  BY DEF Tab

LEMMA TabLoading ==
  ASSUME NEW w \in Tab, NEW b \in BOOLEAN
  PROVE  LET x == [w EXCEPT !.loading = b]
         IN /\ x \in Tab /\ x.user = w.user /\ x.loading = b /\ x.page = w.page
            /\ x.busy = w.busy /\ x.fetch = w.fetch /\ x.shown = w.shown
            /\ x.unanswered = w.unanswered
  BY DEF Tab

LEMMA TabPage ==
  ASSUME NEW w \in Tab, NEW page \in Pages
  PROVE  LET x == [w EXCEPT !.page = page]
         IN /\ x \in Tab /\ x.user = w.user /\ x.loading = w.loading /\ x.page = page
            /\ x.busy = w.busy /\ x.fetch = w.fetch /\ x.shown = w.shown
            /\ x.unanswered = w.unanswered
  BY DEF Tab

LEMMA RenderTab ==
  ASSUME NEW w \in Tab
  PROVE  /\ Render(w) \in Tab /\ Render(w).user = w.user /\ Render(w).loading = w.loading
         /\ \/ Render(w) = w /\ (w.page = "login" \/ Visible(w))
            \/ w.page # "login" /\ ~Visible(w) /\ Cleared(Render(w))
         /\ Cleared(w) => Cleared(Render(w))
         /\ w.page # "login" /\ ~Visible(w) => Cleared(Render(w))
  <1>1. CASE w.page = "login" \/ Visible(w)
    BY <1>1 DEF Render
  <1>2. CASE ~(w.page = "login" \/ Visible(w))
    <2>. DEFINE x == IF w.loading THEN w ELSE [w EXCEPT !.page = "login"]
    <2>1. x \in Tab /\ x.user = w.user /\ x.loading = w.loading
      BY TabPage DEF Pages
    <2>2. Render(w) = Leave(x)
      BY <1>2 DEF Render
    <2>. HIDE DEF x
    <2>. QED
      BY <1>2, <2>1, <2>2, LeaveTab
  <1>. QED
    BY <1>1, <1>2

(* What is rendered fits, when what was on a page that stays does.         *)
LEMMA RenderFits ==
  ASSUME NEW w \in Tab, w.page = "login" \/ Visible(w) => Fits(w)
  PROVE  Fits(Render(w))
  <1>1. CASE w.page = "login" \/ Visible(w)
    BY <1>1, RenderTab
  <1>2. CASE ~(w.page = "login" \/ Visible(w))
    BY <1>2, RenderTab DEF Fits, Cleared
  <1>. QED
    BY <1>1, <1>2

LEMMA GoToTab ==
  ASSUME NEW w \in Tab, NEW page \in Pages
  PROVE  /\ GoTo(w, page) \in Tab /\ Cleared(GoTo(w, page)) /\ Fits(GoTo(w, page))
         /\ GoTo(w, page).user = w.user /\ GoTo(w, page).loading = w.loading
  <1>. DEFINE x == [w EXCEPT !.page = page]
              y == Leave(x)
  <1>1. x \in Tab /\ x.user = w.user /\ x.loading = w.loading
    BY TabPage
  <1>. HIDE DEF x
  <1>2. y \in Tab /\ Cleared(y) /\ y.user = w.user /\ y.loading = w.loading
    BY <1>1, LeaveTab
  <1>3. GoTo(w, page) = Render(y)
    BY DEF GoTo, x
  <1>. HIDE DEF y
  <1>4. Fits(y)
    BY <1>2 DEF Fits, Cleared
  <1>. QED
    BY <1>2, <1>3, <1>4, RenderTab, RenderFits


-----------------------------------------------------------------------------
(* What the tabs wait for *)

(* The call a form waits for is its own, and still in flight.              *)
Busy(t, w, calls) ==
  w.busy # None =>
    /\ calls[w.busy] # Idle /\ calls[w.busy].tab = t
    /\ \/ w.page = "login" /\ calls[w.busy].op \in {"login", "enter"}
       \/ w.page = "copilot" /\ calls[w.busy].op = "ask"

Loading(t, w, calls) ==
  w.loading => \E c \in Calls : calls[c] # Idle /\ calls[c].tab = t /\ calls[c].op \in {"enter", "mount"}

Sound(t, w, calls) == w \in Tab /\ Fits(w) /\ Busy(t, w, calls) /\ Loading(t, w, calls)

TabsSound == tab \in [Tabs -> Tab] /\ \A t \in Tabs : Sound(t, tab[t], call)

(* A call goes on as the one it was.                                       *)
Same(f, g) ==
  f # Idle /\ g # Idle /\ g.op = f.op /\ g.tab = f.tab /\ g.as = f.as

(* Nothing but calls of t differ.                                          *)
LocalCalls(t, before, after) ==
  \A c \in Calls :
    (before[c] # Idle /\ before[c].tab # t) \/ (after[c] # Idle /\ after[c].tab # t)
      => Same(before[c], after[c])

(* No call differs.                                                        *)
Marked(before, after) ==
  \A c \in Calls : IF before[c] = Idle THEN after[c] = Idle ELSE Same(before[c], after[c])

LEMMA OutdateMarks ==
  ASSUME NEW calls \in [Calls -> Call]
  PROVE  Marked(calls, Outdate(calls))
  <1>. SUFFICES ASSUME NEW c \in Calls, calls[c] # Idle PROVE Same(calls[c], Outdate(calls)[c])
    BY OutdateTyped DEF Marked
  <1>1. /\ calls[c] \in Frame /\ Outdate(calls)[c] \in Frame
        /\ Outdate(calls)[c] = [calls[c] EXCEPT !.late = @ \/ calls[c].stage = "refresh"]
    BY OutdateTyped
  <1>2. /\ Outdate(calls)[c].op = calls[c].op /\ Outdate(calls)[c].tab = calls[c].tab
        /\ Outdate(calls)[c].as = calls[c].as
    BY <1>1 DEF Frame
  <1>. QED
    BY <1>1, <1>2, CallShape DEF Same

LEMMA MarkedSound ==
  ASSUME NEW t \in Tabs, NEW w, NEW before, NEW after, Marked(before, after), Sound(t, w, before)
  PROVE  Sound(t, w, after)
  <1>1. w.busy # None => w.busy \in Calls
    BY TabFields DEF Sound
  <1>. QED
    BY <1>1 DEF Marked, Same, Sound, Busy, Loading

LEMMA MarkedLocal ==
  ASSUME NEW t, NEW before, NEW calls, NEW after, LocalCalls(t, before, calls), Marked(calls, after)
  PROVE  LocalCalls(t, before, after)
  BY DEF Marked, Same, LocalCalls

LEMMA Replaced ==
  ASSUME NEW calls \in [Calls -> Call], NEW c \in Calls, NEW f \in Call, NEW t,
         calls[c] = Idle \/ calls[c].tab = t, f = Idle \/ f.tab = t
  PROVE  /\ [calls EXCEPT ![c] = f] \in [Calls -> Call]
         /\ [calls EXCEPT ![c] = f][c] = f
         /\ \A d \in Calls \ {c} : [calls EXCEPT ![c] = f][d] = calls[d]
         /\ LocalCalls(t, calls, [calls EXCEPT ![c] = f])
  BY DEF LocalCalls, Same

(* What the other tabs wait for is not the concern of a step of one tab.   *)
LEMMA OthersSound ==
  ASSUME TabsSound, NEW t \in Tabs, NEW w, tab' = [tab EXCEPT ![t] = w],
         LocalCalls(t, call, call'), Sound(t, w, call')
  PROVE  TabsSound'
  <1>1. w \in Tab
    BY DEF Sound
  <1>2. tab' \in [Tabs -> Tab]
    BY <1>1 DEF TabsSound
  <1>3. ASSUME NEW u \in Tabs, u # t PROVE Sound(u, tab[u], call')
    <2>1. Sound(u, tab[u], call)
      BY DEF TabsSound
    <2>2. tab[u].busy # None => tab[u].busy \in Calls
      BY <2>1, TabFields DEF Sound
    <2>3. Busy(u, tab[u], call')
      BY <1>3, <2>1, <2>2 DEF Sound, Busy, LocalCalls, Same
    <2>4. Loading(u, tab[u], call')
      BY <1>3, <2>1 DEF Sound, Loading, LocalCalls, Same
    <2>. QED
      BY <2>1, <2>3, <2>4 DEF Sound
  <1>4. \A u \in Tabs : tab'[u] = IF u = t THEN w ELSE tab[u]
    BY DEF TabsSound
  <1>5. \A u \in Tabs : Sound(u, tab'[u], call')
    BY <1>3, <1>4
  <1>. QED
    BY <1>2, <1>5 DEF TabsSound

LEMMA NothingLoads ==
  ASSUME NEW t \in Tabs, NEW w \in Tab, Fits(w), w.busy = None, ~w.loading, NEW calls
  PROVE  Sound(t, w, calls)
  BY DEF Sound, Busy, Loading

LEMMA ClearedTab ==
  ASSUME NEW w \in Tab, Cleared(w)
  PROVE  Fits(w) /\ w.busy = None
  BY DEF Cleared, Fits

(* The calls of a tab whose busy form and loading are left alone by what   *)
(* becomes of another call.                                                *)
LEMMA StillWaits ==
  ASSUME NEW t \in Tabs, NEW w \in Tab, NEW x \in Tab, NEW before, NEW after, NEW c \in Calls,
         Sound(t, w, before), \A d \in Calls \ {c} : after[d] = before[d],
         x.page = w.page, x.busy \in {w.busy, None}, x.busy # c, x.loading = w.loading,
         x.loading /\ before[c] # Idle /\ before[c].tab = t => before[c].op \notin {"enter", "mount"}
  PROVE  Busy(t, x, after) /\ Loading(t, x, after)
  <1>1. x.busy # None => x.busy \in Calls \ {c} /\ w.busy = x.busy
    BY TabFields
  <1>2. Busy(t, x, after)
    BY <1>1 DEF Sound, Busy
  <1>3. Loading(t, x, after)
    BY DEF Sound, Loading
  <1>. QED
    BY <1>2, <1>3


-----------------------------------------------------------------------------
(* Whose session it is *)

(* A tab whose session nobody changed: the user it read, the one it is     *)
(* about to read and the data it waits for are all of the token's user.    *)
Agrees(t, w, calls, u) ==
  /\ ~w.loading => w.user = u
  /\ w.shown \in {None, w.user}
  /\ \A c \in Calls :
       /\ calls[c] # Idle /\ calls[c].tab = t
       /\ calls[c].op \in {"enter", "mount"} \/ (calls[c].op = "data" /\ w.fetch = c)
       => calls[c].as = u

StaleInv ==
  /\ spoiled => stale = Tabs
  /\ \A t \in Tabs \ stale : Agrees(t, tab[t], call, store.access)

AllInv == NetTyped /\ PairInv /\ TabsSound /\ StaleInv

(* Whatever a step makes of a tab, its calls and the session.              *)
SessionStep(t, w) ==
  /\ spoiled' => stale' = Tabs
  /\ \A u \in Tabs \ {t} : u \notin stale' => u \notin stale /\ store'.access = store.access
  /\ t \notin stale' => Agrees(t, w, call', store'.access)

Step(t) ==
  \E w : /\ tab' = [tab EXCEPT ![t] = w]
         /\ LocalCalls(t, call, call')
         /\ Sound(t, w, call')
         /\ SessionStep(t, w)

LEMMA StepKeeps ==
  ASSUME AllInv, NEW t \in Tabs, Step(t)
  PROVE  TabsSound' /\ StaleInv'
  <1>1. PICK w : /\ tab' = [tab EXCEPT ![t] = w]
                 /\ LocalCalls(t, call, call')
                 /\ Sound(t, w, call')
                 /\ SessionStep(t, w)
    BY DEF Step
  <1>2. TabsSound'
    BY <1>1, OthersSound DEF AllInv
  <1>3. \A u \in Tabs : tab'[u] = IF u = t THEN w ELSE tab[u]
    BY <1>1 DEF AllInv, TabsSound
  <1>4. ASSUME NEW u \in Tabs, u \notin stale', u # t PROVE Agrees(u, tab[u], call', store'.access)
    <2>1. u \notin stale /\ store'.access = store.access
      BY <1>1, <1>4 DEF SessionStep
    <2>2. Agrees(u, tab[u], call, store.access)
      BY <2>1 DEF AllInv, StaleInv
    <2>. QED
      BY <1>1, <1>4, <2>1, <2>2 DEF Agrees, LocalCalls, Same
  <1>5. t \notin stale' => Agrees(t, w, call', store'.access)
    BY <1>1 DEF SessionStep
  <1>6. \A u \in Tabs : u \notin stale' => Agrees(u, tab'[u], call', store'.access)
    BY <1>3, <1>4, <1>5
  <1>7. spoiled' => stale' = Tabs
    BY <1>1 DEF SessionStep
  <1>. QED
    BY <1>2, <1>6, <1>7 DEF StaleInv

LEMMA KeptSession ==
  ASSUME AllInv, NEW t \in Tabs, NEW w, UNCHANGED <<store, stale, spoiled>>,
         t \notin stale => Agrees(t, w, call', store.access)
  PROVE  SessionStep(t, w)
  BY DEF SessionStep, AllInv, StaleInv

LEMMA MarkedAgrees ==
  ASSUME NEW t, NEW w, NEW before, NEW after, NEW u, Marked(before, after), Agrees(t, w, before, u)
  PROVE  Agrees(t, w, after, u)
  BY DEF Marked, Same, Agrees

(* One call replaced, and perhaps awaited.                                 *)
LEMMA AgreesStill ==
  ASSUME NEW t, NEW w, NEW x, NEW before, NEW after, NEW c \in Calls, NEW u,
         Agrees(t, w, before, u), \A d \in Calls \ {c} : after[d] = before[d],
         x.user = w.user, x.loading = w.loading, x.shown \in {None, w.shown},
         x.fetch \in {None, w.fetch, c},
         \/ after[c] = Idle \/ after[c].as = u \/ after[c].op \in {"login", "ask"}
  PROVE  Agrees(t, x, after, u)
  BY SessionAssumption DEF Agrees

(* A tab of the session: nobody loads who shows anything.                  *)
LEMMA Shows ==
  ASSUME NEW t, NEW w \in Tab, NEW calls, NEW u, Fits(w), Agrees(t, w, calls, u)
  PROVE  /\ w.shown \in {None, u}
         /\ w.fetch # None => w.user = u /\ ~w.loading
  BY DEF Fits, Agrees, Cleared, Visible

LEMMA OnePair ==
  ASSUME AllInv, NEW t \in Tabs, t \notin stale
  PROVE  store.access = store.refresh /\ ~spoiled
  BY DEF AllInv, StaleInv, PairInv, TokensPaired


-----------------------------------------------------------------------------
(* What the user does *)

LEMMA TabOf ==
  ASSUME AllInv, NEW t \in Tabs
  PROVE  /\ tab[t] \in Tab /\ Fits(tab[t]) /\ Sound(t, tab[t], call)
         /\ call \in [Calls -> Call] /\ store \in Store
         /\ t \notin stale => Agrees(t, tab[t], call, store.access)
  BY DEF AllInv, TabsSound, StaleInv, Sound, NetTyped

LEMMA FetchCall ==
  ASSUME AllInv, NEW op \in {"login", "enter", "mount", "data", "ask"}, NEW t \in Tabs,
         NEW retry \in BOOLEAN
  PROVE  /\ Fetch(op, t, retry) \in Call /\ Fetch(op, t, retry) # Idle
         /\ Fetch(op, t, retry).op = op /\ Fetch(op, t, retry).tab = t
         /\ Fetch(op, t, retry).as = store.access
  <1>1. Fetch(op, t, retry) \in Frame /\ Fetch(op, t, retry).op = op /\ Fetch(op, t, retry).tab = t
    BY FetchTyped DEF AllInv
  <1>2. Fetch(op, t, retry).as = store.access
    BY DEF Fetch
  <1>. QED
    BY <1>1, <1>2, CallShape

LEMMA CallTab ==
  ASSUME AllInv, NEW c \in Calls, call[c] # Idle
  PROVE  call[c] \in Frame /\ call[c].tab \in Tabs /\ call[c].as \in Users \cup {None}
  <1>1. call[c] \in Frame
    BY CallShape DEF AllInv, NetTyped
  <1>. QED
    BY <1>1 DEF Frame

LEMMA FreshTab ==
  ASSUME NEW w \in Tab, NEW page \in Pages
  PROVE  LET x == Leave([w EXCEPT !.user = None, !.loading = TRUE, !.page = page])
         IN x \in Tab /\ x.user = None /\ x.loading /\ Cleared(x)
  <1>. DEFINE a == [w EXCEPT !.user = None]
              b == [a EXCEPT !.loading = TRUE]
              x == [b EXCEPT !.page = page]
  <1>1. a \in Tab /\ a.user = None
    BY TabUser
  <1>2. x = [w EXCEPT !.user = None, !.loading = TRUE, !.page = page]
    OBVIOUS
  <1>. HIDE DEF a
  <1>3. ASSUME NEW e \in BOOLEAN
        PROVE  [a EXCEPT !.loading = e] \in Tab /\ [a EXCEPT !.loading = e].user = None
               /\ [a EXCEPT !.loading = e].loading = e
    BY <1>1, TabLoading
  <1>t. TRUE \in BOOLEAN
    OBVIOUS
  <1>4. b \in Tab /\ b.user = None /\ b.loading = TRUE
    BY <1>3, <1>t, Zenon
  <1>. HIDE DEF b
  <1>5. x \in Tab /\ x.user = None /\ x.loading = TRUE
    BY <1>4, TabPage
  <1>. HIDE DEF x
  <1>6. Leave(x) \in Tab /\ Leave(x).user = None /\ Leave(x).loading /\ Cleared(Leave(x))
    BY <1>5, LeaveTab
  <1>. QED
    BY <1>2, <1>6

LEMMA LoadedTab ==
  ASSUME NEW w \in Tab, Cleared(w)
  PROVE  LET x == Render([w EXCEPT !.loading = FALSE])
         IN x \in Tab /\ x.user = w.user /\ ~x.loading /\ Cleared(x)
  <1>1. ASSUME NEW e \in BOOLEAN
        PROVE  /\ [w EXCEPT !.loading = e] \in Tab /\ [w EXCEPT !.loading = e].user = w.user
               /\ [w EXCEPT !.loading = e].loading = e /\ Cleared([w EXCEPT !.loading = e])
    BY TabLoading DEF Cleared
  <1>f. FALSE \in BOOLEAN
    OBVIOUS
  <1>. DEFINE y == [w EXCEPT !.loading = FALSE]
  <1>2. y \in Tab /\ y.user = w.user /\ y.loading = FALSE /\ Cleared(y)
    BY <1>1, <1>f, Zenon
  <1>. HIDE DEF y
  <1>3. Render(y) \in Tab /\ Render(y).user = w.user /\ ~Render(y).loading /\ Cleared(Render(y))
    BY <1>2, RenderTab
  <1>. QED
    BY <1>3 DEF y

LEMMA MountStep ==
  ASSUME AllInv, NEW t \in Tabs, NEW left, KeptBy(t, left), Mount(t, left)
  PROVE  Step(t)
  <1>. DEFINE mount == Fetch("mount", t, TRUE)
  <1>1. PICK page \in Pages, c \in Calls :
          LET fresh == Leave([tab[t] EXCEPT !.user = None, !.loading = TRUE, !.page = page])
          IN /\ left[c] = Idle
             /\ IF store.access = None
                THEN /\ tab' = [tab EXCEPT ![t] = Render([fresh EXCEPT !.loading = FALSE])]
                     /\ call' = left
                ELSE /\ tab' = [tab EXCEPT ![t] = fresh]
                     /\ call' = [left EXCEPT ![c] = mount]
             /\ stale' = IF spoiled THEN stale \cup {t} ELSE stale \ {t}
             /\ UNCHANGED <<store, spoiled>>
    BY DEF Mount, Show
  <1>. DEFINE fresh == Leave([tab[t] EXCEPT !.user = None, !.loading = TRUE, !.page = page])
  <1>2. fresh \in Tab /\ fresh.user = None /\ fresh.loading /\ Cleared(fresh)
    BY TabOf, FreshTab
  <1>3. left \in [Calls -> Call] /\ LocalCalls(t, call, left)
        /\ \A d \in Calls : left[d] # Idle /\ left[d].tab = t => left[d].op \in LeftOps
    <2>1. \A d \in Calls : call[d] # Idle =>
             /\ Orphan(call[d]).tab = call[d].tab /\ Orphan(call[d]).op \in LeftOps
      BY CallTab, OrphanTyped
    <2>. QED
      BY <2>1 DEF KeptBy, LocalCalls, Same
  <1>4. mount \in Call /\ mount # Idle /\ mount.op = "mount" /\ mount.tab = t /\ mount.as = store.access
    BY FetchCall
  <1>. HIDE DEF mount, fresh
  <1>5. ASSUME NEW w \in Tab, NEW calls, Agrees(t, w, calls, store.access), call' = calls
        PROVE  SessionStep(t, w)
    BY <1>1, <1>5 DEF SessionStep, AllInv, StaleInv
  <1>6. CASE store.access = None
    <2>. DEFINE x == Render([fresh EXCEPT !.loading = FALSE])
    <2>1. x \in Tab /\ x.user = None /\ ~x.loading /\ Cleared(x)
      BY <1>2, LoadedTab
    <2>2. tab' = [tab EXCEPT ![t] = x] /\ call' = left
      BY <1>1, <1>6 DEF fresh
    <2>. HIDE DEF x
    <2>3. Sound(t, x, left)
      BY <2>1, ClearedTab, NothingLoads
    <2>4. Agrees(t, x, left, store.access)
      BY <1>3, <1>6, <2>1 DEF Agrees, Cleared, LeftOps
    <2>5. SessionStep(t, x)
      BY <1>5, <2>1, <2>2, <2>4
    <2>. QED
      BY <1>3, <2>2, <2>3, <2>5 DEF Step
  <1>7. CASE store.access # None
    <2>. DEFINE calls == [left EXCEPT ![c] = mount]
    <2>1. tab' = [tab EXCEPT ![t] = fresh] /\ call' = calls
      BY <1>1, <1>7 DEF fresh
    <2>2. calls[c] = mount /\ \A d \in Calls \ {c} : calls[d] = left[d]
      BY <1>3
    <2>. HIDE DEF calls
    <2>3. Sound(t, fresh, calls)
      BY <1>2, <1>4, <2>2, ClearedTab DEF Sound, Busy, Loading
    <2>4. Agrees(t, fresh, calls, store.access)
      BY <1>2, <1>3, <1>4, <2>2 DEF Agrees, Cleared, LeftOps
    <2>5. SessionStep(t, fresh)
      BY <1>2, <1>5, <2>1, <2>4
    <2>6. left[c] = Idle
      BY <1>1
    <2>7. LocalCalls(t, call, calls)
      BY <1>3, <1>4, <2>2, <2>6 DEF LocalCalls, Same
    <2>. QED
      BY <2>1, <2>3, <2>5, <2>7 DEF Step
  <1>. QED
    BY <1>6, <1>7


LEMMA NavigateStep ==
  ASSUME AllInv, NEW t \in Tabs, Navigate(t)
  PROVE  Step(t)
  <1>1. PICK page \in Pages : tab' = [tab EXCEPT ![t] = GoTo(tab[t], page)]
                              /\ UNCHANGED <<store, call, stale, spoiled>>
    BY DEF Navigate, Show
  <1>. DEFINE w == GoTo(tab[t], page)
  <1>2. /\ w \in Tab /\ Cleared(w) /\ Fits(w) /\ w.user = tab[t].user
        /\ w.loading = tab[t].loading
    BY TabOf, GoToTab
  <1>. HIDE DEF w
  <1>3. Sound(t, w, call)
    BY <1>2, TabOf DEF Sound, Busy, Loading, Cleared
  <1>4. t \notin stale => Agrees(t, w, call, store.access)
    BY <1>2, TabOf, SessionAssumption DEF Agrees, Cleared
  <1>5. LocalCalls(t, call, call)
    BY DEF LocalCalls, Same
  <1>6. SessionStep(t, w)
    BY <1>1, <1>4, KeptSession
  <1>. QED
    BY <1>1, <1>3, <1>5, <1>6 DEF Step, w

(* What replacing the session leaves a tab of it to agree with.            *)
LEMMA SwitchedSession ==
  ASSUME NEW t \in Tabs, NEW c, NEW w, SwitchBy(t, c),
         (\A d \in Calls \ {c} : call[d] # Idle /\ call[d].tab = t => call[d].op \notin {"enter", "mount"})
            => Agrees(t, w, call', store'.access)
  PROVE  SessionStep(t, w)
  BY DEF SessionStep, SwitchBy, Own

LEMMA SignOutStep ==
  ASSUME AllInv, NEW t \in Tabs, SignOut(t)
  PROVE  Step(t)
  <1>. DEFINE x == [tab[t] EXCEPT !.user = None]
              w == GoTo(x, "login")
  <1>1. x \in Tab /\ x.user = None /\ x.loading = tab[t].loading
    BY TabOf, TabUser
  <1>. HIDE DEF x
  <1>2. w \in Tab /\ Cleared(w) /\ Fits(w) /\ w.user = None /\ w.loading = tab[t].loading
    BY <1>1, GoToTab DEF Pages
  <1>3. ~tab[t].loading /\ tab' = [tab EXCEPT ![t] = w] /\ SwitchBy(t, None) /\ Clear
        /\ call' = Outdate(call)
    BY DEF SignOut, Visible, Show, x
  <1>. HIDE DEF w
  <1>4. Marked(call, call')
    BY <1>3, TabOf, OutdateMarks
  <1>5. Sound(t, w, call')
    BY <1>2, <1>3, ClearedTab, NothingLoads
  <1>6. LocalCalls(t, call, call)
    BY DEF LocalCalls, Same
  <1>7. LocalCalls(t, call, call')
    BY <1>4, <1>6, MarkedLocal
  <1>8. ASSUME \A d \in Calls \ {None} :
                  call[d] # Idle /\ call[d].tab = t => call[d].op \notin {"enter", "mount"}
        PROVE  Agrees(t, w, call', store'.access)
    <2>1. Agrees(t, w, call, None)
      BY <1>2, <1>8, SessionAssumption DEF Agrees, Cleared
    <2>2. store'.access = None
      BY <1>3 DEF Clear
    <2>. QED
      BY <1>4, <2>1, <2>2, MarkedAgrees
  <1>9. SessionStep(t, w)
    BY <1>3, <1>8, SwitchedSession
  <1>. QED
    BY <1>3, <1>5, <1>7, <1>9 DEF Step

(* A request of a page that goes on: its call is begun, and awaited.       *)
LEMMA BeginStep ==
  ASSUME AllInv, NEW t \in Tabs, NEW c \in Calls, call[c] = Idle,
         NEW f \in Call, f # Idle, f.tab = t, f.op \in {"login", "ask"} \/ f.as = store.access,
         call' = [call EXCEPT ![c] = f],
         NEW w \in Tab, tab' = [tab EXCEPT ![t] = w], Fits(w), Busy(t, w, call'),
         w.user = tab[t].user, w.loading = tab[t].loading, w.shown = tab[t].shown,
         w.fetch \in {tab[t].fetch, c},
         UNCHANGED <<store, stale, spoiled>>
  PROVE  Step(t)
  <1>1. /\ call'[c] = f
        /\ \A d \in Calls \ {c} : call'[d] = call[d]
        /\ LocalCalls(t, call, call')
    BY TabOf, Replaced
  <1>2. Loading(t, w, call')
    BY <1>1, TabOf DEF Sound, Loading
  <1>3. t \notin stale => Agrees(t, w, call', store.access)
    BY <1>1, TabOf, AgreesStill
  <1>4. SessionStep(t, w)
    BY <1>3, KeptSession
  <1>. QED
    BY <1>1, <1>2, <1>4 DEF Step, Sound

LEMMA TabBusy ==
  ASSUME NEW w \in Tab, NEW c \in Calls \cup {None}
  PROVE  LET x == [w EXCEPT !.busy = c]
         IN /\ x \in Tab /\ x.user = w.user /\ x.loading = w.loading /\ x.page = w.page
            /\ x.busy = c /\ x.fetch = w.fetch /\ x.shown = w.shown
            /\ x.unanswered = w.unanswered
  BY DEF Tab

LEMMA TabFetch ==
  ASSUME NEW w \in Tab, NEW c \in Calls \cup {None}
  PROVE  LET x == [w EXCEPT !.fetch = c]
         IN /\ x \in Tab /\ x.user = w.user /\ x.loading = w.loading /\ x.page = w.page
            /\ x.busy = w.busy /\ x.fetch = c /\ x.shown = w.shown
            /\ x.unanswered = w.unanswered
  BY DEF Tab

LEMMA TabShown ==
  ASSUME NEW w \in Tab, NEW u \in Users \cup {None}
  PROVE  LET x == [w EXCEPT !.shown = u]
         IN /\ x \in Tab /\ x.user = w.user /\ x.loading = w.loading /\ x.page = w.page
            /\ x.busy = w.busy /\ x.fetch = w.fetch /\ x.shown = u
            /\ x.unanswered = w.unanswered
  BY DEF Tab

LEMMA TabUnanswered ==
  ASSUME NEW w \in Tab, NEW n \in Nat
  PROVE  LET x == [w EXCEPT !.unanswered = n]
         IN /\ x \in Tab /\ x.user = w.user /\ x.loading = w.loading /\ x.page = w.page
            /\ x.busy = w.busy /\ x.fetch = w.fetch /\ x.shown = w.shown
            /\ x.unanswered = n
  BY DEF Tab

LEMMA SubmitStep ==
  ASSUME AllInv, NEW t \in Tabs, NEW c \in Calls, Submit(t, c)
  PROVE  Step(t)
  <1>1. PICK u \in Users : call' = [call EXCEPT ![c] = [Fetch("login", t, FALSE) EXCEPT !.as = u]]
    BY DEF Submit
  <1>. DEFINE f == Sent("login", t, u)
              w == [tab[t] EXCEPT !.busy = c]
  <1>2. f \in Frame /\ f.op = "login" /\ f.tab = t
    BY DEF Sent, Frame, Ops
  <1>3. call' = [call EXCEPT ![c] = f]
    BY <1>1, SentAs
  <1>4. /\ w \in Tab /\ w.user = tab[t].user /\ w.loading = tab[t].loading /\ w.page = tab[t].page
        /\ w.busy = c /\ w.fetch = tab[t].fetch /\ w.shown = tab[t].shown
        /\ w.unanswered = tab[t].unanswered
    BY TabOf, TabBusy
  <1>5. /\ tab[t].page = "login" /\ call[c] = Idle /\ tab' = [tab EXCEPT ![t] = w]
        /\ UNCHANGED <<store, stale, spoiled>>
    BY DEF Submit, Show
  <1>. HIDE DEF f, w
  <1>6. Fits(w)
    BY <1>4, <1>5, TabOf DEF Fits
  <1>7. call'[c] = f /\ f \in Call /\ f # Idle
    BY <1>2, <1>3, TabOf, CallShape
  <1>8. Busy(t, w, call')
    BY <1>2, <1>4, <1>5, <1>7 DEF Busy
  <1>. QED
    BY <1>2, <1>3, <1>4, <1>5, <1>6, <1>7, <1>8, BeginStep

LEMMA OpenStep ==
  ASSUME AllInv, NEW t \in Tabs, NEW c \in Calls, Open(t, c)
  PROVE  Step(t)
  <1>. DEFINE f == Fetch("data", t, TRUE)
              w == [tab[t] EXCEPT !.fetch = c]
  <1>1. f \in Call /\ f # Idle /\ f.tab = t /\ f.as = store.access
    BY FetchCall
  <1>2. /\ w \in Tab /\ w.user = tab[t].user /\ w.loading = tab[t].loading /\ w.page = tab[t].page
        /\ w.busy = tab[t].busy /\ w.fetch = c /\ w.shown = tab[t].shown
        /\ w.unanswered = tab[t].unanswered
    BY TabOf, TabFetch
  <1>3. /\ tab[t].page = "data" /\ Visible(tab[t]) /\ call[c] = Idle
        /\ call' = [call EXCEPT ![c] = f] /\ tab' = [tab EXCEPT ![t] = w]
        /\ UNCHANGED <<store, stale, spoiled>>
    BY DEF Open, Show
  <1>. HIDE DEF f, w
  <1>4. Fits(w)
    BY <1>2, <1>3, TabOf DEF Fits, Visible
  <1>5. Busy(t, w, call')
    BY <1>2, <1>3, <1>4 DEF Busy, Fits
  <1>. QED
    BY <1>1, <1>2, <1>3, <1>4, <1>5, BeginStep

LEMMA AskStep ==
  ASSUME AllInv, NEW t \in Tabs, NEW c \in Calls, Ask(t, c)
  PROVE  Step(t)
  <1>. DEFINE f == Fetch("ask", t, TRUE)
              x == [tab[t] EXCEPT !.busy = c]
              n == tab[t].unanswered + 1
              w == [x EXCEPT !.unanswered = n]
  <1>1. f \in Call /\ f # Idle /\ f.tab = t /\ f.as = store.access /\ f.op = "ask"
    BY FetchCall
  <1>2. /\ x \in Tab /\ x.user = tab[t].user /\ x.loading = tab[t].loading /\ x.page = tab[t].page
        /\ x.busy = c /\ x.fetch = tab[t].fetch /\ x.shown = tab[t].shown
    BY TabOf, TabBusy
  <1>3. tab[t].page = "copilot" /\ Visible(tab[t]) /\ call[c] = Idle /\ tab[t].busy = None
    BY DEF Ask
  <1>4. n = 1
    BY <1>3, TabOf DEF Fits
  <1>5. w = [tab[t] EXCEPT !.busy = c, !.unanswered = @ + 1]
    BY TabOf DEF Tab
  <1>6. /\ call' = [call EXCEPT ![c] = f] /\ tab' = [tab EXCEPT ![t] = w]
        /\ UNCHANGED <<store, stale, spoiled>>
    BY <1>5, Zenon DEF Ask, Show
  <1>. HIDE DEF f, x, n
  <1>7. /\ w \in Tab /\ w.user = tab[t].user /\ w.loading = tab[t].loading /\ w.page = tab[t].page
        /\ w.busy = c /\ w.fetch = tab[t].fetch /\ w.shown = tab[t].shown
        /\ w.unanswered = 1
    BY <1>2, <1>4, TabUnanswered
  <1>. HIDE DEF w
  <1>8. Fits(w)
    BY <1>3, <1>7, TabOf, SessionAssumption DEF Fits, Visible
  <1>9. call'[c] = f
    BY <1>6, TabOf
  <1>10. Busy(t, w, call')
    BY <1>1, <1>3, <1>7, <1>9 DEF Busy
  <1>. QED
    BY <1>1, <1>3, <1>6, <1>7, <1>8, <1>10, BeginStep


-----------------------------------------------------------------------------
(* What the answers do *)

(* A call is over, and its page goes on.                                   *)
LEMMA EndStep ==
  ASSUME AllInv, NEW t \in Tabs, NEW c \in Calls, call[c] # Idle, call[c].tab = t,
         call[c].op \notin {"enter", "mount"},
         call' = [call EXCEPT ![c] = Idle],
         NEW w \in Tab, tab' = [tab EXCEPT ![t] = w], Fits(w),
         w.page = tab[t].page, w.busy \in {tab[t].busy, None}, w.busy # c,
         w.user = tab[t].user, w.loading = tab[t].loading, w.fetch = tab[t].fetch,
         t \notin stale => w.shown \in {None, tab[t].shown, tab[t].user},
         UNCHANGED <<store, stale, spoiled>>
  PROVE  Step(t)
  <1>1. /\ call'[c] = Idle
        /\ \A d \in Calls \ {c} : call'[d] = call[d]
        /\ LocalCalls(t, call, call')
    BY TabOf, Replaced, CallShape
  <1>2. Busy(t, w, call') /\ Loading(t, w, call')
    BY <1>1, TabOf, StillWaits
  <1>3. t \notin stale => Agrees(t, w, call', store.access)
    <2>1. SUFFICES ASSUME t \notin stale PROVE Agrees(t, w, call', store.access)
      OBVIOUS
    <2>2. Agrees(t, tab[t], call, store.access)
      BY <2>1, TabOf
    <2>3. w.shown \in {None, w.user}
      BY <2>1, <2>2 DEF Agrees
    <2>. QED
      BY <1>1, <2>2, <2>3 DEF Agrees
  <1>4. SessionStep(t, w)
    BY <1>3, KeptSession
  <1>. QED
    BY <1>1, <1>2, <1>4 DEF Step, Sound

LEMMA DataStep ==
  ASSUME AllInv, NEW c \in Calls, call[c] # Idle, NEW u \in {call[c].as, None}, DataRead(c, u)
  PROVE  Step(call[c].tab)
  <1>. DEFINE t == call[c].tab
              w == IF tab[t].fetch = c THEN [tab[t] EXCEPT !.shown = u] ELSE tab[t]
  <1>1. t \in Tabs /\ u \in Users \cup {None}
    BY CallTab
  <1>2. /\ call[c].op = "data" /\ tab' = [tab EXCEPT ![t] = w]
        /\ call' = [call EXCEPT ![c] = Idle] /\ UNCHANGED <<store, stale, spoiled>>
    BY DEF DataRead, Show
  <1>3. /\ w \in Tab /\ w.user = tab[t].user /\ w.loading = tab[t].loading /\ w.page = tab[t].page
        /\ w.busy = tab[t].busy /\ w.fetch = tab[t].fetch
        /\ w.unanswered = tab[t].unanswered
        /\ w.shown = IF tab[t].fetch = c THEN u ELSE tab[t].shown
    <2>. DEFINE x == [tab[t] EXCEPT !.shown = u]
    <2>1. tab[t] \in Tab
      BY <1>1, TabOf
    <2>2. /\ x \in Tab /\ x.user = tab[t].user /\ x.loading = tab[t].loading /\ x.page = tab[t].page
          /\ x.busy = tab[t].busy /\ x.fetch = tab[t].fetch /\ x.shown = u
          /\ x.unanswered = tab[t].unanswered
      BY <1>1, <2>1, TabShown
    <2>3. w = IF tab[t].fetch = c THEN x ELSE tab[t]
      OBVIOUS
    <2>. HIDE DEF x, w, t
    <2>. QED
      BY <2>1, <2>2, <2>3
  <1>. HIDE DEF w
  <1>4. Fits(tab[t]) /\ Busy(t, tab[t], call)
    BY <1>1, TabOf DEF Sound
  <1>5. Fits(w)
    BY <1>3, <1>4, SessionAssumption DEF Fits, Visible, Cleared
  <1>6. w.busy # c
    BY <1>2, <1>3, <1>4, SessionAssumption DEF Busy
  <1>7. ASSUME t \notin stale PROVE w.shown \in {None, tab[t].shown, tab[t].user}
    <2>1. Agrees(t, tab[t], call, store.access)
      BY <1>1, <1>7, TabOf
    <2>2. tab[t].fetch = c => call[c].as = store.access /\ tab[t].user = store.access
      <3>. SUFFICES ASSUME tab[t].fetch = c
                    PROVE  call[c].as = store.access /\ tab[t].user = store.access
        OBVIOUS
      <3>1. call[c].as = store.access
        BY <1>2, <2>1 DEF Agrees
      <3>2. tab[t] \in Tab /\ Fits(tab[t]) /\ tab[t].fetch # None
        BY <1>1, TabOf, SessionAssumption
      <3>3. tab[t].user = store.access
        BY <2>1, <3>2, Shows
      <3>. QED
        BY <3>1, <3>3
    <2>. QED
      BY <1>3, <2>2
  <1>. QED
    BY <1>1, <1>2, <1>3, <1>5, <1>6, <1>7, EndStep

LEMMA AnswerStep ==
  ASSUME AllInv, NEW c \in Calls, call[c] # Idle, AnswerRead(c)
  PROVE  Step(call[c].tab)
  <1>. DEFINE t == call[c].tab
              w == IF tab[t].busy = c
                   THEN [tab[t] EXCEPT !.busy = None, !.unanswered = @ - 1] ELSE tab[t]
  <1>1. t \in Tabs
    BY CallTab
  <1>2. /\ call[c].op = "ask" /\ tab' = [tab EXCEPT ![t] = w]
        /\ call' = [call EXCEPT ![c] = Idle] /\ UNCHANGED <<store, stale, spoiled>>
    BY DEF AnswerRead, Show
  <1>3. tab[t] \in Tab /\ Fits(tab[t]) /\ Busy(t, tab[t], call)
    BY <1>1, TabOf DEF Sound
  <1>4. /\ w \in Tab /\ w.user = tab[t].user /\ w.loading = tab[t].loading /\ w.page = tab[t].page
        /\ w.fetch = tab[t].fetch /\ w.shown = tab[t].shown
        /\ w.busy = IF tab[t].busy = c THEN None ELSE tab[t].busy
        /\ w.unanswered = IF tab[t].busy = c THEN 0 ELSE tab[t].unanswered
    <2>1. CASE tab[t].busy # c
      BY <1>3, <2>1
    <2>2. CASE tab[t].busy = c
      <3>. DEFINE n == tab[t].unanswered - 1
                  x == [tab[t] EXCEPT !.busy = None]
                  y == [x EXCEPT !.unanswered = n]
      <3>1. n = 0
        BY <1>2, <1>3, <2>2, SessionAssumption DEF Fits, Busy
      <3>2. /\ x \in Tab /\ x.user = tab[t].user /\ x.loading = tab[t].loading /\ x.page = tab[t].page
            /\ x.fetch = tab[t].fetch /\ x.shown = tab[t].shown /\ x.busy = None
        BY <1>3, TabBusy
      <3>3. w = y
        BY <1>3, <2>2 DEF Tab
      <3>. HIDE DEF n, x, w
      <3>4. /\ y \in Tab /\ y.user = tab[t].user /\ y.loading = tab[t].loading /\ y.page = tab[t].page
            /\ y.fetch = tab[t].fetch /\ y.shown = tab[t].shown /\ y.busy = None /\ y.unanswered = 0
        BY <3>1, <3>2, TabUnanswered
      <3>. HIDE DEF y
      <3>. QED
        BY <2>2, <3>3, <3>4
    <2>. QED
      BY <2>1, <2>2
  <1>. HIDE DEF w
  <1>5. Fits(w)
    BY <1>3, <1>4 DEF Fits, Visible, Cleared
  <1>6. w.busy # c
    BY <1>4, SessionAssumption
  <1>. QED
    BY <1>1, <1>2, <1>4, <1>5, <1>6, EndStep

LEMMA LoginFailed ==
  ASSUME AllInv, NEW c \in Calls, NEW t \in Tabs, t = call[c].tab, call[c].op = "login",
         tab' = [tab EXCEPT ![t] = [tab[t] EXCEPT !.busy = IF @ = c THEN None ELSE @]],
         call' = [call EXCEPT ![c] = Idle], UNCHANGED <<store, stale, spoiled>>
  PROVE  Step(t)
  <1>. DEFINE b == IF tab[t].busy = c THEN None ELSE tab[t].busy
              w == [tab[t] EXCEPT !.busy = b]
  <1>1. tab[t] \in Tab /\ Fits(tab[t]) /\ Busy(t, tab[t], call)
    BY TabOf DEF Sound
  <1>2. b \in Calls \cup {None} /\ b # c /\ b \in {tab[t].busy, None}
    BY <1>1, TabFields, SessionAssumption
  <1>3. tab' = [tab EXCEPT ![t] = w]
    BY <1>1 DEF Tab
  <1>. HIDE DEF b
  <1>4. /\ w \in Tab /\ w.user = tab[t].user /\ w.loading = tab[t].loading /\ w.page = tab[t].page
        /\ w.busy = b /\ w.fetch = tab[t].fetch /\ w.shown = tab[t].shown
        /\ w.unanswered = tab[t].unanswered
    BY <1>1, <1>2, TabBusy
  <1>. HIDE DEF w
  <1>5. tab[t].page = "copilot" => b = tab[t].busy
    BY <1>1, SessionAssumption DEF Busy, b
  <1>6. Fits(w)
    BY <1>1, <1>2, <1>4, <1>5 DEF Fits, Visible, Cleared
  <1>7. call[c] # Idle
    BY DEF Idle
  <1>. QED
    BY <1>2, <1>3, <1>4, <1>6, <1>7, EndStep

LEMMA LoginDone ==
  ASSUME AllInv, NEW c \in Calls, NEW t \in Tabs, t = call[c].tab, call[c].op = "login",
         SetTokens(call[c].as), SwitchBy(t, c),
         tab' = [tab EXCEPT ![t] = Render([tab[t] EXCEPT !.loading = TRUE])],
         call' = Outdate([call EXCEPT ![c] = Entering(call[c], "enter")])
  PROVE  Step(t)
  <1>. DEFINE x == [tab[t] EXCEPT !.loading = TRUE]
              w == Render(x)
              f == Entering(call[c], "enter")
              calls == [call EXCEPT ![c] = f]
  <1>0. call[c] # Idle
    BY DEF Idle
  <1>1. tab[t] \in Tab /\ Fits(tab[t]) /\ Busy(t, tab[t], call)
    BY TabOf DEF Sound
  <1>2. call[c] \in Frame /\ call[c].as \in Users \cup {None}
    BY <1>0, CallTab
  <1>3. f \in Frame /\ f.op = "enter" /\ f.tab = t /\ f.as = call[c].as
    <2>. DEFINE g == [call[c] EXCEPT !.op = "enter"]
    <2>1. g \in Frame /\ g.op = "enter" /\ g.tab = t /\ g.as = call[c].as
      BY <1>2 DEF Frame, Ops
    <2>2. f = [g EXCEPT !.retry = TRUE]
      BY DEF Entering
    <2>. HIDE DEF g
    <2>3. f.op = g.op /\ f.tab = g.tab /\ f.as = g.as
      BY <2>1, <2>2 DEF Frame
    <2>. QED
      BY <1>2, <2>1, <2>3, FrameEdits
  <1>4. f \in Call /\ f # Idle
    BY <1>3, CallShape
  <1>. HIDE DEF f
  <1>5. /\ calls \in [Calls -> Call] /\ calls[c] = f
        /\ \A d \in Calls \ {c} : calls[d] = call[d]
        /\ LocalCalls(t, call, calls)
    BY <1>3, <1>4, TabOf, Replaced
  <1>6. call' = Outdate(calls)
    BY DEF f
  <1>. HIDE DEF calls
  <1>7. Marked(calls, call')
    BY <1>5, <1>6, OutdateMarks
  <1>8. /\ x \in Tab /\ x.user = tab[t].user /\ x.loading = TRUE /\ x.page = tab[t].page
        /\ x.busy = tab[t].busy /\ x.fetch = tab[t].fetch /\ x.shown = tab[t].shown
        /\ x.unanswered = tab[t].unanswered
    <2>1. ASSUME NEW e \in BOOLEAN
          PROVE  LET y == [tab[t] EXCEPT !.loading = e]
                 IN /\ y \in Tab /\ y.user = tab[t].user /\ y.loading = e /\ y.page = tab[t].page
                    /\ y.busy = tab[t].busy /\ y.fetch = tab[t].fetch /\ y.shown = tab[t].shown
                    /\ y.unanswered = tab[t].unanswered
      BY <1>1, TabLoading
    <2>2. TRUE \in BOOLEAN
      OBVIOUS
    <2>. QED
      BY <2>1, <2>2, Zenon
  <1>. HIDE DEF x
  <1>9. /\ w \in Tab /\ w.loading = TRUE /\ (Cleared(w) \/ (w = x /\ x.page = "login"))
    BY <1>8, RenderTab DEF Visible
  <1>10. Fits(x) \/ x.page # "login"
    BY <1>1, <1>8 DEF Fits
  <1>11. Fits(w)
    BY <1>9, <1>10, ClearedTab
  <1>12. Sound(t, w, calls)
    <2>1. Loading(t, w, calls)
      BY <1>3, <1>4, <1>5 DEF Loading
    <2>2. CASE Cleared(w)
      BY <1>9, <1>11, <2>1, <2>2 DEF Sound, Busy, Cleared
    <2>3. CASE w = x /\ x.page = "login"
      <3>1. w.busy = tab[t].busy /\ w.page = "login" /\ tab[t].page = "login"
        BY <1>8, <2>3
      <3>2. w.busy # None => w.busy \in Calls
        BY <1>9, TabFields
      <3>3. Busy(t, w, calls)
        BY <1>1, <1>3, <1>4, <1>5, <3>1, <3>2 DEF Busy
      <3>. QED
        BY <1>9, <1>11, <2>1, <3>3 DEF Sound
    <2>. QED
      BY <1>9, <2>2, <2>3
  <1>13. Sound(t, w, call')
    BY <1>7, <1>12, MarkedSound
  <1>14. LocalCalls(t, call, call')
    BY <1>5, <1>7, MarkedLocal
  <1>15. w.shown = None /\ w.fetch = None
    BY <1>9, <1>10 DEF Fits, Cleared
  <1>16. ASSUME \A d \in Calls \ {c} :
                   call[d] # Idle /\ call[d].tab = t => call[d].op \notin {"enter", "mount"}
         PROVE  Agrees(t, w, call', store'.access)
    <2>1. store'.access = call[c].as
      BY DEF SetTokens
    <2>2. Agrees(t, w, calls, call[c].as)
      BY <1>3, <1>5, <1>9, <1>15, <1>16, SessionAssumption DEF Agrees
    <2>. QED
      BY <1>7, <2>1, <2>2, MarkedAgrees
  <1>17. SessionStep(t, w)
    BY <1>16, SwitchedSession
  <1>18. tab' = [tab EXCEPT ![t] = w]
    BY DEF x
  <1>. QED
    BY <1>13, <1>14, <1>17, <1>18 DEF Step


(* The answers that no provider waits for.                                 *)

LEMMA NobodyWaits ==
  ASSUME AllInv, NEW c \in Calls, call[c] # Idle, call[c].op \in LeftOps,
         NEW t \in Tabs, t = call[c].tab, NEW calls, \A d \in Calls \ {c} : calls[d] = call[d]
  PROVE  /\ tab = [tab EXCEPT ![t] = tab[t]] /\ tab[t].busy # c
         /\ Sound(t, tab[t], calls)
  <1>1. tab[t] \in Tab /\ Fits(tab[t]) /\ Sound(t, tab[t], call)
    BY TabOf
  <1>2. tab[t].busy # c
    BY <1>1, SessionAssumption DEF Sound, Busy, LeftOps
  <1>3. call[c].op \notin {"enter", "mount"}
    BY DEF LeftOps
  <1>4. Busy(t, tab[t], calls) /\ Loading(t, tab[t], calls)
    BY <1>1, <1>2, <1>3, StillWaits
  <1>5. tab = [tab EXCEPT ![t] = tab[t]]
    BY DEF AllInv, TabsSound
  <1>. QED
    BY <1>1, <1>2, <1>4, <1>5 DEF Sound

LEMMA DropStep ==
  ASSUME AllInv, NEW c \in Calls, call[c] # Idle, call[c].op \in LeftOps,
         call' = [call EXCEPT ![c] = Idle], UNCHANGED <<store, tab, stale, spoiled>>
  PROVE  Step(call[c].tab)
  <1>1. PICK t \in Tabs : t = call[c].tab
    BY CallTab
  <1>2. \A d \in Calls \ {c} : call[d] = call[d]
    OBVIOUS
  <1>3. tab = [tab EXCEPT ![t] = tab[t]] /\ tab[t].busy # c
    BY <1>1, <1>2, NobodyWaits
  <1>4. call[c].op \notin {"enter", "mount"}
    BY DEF LeftOps
  <1>5. tab[t] \in Tab /\ Fits(tab[t])
    BY TabOf
  <1>6. tab' = [tab EXCEPT ![t] = tab[t]]
    BY <1>3
  <1>7. Step(t)
    BY <1>1, <1>3, <1>4, <1>5, <1>6, EndStep
  <1>. QED
    BY <1>1, <1>7

LEMMA LeftStep ==
  ASSUME AllInv, NEW c \in Calls, call[c] # Idle, call[c].op \in LeftOps,
         NEW f \in Call, f = Idle \/ f.tab = call[c].tab,
         call' = Outdate([call EXCEPT ![c] = f]), tab' = tab, stale' = Tabs, ~spoiled'
  PROVE  Step(call[c].tab)
  <1>1. PICK t \in Tabs : t = call[c].tab
    BY CallTab
  <1>. DEFINE calls == [call EXCEPT ![c] = f]
  <1>2. /\ calls \in [Calls -> Call]
        /\ \A d \in Calls \ {c} : calls[d] = call[d]
        /\ LocalCalls(t, call, calls)
    BY <1>1, TabOf, Replaced
  <1>3. call' = Outdate(calls)
    OBVIOUS
  <1>. HIDE DEF calls
  <1>4. tab = [tab EXCEPT ![t] = tab[t]] /\ Sound(t, tab[t], calls)
    BY <1>1, <1>2, NobodyWaits
  <1>5. Marked(calls, call')
    BY <1>2, <1>3, OutdateMarks
  <1>6. Sound(t, tab[t], call') /\ LocalCalls(t, call, call')
    BY <1>2, <1>4, <1>5, MarkedSound, MarkedLocal
  <1>7. SessionStep(t, tab[t])
    BY DEF SessionStep
  <1>8. tab' = [tab EXCEPT ![t] = tab[t]]
    BY <1>4
  <1>9. Step(t)
    BY <1>6, <1>7, <1>8 DEF Step
  <1>. QED
    BY <1>1, <1>9

LEMMA LeftNotMeStep ==
  ASSUME AllInv, NEW c \in Calls, call[c] # Idle, LeftNotMe(c)
  PROVE  Step(call[c].tab)
  BY LeftStep, CallShape DEF LeftNotMe, LeftOps

LEMMA LeftLoginStep ==
  ASSUME AllInv, NEW c \in Calls, call[c] # Idle, LeftLoginAnswered(c)
  PROVE  Step(call[c].tab)
  <1>1. call[c].op \in LeftOps
    BY DEF LeftLoginAnswered, LeftOps
  <1>2. CASE call' = [call EXCEPT ![c] = Idle] /\ UNCHANGED <<store, tab, stale, spoiled>>
    BY <1>1, <1>2, DropStep
  <1>3. CASE /\ stale' = Tabs /\ spoiled' = FALSE /\ UNCHANGED tab
             /\ call' = Outdate([call EXCEPT ![c] = [@ EXCEPT !.op = "leftMe", !.retry = TRUE]])
    <2>1. call[c] \in Frame
      BY CallTab
    <2>2. Entering(call[c], "leftMe") \in Frame /\ Entering(call[c], "leftMe").tab = call[c].tab
      BY <2>1, FrameEdits
    <2>3. call' = Outdate([call EXCEPT ![c] = Entering(call[c], "leftMe")])
      BY <1>3, EnteringCall DEF AllInv, NetTyped
    <2>. QED
      BY <1>1, <1>3, <2>2, <2>3, LeftStep, CallShape
  <1>. QED
    BY <1>2, <1>3 DEF LeftLoginAnswered

LEMMA DropSteps ==
  ASSUME AllInv, NEW c \in Calls, call[c] # Idle,
         Drop(c, {"leftMe", "left"}) \/ Drop(c, {"left"})
  PROVE  Step(call[c].tab)
  BY DropStep DEF Drop, LeftOps

(* /auth/me/ is answered or fails: the tab loads no longer.                *)
Met(op, w, u) ==
  IF op = "enter" THEN GoTo([w EXCEPT !.user = u, !.loading = FALSE], "data")
  ELSE Render([w EXCEPT !.user = u, !.loading = FALSE])

LEMMA MeTab ==
  ASSUME NEW op, NEW w \in Tab, Fits(w), NEW u \in Users \cup {None}
  PROVE  LET x == Met(op, w, u)
         IN /\ x \in Tab /\ x.user = u /\ ~x.loading /\ Fits(x)
            /\ Cleared(x) \/ (op # "enter" /\ x.page = w.page /\ x.busy = w.busy)
            /\ x.shown \in {None, w.shown} /\ x.fetch \in {None, w.fetch}
            /\ u = None => x.shown = None /\ x.fetch = None
  <1>. DEFINE a == [w EXCEPT !.user = u]
              y == [a EXCEPT !.loading = FALSE]
              x == IF op = "enter" THEN GoTo(y, "data") ELSE Render(y)
  <1>1. /\ a \in Tab /\ a.user = u /\ a.page = w.page /\ a.busy = w.busy
        /\ a.fetch = w.fetch /\ a.shown = w.shown /\ a.unanswered = w.unanswered
    BY TabUser
  <1>2. x = Met(op, w, u)
    BY DEF Met
  <1>. HIDE DEF a
  <1>3. ASSUME NEW e \in BOOLEAN
        PROVE  LET z == [a EXCEPT !.loading = e]
               IN /\ z \in Tab /\ z.user = u /\ z.loading = e /\ z.page = w.page
                  /\ z.busy = w.busy /\ z.fetch = w.fetch /\ z.shown = w.shown
                  /\ z.unanswered = w.unanswered
    BY <1>1, TabLoading
  <1>f. FALSE \in BOOLEAN
    OBVIOUS
  <1>4. /\ y \in Tab /\ y.user = u /\ y.loading = FALSE /\ y.page = w.page
        /\ y.busy = w.busy /\ y.fetch = w.fetch /\ y.shown = w.shown
        /\ y.unanswered = w.unanswered
    BY <1>3, <1>f, Zenon
  <1>. HIDE DEF y
  <1>5. y.page = "login" \/ Visible(y) => Fits(y)
    BY <1>4 DEF Fits, Visible, Cleared
  <1>6. CASE op = "enter"
    <2>1. x = GoTo(y, "data")
      BY <1>6
    <2>2. x \in Tab /\ Cleared(x) /\ Fits(x) /\ x.user = u /\ ~x.loading
      BY <1>4, <2>1, GoToTab DEF Pages
    <2>. HIDE DEF x
    <2>3. x.shown = None /\ x.fetch = None
      BY <2>2 DEF Cleared
    <2>. QED
      BY <1>2, <2>2, <2>3 DEF x
  <1>7. CASE op # "enter"
    <2>1. x = Render(y)
      BY <1>7
    <2>2. /\ x \in Tab /\ Fits(x) /\ x.user = u /\ ~x.loading
          /\ \/ x = y /\ (y.page = "login" \/ Visible(y))
             \/ Cleared(x)
      BY <1>4, <1>5, <2>1, RenderTab, RenderFits
    <2>. HIDE DEF x
    <2>3. x.shown \in {None, w.shown} /\ x.fetch \in {None, w.fetch}
      BY <1>4, <2>2 DEF Cleared
    <2>4. u = None => x.shown = None /\ x.fetch = None
      BY <1>4, <2>2 DEF Cleared, Visible, Fits
    <2>5. Cleared(x) \/ (op # "enter" /\ x.page = w.page /\ x.busy = w.busy)
      BY <1>4, <1>7, <2>2
    <2>. QED
      BY <1>2, <2>2, <2>3, <2>4, <2>5 DEF x
  <1>. QED
    BY <1>6, <1>7

(* Whatever is left of the tab's calls, the tab is sound.                  *)
LEMMA MeSound ==
  ASSUME AllInv, NEW c \in Calls, call[c] # Idle, call[c].op \in {"enter", "mount"},
         NEW t \in Tabs, t = call[c].tab, NEW calls, \A d \in Calls \ {c} : calls[d] = call[d],
         NEW x \in Tab, Fits(x), ~x.loading,
         Cleared(x) \/ (call[c].op # "enter" /\ x.page = tab[t].page /\ x.busy = tab[t].busy)
  PROVE  Sound(t, x, calls)
  <1>1. tab[t] \in Tab /\ Busy(t, tab[t], call)
    BY TabOf DEF Sound
  <1>2. CASE x.busy = None
    BY <1>2, NothingLoads
  <1>3. CASE x.busy # None
    <2>1. call[c].op = "mount" /\ x.page = tab[t].page /\ x.busy = tab[t].busy
      BY <1>3 DEF Cleared
    <2>2. x.busy \in Calls \ {c}
      BY <1>1, <1>3, <2>1, TabFields DEF Busy
    <2>3. Busy(t, x, calls)
      BY <1>1, <2>1, <2>2 DEF Busy
    <2>. QED
      BY <2>3 DEF Sound, Loading
  <1>. QED
    BY <1>2, <1>3

LEMMA MeStep ==
  ASSUME AllInv, NEW c \in Calls, call[c] # Idle, call[c].as # None, Me(c, call[c].as)
  PROVE  Step(call[c].tab)
  <1>. DEFINE t == call[c].tab
              u == call[c].as
              w == Met(call[c].op, tab[t], u)
  <1>1. t \in Tabs /\ u \in Users \cup {None}
    BY CallTab
  <1>2. /\ call[c].op \in {"enter", "mount"} /\ tab' = [tab EXCEPT ![t] = w]
        /\ call' = [call EXCEPT ![c] = Idle] /\ UNCHANGED <<store, stale, spoiled>>
    BY DEF Me, Show, Enter, Met
  <1>3. tab[t] \in Tab /\ Fits(tab[t])
    BY <1>1, TabOf
  <1>4. /\ w \in Tab /\ w.user = u /\ ~w.loading /\ Fits(w)
        /\ Cleared(w) \/ (call[c].op # "enter" /\ w.page = tab[t].page /\ w.busy = tab[t].busy)
        /\ w.shown \in {None, tab[t].shown} /\ w.fetch \in {None, tab[t].fetch}
    BY <1>1, <1>3, MeTab
  <1>. HIDE DEF w
  <1>5. /\ call'[c] = Idle
        /\ \A d \in Calls \ {c} : call'[d] = call[d]
        /\ LocalCalls(t, call, call')
    BY <1>1, <1>2, TabOf, Replaced, CallShape
  <1>6. Sound(t, w, call')
    BY <1>1, <1>2, <1>4, <1>5, MeSound
  <1>7. ASSUME t \notin stale PROVE Agrees(t, w, call', store.access)
    <2>1. Agrees(t, tab[t], call, store.access)
      BY <1>1, <1>7, TabOf
    <2>2. u = store.access
      BY <1>2, <2>1 DEF Agrees
    <2>3. w.shown \in {None, u}
      BY <1>3, <1>4, <2>1, <2>2, Shows
    <2>4. ASSUME NEW d \in Calls, call'[d] # Idle, call'[d].tab = t,
                 call'[d].op \in {"enter", "mount"} \/ (call'[d].op = "data" /\ w.fetch = d)
          PROVE  call'[d].as = store.access
      <3>1. d # c /\ call'[d] = call[d]
        BY <1>5, <2>4
      <3>2. w.fetch = d => tab[t].fetch = d
        BY <1>4, SessionAssumption
      <3>. QED
        BY <2>1, <2>4, <3>1, <3>2 DEF Agrees
    <2>. QED
      BY <1>4, <2>2, <2>3, <2>4 DEF Agrees
  <1>8. SessionStep(t, w)
    BY <1>1, <1>2, <1>7, KeptSession
  <1>. QED
    BY <1>2, <1>5, <1>6, <1>8 DEF Step

LEMMA NotMeStep ==
  ASSUME AllInv, NEW c \in Calls, call[c] # Idle, NotMe(c)
  PROVE  Step(call[c].tab)
  <1>. DEFINE t == call[c].tab
              w == Met(call[c].op, tab[t], None)
              calls == [call EXCEPT ![c] = Idle]
  <1>1. t \in Tabs
    BY CallTab
  <1>2. /\ call[c].op \in {"enter", "mount"} /\ tab' = [tab EXCEPT ![t] = w]
        /\ Clear /\ SwitchBy(t, c) /\ call' = Outdate(calls)
    BY DEF NotMe, Show, Enter, Met
  <1>3. tab[t] \in Tab /\ Fits(tab[t])
    BY <1>1, TabOf
  <1>n. None \in Users \cup {None}
    OBVIOUS
  <1>4. /\ w \in Tab /\ w.user = None /\ ~w.loading /\ Fits(w)
        /\ Cleared(w) \/ (call[c].op # "enter" /\ w.page = tab[t].page /\ w.busy = tab[t].busy)
        /\ w.shown = None /\ w.fetch = None
    BY <1>3, MeTab, <1>n
  <1>. HIDE DEF w
  <1>5. /\ calls \in [Calls -> Call] /\ calls[c] = Idle
        /\ \A d \in Calls \ {c} : calls[d] = call[d]
        /\ LocalCalls(t, call, calls)
    BY <1>1, TabOf, Replaced, CallShape
  <1>. HIDE DEF calls
  <1>6. Sound(t, w, calls)
    BY <1>1, <1>2, <1>4, <1>5, MeSound
  <1>7. Marked(calls, call')
    BY <1>2, <1>5, OutdateMarks
  <1>8. Sound(t, w, call') /\ LocalCalls(t, call, call')
    BY <1>1, <1>5, <1>6, <1>7, MarkedSound, MarkedLocal
  <1>9. ASSUME \A d \in Calls \ {c} :
                  call[d] # Idle /\ call[d].tab = t => call[d].op \notin {"enter", "mount"}
        PROVE  Agrees(t, w, call', store'.access)
    <2>1. store'.access = None
      BY <1>2 DEF Clear
    <2>2. Agrees(t, w, calls, None)
      BY <1>4, <1>5, <1>9, SessionAssumption DEF Agrees
    <2>. QED
      BY <1>7, <2>1, <2>2, MarkedAgrees
  <1>10. SessionStep(t, w)
    BY <1>1, <1>2, <1>9, SwitchedSession
  <1>. QED
    BY <1>2, <1>8, <1>10 DEF Step

(* A call goes on: another token, which for a tab that keeps its session   *)
(* is the same user's.                                                     *)
LEMMA OnStep ==
  ASSUME AllInv, NEW t \in Tabs, NEW c \in Calls, call[c] # Idle, call[c].tab = t,
         NEW f \in Call, f # Idle, f.tab = t, f.op = call[c].op,
         call' = [call EXCEPT ![c] = f], tab' = tab,
         spoiled' => stale' = Tabs,
         \A u \in Tabs : u \notin stale' => u \notin stale /\ store'.access = store.access,
         t \notin stale' => f.as \in {call[c].as, store.access}
  PROVE  Step(t)
  <1>1. /\ call'[c] = f
        /\ \A d \in Calls \ {c} : call'[d] = call[d]
        /\ LocalCalls(t, call, call')
    BY TabOf, Replaced
  <1>2. tab' = [tab EXCEPT ![t] = tab[t]]
    BY DEF AllInv, TabsSound
  <1>3. tab[t] \in Tab /\ Fits(tab[t]) /\ Busy(t, tab[t], call) /\ Loading(t, tab[t], call)
    BY TabOf DEF Sound
  <1>4. Busy(t, tab[t], call')
    <2>1. tab[t].busy # None => tab[t].busy \in Calls
      BY <1>3, TabFields
    <2>. QED
      BY <1>1, <1>3, <2>1 DEF Busy
  <1>5. Loading(t, tab[t], call')
    BY <1>1, <1>3 DEF Loading
  <1>6. ASSUME t \notin stale' PROVE Agrees(t, tab[t], call', store'.access)
    <2>1. Agrees(t, tab[t], call, store.access) /\ store'.access = store.access
      BY <1>6, TabOf
    <2>2. f.as \in {call[c].as, store.access}
      BY <1>6
    <2>. QED
      BY <1>1, <2>1, <2>2 DEF Agrees
  <1>7. SessionStep(t, tab[t])
    BY <1>6 DEF SessionStep
  <1>. QED
    BY <1>1, <1>2, <1>3, <1>4, <1>5, <1>7 DEF Step, Sound

LEMMA UnauthorizedStep ==
  ASSUME AllInv, NEW c \in Calls, call[c] # Idle, Unauthorized(c)
  PROVE  Step(call[c].tab)
  <1>. DEFINE t == call[c].tab
              f == Refreshing(call[c], store.refresh)
  <1>1. t \in Tabs /\ call[c] \in Frame /\ store.refresh \in Users \cup {None}
    BY CallTab DEF AllInv, NetTyped, Store
  <1>2. f \in Frame /\ f.op = call[c].op /\ f.as = store.refresh
    BY <1>1, FrameEdits
  <1>3. f.tab = t
    BY <1>1 DEF Refreshing, Frame
  <1>4. call' = [call EXCEPT ![c] = f] /\ UNCHANGED <<store, tab, stale, spoiled>>
    BY DEF Unauthorized, Refreshing
  <1>. HIDE DEF f
  <1>5. f \in Call /\ f # Idle
    BY <1>2, CallShape
  <1>6. t \notin stale => f.as = store.access
    BY <1>1, <1>2, OnePair
  <1>7. spoiled' => stale' = Tabs
    BY <1>4 DEF AllInv, StaleInv
  <1>. QED
    BY <1>1, <1>2, <1>3, <1>4, <1>5, <1>6, <1>7, OnStep

LEMMA RetriedStep ==
  ASSUME AllInv, NEW c \in Calls, Retries(c), tab' = tab,
         stale' = IF call[c].late THEN Tabs ELSE stale
  PROVE  Step(call[c].tab)
  <1>. DEFINE t == call[c].tab
              f == Retry(call[c])
  <1>1. /\ t \in Tabs /\ call[c] \in Frame /\ call[c] # Idle /\ call[c].stage = "refresh"
        /\ call[c].as \in Users \cup {None} /\ call[c].late \in BOOLEAN
    BY CallTab DEF Retries, Frame
  <1>2. f \in Frame /\ f.op = call[c].op /\ f.tab = t /\ f.as = call[c].as
    BY <1>1, RetryTyped DEF Retry, Sent
  <1>3. /\ call' = [call EXCEPT ![c] = f] /\ store' = [store EXCEPT !.access = call[c].as]
        /\ spoiled' = (spoiled \/ call[c].late)
    BY DEF Retries
  <1>. HIDE DEF f
  <1>4. f \in Call /\ f # Idle
    BY <1>2, CallShape
  <1>5. spoiled' => stale' = Tabs
    BY <1>1, <1>3 DEF AllInv, StaleInv
  <1>6. ASSUME NEW u \in Tabs, u \notin stale' PROVE u \notin stale /\ store'.access = store.access
    <2>1. ~call[c].late /\ u \notin stale
      BY <1>6
    <2>2. call[c].as = store.refresh
      BY <1>1, <2>1 DEF AllInv, PairInv
    <2>3. store.access = store.refresh
      BY <2>1, OnePair
    <2>4. store'.access = call[c].as
      BY <1>1, <1>3 DEF AllInv, NetTyped, Store
    <2>. QED
      BY <2>1, <2>2, <2>3, <2>4
  <1>. QED
    BY <1>1, <1>2, <1>3, <1>4, <1>5, <1>6, OnStep


-----------------------------------------------------------------------------
(* The session *)

LEMMA ReloadSteps ==
  ASSUME AllInv, NEW t \in Tabs, Reload(t) \/ Remount(t)
  PROVE  Step(t)
  BY MountKeeps, MountStep DEF AllInv

LEMMA ActSteps ==
  ASSUME AllInv, NEW t \in Tabs, Act(t)
  PROVE  Step(t)
  BY ReloadSteps, NavigateStep, SignOutStep, SubmitStep, OpenStep, AskStep DEF Act

LEMMA RejectSteps ==
  ASSUME AllInv, NEW c \in Calls, call[c] # Idle, Reject(c)
  PROVE  Step(call[c].tab)
  BY NotMeStep, DataStep, AnswerStep, LeftNotMeStep, DropSteps DEF Reject

LEMMA AnswerSteps ==
  ASSUME AllInv, NEW c \in Calls, Answer(c)
  PROVE  \E t \in Tabs : Step(t)
  <1>1. CASE LoginAnswered(c)
    <2>1. call[c] # Idle /\ call[c].op = "login"
      BY <1>1 DEF LoginAnswered, Idle
    <2>2. call[c].tab \in Tabs /\ call \in [Calls -> Call]
      BY <2>1, CallTab DEF AllInv, NetTyped
    <2>. DEFINE t == call[c].tab
    <2>3. CASE /\ SetTokens(call[c].as) /\ SwitchBy(t, c)
               /\ Show(t, Render([tab[t] EXCEPT !.loading = TRUE]))
               /\ call' = Outdate([call EXCEPT ![c] = [@ EXCEPT !.op = "enter", !.retry = TRUE]])
      <3>1. call' = Outdate([call EXCEPT ![c] = Entering(call[c], "enter")])
        BY <2>2, <2>3, EnteringCall, Zenon
      <3>2. tab' = [tab EXCEPT ![t] = Render([tab[t] EXCEPT !.loading = TRUE])]
        BY <2>3, Zenon DEF Show
      <3>3. SetTokens(call[c].as) /\ SwitchBy(t, c)
        BY <2>3, Zenon
      <3>. QED
        BY <2>1, <2>2, <3>1, <3>2, <3>3, LoginDone, Zenon
    <2>4. CASE /\ Show(t, [tab[t] EXCEPT !.busy = IF @ = c THEN None ELSE @])
               /\ call' = [call EXCEPT ![c] = Idle]
               /\ UNCHANGED <<store, stale, spoiled>>
      <3>1. tab' = [tab EXCEPT ![t] = [tab[t] EXCEPT !.busy = IF @ = c THEN None ELSE @]]
        BY <2>4, Zenon DEF Show
      <3>. QED
        BY <2>1, <2>2, <2>4, <3>1, LoginFailed, Zenon
    <2>. QED
      BY <1>1, <2>3, <2>4, Zenon DEF LoginAnswered
  <1>2. ASSUME call[c] # Idle, Step(call[c].tab) PROVE \E t \in Tabs : Step(t)
    BY <1>2, CallTab
  <1>3. CASE Answered(c)
    <2>1. call[c] # Idle
      BY <1>3 DEF Answered
    <2>2. CASE call[c].as # None /\ Resolve(c, call[c].as)
      BY <1>2, <2>1, <2>2, MeStep, DataStep, AnswerStep, DropSteps DEF Resolve
    <2>3. CASE Unauthorized(c)
      BY <1>2, <2>1, <2>3, UnauthorizedStep
    <2>4. CASE Reject(c)
      BY <1>2, <2>1, <2>4, RejectSteps
    <2>. QED
      BY <1>3, <2>2, <2>3, <2>4 DEF Answered
  <1>4. CASE Refreshed(c)
    <2>1. call[c] # Idle /\ call[c].stage = "refresh"
      BY <1>4 DEF Refreshed
    <2>2. CASE Reject(c)
      BY <1>2, <2>1, <2>2, RejectSteps
    <2>3. CASE ~Reject(c)
      <3>1. [Fetch(call[c].op, call[c].tab, FALSE) EXCEPT !.as = call[c].as] = Retry(call[c])
        BY SentAs DEF Retry
      <3>2. /\ store' = [store EXCEPT !.access = call[c].as]
            /\ call' = [call EXCEPT ![c] = Retry(call[c])]
            /\ stale' = IF call[c].late THEN Tabs ELSE stale
            /\ spoiled' = (spoiled \/ call[c].late)
            /\ UNCHANGED tab
        BY <1>4, <2>3, <3>1 DEF Refreshed
      <3>3. Retries(c)
        BY <2>1, <3>2 DEF Retries
      <3>. QED
        BY <1>2, <2>1, <3>2, <3>3, RetriedStep
    <2>. QED
      BY <2>2, <2>3
  <1>5. CASE LeftLoginAnswered(c)
    <2>1. call[c] # Idle
      BY <1>5 DEF LeftLoginAnswered, Idle
    <2>. QED
      BY <1>2, <1>5, <2>1, LeftLoginStep
  <1>. QED
    BY <1>1, <1>3, <1>4, <1>5 DEF Answer

LEMMA StepAll == AllInv /\ [Next]_vars => AllInv'
  <1>. SUFFICES ASSUME AllInv, [Next]_vars PROVE AllInv'
    OBVIOUS
  <1>1. NetTyped' /\ PairInv'
    BY StepNet, StepPair DEF AllInv
  <1>2. CASE Next
    <2>1. \E t \in Tabs : Step(t)
      BY <1>2, ActSteps, AnswerSteps DEF Next
    <2>. QED
      BY <1>1, <2>1, StepKeeps DEF AllInv
  <1>3. CASE UNCHANGED vars
    <2>1. TabsSound'
      BY <1>3 DEF vars, AllInv, TabsSound, Sound, Busy, Loading
    <2>2. StaleInv'
      BY <1>3 DEF vars, AllInv, StaleInv, Agrees
    <2>. QED
      BY <1>1, <2>1, <2>2 DEF AllInv
  <1>. QED
    BY <1>2, <1>3

LEMMA InitAll == Init => AllInv
  <1>. SUFFICES ASSUME Init PROVE AllInv
    OBVIOUS
  <1>1. NetTyped /\ PairInv
    BY InitNet
  <1>. DEFINE w(b) == [user |-> None, loading |-> b, page |-> "login", busy |-> None,
                       fetch |-> None, shown |-> None, unanswered |-> 0]
  <1>2. ASSUME NEW b \in BOOLEAN
        PROVE  /\ w(b) \in Tab /\ w(b).user = None /\ w(b).loading = b /\ w(b).page = "login"
               /\ Cleared(w(b))
    BY DEF Tab, Pages, Cleared
  <1>f. FALSE \in BOOLEAN
    OBVIOUS
  <1>3. /\ w(FALSE) \in Tab /\ w(FALSE).user = None /\ w(FALSE).loading = FALSE
        /\ Cleared(w(FALSE))
    BY <1>2, <1>f, Zenon
  <1>. DEFINE x == w(FALSE)
  <1>4. tab = [t \in Tabs |-> x]
    BY DEF Init
  <1>. HIDE DEF w
  <1>5. x \in Tab /\ x.user = None /\ x.loading = FALSE /\ Cleared(x)
    BY <1>3
  <1>. HIDE DEF x
  <1>6. \A t \in Tabs : Sound(t, x, call)
    BY <1>5, ClearedTab, NothingLoads
  <1>7. TabsSound
    BY <1>4, <1>5, <1>6 DEF TabsSound
  <1>8. \A t \in Tabs : Agrees(t, x, call, None)
    BY <1>5 DEF Init, Agrees, Cleared
  <1>9. StaleInv
    BY <1>4, <1>8 DEF Init, StaleInv
  <1>. QED
    BY <1>1, <1>7, <1>9 DEF AllInv

LEMMA AlwaysAll == Spec => []AllInv
  BY InitAll, StepAll, PTL DEF Spec

LEMMA AllTyped == AllInv /\ stale \subseteq Tabs /\ spoiled \in BOOLEAN => TypeOK
  BY DEF AllInv, NetTyped, TabsSound, Sound, TypeOK

(* The histories.                                                          *)
HistoryTyped == stale \subseteq Tabs /\ spoiled \in BOOLEAN

LEMMA StepHistory == AllInv /\ HistoryTyped /\ [Next]_vars => HistoryTyped'
  <1>. SUFFICES ASSUME AllInv, HistoryTyped, [Next]_vars PROVE HistoryTyped'
    OBVIOUS
  <1>1. ASSUME NEW t, NEW c, t \in Tabs, SwitchBy(t, c) PROVE HistoryTyped'
    BY <1>1 DEF SwitchBy, HistoryTyped
  <1>2. ASSUME NEW c \in Calls, call[c] # Idle PROVE call[c].tab \in Tabs /\ call[c].late \in BOOLEAN
    BY <1>2, CallTab DEF Frame
  <1>3. CASE UNCHANGED <<stale, spoiled>>
    BY <1>3 DEF HistoryTyped
  <1>4. ASSUME NEW t \in Tabs, Act(t) PROVE HistoryTyped'
    <2>1. CASE Reload(t) \/ Remount(t)
      <3>1. PICK kept : Mount(t, kept)
        BY <2>1, MountKeeps DEF AllInv
      <3>. QED
        BY <1>4, <3>1 DEF Mount, HistoryTyped
    <2>2. CASE SignOut(t)
      BY <1>1, <2>2 DEF SignOut
    <2>. QED
      BY <1>3, <1>4, <2>1, <2>2 DEF Act, Navigate, Submit, Open, Ask
  <1>5. ASSUME NEW c \in Calls, Reject(c) \/ (\E u : Resolve(c, u)), call[c] # Idle PROVE HistoryTyped'
    <2>1. CASE LeftNotMe(c)
      BY <2>1 DEF LeftNotMe, HistoryTyped
    <2>. QED
      BY <1>1, <1>2, <1>3, <1>5, <2>1 DEF Reject, Resolve, NotMe, Me, DataRead, AnswerRead, Drop
  <1>6. ASSUME NEW c \in Calls, Answer(c) PROVE HistoryTyped'
    <2>1. CASE LoginAnswered(c)
      <3>1. call[c] # Idle
        BY <2>1 DEF LoginAnswered, Idle
      <3>. QED
        BY <1>1, <1>2, <1>3, <2>1, <3>1 DEF LoginAnswered
    <2>2. CASE Answered(c)
      BY <1>3, <1>5, <2>2 DEF Answered, Unauthorized
    <2>3. CASE Refreshed(c)
      <3>1. call[c] # Idle /\ call[c].late \in BOOLEAN
        BY <1>2, <2>3 DEF Refreshed
      <3>. QED
        BY <1>5, <2>3, <3>1 DEF Refreshed, HistoryTyped
    <2>4. CASE LeftLoginAnswered(c)
      BY <2>4 DEF LeftLoginAnswered, HistoryTyped
    <2>. QED
      BY <1>6, <2>1, <2>2, <2>3, <2>4 DEF Answer
  <1>. QED
    BY <1>3, <1>4, <1>6 DEF Next, vars

(* Every state of the tabs, the calls and the store is one the code's own  *)
(* types allow: in particular no count of unanswered questions falls below *)
(* zero, whichever answers come late (api.ts, auth.tsx, copilot/page.tsx). *)
THEOREM SessionTypeCorrect == Spec => []TypeOK
  <1>1. Init => HistoryTyped
    BY DEF Init, HistoryTyped
  <1>2. AllInv /\ HistoryTyped => TypeOK
    BY AllTyped DEF HistoryTyped
  <1>. QED
    BY AlwaysAll, StepHistory, <1>1, <1>2, PTL DEF Spec

(* A tab whose session nobody changed under it has the user the store's    *)
(* token is of, and shows that user's data (auth.tsx:41-70,                *)
(* useApi.ts:21-29).                                                       *)
THEOREM SessionsAgree == Spec => []SessionAgrees
  <1>1. AllInv => SessionAgrees
    BY DEF AllInv, StaleInv, Agrees, SessionAgrees
  <1>. QED
    BY AlwaysAll, <1>1, PTL

(* A tab that loads has an /auth/me/ of its own in flight                  *)
(* (auth.tsx:41-55).                                                       *)
THEOREM LoadingAlwaysWaits == Spec => []LoadingWaits
  <1>1. AllInv => LoadingWaits
    BY DEF AllInv, TabsSound, Sound, Loading, LoadingWaits, Own
  <1>. QED
    BY AlwaysAll, <1>1, PTL

(* No question is counted twice, and none that the page was left with      *)
(* (copilot/page.tsx:24-45).                                               *)
THEOREM QuestionsAnswered == Spec => []EveryQuestionAnswered
  <1>1. ASSUME AllInv, NEW t \in Tabs
        PROVE  tab[t].unanswered =
                 Cardinality({c \in {tab[t].busy} \ {None} : tab[t].page = "copilot"})
    <2>. DEFINE S == {c \in {tab[t].busy} \ {None} : tab[t].page = "copilot"}
    <2>1. Fits(tab[t])
      BY <1>1, TabOf
    <2>2. CASE tab[t].page = "copilot" /\ tab[t].busy # None
      <3>1. S = {tab[t].busy}
        BY <2>2
      <3>. QED
        BY <2>1, <2>2, <3>1, FS_Singleton DEF Fits
    <2>3. CASE ~(tab[t].page = "copilot" /\ tab[t].busy # None)
      <3>1. S = {}
        BY <2>3
      <3>. QED
        BY <2>1, <2>3, <3>1, FS_EmptySet DEF Fits
    <2>. QED
      BY <2>2, <2>3
  <1>2. AllInv => EveryQuestionAnswered
    BY <1>1 DEF EveryQuestionAnswered
  <1>. QED
    BY AlwaysAll, <1>2, PTL
==============================================================================
