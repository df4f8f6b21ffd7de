------------------------ MODULE BrowserSessionProofs ------------------------
(***************************************************************************)
(* Proofs about BrowserSession: any number of tabs and calls, and any      *)
(* bounds on what happens. Three invariants, each on top of the one        *)
(* before: whose a slot is, where the live cookies are as long as neither  *)
(* the network does wrong nor a user leaves a page in the midst of it, and *)
(* how far the tabs of a cold start have got.                              *)
(***************************************************************************)
EXTENDS BrowserSession, FiniteSetTheorems, TLAPS

Typed ==
  /\ tokens \in [Token -> Knowledge]
  /\ jar \in Token \cup {None}
  /\ page \in [Tab -> {"closed", "app", "login"}]
  /\ guard \in [Tab -> {"fresh", "attempted", "waking"}]
  /\ access \in [Tab -> {"none", "valid", "expired"}]
  /\ refreshes \in [Slot -> Refreshes]
  /\ promise \in [Tab -> Call \cup {None}]
  /\ calls \in [Call -> CallStates]
  /\ leaving \in [Tab -> Leavings]
  /\ orphans \subseteq Orphan
  /\ swept \in BOOLEAN /\ aborted \in BOOLEAN
  /\ events \in 0..MaxEvents /\ faults \in 0..MaxFaults

SlotOK(s) == refreshes[s].stage = "quiet" => refreshes[s] = Quiet

\* A page of (app) without a user has a guard that asks for one, and a promise is
\* that of a call of the tab.
TabOK(t) ==
  /\ page[t] = "app" /\ access[t] = "none" => refreshes[t] # Quiet
  /\ promise[t] # None => TabOf[promise[t]] = t

\* A call's refresh is the one its tab's promise stands for.
CallOK(c) ==
  /\ refreshes[c] # Quiet <=> promise[TabOf[c]] = c
  /\ calls[c] = "waiting" => promise[TabOf[c]] # None \/ leaving[TabOf[c]].reload

SessionInv ==
  /\ Typed
  /\ \A s \in Slot : SlotOK(s)
  /\ \A t \in Tab : TabOK(t)
  /\ \A c \in Call : CallOK(c)

\* A new cookie that is on its way to the browser.
Landing(s) == refreshes[s].stage = "down" /\ refreshes[s].answer = "ok"

Presented(k) ==
  \/ k = jar
  \/ \E s \in Slot : refreshes[s].stage = "up" /\ refreshes[s].cookie = k
  \/ \E t \in Tab : leaving[t].cookie = k
  \/ \E o \in orphans : o.cookie = k

\* As long as the network does no wrong and nobody leaves a page whose requests
\* are under way, a cookie on its way is live and nobody has seen it, the jar holds
\* a revoked token only while what replaces or drops it is on its way, and what
\* nobody hears of any more concerns another token than the jar's.
Prompt ==
  /\ ~swept
  /\ \A k \in Token : tokens[k] # "old" /\ (Presented(k) => tokens[k] # "unused")
  /\ \A s \in Slot : Landing(s) =>
       /\ refreshes[s].cookie \in Token /\ tokens[refreshes[s].cookie] = "live"
       /\ ~Presented(refreshes[s].cookie)
       /\ \A q \in Slot \ {s} : Landing(q) => refreshes[q].cookie # refreshes[s].cookie
  /\ jar # None /\ tokens[jar] = "recent" =>
       (\E s \in Slot : Landing(s)) \/ (\E t \in Tab : leaving[t].stage = "down")
  /\ \A o \in orphans : o.cookie # jar

PromptInv == faults = 0 /\ ~aborted => Prompt

\* Of two tabs that are opened, the one that loses the race has the other ahead of
\* it, and presents its cookie when it tries again.
Ahead(t) == \E u \in Tab \ {t} : Landing(u) \/ access[u] # "none"

Opened(t) ==
  /\ leaving[t] = Staying /\ access[t] # "expired" /\ page[t] # "login"
  /\ page[t] = "closed" \/ access[t] # "none" => refreshes[t] = Quiet
  /\ page[t] = "closed" => access[t] = "none"
  /\ refreshes[t].stage = "sleep" => Ahead(t)
  /\ refreshes[t].stage = "up" =>
       /\ refreshes[t].cookie \in Token
       /\ tokens[refreshes[t].cookie] = "live" \/ (~refreshes[t].again /\ Ahead(t))
       /\ refreshes[t].again => \A u \in Tab \ {t} : access[u] # "none"
  /\ refreshes[t].stage = "down" =>
       \/ refreshes[t].answer = "ok"
       \/ refreshes[t].answer = "race" /\ ~refreshes[t].again /\ Ahead(t)

Cold ==
  /\ jar # None /\ ~aborted /\ orphans = {}
  /\ \A c \in Call : calls[c] \in {"idle", "fresh"} /\ refreshes[c] = Quiet
  /\ \A t \in Tab : Opened(t)

TwoTabs == \A t \in Tab : \A u, v \in Tab \ {t} : u = v

ColdInv == TwoTabs /\ faults = 0 /\ events = 0 => Cold

------------------------------------------------------------------------------
\* The records of a slot and of a logout, and what tells them apart.
LEMMA Records ==
  /\ Quiet \in Refreshes /\ Quiet.stage = "quiet" /\ Quiet.cookie = None
  /\ \A k \in Token \cup {None}, again \in BOOLEAN :
       /\ Up(k, again) \in Refreshes /\ Up(k, again) # Quiet
       /\ Up(k, again).stage = "up" /\ Up(k, again).cookie = k /\ Up(k, again).again = again
  /\ [Quiet EXCEPT !.stage = "sleep"] \in Refreshes
  /\ Staying \in Leavings /\ Staying.stage = "quiet" /\ Staying.cookie = None /\ ~Staying.reload
BY DEF Quiet, Refreshes, Up, Staying, Leavings

\* A tab is no call, and each call has a tab.
LEMMA Slots ==
  /\ Tab \cap Call = {} /\ Slot = Tab \cup Call
  /\ \A c \in Call : TabOf[c] \in Tab /\ c # None /\ Owner(c) = TabOf[c]
  /\ \A t \in Tab : t # None /\ Owner(t) = t
BY SessionAssumption DEF Slot, Owner

\* The bounds of the model hold.
LEMMA Counted ==
  ASSUME Typed, NEW p, NEW q, EventIf(p) \/ UNCHANGED events, FaultIf(q) \/ UNCHANGED faults
  PROVE  /\ events' \in 0..MaxEvents /\ faults' \in 0..MaxFaults
         /\ (events' = 0 => events = 0) /\ (faults' = 0 => faults = 0)
BY SessionAssumption DEF Typed, EventIf, FaultIf

\* What the server makes of a token.
LEMMA OutcomeTyped ==
  ASSUME Typed, NEW k, NEW answer, NEW l, Outcome(k, answer, l)
  PROVE  tokens' \in [Token -> Knowledge] /\ swept' \in BOOLEAN
<1>1. \/ UNCHANGED <<tokens, swept>>
      \/ tokens' = [tokens EXCEPT ![k] = "recent", ![l] = "live"] /\ UNCHANGED swept
      \/ /\ tokens' = [m \in Token |-> IF tokens[m] = "live" THEN "recent" ELSE tokens[m]]
         /\ swept' = TRUE
  BY DEF Outcome
<1>2. tokens' \in [Token -> Knowledge]
  BY <1>1 DEF Typed, Knowledge
<1>3. swept' \in BOOLEAN
  BY <1>1 DEF Typed
<1>4. QED
  BY <1>2, <1>3

\* The server answers, or the network does: a slot in use stays so.
LEMMA AnswerKeeps ==
  ASSUME SessionInv, NEW s \in Slot, HandleRefresh(s) \/ LoseRefresh(s)
  PROVE  SessionInv'
<1>1. /\ refreshes[s].stage \in {"up", "down"}
      /\ \E answer \in {"ok", "race", "no"}, k \in Token \cup {None} :
           refreshes' = [refreshes EXCEPT ![s].stage = "down", ![s].answer = answer,
                                          ![s].cookie = k]
      /\ UNCHANGED <<jar, page, guard, access, promise, calls, leaving, orphans, aborted, events>>
  BY DEF HandleRefresh, LoseRefresh, InFlight
<1>2. tokens' \in [Token -> Knowledge] /\ swept' \in BOOLEAN
  <2>1. CASE HandleRefresh(s)
    BY <2>1, OutcomeTyped DEF HandleRefresh, SessionInv
  <2>2. QED
    BY <2>1 DEF LoseRefresh, SessionInv, Typed
<1>3. faults' \in 0..MaxFaults
  BY Counted DEF HandleRefresh, LoseRefresh, SessionInv
<1>4. /\ refreshes' \in [Slot -> Refreshes] /\ refreshes'[s].stage = "down"
      /\ \A q \in Slot \ {s} : refreshes'[q] = refreshes[q]
  <2>1. PICK answer \in {"ok", "race", "no"}, k \in Token \cup {None} :
          refreshes' = [refreshes EXCEPT ![s].stage = "down", ![s].answer = answer, ![s].cookie = k]
    BY <1>1
  <2>2. refreshes \in [Slot -> Refreshes] /\ refreshes[s] \in Refreshes
    BY DEF SessionInv, Typed
  <2>3. [refreshes[s] EXCEPT !.stage = "down", !.answer = answer, !.cookie = k] \in Refreshes
    BY <2>2 DEF Refreshes
  <2>4. refreshes' = [refreshes EXCEPT ![s] =
                        [refreshes[s] EXCEPT !.stage = "down", !.answer = answer, !.cookie = k]]
    BY <2>1, <2>2
  <2>5. QED
    BY <2>2, <2>3, <2>4 DEF Refreshes
<1>5. \A q \in Slot : refreshes'[q] = Quiet <=> refreshes[q] = Quiet
  BY <1>1, <1>4, Records
<1>6. Typed'
  BY <1>1, <1>2, <1>3, <1>4 DEF SessionInv, Typed
<1>7. \A q \in Slot : SlotOK(q)'
  BY <1>4 DEF SessionInv, SlotOK
<1>8. \A t \in Tab : TabOK(t)'
  BY <1>1, <1>5, Slots DEF SessionInv, TabOK
<1>9. \A c \in Call : CallOK(c)'
  BY <1>1, <1>5, Slots DEF SessionInv, CallOK
<1>10. QED
  BY <1>6, <1>7, <1>8, <1>9 DEF SessionInv

\* What nobody hears of reaches the server, or does not.
LEMMA OrphanKeeps ==
  ASSUME SessionInv, NEW o \in orphans, HandleOrphan(o) \/ Vanish(o)
  PROVE  SessionInv'
<1>1. /\ UNCHANGED <<jar, page, guard, access, refreshes, promise, calls, leaving, aborted,
                     events, faults>>
      /\ orphans' \subseteq Orphan
  BY DEF HandleOrphan, Vanish, history, SessionInv, Typed
<1>2. tokens' \in [Token -> Knowledge]
  BY OutcomeTyped DEF HandleOrphan, Vanish, Revoked, SessionInv, Typed, Knowledge
<1>3. swept' \in BOOLEAN
  BY OutcomeTyped DEF HandleOrphan, Vanish, history, SessionInv, Typed
<1>4. Typed'
  BY <1>1, <1>2, <1>3 DEF SessionInv, Typed
<1>5. \A s \in Slot : SlotOK(s)'
  BY <1>1 DEF SessionInv, SlotOK
<1>6. \A t \in Tab : TabOK(t)'
  BY <1>1 DEF SessionInv, TabOK
<1>7. \A c \in Call : CallOK(c)'
  BY <1>1 DEF SessionInv, CallOK
<1>8. QED
  BY <1>4, <1>5, <1>6, <1>7 DEF SessionInv

\* The guard: its slot is for nobody else, and it is not left idle on a page that
\* has no user.
LEMMA GuardKeeps ==
  ASSUME SessionInv, NEW t \in Tab,
         \/ Return(t) \/ Wake(t)
         \/ GuardPasses(t) \/ GuardSleeps(t) \/ GuardRetries(t) \/ GuardFails(t)
  PROVE  SessionInv'
<1> USE Records, Slots
<1>1. /\ UNCHANGED <<tokens, promise, calls, leaving, orphans, swept, aborted>>
      /\ events' \in 0..MaxEvents /\ faults' \in 0..MaxFaults
  BY Counted DEF Return, Wake, GuardPasses, GuardSleeps, GuardRetries, GuardFails, GivesUp,
                 history, SessionInv, Typed
<1>2. PICK x \in Refreshes : /\ refreshes' = [refreshes EXCEPT ![t] = x]
                             /\ x.stage = "quiet" => x = Quiet
  <2>1. Up(jar, FALSE) \in Refreshes /\ Up(jar, TRUE) \in Refreshes
    BY DEF SessionInv, Typed
  <2>2. [Quiet EXCEPT !.stage = "sleep"].stage = "sleep"
    BY DEF Quiet
  <2>3. CASE UNCHANGED refreshes
    <3>1. refreshes' = [refreshes EXCEPT ![t] = refreshes[t]] /\ refreshes[t] \in Refreshes
      BY <2>3 DEF SessionInv, Typed
    <3>2. QED
      BY <3>1 DEF SessionInv, SlotOK
  <2>4. QED
    BY <2>1, <2>2, <2>3
       DEF Return, Wake, GuardPasses, GuardSleeps, GuardRetries, GuardFails, GivesUp, Up
<1>3. jar' \in Token \cup {None}
  <2>1. refreshes[t].cookie \in Token \cup {None} /\ jar \in Token \cup {None}
    BY DEF SessionInv, Typed, Refreshes
  <2>2. jar' \in {jar, refreshes[t].cookie}
    BY DEF Return, Wake, GuardPasses, GuardSleeps, GuardRetries, GuardFails, GivesUp
  <2>3. QED
    BY <2>1, <2>2
<1>4. /\ page' \in [Tab -> {"closed", "app", "login"}]
      /\ guard' \in [Tab -> {"fresh", "attempted", "waking"}]
      /\ access' \in [Tab -> {"none", "valid", "expired"}]
  <2>1. \/ UNCHANGED page
        \/ \E p \in {"app", "login"} : page' = [page EXCEPT ![t] = p]
    BY DEF Return, Wake, GuardPasses, GuardSleeps, GuardRetries, GuardFails, GivesUp
  <2>2. \/ UNCHANGED guard
        \/ \E g \in {"fresh", "attempted", "waking"} : guard' = [guard EXCEPT ![t] = g]
    BY DEF Return, Wake, GuardPasses, GuardSleeps, GuardRetries, GuardFails, GivesUp
  <2>3. UNCHANGED access \/ access' = [access EXCEPT ![t] = "valid"]
    BY DEF Return, Wake, GuardPasses, GuardSleeps, GuardRetries, GuardFails, GivesUp
  <2>4. QED
    BY <2>1, <2>2, <2>3 DEF SessionInv, Typed
<1>5. /\ \A u \in Tab \ {t} : page'[u] = page[u] /\ access'[u] = access[u]
      /\ page'[t] = "app" /\ access'[t] = "none" => refreshes'[t] # Quiet
  <2>1. CASE Return(t) \/ GuardRetries(t)
    <3>1. Up(jar, FALSE) # Quiet /\ Up(jar, TRUE) # Quiet
      BY DEF SessionInv, Typed
    <3>2. CASE Return(t)
      <4>1. access[t] = "none" => refreshes'[t] = Up(jar, FALSE)
        <5>1. access[t] = "none" => refreshes' = [refreshes EXCEPT ![t] = Up(jar, FALSE)]
          BY <3>2 DEF Return
        <5>2. QED
          BY <5>1 DEF SessionInv, Typed
      <4>2. UNCHANGED access /\ \A u \in Tab \ {t} : page'[u] = page[u]
        BY <3>2 DEF Return, SessionInv, Typed
      <4>3. QED
        BY <3>1, <4>1, <4>2
    <3>3. CASE GuardRetries(t)
      BY <3>1, <3>3 DEF GuardRetries, SessionInv, Typed
    <3>4. QED
      BY <2>1, <3>2, <3>3
  <2>2. CASE Wake(t) \/ GuardPasses(t)
    BY <2>2 DEF Wake, GuardPasses, SessionInv, Typed
  <2>3. CASE GuardSleeps(t)
    <3>1. [Quiet EXCEPT !.stage = "sleep"] # Quiet
      BY DEF Quiet
    <3>2. QED
      BY <2>3, <3>1 DEF GuardSleeps, SessionInv, Typed
  <2>4. CASE GuardFails(t)
    BY <2>4 DEF GuardFails, GivesUp, Cancelled, SessionInv, Typed
  <2>5. QED
    BY <2>1, <2>2, <2>3, <2>4
<1>6. Typed'
  BY <1>1, <1>2, <1>3, <1>4 DEF SessionInv, Typed
<1>7. \A q \in Slot : SlotOK(q)'
  BY <1>2 DEF SessionInv, Typed, SlotOK
<1>8. \A q \in Tab : TabOK(q)'
  BY <1>1, <1>2, <1>5 DEF SessionInv, Typed, TabOK
<1>9. \A c \in Call : CallOK(c)'
  BY <1>1, <1>2 DEF SessionInv, Typed, CallOK
<1>10. QED
  BY <1>6, <1>7, <1>8, <1>9 DEF SessionInv

\* A call is sent, or over.
LEMMA CallKeeps ==
  ASSUME SessionInv, NEW c \in Call, Send(c) \/ Answered(c)
  PROVE  SessionInv'
<1> USE Records, Slots
<1>1. /\ UNCHANGED <<tokens, jar, page, guard, access, refreshes, promise, leaving, orphans,
                     swept, aborted, events, faults>>
      /\ \E x \in {"idle", "fresh", "stale"} : calls' = [calls EXCEPT ![c] = x]
  BY DEF Send, Answered, history
<1>2. Typed'
  BY <1>1 DEF SessionInv, Typed, CallStates
<1>3. \A s \in Slot : SlotOK(s)'
  BY <1>1 DEF SessionInv, SlotOK
<1>4. \A q \in Tab : TabOK(q)'
  BY <1>1 DEF SessionInv, TabOK
<1>5. \A d \in Call : CallOK(d)'
  BY <1>1 DEF SessionInv, Typed, CallOK
<1>6. QED
  BY <1>2, <1>3, <1>4, <1>5 DEF SessionInv

\* A 401: the call waits for the tab's refresh, or starts it.
LEMMA UnauthorizedKeeps ==
  ASSUME SessionInv, NEW c \in Call, Unauthorized(c)
  PROVE  SessionInv'
<1> USE Slots
<1> DEFINE t == TabOf[c]
<1>1. /\ UNCHANGED <<tokens, jar, page, guard, access, leaving, orphans, swept, aborted, faults>>
      /\ events' \in 0..MaxEvents
      /\ calls' = [calls EXCEPT ![c] = "waiting"]
  BY Counted DEF Unauthorized, SessionInv, Typed
<1>2. Up(jar, FALSE) \in Refreshes /\ Up(jar, FALSE) # Quiet /\ Up(jar, FALSE).stage = "up"
  BY Records DEF SessionInv, Typed
<1>3. PICK x \in Refreshes :
        /\ x # Quiet /\ x.stage = "up"
        /\ \/ /\ promise[t] = None
              /\ refreshes' = [refreshes EXCEPT ![c] = x]
              /\ promise' = [promise EXCEPT ![t] = c]
           \/ promise[t] # None /\ UNCHANGED <<refreshes, promise>>
  BY <1>2 DEF Unauthorized, Join
<1>4. Typed'
  BY <1>1, <1>3 DEF SessionInv, Typed, CallStates
<1>5. \A s \in Slot : SlotOK(s)'
  BY <1>3 DEF SessionInv, Typed, SlotOK
<1>6. \A q \in Tab : TabOK(q)'
  BY <1>1, <1>3 DEF SessionInv, Typed, TabOK
<1>7. \A d \in Call : CallOK(d)'
  BY <1>1, <1>3 DEF SessionInv, Typed, CallOK, TabOK
<1>8. QED
  BY <1>4, <1>5, <1>6, <1>7 DEF SessionInv

\* The promise resolves: all that waited for it go on.
LEMMA RefreshedKeeps ==
  ASSUME SessionInv, NEW c \in Call, Refreshed(c)
  PROVE  SessionInv'
<1> USE Records, Slots
<1> DEFINE t == TabOf[c]
<1>1. /\ UNCHANGED <<tokens, page, guard, leaving, orphans, swept, aborted, events, faults>>
      /\ jar' \in Token \cup {None} /\ access' = [access EXCEPT ![t] = "valid"]
      /\ refreshes' = [refreshes EXCEPT ![c] = Quiet]
      /\ promise[t] = c /\ promise' = [promise EXCEPT ![t] = None]
      /\ calls' = [d \in Call |-> IF TabOf[d] = t /\ calls[d] = "waiting" THEN "again" ELSE calls[d]]
  BY DEF Refreshed, history, SessionInv, Typed, CallOK, Refreshes
<1>2. Typed'
  BY <1>1 DEF SessionInv, Typed, CallStates
<1>3. \A s \in Slot : SlotOK(s)'
  BY <1>1 DEF SessionInv, Typed, SlotOK
<1>4. \A q \in Tab : TabOK(q)'
  BY <1>1 DEF SessionInv, Typed, TabOK
<1>5. \A d \in Call : CallOK(d)'
  BY <1>1 DEF SessionInv, Typed, CallOK
<1>6. QED
  BY <1>2, <1>3, <1>4, <1>5 DEF SessionInv

\* A logout that begins keeps its stage if it had begun.
LEMMA LogOutTyped ==
  ASSUME SessionInv, NEW t \in Tab, NEW reload \in BOOLEAN, LogOut(t, reload)
  PROVE  /\ leaving' \in [Tab -> Leavings]
         /\ \A u \in Tab \ {t} : leaving'[u] = leaving[u]
         /\ leaving'[t].reload = (leaving[t].reload \/ reload)
         /\ leaving[t] = Staying => leaving'[t].stage = "up" /\ leaving'[t].cookie = jar
         /\ leaving[t] # Staying =>
              leaving'[t].stage = leaving[t].stage /\ leaving'[t].cookie = leaving[t].cookie
<1>1. leaving \in [Tab -> Leavings] /\ leaving[t] \in Leavings
  BY DEF SessionInv, Typed
<1>2. CASE leaving[t] = Staying
  <2>1. leaving' = [leaving EXCEPT ![t] = [stage |-> "up", cookie |-> jar, reload |-> reload]]
    BY <1>1, <1>2 DEF LogOut
  <2>2. [stage |-> "up", cookie |-> jar, reload |-> reload] \in Leavings
    BY DEF SessionInv, Typed, Leavings
  <2>3. QED
    BY <1>1, <1>2, <2>1, <2>2 DEF Staying
<1>3. CASE leaving[t] # Staying
  <2> DEFINE x == [leaving[t] EXCEPT !.reload = @ \/ reload]
  <2>1. leaving' = [leaving EXCEPT ![t] = x]
    BY <1>1, <1>3 DEF LogOut
  <2>2. (leaving[t].reload \/ reload) \in BOOLEAN
    BY Zenon
  <2>3. /\ x \in Leavings /\ x.reload = (leaving[t].reload \/ reload)
        /\ x.stage = leaving[t].stage /\ x.cookie = leaving[t].cookie
    BY <1>1, <2>2 DEF Leavings
  <2>4. QED
    BY <1>1, <1>3, <2>1, <2>3
<1>4. QED
  BY <1>2, <1>3

\* The promise rejects: the page is about to be loaded anew.
LEMMA RefreshFailsKeeps ==
  ASSUME SessionInv, NEW c \in Call, RefreshFails(c)
  PROVE  SessionInv'
<1> USE Records, Slots
<1> DEFINE t == TabOf[c]
<1>1. /\ UNCHANGED <<tokens, jar, page, guard, access, calls, orphans, swept, aborted, events, faults>>
      /\ refreshes' = [refreshes EXCEPT ![c] = Quiet]
      /\ promise[t] = c /\ promise' = [promise EXCEPT ![t] = None]
      /\ LogOut(t, TRUE)
  BY DEF RefreshFails, history, SessionInv, Typed, CallOK
<1>2. /\ leaving' \in [Tab -> Leavings] /\ leaving'[t].reload
      /\ \A u \in Tab \ {t} : leaving'[u] = leaving[u]
  BY <1>1, LogOutTyped
<1>3. Typed'
  BY <1>1, <1>2 DEF SessionInv, Typed
<1>4. \A s \in Slot : SlotOK(s)'
  BY <1>1 DEF SessionInv, Typed, SlotOK
<1>5. \A q \in Tab : TabOK(q)'
  BY <1>1 DEF SessionInv, Typed, TabOK
<1>6. \A d \in Call : CallOK(d)'
  BY <1>1, <1>2 DEF SessionInv, Typed, CallOK
<1>7. QED
  BY <1>3, <1>4, <1>5, <1>6 DEF SessionInv

\* The user logs out; the server takes note.
LEMMA LogoutKeeps ==
  ASSUME SessionInv, NEW t \in Tab, Logout(t) \/ HandleLogout(t)
  PROVE  SessionInv'
<1> USE Records, Slots
<1>1. /\ UNCHANGED <<jar, page, guard, access, refreshes, promise, calls, orphans,
                     swept, aborted, faults>>
      /\ events' \in 0..MaxEvents
      /\ tokens' \in [Token -> Knowledge]
  <2>1. CASE Logout(t)
    BY <2>1, Counted DEF Logout, SessionInv, Typed
  <2>2. CASE HandleLogout(t)
    BY <2>2 DEF HandleLogout, Revoked, history, SessionInv, Typed, Knowledge
  <2>3. QED
    BY <2>1, <2>2
<1>2. /\ leaving' \in [Tab -> Leavings] /\ leaving'[t].reload = leaving[t].reload
      /\ \A u \in Tab \ {t} : leaving'[u] = leaving[u]
  <2>1. CASE Logout(t)
    <3>1. leaving[t] = Staying /\ LogOut(t, FALSE)
      BY <2>1 DEF Logout
    <3>2. leaving' = [leaving EXCEPT ![t] = [stage |-> "up", cookie |-> jar, reload |-> FALSE]]
      BY <3>1 DEF LogOut, SessionInv, Typed
    <3>3. [stage |-> "up", cookie |-> jar, reload |-> FALSE] \in Leavings
      BY DEF SessionInv, Typed, Leavings
    <3>4. QED
      BY <3>1, <3>2, <3>3 DEF SessionInv, Typed, Staying
  <2>2. CASE HandleLogout(t)
    <3> DEFINE x == [leaving[t] EXCEPT !.stage = "down", !.cookie = None]
    <3>1. leaving \in [Tab -> Leavings] /\ leaving[t] \in Leavings
      BY DEF SessionInv, Typed
    <3>2. leaving' = [leaving EXCEPT ![t] = x]
      BY <2>2, <3>1 DEF HandleLogout
    <3>3. x \in Leavings /\ x.reload = leaving[t].reload
      BY <3>1 DEF Leavings
    <3>4. QED
      BY <3>1, <3>2, <3>3
  <2>3. QED
    BY <2>1, <2>2
<1>3. Typed'
  BY <1>1, <1>2 DEF SessionInv, Typed
<1>4. \A s \in Slot : SlotOK(s)'
  BY <1>1 DEF SessionInv, SlotOK
<1>5. \A q \in Tab : TabOK(q)'
  BY <1>1 DEF SessionInv, TabOK
<1>6. \A d \in Call : CallOK(d)'
  BY <1>1, <1>2 DEF SessionInv, CallOK
<1>7. QED
  BY <1>3, <1>4, <1>5, <1>6 DEF SessionInv

\* A request that is on its way presents a cookie.
LEMMA UnheardTyped ==
  ASSUME SessionInv, NEW t \in Tab
  PROVE  Unheard(t) \subseteq Orphan
<1>1. \A s \in Slot : refreshes[s].cookie # None => refreshes[s].cookie \in Token
  BY DEF SessionInv, Typed, Refreshes
<1>2. leaving[t].cookie # None => leaving[t].cookie \in Token
  BY DEF SessionInv, Typed, Leavings
<1>3. QED
  BY <1>1, <1>2, Slots DEF Unheard, Orphan

\* Nothing of the tab is left, but for the guard of the page that is loaded.
LEMMA ForgetKeeps ==
  ASSUME SessionInv, NEW t \in Tab, NEW x \in Refreshes, NEW to \in {"app", "closed", "login"},
         Forget(t, x), x = Quiet \/ x.stage = "up", to = "app" => x # Quiet,
         page' = [page EXCEPT ![t] = to],
         guard' \in [Tab -> {"fresh", "attempted", "waking"}],
         UNCHANGED <<tokens, swept>>, jar' \in Token \cup {None},
         orphans' \subseteq Orphan, aborted' \in BOOLEAN,
         events' \in 0..MaxEvents, faults' \in 0..MaxFaults
  PROVE  SessionInv'
<1> USE Records, Slots
<1>1. /\ access' = [access EXCEPT ![t] = "none"]
      /\ calls' = [c \in Call |-> IF TabOf[c] = t THEN "idle" ELSE calls[c]]
      /\ promise' = [promise EXCEPT ![t] = None]
      /\ leaving' = [leaving EXCEPT ![t] = Staying]
      /\ refreshes' = [s \in Slot |-> IF s = t THEN x
                                      ELSE IF Owner(s) = t THEN Quiet ELSE refreshes[s]]
  BY DEF Forget
<1>2. refreshes' \in [Slot -> Refreshes]
  BY <1>1 DEF SessionInv, Typed
<1>3. /\ page' \in [Tab -> {"closed", "app", "login"}]
      /\ access' \in [Tab -> {"none", "valid", "expired"}]
      /\ promise' \in [Tab -> Call \cup {None}]
      /\ calls' \in [Call -> CallStates] /\ leaving' \in [Tab -> Leavings]
  BY <1>1 DEF SessionInv, Typed, CallStates
<1>4. Typed'
  BY <1>2, <1>3 DEF SessionInv, Typed
<1>5. \A s \in Slot : SlotOK(s)'
  BY <1>1 DEF SessionInv, SlotOK
<1>6. \A q \in Tab : TabOK(q)'
  <2>1. TabOK(t)'
    BY <1>1 DEF SessionInv, Typed, TabOK
  <2>2. \A q \in Tab \ {t} : TabOK(q)'
    BY <1>1 DEF SessionInv, Typed, TabOK
  <2>3. QED
    BY <2>1, <2>2
<1>7. \A d \in Call : CallOK(d)'
  BY <1>1 DEF SessionInv, Typed, CallOK
<1>8. QED
  BY <1>4, <1>5, <1>6, <1>7 DEF SessionInv

\* A page is loaded, or the tab closed.
LEMMA LoadKeeps ==
  ASSUME SessionInv, NEW t \in Tab, NEW to \in {"app", "login", "closed"}, Load(t, to)
  PROVE  SessionInv'
<1> DEFINE x == IF to = "app" THEN Up(jar, FALSE) ELSE Quiet
<1>1. x \in Refreshes /\ (x = Quiet \/ x.stage = "up") /\ (to = "app" => x # Quiet)
  BY Records DEF SessionInv, Typed
<1>2. /\ Forget(t, x) /\ UNCHANGED <<tokens, jar, swept, faults>>
      /\ page' = [page EXCEPT ![t] = to]
      /\ orphans' = orphans \cup Unheard(t)
  BY DEF Load
<1>3. guard' \in [Tab -> {"fresh", "attempted", "waking"}]
  BY DEF Load, SessionInv, Typed
<1>4. aborted' \in BOOLEAN
  <2>1. aborted' = (aborted \/ leaving[t] # Staying \/ \E s \in Slot : Owner(s) = t /\ InFlight(s))
    BY DEF Load
  <2>2. QED
    BY <2>1, Zenon
<1>5. events' \in 0..MaxEvents
  BY Counted DEF Load, SessionInv
<1>6. orphans' \subseteq Orphan
  BY <1>2, UnheardTyped DEF SessionInv, Typed
<1>7. jar' \in Token \cup {None} /\ faults' \in 0..MaxFaults
  BY <1>2 DEF SessionInv, Typed
<1> HIDE DEF x
<1>8. QED
  BY <1>1, <1>2, <1>3, <1>4, <1>5, <1>6, <1>7, ForgetKeeps

\* The logout is over: if the page is loaded anew nothing of the tab is left, else
\* nothing of it waits for that.
LEMMA LeftKeeps ==
  ASSUME SessionInv, NEW t \in Tab, LoggedOut(t) \/ LoseLogout(t)
  PROVE  SessionInv'
<1> USE Slots
<1>1. PICK cookie \in Token \cup {None} : Left(t, cookie)
  BY DEF LoggedOut, LoseLogout, SessionInv, Typed
<1>2. /\ UNCHANGED <<tokens, swept, aborted, events>> /\ faults' \in 0..MaxFaults
      /\ jar' \in Token \cup {None}
  BY Counted DEF LoggedOut, LoseLogout, history, SessionInv, Typed
<1>3. /\ page' = [page EXCEPT ![t] = "login"]
      /\ guard' = [guard EXCEPT ![t] = "fresh"]
      /\ guard' \in [Tab -> {"fresh", "attempted", "waking"}]
  BY <1>1 DEF Left, SessionInv, Typed
<1>4. CASE leaving[t].reload
  <2>1. Forget(t, Quiet)
    BY <1>1, <1>4 DEF Left
  <2>2. orphans' \subseteq Orphan
    <3> DEFINE own == [op |-> "refresh", slot |-> t, cookie |-> cookie]
    <3>1. cookie # None => own \in Orphan
      BY DEF Orphan
    <3>2. orphans' \subseteq orphans \cup Unheard(t) \cup (IF cookie # None THEN {own} ELSE {})
      BY <1>1, <1>4 DEF Left
    <3>3. QED
      BY <3>1, <3>2, UnheardTyped DEF SessionInv, Typed
  <2>3. aborted' \in BOOLEAN /\ events' \in 0..MaxEvents
    BY <1>2 DEF SessionInv, Typed
  <2>4. QED
    BY <1>2, <1>3, <2>1, <2>2, <2>3, Records, ForgetKeeps
<1>5. CASE ~leaving[t].reload
  <2>1. /\ leaving' = [leaving EXCEPT ![t] = Staying]
        /\ access' = [access EXCEPT ![t] = "none"]
        /\ UNCHANGED <<calls, promise, orphans>>
    BY <1>1, <1>5 DEF Left
  <2>2. PICK x \in Refreshes :
          x.stage = "up" /\ (UNCHANGED refreshes \/ refreshes' = [refreshes EXCEPT ![t] = x])
    <3>1. UNCHANGED refreshes \/ refreshes' = [refreshes EXCEPT ![t] = Up(cookie, FALSE)]
      BY <1>1, <1>5 DEF Left
    <3>2. Up(cookie, FALSE) \in Refreshes /\ Up(cookie, FALSE).stage = "up"
      BY Records
    <3>3. QED
      BY <3>1, <3>2
  <2>3. Typed'
    BY <1>2, <1>3, <2>1, <2>2, Records DEF SessionInv, Typed
  <2>4. \A s \in Slot : SlotOK(s)'
    BY <2>2 DEF SessionInv, Typed, SlotOK
  <2>5. \A q \in Tab : TabOK(q)'
    BY <1>3, <2>1, <2>2 DEF SessionInv, Typed, TabOK
  <2>6. \A d \in Call : CallOK(d)'
    BY <1>5, <2>1, <2>2, Records DEF SessionInv, Typed, CallOK
  <2>7. QED
    BY <2>3, <2>4, <2>5, <2>6 DEF SessionInv
<1>6. QED
  BY <1>4, <1>5

\* A login, and the passing of time.
LEMMA LoginKeeps ==
  ASSUME SessionInv, NEW t \in Tab, Login(t) \/ Expire(t)
  PROVE  SessionInv'
<1> USE Records, Slots
<1>1. /\ UNCHANGED <<guard, refreshes, promise, calls, leaving, orphans, swept, aborted, faults>>
      /\ events' \in 0..MaxEvents /\ jar' \in Token \cup {None}
      /\ tokens' \in [Token -> Knowledge]
      /\ access' \in [Tab -> {"none", "valid", "expired"}]
      /\ \A u \in Tab : access[u] # "none" => access'[u] # "none"
  <2>1. CASE Login(t)
    BY <2>1, Counted DEF Login, SessionInv, Typed, Knowledge
  <2>2. CASE Expire(t)
    BY <2>2, Counted DEF Expire, SessionInv, Typed
  <2>3. QED
    BY <2>1, <2>2
<1>2. \/ UNCHANGED page
      \/ page' = [page EXCEPT ![t] = "app"] /\ access'[t] # "none"
  BY DEF Login, Expire, SessionInv, Typed
<1>3. Typed'
  BY <1>1, <1>2 DEF SessionInv, Typed
<1>4. \A s \in Slot : SlotOK(s)'
  BY <1>1 DEF SessionInv, SlotOK
<1>5. \A q \in Tab : TabOK(q)'
  BY <1>1, <1>2 DEF SessionInv, Typed, TabOK
<1>6. \A d \in Call : CallOK(d)'
  BY <1>1, <1>2 DEF SessionInv, Typed, CallOK
<1>7. QED
  BY <1>3, <1>4, <1>5, <1>6 DEF SessionInv

\* A revoked token leaves its grace window.
LEMMA AgeKeeps ==
  ASSUME SessionInv, NEW k \in Token, Age(k)
  PROVE  SessionInv'
<1>1. /\ UNCHANGED <<jar, page, guard, access, refreshes, promise, calls, leaving, orphans,
                     swept, aborted, events>>
      /\ faults' \in 0..MaxFaults
      /\ tokens' \in [Token -> Knowledge]
  BY Counted DEF Age, SessionInv, Typed, Knowledge
<1>2. QED
  BY <1>1 DEF SessionInv, Typed, SlotOK, TabOK, CallOK

\* Every step keeps the invariant.
LEMMA SessionInvKept == SessionInv /\ [SessionNext]_sessionVars => SessionInv'
<1> SUFFICES ASSUME SessionInv, [SessionNext]_sessionVars PROVE SessionInv'
  OBVIOUS
<1>1. CASE Proceeds
  BY <1>1, AnswerKeeps, GuardKeeps, CallKeeps, UnauthorizedKeeps, RefreshedKeeps,
     RefreshFailsKeeps, LogoutKeeps, LeftKeeps DEF Proceeds
<1>2. ASSUME NEW t \in Tab,
             \/ \E to \in {"app", "login", "closed"} : Load(t, to)
             \/ Return(t) \/ Wake(t) \/ Logout(t) \/ Login(t) \/ Expire(t) \/ LoseLogout(t)
      PROVE  SessionInv'
  BY <1>2, LoadKeeps, GuardKeeps, LogoutKeeps, LoginKeeps, LeftKeeps
<1>3. CASE UNCHANGED sessionVars
  BY <1>3 DEF sessionVars, SessionInv, Typed, SlotOK, TabOK, CallOK
<1>4. QED
  BY <1>1, <1>2, <1>3, OrphanKeeps, CallKeeps, AnswerKeeps, AgeKeeps DEF SessionNext

\* No tab is open at first.
LEMMA SessionInitInv == SessionInit => SessionInv
<1> SUFFICES ASSUME SessionInit PROVE SessionInv
  OBVIOUS
<1> USE Records, Slots, SessionAssumption
<1>1. swept \in BOOLEAN /\ aborted \in BOOLEAN
  BY Zenon DEF SessionInit
<1>2. Typed
  BY <1>1 DEF SessionInit, Typed, Token, Knowledge, CallStates
<1>3. QED
  BY <1>2 DEF SessionInit, SessionInv, SlotOK, TabOK, CallOK

\* The first of the three invariants, in every behaviour.
LEMMA SessionInvAlways == SessionSpec => []SessionInv
BY SessionInitInv, SessionInvKept, PTL DEF SessionSpec

\* A page of (app) has a user or asks for one, an unused slot holds nothing, and a
\* call that waits has something to wait for, whatever the network and the users do.
THEOREM SessionTypes == SessionSpec => []SessionTypeOK
<1>1. SessionInv => SessionTypeOK
  BY Slots DEF SessionInv, Typed, SlotOK, TabOK, CallOK, SessionTypeOK
<1>2. QED
  BY <1>1, SessionInvAlways, PTL

\* However many of a tab's calls are answered 401 at once, and whatever else the
\* tab does, its calls have one refresh under way.
THEOREM CallsShareOneRefresh == SessionSpec => []SingleFlight
<1>1. SessionInv => SingleFlight
  BY DEF SessionInv, CallOK, SingleFlight
<1>2. QED
  BY <1>1, SessionInvAlways, PTL

------------------------------------------------------------------------------
(* The cookies of a network that does no wrong. *)

\* What is recorded of the past is not forgotten.
LEMMA HistoryStays ==
  ASSUME SessionInv, [SessionNext]_sessionVars
  PROVE  /\ faults' = 0 => faults = 0
         /\ events' = 0 => events = 0
         /\ ~aborted' => ~aborted
<1>1. CASE Proceeds
  <2>1. UNCHANGED aborted
    BY <1>1 DEF Proceeds, HandleRefresh, HandleLogout, LoggedOut, GuardPasses, GuardSleeps,
                GuardRetries, GuardFails, GivesUp, Answered, Unauthorized, Refreshed,
                RefreshFails, history
  <2>2. faults' = 0 => faults = 0
    <3>1. UNCHANGED faults \/ \E p : FaultIf(p)
      BY <1>1 DEF Proceeds, HandleRefresh, HandleLogout, LoggedOut, GuardPasses, GuardSleeps,
                  GuardRetries, GuardFails, GivesUp, Answered, Unauthorized, Refreshed,
                  RefreshFails, history
    <3>2. QED
      BY <3>1, SessionAssumption DEF FaultIf, SessionInv, Typed
  <2>3. events' = 0 => events = 0
    <3>1. UNCHANGED events \/ \E p : EventIf(p)
      BY <1>1 DEF Proceeds, HandleRefresh, HandleLogout, LoggedOut, GuardPasses, GuardSleeps,
                  GuardRetries, GuardFails, GivesUp, Answered, Unauthorized, Refreshed,
                  RefreshFails, history
    <3>2. QED
      BY <3>1, SessionAssumption DEF EventIf, SessionInv, Typed
  <2>4. QED
    BY <2>1, <2>2, <2>3
<1>2. CASE \/ \E t \in Tab : \/ \E to \in {"app", "login", "closed"} : Load(t, to)
                             \/ Return(t) \/ Wake(t)
                             \/ Logout(t) \/ Login(t) \/ Expire(t) \/ LoseLogout(t)
           \/ \E o \in orphans : HandleOrphan(o) \/ Vanish(o)
           \/ \E c \in Call : Send(c)
           \/ \E s \in Slot : LoseRefresh(s)
           \/ \E k \in Token : Age(k)
  <2>1. ~aborted' => ~aborted
    BY <1>2 DEF Load, Return, Wake, Logout, Login, Expire, LoseLogout, HandleOrphan, Vanish,
                Send, LoseRefresh, Age, history
  <2>2. UNCHANGED faults \/ \E p : FaultIf(p)
    BY <1>2 DEF Load, Return, Wake, Logout, Login, Expire, LoseLogout, HandleOrphan, Vanish,
                Send, LoseRefresh, Age, history
  <2>3. UNCHANGED events \/ \E p : EventIf(p)
    BY <1>2 DEF Load, Return, Wake, Logout, Login, Expire, LoseLogout, HandleOrphan, Vanish,
                Send, LoseRefresh, Age, history
  <2>4. QED
    BY <2>1, <2>2, <2>3, SessionAssumption DEF FaultIf, EventIf, SessionInv, Typed
<1>3. CASE UNCHANGED sessionVars
  BY <1>3 DEF sessionVars
<1>4. QED
  BY <1>1, <1>2, <1>3 DEF SessionNext

\* A step that brings no new cookie: who presents one presents that of the jar, and
\* what is on its way stays so.
LEMMA PromptFrame ==
  ASSUME SessionInv, Prompt, UNCHANGED <<tokens, jar, swept, orphans>>,
         \A s \in Slot :
           \/ refreshes'[s] = refreshes[s]
           \/ /\ ~Landing(s) /\ ~Landing(s)'
              /\ refreshes'[s].stage = "up" => refreshes'[s].cookie = jar,
         \A t \in Tab :
           \/ leaving'[t].stage = leaving[t].stage /\ leaving'[t].cookie = leaving[t].cookie
           \/ leaving[t] = Staying /\ leaving'[t].cookie = jar
  PROVE  Prompt'
<1>1. \A k : Presented(k)' => Presented(k)
  BY DEF Presented
<1>2. \A s \in Slot : Landing(s)' => Landing(s) /\ refreshes'[s].cookie = refreshes[s].cookie
  BY DEF Landing
<1>3. (\E s \in Slot : Landing(s)) => (\E s \in Slot : Landing(s)')
  BY DEF Landing
<1>4. (\E t \in Tab : leaving[t].stage = "down") => (\E t \in Tab : leaving'[t].stage = "down")
  BY Records
<1>5. QED
  BY <1>1, <1>2, <1>3, <1>4 DEF Prompt

\* A cookie arrives: it is live.
LEMMA LandedPrompt ==
  ASSUME SessionInv, Prompt, NEW s \in Slot, Landing(s),
         UNCHANGED <<tokens, swept, leaving, orphans>>,
         jar' = refreshes[s].cookie, refreshes' = [refreshes EXCEPT ![s] = Quiet]
  PROVE  Prompt'
<1>1. /\ ~Landing(s)' /\ ~(refreshes'[s].stage = "up")
      /\ \A q \in Slot \ {s} : refreshes'[q] = refreshes[q]
  BY Records DEF SessionInv, Typed, Landing
<1>2. \A k : Presented(k)' => Presented(k) \/ k = refreshes[s].cookie
  BY <1>1 DEF Presented
<1>3. \A q \in Slot : Landing(q)' =>
        q # s /\ Landing(q) /\ refreshes'[q].cookie = refreshes[q].cookie
  BY <1>1 DEF Landing
<1>4. tokens[jar'] = "live"
  BY DEF Prompt
<1>5. \A o \in orphans : o.cookie # jar'
  BY DEF Prompt, Presented
<1>6. QED
  BY <1>1, <1>2, <1>3, <1>4, <1>5 DEF Prompt

\* The server rotates a live token, which nobody has on the way to him.
LEMMA HandleRefreshPrompt ==
  ASSUME SessionInv, Prompt, NEW s \in Slot, HandleRefresh(s)
  PROVE  Prompt'
<1> DEFINE k == refreshes[s].cookie
<1>1. /\ refreshes[s].stage = "up" /\ UNCHANGED <<jar, leaving, orphans>> /\ Presented(k)
      /\ k \in Token \cup {None} /\ tokens \in [Token -> Knowledge]
      /\ refreshes \in [Slot -> Refreshes] /\ refreshes[s] \in Refreshes /\ None \notin Token
  BY SessionAssumption DEF HandleRefresh, Presented, SessionInv, Typed, Refreshes, Token
<1>2. PICK answer \in {"ok", "race", "no"}, l \in Token \cup {None} :
        /\ Outcome(k, answer, l)
        /\ refreshes' = [refreshes EXCEPT ![s].stage = "down", ![s].answer = answer,
                                          ![s].cookie = l]
  BY DEF HandleRefresh
<1>3. /\ refreshes'[s].stage = "down" /\ refreshes'[s].answer = answer
      /\ refreshes'[s].cookie = l
      /\ \A q \in Slot \ {s} : refreshes'[q] = refreshes[q]
  BY <1>1, <1>2 DEF Refreshes
<1>4. CASE answer # "ok" /\ UNCHANGED <<tokens, swept>>
  <2>1. ~Landing(s) /\ ~Landing(s)' /\ refreshes'[s].stage = "down"
    BY <1>1, <1>3, <1>4 DEF Landing
  <2>2. QED
    BY <1>1, <1>3, <1>4, <2>1, PromptFrame
<1>5. CASE /\ k # None /\ tokens[k] = "live" /\ answer = "ok" /\ l # None /\ tokens[l] = "unused"
           /\ tokens' = [tokens EXCEPT ![k] = "recent", ![l] = "live"]
           /\ UNCHANGED swept
  <2>1. /\ tokens'[k] = "recent" /\ tokens'[l] = "live" /\ k # l /\ l \in Token
        /\ \A j \in Token \ {k, l} : tokens'[j] = tokens[j]
    BY <1>1, <1>5
  <2>2. Landing(s)' /\ \A q \in Slot \ {s} : Landing(q)' <=> Landing(q)
    BY <1>3, <1>5 DEF Landing
  <2>3. (\A j : Presented(j)' => Presented(j)) /\ ~Presented(l)
    BY <1>1, <1>3, <1>5, <2>1 DEF Presented, Prompt
  <2>4. \A j \in Token : tokens'[j] # "old" /\ (Presented(j)' => tokens'[j] # "unused")
    BY <1>1, <2>1, <2>3 DEF Prompt
  <2>5. \A q \in Slot \ {s} : Landing(q) =>
          /\ refreshes[q].cookie \in Token \ {k, l} /\ tokens'[refreshes[q].cookie] = "live"
          /\ ~Presented(refreshes[q].cookie)
    BY <1>1, <1>5, <2>1 DEF Prompt
  <2>6. \A q \in Slot : Landing(q)' =>
          /\ refreshes'[q].cookie \in Token /\ tokens'[refreshes'[q].cookie] = "live"
          /\ (~Presented(refreshes[q].cookie))'
          /\ \A p \in Slot \ {q} : Landing(p)' => refreshes'[p].cookie # refreshes'[q].cookie
    <3>1. \A q \in Slot \ {s} : Landing(q)' =>
            /\ refreshes'[q].cookie \in Token \ {k, l} /\ tokens'[refreshes'[q].cookie] = "live"
            /\ (~Presented(refreshes[q].cookie))'
      BY <1>3, <2>2, <2>3, <2>5
    <3>2. l \in Token /\ tokens'[l] = "live" /\ (~Presented(refreshes[s].cookie))'
      BY <1>3, <2>1, <2>3
    <3>3. \A q, p \in Slot \ {s} :
            p # q /\ Landing(q)' /\ Landing(p)' => refreshes'[p].cookie # refreshes'[q].cookie
      BY <1>3, <2>2 DEF Prompt
    <3>4. QED
      BY <1>3, <3>1, <3>2, <3>3
  <2>7. \A o \in orphans' : o.cookie # jar'
    BY <1>1 DEF Prompt
  <2>8. QED
    BY <1>5, <2>2, <2>4, <2>6, <2>7 DEF Prompt
<1>6. ~(k # None /\ tokens[k] = "old")
  BY <1>1 DEF Prompt
<1>7. QED
  BY <1>2, <1>4, <1>5, <1>6 DEF Outcome, Fresh

\* The logout of a token that somebody presents.
LEMMA HandleLogoutPrompt ==
  ASSUME SessionInv, Prompt, NEW t \in Tab, HandleLogout(t)
  PROVE  Prompt'
<1> DEFINE k == leaving[t].cookie
<1>1. /\ UNCHANGED <<jar, refreshes, swept, orphans>> /\ Presented(k)
      /\ tokens' = [l \in Token |-> IF l = k THEN "recent" ELSE tokens[l]]
  BY DEF HandleLogout, Revoked, Presented, history
<1>2. /\ leaving'[t].stage = "down" /\ leaving'[t].cookie = None
      /\ \A u \in Tab \ {t} : leaving'[u] = leaving[u]
  BY DEF HandleLogout, SessionInv, Typed, Leavings
<1>3. \A j \in Token : Presented(j)' => Presented(j)
  BY <1>1, <1>2, SessionAssumption DEF Presented, Token
<1>4. \A s \in Slot : Landing(s)' <=> Landing(s)
  BY <1>1 DEF Landing
<1>5. QED
  BY <1>1, <1>2, <1>3, <1>4 DEF Prompt

\* What nobody hears of concerns a token that is neither in the jar nor on its way.
LEMMA OrphanPrompt ==
  ASSUME SessionInv, Prompt, NEW o \in orphans, HandleOrphan(o) \/ Vanish(o)
  PROVE  Prompt'
<1> DEFINE k == o.cookie
<1>1. /\ UNCHANGED <<jar, refreshes, leaving>> /\ orphans' \subseteq orphans
      /\ k \in Token /\ k # None /\ Presented(k) /\ k # jar
      /\ tokens \in [Token -> Knowledge] /\ jar \in Token \cup {None} /\ None \notin Token
  BY SessionAssumption DEF HandleOrphan, Vanish, Presented, Prompt, SessionInv, Typed, Orphan, Token
<1>2. \A j : Presented(j)' => Presented(j)
  BY <1>1 DEF Presented
<1>3. \A s \in Slot : Landing(s)' <=> Landing(s)
  BY <1>1 DEF Landing
<1>4. CASE UNCHANGED <<tokens, swept>>
  BY <1>1, <1>2, <1>3, <1>4 DEF Prompt
<1>5. CASE UNCHANGED swept /\ Revoked(k)
  BY <1>1, <1>2, <1>3, <1>5 DEF Prompt, Revoked
<1>6. CASE /\ UNCHANGED swept
           /\ \E l \in Token : /\ tokens[l] = "unused"
                               /\ tokens' = [tokens EXCEPT ![k] = "recent", ![l] = "live"]
  <2>1. PICK l \in Token : /\ tokens[l] = "unused"
                           /\ tokens' = [tokens EXCEPT ![k] = "recent", ![l] = "live"]
    BY <1>6
  <2>2. ~Presented(l) /\ l # jar /\ l # k
    BY <1>1, <2>1 DEF Prompt, Presented
  <2>3. tokens'[l] = "live" /\ tokens'[k] = "recent" /\ \A j \in Token \ {k, l} : tokens'[j] = tokens[j]
    BY <1>1, <2>1, <2>2
  <2>4. \A s \in Slot : Landing(s) => refreshes[s].cookie \in Token \ {k, l}
    BY <1>1, <2>1 DEF Prompt
  <2>5. \A j \in Token : tokens'[j] # "old" /\ (Presented(j)' => tokens'[j] # "unused")
    BY <1>2, <2>3 DEF Prompt
  <2>6. \A s \in Slot : Landing(s)' =>
          /\ refreshes'[s].cookie \in Token /\ tokens'[refreshes'[s].cookie] = "live"
          /\ (~Presented(refreshes[s].cookie))'
          /\ \A q \in Slot \ {s} : Landing(q)' => refreshes'[q].cookie # refreshes'[s].cookie
    BY <1>1, <1>2, <1>3, <2>3, <2>4 DEF Prompt
  <2>7. jar' # None => jar' \in Token \ {k, l}
    BY <1>1, <2>2
  <2>8. QED
    BY <1>1, <1>3, <1>6, <2>3, <2>5, <2>6, <2>7 DEF Prompt
<1>7. CASE HandleOrphan(o)
  <2>1. ~(tokens[k] = "old")
    BY <1>1 DEF Prompt
  <2>2. \/ UNCHANGED <<tokens, swept>>
        \/ UNCHANGED swept /\ Revoked(k)
        \/ \E l \in Token : /\ tokens[l] = "unused" /\ UNCHANGED swept
                            /\ tokens' = [tokens EXCEPT ![k] = "recent", ![l] = "live"]
    BY <1>1, <1>7, <2>1 DEF HandleOrphan, Outcome, Fresh
  <2>3. QED
    BY <1>4, <1>5, <1>6, <2>2
<1>8. QED
  BY <1>4, <1>7 DEF Vanish, history

\* A login makes a token of its own.
LEMMA LoginPrompt ==
  ASSUME SessionInv, Prompt, NEW t \in Tab, Login(t)
  PROVE  Prompt'
<1>1. PICK k \in Token : tokens[k] = "unused" /\ tokens' = [tokens EXCEPT ![k] = "live"] /\ jar' = k
  BY DEF Login, Fresh
<1>2. UNCHANGED <<refreshes, leaving, orphans, swept>> /\ tokens \in [Token -> Knowledge]
  BY DEF Login, SessionInv, Typed
<1>3. \A j : Presented(j)' => Presented(j) \/ j = k
  BY <1>1, <1>2 DEF Presented
<1>4. \A s \in Slot : Landing(s)' <=> Landing(s)
  BY <1>2 DEF Landing
<1>5. ~Presented(k)
  BY <1>1 DEF Prompt
<1>6. \A o \in orphans' : o.cookie # jar'
  BY <1>1, <1>2, <1>5 DEF Presented
<1>7. QED
  BY <1>1, <1>2, <1>3, <1>4, <1>5, <1>6 DEF Prompt

\* A logout that was heard takes the cookie along.
LEMMA LoggedOutPrompt ==
  ASSUME SessionInv, Prompt, NEW t \in Tab, LoggedOut(t)
  PROVE  Prompt'
<1>1. /\ UNCHANGED <<tokens, swept>> /\ jar' = None /\ Left(t, None)
      /\ leaving \in [Tab -> Leavings] /\ refreshes \in [Slot -> Refreshes] /\ None \notin Token
  BY SessionAssumption DEF LoggedOut, history, SessionInv, Typed, Token
<1>2. \A u \in Tab : leaving'[u] \in {leaving[u], Staying}
  BY <1>1 DEF Left, Forget
<1>3. \A s \in Slot : \/ refreshes'[s] \in {refreshes[s], Quiet}
                      \/ refreshes'[s].stage = "up" /\ refreshes'[s].cookie = None
  <2>1. Up(None, FALSE).stage = "up" /\ Up(None, FALSE).cookie = None
    BY Records
  <2>2. CASE leaving[t].reload
    BY <1>1, <2>2 DEF Left, Forget
  <2>3. CASE ~leaving[t].reload
    <3>1. UNCHANGED refreshes \/ refreshes' = [refreshes EXCEPT ![t] = Up(None, FALSE)]
      BY <1>1, <2>3 DEF Left
    <3>2. QED
      BY <1>1, <2>1, <3>1
  <2>4. QED
    BY <2>2, <2>3
<1>4. orphans' \subseteq orphans \cup Unheard(t)
  BY <1>1 DEF Left
<1>5. \A o \in orphans' : o.cookie \in Token /\ Presented(o.cookie)
  <2>1. \A o \in Unheard(t) : Presented(o.cookie)
    BY DEF Unheard, Presented
  <2>2. \A o \in orphans \cup Unheard(t) : o.cookie \in Token
    BY UnheardTyped DEF SessionInv, Typed, Orphan
  <2>3. QED
    BY <1>4, <2>1, <2>2 DEF Presented
<1>6. \A j \in Token : Presented(j)' => Presented(j)
  BY <1>1, <1>2, <1>3, <1>5, Records DEF Presented
<1>7. \A s \in Slot : Landing(s)' => Landing(s) /\ refreshes'[s] = refreshes[s]
  BY <1>3, Records DEF Landing
<1>8. \A o \in orphans' : o.cookie # jar'
  BY <1>1, <1>5
<1>9. QED
  BY <1>1, <1>6, <1>7, <1>8 DEF Prompt

\* A page is loaded anew or closed while none of its requests is under way.
LEMMA LoadPrompt ==
  ASSUME SessionInv, Prompt, NEW t \in Tab, NEW to \in {"app", "login", "closed"}, Load(t, to),
         ~aborted'
  PROVE  Prompt'
<1> DEFINE x == IF to = "app" THEN Up(jar, FALSE) ELSE Quiet
<1>1. /\ UNCHANGED <<tokens, jar, swept>> /\ Forget(t, x)
      /\ orphans' = orphans \cup Unheard(t)
  BY DEF Load
<1>2. leaving[t] = Staying /\ \A s \in Slot : Owner(s) = t => ~InFlight(s)
  BY DEF Load
<1>3. Unheard(t) = {}
  BY <1>2, Records DEF Unheard, InFlight
<1>4. \A s \in Slot :
        \/ refreshes'[s] = refreshes[s]
        \/ /\ ~Landing(s) /\ ~Landing(s)'
           /\ refreshes'[s].stage = "up" => refreshes'[s].cookie = jar
  <2>1. /\ x.stage \in {"up", "quiet"} /\ (x.stage = "up" => x.cookie = jar)
        /\ Quiet.stage = "quiet"
    BY Records DEF Up
  <2>2. \A s \in Slot : Owner(s) = t => ~Landing(s)
    BY <1>2 DEF InFlight, Landing
  <2>3. \A s \in Slot : \/ refreshes'[s] = refreshes[s]
                        \/ Owner(s) = t /\ refreshes'[s] \in {x, Quiet}
    BY <1>1, Slots DEF Forget
  <2> HIDE DEF x
  <2>4. \A s \in Slot : refreshes'[s] \in {x, Quiet} =>
          ~Landing(s)' /\ (refreshes'[s].stage = "up" => refreshes'[s].cookie = jar)
    BY <2>1 DEF Landing
  <2>5. QED
    BY <2>2, <2>3, <2>4
<1>5. UNCHANGED leaving
  BY <1>1, <1>2 DEF Forget, SessionInv, Typed
<1>6. QED
  BY <1>1, <1>3, <1>4, <1>5, PromptFrame

\* While nothing is on its way, the cookie is not a revoked one.
LEMMA AgePrompt ==
  ASSUME SessionInv, Prompt, NEW k \in Token, tokens[k] = "recent", k \in Presentable, NetworkQuiet
  PROVE  FALSE
<1>1. k # None
  BY SessionAssumption DEF Token
<1>2. \A s \in Slot : refreshes[s].cookie = None /\ ~Landing(s)
  BY Records DEF NetworkQuiet, Landing
<1>3. \A t \in Tab : leaving[t].cookie = None /\ leaving[t].stage = "quiet"
  BY Records DEF NetworkQuiet
<1>4. k = jar
  BY <1>1, <1>2, <1>3 DEF Presentable, NetworkQuiet
<1>5. QED
  BY <1>1, <1>2, <1>3, <1>4 DEF Prompt

\* A fault is counted.
LEMMA FaultCounts ==
  ASSUME SessionInv, NEW p, faults' = 0, FaultIf(p)
  PROVE  ~p
BY SessionAssumption DEF FaultIf, SessionInv, Typed

\* Once a fault of the network has happened, or a request was abandoned, nothing is
\* claimed any more.
LEMMA PromptInvKept == SessionInv /\ PromptInv /\ [SessionNext]_sessionVars => PromptInv'
<1> SUFFICES ASSUME SessionInv, PromptInv, [SessionNext]_sessionVars, faults' = 0, ~aborted'
             PROVE  Prompt'
  BY DEF PromptInv
<1>0. Prompt
  BY HistoryStays DEF PromptInv
<1> USE <1>0, Slots
<1>1. ASSUME NEW s \in Slot, HandleRefresh(s) PROVE Prompt'
  BY <1>1, HandleRefreshPrompt
<1>2. ASSUME NEW t \in Tab, HandleLogout(t) PROVE Prompt'
  BY <1>2, HandleLogoutPrompt
<1>3. ASSUME NEW t \in Tab, LoggedOut(t) PROVE Prompt'
  BY <1>3, LoggedOutPrompt
<1>4. ASSUME NEW s \in Slot, GuardPasses(s) \/ Refreshed(s) PROVE Prompt'
  BY <1>4, LandedPrompt DEF GuardPasses, Refreshed, history, Landing
<1>5. ASSUME NEW s \in Slot, NEW x, refreshes' = [refreshes EXCEPT ![s] = x],
             UNCHANGED <<tokens, jar, swept, orphans>>, ~Landing(s),
             x.stage \in {"quiet", "sleep"} \/ (x.stage = "up" /\ x.cookie = jar),
             UNCHANGED leaving \/ \E t \in Tab, reload \in BOOLEAN : LogOut(t, reload)
      PROVE  Prompt'
  <2>1. \A q \in Slot : \/ refreshes'[q] = refreshes[q]
                        \/ /\ ~Landing(q) /\ ~Landing(q)'
                           /\ refreshes'[q].stage = "up" => refreshes'[q].cookie = jar
    BY <1>5 DEF SessionInv, Typed, Landing
  <2>2. \A t \in Tab : \/ leaving'[t].stage = leaving[t].stage /\ leaving'[t].cookie = leaving[t].cookie
                       \/ leaving[t] = Staying /\ leaving'[t].cookie = jar
    BY <1>5, LogOutTyped
  <2>3. QED
    BY <1>5, <2>1, <2>2, PromptFrame
<1>6. ASSUME NEW t \in Tab, Return(t) \/ Wake(t) \/ GuardSleeps(t) \/ GuardRetries(t) \/ GuardFails(t)
      PROVE Prompt'
  <2>1. UNCHANGED <<tokens, jar, swept, orphans, leaving>>
    BY <1>6 DEF Return, Wake, GuardSleeps, GuardRetries, GuardFails, GivesUp, history
  <2>2. CASE UNCHANGED refreshes
    BY <2>1, <2>2, PromptFrame
  <2>3. CASE ~UNCHANGED refreshes
    <3>1. ~Landing(t)
      BY <1>6, <2>3, Records
         DEF Return, Wake, GuardSleeps, GuardRetries, GuardFails, Landing
    <3> DEFINE Good(x) == x.stage \in {"quiet", "sleep"} \/ (x.stage = "up" /\ x.cookie = jar)
    <3>2. Good(Up(jar, FALSE)) /\ Good(Up(jar, TRUE)) /\ Good([Quiet EXCEPT !.stage = "sleep"])
          /\ Good(Quiet)
      BY DEF Up, Quiet
    <3>3. \E x : refreshes' = [refreshes EXCEPT ![t] = x] /\ Good(x)
      <4> HIDE DEF Good
      <4>1. \E x \in {Up(jar, FALSE), Up(jar, TRUE), [Quiet EXCEPT !.stage = "sleep"], Quiet} :
              refreshes' = [refreshes EXCEPT ![t] = x]
        BY <1>6, <2>3 DEF Return, Wake, GuardSleeps, GuardRetries, GuardFails, GivesUp
      <4>2. QED
        BY <3>2, <4>1
    <3>4. QED
      BY <1>5, <2>1, <3>1, <3>3
  <2>4. QED
    BY <2>2, <2>3
<1>7. ASSUME NEW c \in Call, Unauthorized(c) PROVE Prompt'
  <2>1. UNCHANGED <<tokens, jar, swept, orphans, leaving>>
    BY <1>7 DEF Unauthorized
  <2>2. CASE UNCHANGED refreshes
    BY <1>7, <2>1, <2>2, PromptFrame
  <2>3. CASE promise[TabOf[c]] = None /\ refreshes' = [refreshes EXCEPT ![c] = Up(jar, FALSE)]
    <3>1. ~Landing(c)
      BY <2>3, Records DEF SessionInv, CallOK, Landing
    <3>2. Up(jar, FALSE).stage = "up" /\ Up(jar, FALSE).cookie = jar
      BY DEF Up
    <3>3. QED
      BY <1>5, <2>1, <2>3, <3>1, <3>2
  <2>4. QED
    BY <1>7, <2>2, <2>3 DEF Unauthorized, Join
<1>8. ASSUME NEW c \in Call, RefreshFails(c) PROVE Prompt'
  <2>1. /\ UNCHANGED <<tokens, jar, swept, orphans>> /\ LogOut(TabOf[c], TRUE) /\ ~Landing(c)
        /\ refreshes' = [refreshes EXCEPT ![c] = Quiet]
    BY <1>8 DEF RefreshFails, history, Landing
  <2>2. \E t \in Tab, reload \in BOOLEAN : LogOut(t, reload)
    BY <2>1
  <2>3. QED
    BY <1>5, <2>1, <2>2, Records
<1>9. ASSUME NEW c \in Call, Send(c) \/ Answered(c) PROVE Prompt'
  BY <1>9, PromptFrame DEF Send, Answered, history
<1>10. ASSUME NEW t \in Tab, Logout(t) \/ Expire(t) PROVE Prompt'
  <2>1. /\ UNCHANGED <<tokens, jar, swept, orphans, refreshes>>
        /\ UNCHANGED leaving \/ LogOut(t, FALSE)
    BY <1>10 DEF Logout, Expire
  <2>2. \A u \in Tab : \/ leaving'[u].stage = leaving[u].stage /\ leaving'[u].cookie = leaving[u].cookie
                       \/ leaving[u] = Staying /\ leaving'[u].cookie = jar
    BY <2>1, LogOutTyped
  <2>3. QED
    BY <2>1, <2>2, PromptFrame
<1>11. ASSUME NEW t \in Tab, Login(t) PROVE Prompt'
  BY <1>11, LoginPrompt
<1>12. ASSUME NEW k \in Token, Age(k) PROVE Prompt'
  BY <1>12, AgePrompt, FaultCounts DEF Age
<1>13. ASSUME NEW s \in Slot, LoseRefresh(s) PROVE Prompt'
  BY <1>13, FaultCounts DEF LoseRefresh
<1>14. ASSUME NEW t \in Tab, LoseLogout(t) PROVE Prompt'
  BY <1>14, FaultCounts DEF LoseLogout
<1>15. ASSUME NEW t \in Tab, NEW to \in {"app", "login", "closed"}, Load(t, to) PROVE Prompt'
  BY <1>15, LoadPrompt
<1>16. ASSUME NEW o \in orphans, HandleOrphan(o) \/ Vanish(o) PROVE Prompt'
  BY <1>16, OrphanPrompt
<1>17. CASE UNCHANGED sessionVars
  BY <1>17, PromptFrame DEF sessionVars
<1>18. QED
  BY <1>1, <1>2, <1>3, <1>4, <1>6, <1>7, <1>8, <1>9, <1>10, <1>11, <1>12, <1>13, <1>14, <1>15,
     <1>16, <1>17 DEF SessionNext, Proceeds

\* The second invariant, on top of the first.
LEMMA PromptInvAlways == SessionSpec => []PromptInv
<1>1. SessionInit => PromptInv
  <2> SUFFICES ASSUME SessionInit PROVE Prompt
    BY DEF PromptInv
  <2>1. \A k \in Token : Presented(k) => k = 1
    BY Records, SessionAssumption DEF SessionInit, Presented, Token
  <2>2. \A s \in Slot : ~Landing(s)
    BY Records DEF SessionInit, Landing
  <2>3. orphans = {} /\ ~swept
    BY Zenon DEF SessionInit
  <2>4. QED
    BY <2>1, <2>2, <2>3, SessionAssumption DEF SessionInit, Prompt, Token
<1>2. QED
  BY <1>1, PromptInvKept, SessionInvAlways, PTL DEF SessionSpec

\* As long as every answer arrives in time and nobody leaves a page in the midst of
\* a refresh or a logout, no tab makes the server believe that a token was stolen.
THEOREM NoTheftIsSeen == SessionSpec => []NoFalseTheft
<1>1. SessionInv /\ PromptInv => NoFalseTheft
  BY DEF SessionInv, Typed, PromptInv, Prompt, NoFalseTheft
<1>2. QED
  BY <1>1, SessionInvAlways, PromptInvAlways, PTL

------------------------------------------------------------------------------
(* Two tabs that are opened while nothing else happens. *)

\* An event of the users or of their clocks is counted.
LEMMA EventCounts ==
  ASSUME SessionInv, NEW p, events' = 0, EventIf(p)
  PROVE  ~p
BY SessionAssumption DEF EventIf, SessionInv, Typed

\* A tab that is ahead stays so: its cookie lands and its user is set.
LEMMA AheadStays ==
  ASSUME NEW t \in Tab,
         \A u \in Tab : Landing(u) \/ access[u] # "none" => Landing(u)' \/ access'[u] # "none"
  PROVE  Ahead(t) => Ahead(t)'
BY DEF Ahead

\* The server answers the first who presents a token, and that one is ahead of
\* whoever presents it afterwards.
LEMMA HandleRefreshCold ==
  ASSUME SessionInv, Prompt, Cold, NEW t \in Tab, HandleRefresh(t)
  PROVE  Cold'
<1> USE Slots
<1> DEFINE k == refreshes[t].cookie
<1>1. /\ refreshes[t].stage = "up"
      /\ UNCHANGED <<jar, page, access, calls, leaving, orphans, aborted>>
      /\ Opened(t) /\ k \in Token /\ tokens[k] # "old" /\ k # None
      /\ tokens \in [Token -> Knowledge] /\ refreshes \in [Slot -> Refreshes]
      /\ refreshes[t] \in Refreshes
  BY SessionAssumption DEF HandleRefresh, Cold, Opened, Prompt, SessionInv, Typed, Token
<1>2. access[t] = "none" /\ page[t] # "closed"
  BY <1>1, Records DEF Opened
<1>3. PICK answer \in {"ok", "race", "no"}, l \in Token \cup {None} :
        /\ Outcome(k, answer, l)
        /\ refreshes' = [refreshes EXCEPT ![t].stage = "down", ![t].answer = answer,
                                          ![t].cookie = l]
  BY DEF HandleRefresh
<1>4. /\ refreshes'[t].stage = "down" /\ refreshes'[t].answer = answer
      /\ refreshes'[t].again = refreshes[t].again
      /\ \A q \in Slot \ {t} : refreshes'[q] = refreshes[q]
  BY <1>1, <1>3 DEF Refreshes
<1>5. \A u \in Tab : Ahead(u) => Ahead(u)'
  BY <1>1, <1>4, AheadStays DEF Landing
<1>6. CASE tokens[k] = "recent" /\ answer = "race" /\ UNCHANGED tokens
  <2>1. Opened(t)'
    BY <1>1, <1>2, <1>4, <1>5, <1>6 DEF Opened
  <2>2. \A u \in Tab \ {t} : Opened(u)'
    BY <1>1, <1>4, <1>5, <1>6 DEF Cold, Opened
  <2>3. QED
    BY <1>1, <1>4, <2>1, <2>2 DEF Cold
<1>7. CASE /\ tokens[k] = "live" /\ answer = "ok"
           /\ tokens' = [tokens EXCEPT ![k] = "recent", ![l] = "live"]
  <2>1. \A j \in Token \ {k} : tokens[j] = "live" => tokens'[j] = "live"
    BY <1>1, <1>7
  <2>2. \A u \in Tab \ {t} : Ahead(u)'
    BY <1>4, <1>7 DEF Ahead, Landing
  <2>3. Opened(t)'
    BY <1>1, <1>2, <1>4, <1>7 DEF Opened
  <2>4. \A u \in Tab \ {t} : Opened(u)'
    <3>1. SUFFICES ASSUME NEW u \in Tab \ {t} PROVE Opened(u)'
      OBVIOUS
    <3>2. Opened(u) /\ refreshes'[u] = refreshes[u]
      BY <1>4 DEF Cold
    <3>3. refreshes[u].stage = "up" => ~refreshes[u].again
      BY <1>2, <3>2 DEF Opened
    <3>4. QED
      BY <1>1, <2>2, <3>2, <3>3 DEF Opened
  <2>5. QED
    BY <1>1, <1>4, <2>3, <2>4 DEF Cold
<1>8. QED
  BY <1>1, <1>3, <1>6, <1>7 DEF Outcome

\* The one who is ahead has its user set.
LEMMA GuardPassesCold ==
  ASSUME SessionInv, Prompt, Cold, NEW t \in Tab, GuardPasses(t)
  PROVE  Cold'
<1> USE Slots, Records
<1>1. /\ UNCHANGED <<tokens, page, calls, leaving, orphans, aborted>> /\ jar' # None
      /\ access' = [access EXCEPT ![t] = "valid"]
      /\ refreshes' = [refreshes EXCEPT ![t] = Quiet]
  BY SessionAssumption DEF GuardPasses, Prompt, Landing, Token, history
<1>2. /\ refreshes'[t] = Quiet /\ access'[t] = "valid"
      /\ \A u \in Tab \ {t} : access'[u] = access[u]
      /\ \A q \in Slot \ {t} : refreshes'[q] = refreshes[q]
  BY <1>1 DEF SessionInv, Typed
<1>3. \A u \in Tab : Ahead(u) => Ahead(u)'
  BY <1>2, AheadStays DEF Landing
<1>4. Opened(t)'
  <2>1. Opened(t) /\ refreshes[t] # Quiet
    BY DEF GuardPasses, Cold
  <2>2. QED
    BY <1>1, <1>2, <2>1 DEF Opened
<1>5. \A u \in Tab \ {t} : Opened(u)'
  BY <1>1, <1>2, <1>3 DEF Cold, Opened
<1>6. QED
  BY <1>1, <1>2, <1>4, <1>5 DEF Cold

\* The cookie in the jar is good, or somebody else is ahead.
LEMMA JarCold ==
  ASSUME SessionInv, Prompt, Cold, NEW t \in Tab, ~Landing(t)
  PROVE  /\ jar \in Token /\ jar # None
         /\ tokens[jar] = "live" \/ Ahead(t)
         /\ (\A s \in Slot : ~Landing(s)) => tokens[jar] = "live"
<1>1. jar \in Token /\ jar # None /\ tokens[jar] \in Knowledge
  BY DEF Cold, SessionInv, Typed
<1>2. tokens[jar] \in {"live", "recent"}
  BY <1>1 DEF Prompt, Presented, Knowledge
<1>3. \A u \in Tab : leaving[u].stage # "down"
  BY Records DEF Cold, Opened
<1>4. \A s \in Slot : Landing(s) => s \in Tab \ {t}
  BY Slots, Records DEF Cold, Landing
<1>5. QED
  BY <1>1, <1>2, <1>3, <1>4 DEF Prompt, Ahead

\* A tab is opened.
LEMMA LoadCold ==
  ASSUME SessionInv, Prompt, Cold, NEW t \in Tab, Load(t, "app"), page[t] = "closed"
  PROVE  Cold'
<1> USE Slots
<1>1. /\ Opened(t) /\ refreshes[t] = Quiet /\ leaving[t] = Staying
      /\ \A s \in Slot : Owner(s) = t => refreshes[s] = Quiet
  BY DEF Cold, Opened
<1>2. /\ UNCHANGED <<tokens, jar>> /\ Forget(t, Up(jar, FALSE))
      /\ orphans' = orphans \cup Unheard(t)
      /\ aborted' = (aborted \/ leaving[t] # Staying \/ \E s \in Slot : Owner(s) = t /\ InFlight(s))
      /\ page' = [page EXCEPT ![t] = "app"]
  BY DEF Load
<1>3. orphans' = {} /\ ~aborted'
  <2>1. Unheard(t) = {}
    BY <1>1, Records DEF Unheard
  <2>2. \A s \in Slot : Owner(s) = t => ~InFlight(s)
    BY <1>1, Records DEF InFlight
  <2>3. QED
    BY <1>1, <1>2, <2>1, <2>2 DEF Cold
<1>4. /\ refreshes'[t] = Up(jar, FALSE) /\ \A q \in Slot \ {t} : refreshes'[q] = refreshes[q]
      /\ access'[t] = "none" /\ \A u \in Tab \ {t} : access'[u] = access[u]
      /\ page'[t] = "app" /\ \A u \in Tab \ {t} : page'[u] = page[u]
      /\ leaving'[t] = Staying /\ \A u \in Tab \ {t} : leaving'[u] = leaving[u]
      /\ \A c \in Call : calls'[c] \in {"idle", calls[c]}
  BY <1>1, <1>2 DEF Forget, SessionInv, Typed
<1>5. refreshes'[t].stage = "up" /\ refreshes'[t].cookie = jar /\ ~refreshes'[t].again
  BY <1>4 DEF Up
<1>6. ~Landing(t) /\ access[t] = "none"
  BY <1>1, Records DEF Landing, Opened
<1>7. \A u \in Tab : Ahead(u) => Ahead(u)'
  BY <1>4, <1>6, AheadStays DEF Landing
<1>8. Opened(t)'
  BY <1>2, <1>4, <1>5, <1>6, <1>7, JarCold DEF Opened
<1>9. \A u \in Tab \ {t} : Opened(u)'
  BY <1>2, <1>4, <1>6, <1>7 DEF Cold, Opened
<1>10. QED
  BY <1>2, <1>3, <1>4, <1>8, <1>9 DEF Cold

\* Those who are behind wait, and try again when the other one is in.
LEMMA GuardWaitsCold ==
  ASSUME SessionInv, Prompt, Cold, TwoTabs, NEW t \in Tab,
         \/ GuardSleeps(t)
         \/ GuardRetries(t) /\ \A s \in Slot : ~InFlight(s)
  PROVE  Cold'
<1> USE Slots
<1>1. /\ UNCHANGED <<tokens, jar, page, access, calls, leaving, orphans, aborted>>
      /\ refreshes \in [Slot -> Refreshes]
  BY DEF GuardSleeps, GuardRetries, history, SessionInv, Typed
<1>2. ~Landing(t) /\ Opened(t) /\ refreshes[t] # Quiet
  BY Records DEF GuardSleeps, GuardRetries, Landing, Cold
<1>3. \A q \in Slot \ {t} : refreshes'[q] = refreshes[q]
  BY <1>1 DEF GuardSleeps, GuardRetries
<1>4. \A u \in Tab : Ahead(u) => Ahead(u)'
  BY <1>1, <1>2, <1>3, AheadStays DEF Landing
<1>5. \A u \in Tab \ {t} : Opened(u)'
  BY <1>1, <1>3, <1>4 DEF Cold, Opened
<1>6. CASE GuardSleeps(t)
  <2>1. refreshes'[t].stage = "sleep" /\ refreshes[t].stage = "down" /\ refreshes[t].answer = "race"
    BY <1>1, <1>6 DEF GuardSleeps, Quiet
  <2>2. Opened(t)'
    BY <1>1, <1>2, <1>4, <2>1 DEF Opened
  <2>3. QED
    BY <1>1, <1>3, <1>5, <2>2 DEF Cold
<1>7. CASE GuardRetries(t) /\ \A s \in Slot : ~InFlight(s)
  <2>1. refreshes'[t] = Up(jar, TRUE)
    BY <1>1, <1>7 DEF GuardRetries
  <2>2. refreshes'[t].stage = "up" /\ refreshes'[t].cookie = jar
    BY <2>1 DEF Up
  <2>3. \A s \in Slot : ~Landing(s)
    BY <1>7 DEF InFlight, Landing
  <2>4. tokens[jar] = "live" /\ jar \in Token /\ Ahead(t)
    BY <1>2, <1>7, <2>3, JarCold DEF GuardRetries, Opened
  <2>5. \A u \in Tab \ {t} : access[u] # "none"
    BY <2>3, <2>4 DEF Ahead, TwoTabs
  <2>6. Opened(t)'
    BY <1>1, <1>2, <2>2, <2>4, <2>5 DEF Opened
  <2>7. QED
    BY <1>1, <1>3, <1>5, <2>6 DEF Cold
<1>8. QED
  BY <1>6, <1>7

\* The calls of the pages go on.
LEMMA CallCold ==
  ASSUME SessionInv, Cold, NEW c \in Call, Send(c) \/ Answered(c)
  PROVE  Cold'
<1> USE Slots
<1>1. /\ UNCHANGED <<tokens, jar, page, access, refreshes, leaving, orphans, aborted>>
      /\ \E x \in {"idle", "fresh"} : calls' = [calls EXCEPT ![c] = x]
  BY DEF Send, Shell, Answered, history, Cold, Opened, SessionInv, Typed
<1>2. \A d \in Call : calls'[d] \in {"idle", "fresh"}
  BY <1>1 DEF Cold, SessionInv, Typed
<1>3. \A t \in Tab : Opened(t)'
  BY <1>1 DEF Cold, Opened, Ahead, Landing
<1>4. QED
  BY <1>1, <1>2, <1>3 DEF Cold

\* Once a user has done more than open tabs, nothing is claimed any more.
LEMMA ColdInvKept ==
  SessionInv /\ PromptInv /\ ColdInv /\ [SessionNext]_sessionVars => ColdInv'
<1> SUFFICES ASSUME SessionInv, PromptInv, ColdInv, [SessionNext]_sessionVars,
                    TwoTabs, faults' = 0, events' = 0
             PROVE  Cold'
  BY DEF ColdInv
<1>0. Cold /\ Prompt
  <2>1. Cold /\ faults = 0
    BY HistoryStays DEF ColdInv
  <2>2. QED
    BY <2>1 DEF Cold, PromptInv
<1> USE <1>0, Slots
<1>1. ASSUME NEW s \in Slot, HandleRefresh(s) PROVE Cold'
  <2>1. s \in Tab
    BY <1>1, Records DEF HandleRefresh, Cold
  <2>2. QED
    BY <1>1, <2>1, HandleRefreshCold
<1>2. ASSUME NEW t \in Tab, HandleLogout(t) \/ LoggedOut(t) PROVE Cold'
  BY <1>2, Records DEF HandleLogout, LoggedOut, Cold, Opened
<1>3. ASSUME NEW t \in Tab, GuardPasses(t) PROVE Cold'
  BY <1>3, GuardPassesCold
<1>4. ASSUME NEW t \in Tab, NEW to \in {"app", "login", "closed"}, Load(t, to) PROVE Cold'
  <2>1. page[t] = "closed" /\ to = "app"
    BY <1>4, EventCounts DEF Load
  <2>2. QED
    BY <1>4, <2>1, LoadCold
<1>5. ASSUME NEW t \in Tab, GuardSleeps(t) PROVE Cold'
  BY <1>5, GuardWaitsCold
<1>6. ASSUME NEW t \in Tab, GuardRetries(t) PROVE Cold'
  <2>1. ~\E s \in Slot : InFlight(s)
    BY <1>6, FaultCounts DEF GuardRetries
  <2>2. QED
    BY <1>6, <2>1, GuardWaitsCold
<1>7. ASSUME NEW t \in Tab, GuardFails(t) PROVE Cold'
  BY <1>7 DEF GuardFails, Cold, Opened
<1>8. ASSUME NEW c \in Call, Send(c) \/ Answered(c) PROVE Cold'
  BY <1>8, CallCold
<1>9. ASSUME NEW c \in Call, Unauthorized(c) PROVE Cold'
  BY <1>9, EventCounts DEF Unauthorized, Cold
<1>10. ASSUME NEW c \in Call, Refreshed(c) \/ RefreshFails(c) PROVE Cold'
  BY <1>10, Records DEF Refreshed, RefreshFails, Cold
<1>11. ASSUME NEW t \in Tab, Return(t) \/ Logout(t) \/ Login(t) \/ Expire(t) PROVE Cold'
  BY <1>11, EventCounts DEF Return, Logout, Login, Expire
<1>12. ASSUME NEW t \in Tab, LoseLogout(t) PROVE Cold'
  BY <1>12, FaultCounts DEF LoseLogout
<1>13. ASSUME NEW s \in Slot, LoseRefresh(s) PROVE Cold'
  BY <1>13, FaultCounts DEF LoseRefresh
<1>14. ASSUME NEW k \in Token, Age(k) PROVE Cold'
  BY <1>14, FaultCounts, AgePrompt DEF Age
<1>15. ASSUME NEW o \in orphans, HandleOrphan(o) \/ Vanish(o) PROVE Cold'
  BY <1>15 DEF Cold
<1>16. ASSUME UNCHANGED <<tokens, jar, page, access, refreshes, calls, leaving, orphans, aborted>>
       PROVE  Cold'
  BY <1>16 DEF Cold, Opened, Ahead, Landing
<1>17. ASSUME NEW t \in Tab, Wake(t) PROVE Cold'
  BY <1>16, <1>17 DEF Wake, history
<1>18. CASE UNCHANGED sessionVars
  BY <1>16, <1>18 DEF sessionVars
<1>19. QED
  BY <1>1, <1>2, <1>3, <1>4, <1>5, <1>6, <1>7, <1>8, <1>9, <1>10, <1>11, <1>12, <1>13, <1>14,
     <1>15, <1>17, <1>18 DEF SessionNext, Proceeds

\* Two is a matter of counting.
LEMMA TwoOfThem == Cardinality(Tab) <= 2 => TwoTabs
<1> SUFFICES ASSUME Cardinality(Tab) <= 2, NEW t \in Tab, NEW u \in Tab \ {t}, NEW v \in Tab \ {t},
                    u # v
             PROVE  FALSE
  BY DEF TwoTabs
<1>1. IsFiniteSet(Tab)
  BY SessionAssumption
<1>2. IsFiniteSet({t, u, v}) /\ Cardinality({t, u, v}) <= Cardinality(Tab)
  BY <1>1, FS_Subset
<1>3. Cardinality({t}) = 1 /\ IsFiniteSet({t})
  BY FS_Singleton
<1>4. Cardinality({t} \cup {u}) = 2 /\ IsFiniteSet({t} \cup {u})
  BY <1>3, FS_AddElement
<1>5. Cardinality(({t} \cup {u}) \cup {v}) = 3
  BY <1>4, FS_AddElement
<1>6. ({t} \cup {u}) \cup {v} = {t, u, v}
  OBVIOUS
<1>7. Cardinality(Tab) \in Nat
  BY <1>1, FS_CardinalityType
<1>8. QED
  BY <1>2, <1>5, <1>6, <1>7

\* Neither tab of a cold start is sent to the login form, in whatever order their
\* requests are handled.
THEOREM NeitherTabIsPutOut == SessionSpec => []ColdStartStaysIn
<1>1. SessionInit => ColdInv
  <2> SUFFICES ASSUME SessionInit PROVE Cold
    BY DEF ColdInv
  <2>1. ~aborted /\ orphans = {}
    BY Zenon DEF SessionInit
  <2>2. QED
    BY <2>1, Slots, Records, SessionAssumption DEF SessionInit, Cold, Opened, Token
<1>2. ColdInv => ColdStartStaysIn
  BY TwoOfThem DEF ColdInv, Cold, Opened, ColdStartStaysIn
<1>3. QED
  BY <1>1, <1>2, ColdInvKept, SessionInvAlways, PromptInvAlways, PTL DEF SessionSpec
=============================================================================
