---------------------------- MODULE Notifications ----------------------------
(***************************************************************************)
(* What the window tells the system while nobody looks at it: approvals,     *)
(* questions and plans that wait for an answer, one every                   *)
(* MIN_NOTIFICATION_SPACING_MS (useAgentResponseRequiredNotifications), turns *)
(* that end after a long run, with a sound of their own                      *)
(* (useAgentSystemNotifications, useAgentSoundNotifications), and the link    *)
(* that leads to the thread of the last one when the window gets the focus    *)
(* (useSystemNotificationThreadLinks).  Time is what Pause lets pass.        *)
(***************************************************************************)
EXTENDS Naturals, Sequences, FiniteSets

CONSTANTS
    Approvals, Questions, Plans,    \* what the server asks and what it plans
    Threads, Turns, None,
    ThreadOf(_),    \* thread of a turn, a request or a plan
    Children,       \* threads of sub-agents
    MaxEvents       \* bound: events, answers and what the user changes

Requests == Approvals \cup Questions

VARIABLES
    window,         \* isWindowFocused and the settings of notifications
    asks,           \* approvals and userInputRequests, the latest last
    told,           \* notifiedApprovalsRef, notifiedUserInputsRef
    plans,          \* pendingPlanNotificationsRef and notifiedPlanItemsRef
    spacing,        \* lastNotifiedAtRef is recent, retryTimeoutRef
    starts,         \* turnStartById and turnStartByThread: how long ago
    recent,         \* lastNotifiedAtByThread, lastPlayedAtByThread: threads with a recent one
    message,        \* lastMessageByThread: the turn whose text it is
    link,           \* pendingLinkRef
    places,         \* workspacesById: threads whose workspace is known and connected; the refresh
    navs,           \* tryNavigateToLink calls under way
    noted           \* history

vars == <<window, asks, told, plans, spacing, starts, recent, message, link, places, navs, noted>>

Lengths == {"none", "short", "long"}
TypeOK ==
    /\ window \in [focused : BOOLEAN, enabled : BOOLEAN, children : BOOLEAN]
    /\ asks \in Seq(Requests) /\ told \subseteq Requests
    /\ plans.told \subseteq Plans /\ plans.waiting \in Seq(Plans)
    /\ spacing \in [recent : BOOLEAN, timer : BOOLEAN]
    /\ starts \in [turn : [Turns -> Lengths], thread : [Threads -> Lengths]]
    /\ recent \in [note : SUBSET Threads, sound : SUBSET Threads]
    /\ message \in [Threads -> Turns \cup {None}]
    /\ link \in [thread : Threads \cup {None}, old : BOOLEAN]
    /\ places \in [known : SUBSET Threads, connected : SUBSET Threads, refreshing : BOOLEAN]
    /\ navs \subseteq [thread : Threads, step : {"refresh", "connect"}]
    /\ noted.events \in 0..MaxEvents

Elements(s) == {s[i] : i \in DOMAIN s}
Event == noted.events < MaxEvents
Counted == [noted EXCEPT !.events = @ + 1]

----------------------------------------------------------------------------
(* What waits for an answer.  Every render looks for the latest request that *)
(* has not been told; a blocked one leaves a timer that renders again.       *)
Muted(w, thread) == ~w.children /\ thread \in Children
Untold(kind, a, t, w) ==
    {i \in DOMAIN a : a[i] \in kind \ t /\ ~Muted(w, ThreadOf(a[i]))}
LatestOf(a, is) == a[CHOOSE i \in is : \A j \in is : j <= i]
(* What the effects would tell now: an approval, a question, a plan.         *)
Wanted(a, t, p, w) ==
    LET ap == Untold(Approvals, a, t, w)
        qu == Untold(Questions, a, t, w)
    IN  IF ap # {} THEN LatestOf(a, ap) ELSE IF qu # {} THEN LatestOf(a, qu)
        ELSE IF p.waiting # <<>> THEN Head(p.waiting) ELSE None
CanNotifyNow(w, s) == w.enabled /\ ~w.focused /\ ~s.recent
ScheduleRetry(w, s) == [s EXCEPT !.timer = @ \/ (w.enabled /\ ~w.focused)]
(* The effects of a render, with the requests of a, those told before t, the *)
(* plans p, the spacing s and the window w; n is the history.                *)
Effects(a, t, p, s, w, n) ==
    LET x == Wanted(a, t, p, w)
        tells == x # None /\ CanNotifyNow(w, s)
        rest == Tail(p.waiting)
    IN  /\ told' = IF tells /\ x \in Requests THEN t \cup {x} ELSE t
        /\ plans' = IF tells /\ x \in Plans THEN [waiting |-> rest, told |-> p.told \cup {x}] ELSE p
        /\ spacing' = IF x = None THEN s
                      ELSE IF ~tells THEN ScheduleRetry(w, s)
                      ELSE IF x \in Plans /\ rest = <<>> THEN [s EXCEPT !.recent = TRUE]
                      ELSE ScheduleRetry(w, [s EXCEPT !.recent = TRUE])
        /\ noted' = [n EXCEPT !.times = IF tells THEN [@ EXCEPT ![x] = @ + 1] ELSE @]
Others == <<starts, recent, message, navs>>

Asked(r) ==
    /\ Event /\ r \notin Elements(asks) /\ noted.times[r] = 0 /\ asks' = Append(asks, r)
    /\ Effects(asks', told, plans, spacing, window, Counted)
    /\ UNCHANGED <<window, link, places, Others>>
(* An answer takes the request away, and with it what was noted of it.       *)
Answered(r) ==
    /\ Event /\ r \in Elements(asks) /\ asks' = SelectSeq(asks, LAMBDA x : x # r)
    /\ Effects(asks', told \cap Elements(asks'), plans, spacing, window, Counted)
    /\ UNCHANGED <<window, link, places, Others>>
PlanReady(x) ==
    /\ Event /\ ~Muted(window, ThreadOf(x))
    /\ x \notin plans.told \cup Elements(plans.waiting)
    /\ IF CanNotifyNow(window, spacing)
       THEN /\ plans' = [plans EXCEPT !.told = @ \cup {x}]
            /\ spacing' = [spacing EXCEPT !.recent = TRUE]
            /\ noted' = [noted EXCEPT !.events = @ + 1, !.times[x] = @ + 1]
            /\ told' = told
       ELSE Effects(asks, told, [plans EXCEPT !.waiting = Append(@, x)], ScheduleRetry(window, spacing), window, Counted)
    /\ UNCHANGED <<window, asks, link, places, Others>>
RetryFires ==
    /\ spacing.timer
    /\ Effects(asks, told, plans, [recent |-> FALSE, timer |-> FALSE], window, noted)
    /\ UNCHANGED <<window, asks, link, places, Others>>

----------------------------------------------------------------------------
(* Turns that end.                                                          *)
Running(t) == noted.run[t] = "runs"
(* A start that is known becomes a long one, what was recent is no more.     *)
Older(f) == [x \in DOMAIN f |-> IF f[x] = "none" THEN "none" ELSE "long"]
Pause ==
    /\ ~spacing.timer
    /\ starts' = [turn |-> Older(starts.turn), thread |-> Older(starts.thread)]
    /\ recent' = [note |-> {}, sound |-> {}]
    /\ spacing' = [spacing EXCEPT !.recent = FALSE]
    /\ \E o \in BOOLEAN : link' = [link EXCEPT !.old = @ \/ (o /\ link.thread # None)]
    /\ noted' = [noted EXCEPT !.long = @ \cup {t \in Turns : Running(t)}]
    /\ UNCHANGED <<window, asks, told, plans, message, places, navs>>

HandleTurnStarted(t) ==
    /\ Event /\ noted.run[t] = "idle" /\ ~\E u \in Turns : Running(u) /\ ThreadOf(u) = ThreadOf(t)
    /\ starts' = [turn |-> [starts.turn EXCEPT ![t] = "short"],
                  thread |-> [starts.thread EXCEPT ![ThreadOf(t)] = "short"]]
    /\ message' = [message EXCEPT ![ThreadOf(t)] = None]
    /\ noted' = [noted EXCEPT !.events = @ + 1, !.run[t] = "runs"]
    /\ UNCHANGED <<window, asks, told, plans, spacing, recent, link, places, navs>>
(* An item that starts, or a piece of a message: of a turn whose start was   *)
(* perhaps not seen, or that is over.                                       *)
RecordStartIfMissing(t) ==
    /\ Event /\ noted.run[t] # "idle" /\ starts.thread[ThreadOf(t)] = "none"
    /\ starts' = [starts EXCEPT !.thread[ThreadOf(t)] = "short"]
    /\ noted' = [noted EXCEPT !.events = @ + 1]
    /\ UNCHANGED <<window, asks, told, plans, spacing, recent, message, link, places, navs>>

(* consumeDuration: the start of the turn when its id is given, else of its  *)
(* thread; the one of the thread goes with either.                           *)
Duration(t, byId) ==
    IF byId /\ starts.turn[t] # "none" THEN starts.turn[t] ELSE starts.thread[ThreadOf(t)]
ConsumeDuration(t, byId) ==
    starts' = [turn |-> IF byId THEN [starts.turn EXCEPT ![t] = "none"] ELSE starts.turn,
               thread |-> [starts.thread EXCEPT ![ThreadOf(t)] = "none"]]
ShouldNotify(t, d) ==
    /\ d = "long" /\ window.enabled /\ ~Muted(window, ThreadOf(t)) /\ ~window.focused
    /\ ThreadOf(t) \notin recent.note
ShouldPlaySound(t, d) == d = "long" /\ ~window.focused /\ ThreadOf(t) \notin recent.sound

SoundedWith(t, byId) ==
    IF ShouldPlaySound(t, Duration(t, byId)) THEN recent.sound \cup {ThreadOf(t)} ELSE recent.sound
(* What must be told of a turn that ends while the window is not looked at.   *)
Missed(t, heard) ==
    /\ t \in noted.long \cap noted.seen /\ window.enabled /\ ~window.focused
    /\ ~Muted(window, ThreadOf(t)) /\ ThreadOf(t) \notin heard
(* The notification of a turn records its thread for the link.               *)
Tell(t, byId, stored, body, ends) ==
    LET th == ThreadOf(t)
        tells == ShouldNotify(t, Duration(t, byId))
        heard == IF tells THEN recent.note \cup {th} ELSE recent.note
    IN  /\ Event /\ Running(t) /\ ConsumeDuration(t, byId)
        /\ recent' = [note |-> heard, sound |-> SoundedWith(t, byId)]
        /\ link' = IF tells THEN [thread |-> th, old |-> FALSE] ELSE link
        /\ message' = [message EXCEPT ![th] = IF tells THEN None ELSE stored]
        /\ noted' = [noted EXCEPT
               !.events = @ + 1, !.run[t] = IF ends THEN "over" ELSE @,
               !.wrong = @ \/ (tells /\ body \notin {t, None} /\ t \in noted.seen),
               !.missed = @ \/ (ends /\ Missed(t, heard)),
               !.last = IF tells THEN th ELSE @,
               !.unsure = IF tells THEN navs # {} ELSE @]
        /\ UNCHANGED <<window, asks, told, plans, spacing, places, navs>>
HandleAgentMessageCompleted(t) == Tell(t, FALSE, t, t, FALSE)
HandleTurnCompleted(t) == Tell(t, TRUE, message[ThreadOf(t)], message[ThreadOf(t)], TRUE)
(* An error that will be retried ends nothing; another one tells its own text. *)
HandleTurnError(t) == Tell(t, TRUE, message[ThreadOf(t)], None, TRUE)

----------------------------------------------------------------------------
(* The link of the last notification.                                       *)
NoLink == [thread |-> None, old |-> FALSE]
GiveUp(m) == link' = NoLink /\ noted' = [m EXCEPT !.unsure = TRUE]
(* The rest of a navigation to th with the workspaces of pl: m is the history. *)
ConnectOrGo(th, rest, pl, m) ==
    IF th \in pl.connected
    THEN link' = NoLink /\ noted' = [m EXCEPT !.at = th] /\ navs' = rest
    ELSE link' = link /\ noted' = m /\ navs' = rest \cup {[thread |-> th, step |-> "connect"]}
TryNavigateToLink(pl, m) ==
    IF link.thread = None THEN link' = link /\ navs' = navs /\ noted' = m /\ places' = pl
    ELSE IF link.old THEN GiveUp(m) /\ navs' = navs /\ places' = pl
    ELSE IF link.thread \in pl.known THEN ConnectOrGo(link.thread, navs, pl, m) /\ places' = pl
    ELSE IF pl.refreshing THEN GiveUp(m) /\ navs' = navs /\ places' = pl
    ELSE /\ places' = [pl EXCEPT !.refreshing = TRUE]
         /\ navs' = navs \cup {[thread |-> link.thread, step |-> "refresh"]}
         /\ link' = link /\ noted' = m

Unasked == <<asks, starts, recent, message>>
(* The focus renders the hooks and goes to the link.                         *)
Focus ==
    /\ ~window.focused /\ window' = [window EXCEPT !.focused = TRUE]
    /\ TryNavigateToLink(places, noted)
    /\ UNCHANGED <<told, plans, spacing, Unasked>>
Blur ==
    /\ window.focused /\ window' = [window EXCEPT !.focused = FALSE]
    /\ Effects(asks, told, plans, spacing, window', noted)
    /\ UNCHANGED <<link, places, navs, Unasked>>
(* Notifications switched on or off, or those of sub-agents.                 *)
Configure ==
    /\ Event
    /\ window' \in {[window EXCEPT !.enabled = ~@], [window EXCEPT !.children = ~@]}
    /\ Effects(asks, told, plans, spacing, window', Counted)
    /\ UNCHANGED <<link, places, navs, Unasked>>
(* A workspace connects or disconnects: workspacesById is another map, and   *)
(* its effect tries a link that is still there.                              *)
WorkspacesChange(th) ==
    /\ Event /\ th \in places.known
    /\ TryNavigateToLink([places EXCEPT !.connected = IF th \in @ THEN @ \ {th} ELSE @ \cup {th}],
                         [noted EXCEPT !.events = @ + 1])
    /\ UNCHANGED <<window, told, plans, spacing, Unasked>>
(* refreshWorkspaces answers: the thread's workspace may be there.           *)
Refreshed(n) ==
    /\ n.step = "refresh"
    /\ \E found \in BOOLEAN :
          /\ places' = [places EXCEPT !.refreshing = FALSE,
                                      !.known = IF found THEN @ \cup {n.thread} ELSE @]
          /\ IF found THEN ConnectOrGo(n.thread, navs \ {n}, places, noted)
             ELSE GiveUp(noted) /\ navs' = navs \ {n}
    /\ UNCHANGED <<window, told, plans, spacing, Unasked>>
(* connectWorkspace is over, whatever came of it: the thread is shown, and   *)
(* the link that is there by then is taken for done.                         *)
Connected(n) ==
    /\ n.step = "connect" /\ navs' = navs \ {n} /\ link' = NoLink
    /\ noted' = [noted EXCEPT !.at = n.thread, !.unsure = @ \/ link.thread \notin {None, n.thread}]
    /\ \E ok \in BOOLEAN : places' = [places EXCEPT !.connected = IF ok THEN @ \cup {n.thread} ELSE @]
    /\ UNCHANGED <<window, told, plans, spacing, Unasked>>
(* The user looks at a thread: the last notification has been seen to.       *)
Look(th) ==
    /\ Event /\ window.focused /\ th # noted.at
    /\ noted' = [noted EXCEPT !.events = @ + 1, !.at = th, !.last = None, !.unsure = navs # {}]
    /\ UNCHANGED <<window, told, plans, spacing, link, places, navs, Unasked>>

Init ==
    /\ window = [focused |-> FALSE, enabled |-> TRUE, children |-> FALSE]
    /\ asks = <<>> /\ told = {} /\ plans = [waiting |-> <<>>, told |-> {}]
    /\ spacing = [recent |-> FALSE, timer |-> FALSE]
    /\ starts = [turn |-> [t \in Turns |-> "none"], thread |-> [th \in Threads |-> "none"]]
    /\ recent = [note |-> {}, sound |-> {}]
    /\ message = [th \in Threads |-> None] /\ link = NoLink
    /\ \E known \in SUBSET Threads :
          places = [known |-> known, connected |-> {}, refreshing |-> FALSE]
    /\ navs = {}
    /\ \E early \in SUBSET Turns :      \* turns that run when the window loads
          /\ \A t, u \in early : ThreadOf(t) = ThreadOf(u) => t = u
          /\ noted = [events |-> 0, times |-> [x \in Requests \cup Plans |-> 0],
                      run |-> [t \in Turns |-> IF t \in early THEN "runs" ELSE "idle"],
                      seen |-> Turns \ early, long |-> {}, missed |-> FALSE, wrong |-> FALSE,
                      last |-> None, at |-> None, unsure |-> FALSE]

Next ==
    \/ \E r \in Requests : Asked(r) \/ Answered(r)
    \/ \E x \in Plans : PlanReady(x)
    \/ RetryFires \/ Pause \/ Focus \/ Blur \/ Configure
    \/ \E t \in Turns : \/ HandleTurnStarted(t) \/ RecordStartIfMissing(t)
                        \/ HandleAgentMessageCompleted(t) \/ HandleTurnCompleted(t) \/ HandleTurnError(t)
    \/ \E th \in Threads : WorkspacesChange(th) \/ Look(th)
    \/ \E n \in navs : Refreshed(n) \/ Connected(n)

Spec == Init /\ [][Next]_vars

----------------------------------------------------------------------------
(* While nobody looks at the window and no timer runs, everything that waits *)
(* for an answer has been told, each once.                                   *)
NobodyWaitsUntold ==
    /\ window.enabled /\ ~window.focused /\ ~spacing.timer => Wanted(asks, told, plans, window) = None
    /\ \A x \in Requests \cup Plans : noted.times[x] <= 1

(* A turn that ran long and ends while nobody looks is told, at its end or   *)
(* just before, and with a text of its own.                                  *)
LongTurnsTold == ~noted.missed /\ ~noted.wrong

(* Who comes back to the window is taken to the thread of the last           *)
(* notification: unless its link was too old, its workspace unknown, or the  *)
(* notification came while an earlier link was followed.                     *)
LinkLeadsThere ==
    window.focused /\ navs = {} /\ ~noted.unsure =>
        link.thread = None /\ noted.last \in {None, noted.at}
=============================================================================
