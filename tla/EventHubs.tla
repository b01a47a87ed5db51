------------------------------ MODULE EventHubs ------------------------------
(***************************************************************************)
(* How the events of the backend reach the hooks of the window: the hub that *)
(* keeps one native listener for all subscribers (services/events), the      *)
(* dispatch of app-server events to handlers (useAppServerEvents), menu      *)
(* commands whose handlers act on the last render (useTauriEvent,            *)
(* useAppMenuEvents, useComposerMenuActions), and the error toasts.          *)
(***************************************************************************)
EXTENDS Naturals, Sequences

CONSTANTS
    Consumers,      \* hooks that call useAppServerEvents
    Threads,
    Toasts,
    Choices,        \* number of models, of access modes... that a menu command cycles through
    MaxEvents,      \* bound: events of the server, menu commands
    MaxListens      \* bound: subscriptions that listen

VARIABLES
    listeners,      \* listeners of the hub
    hub,            \* unlisten and listenPromise: the native listener of each, 0 if none
    natives,        \* native listeners the backend has
    wire,           \* events sent to native listeners and not delivered
    busy,           \* threads each consumer has at work, as its handlers were told
    selected,       \* choices made, and those in the handlers of the last render
    toasts,         \* toasts shown, timeouts that run
    noted           \* history

vars == <<listeners, hub, natives, wire, busy, selected, toasts, noted>>

----------------------------------------------------------------------------
(* The dispatch: an event names a method and has some of the fields that the *)
(* handlers need; its thread may be named by its turn instead.               *)
Fields == {"request", "thread", "turn's thread", "item", "text", "usage", "limits"}
RequestRoutes(method, has) ==
    CASE method = "codex/connected" -> <<"onWorkspaceConnected">>
      [] method = "item/commandExecution/requestApproval" ->
             IF "request" \in has THEN <<"onApprovalRequest">> ELSE <<>>
      [] method = "item/tool/requestUserInput" ->
             IF "request" \in has THEN <<"onRequestUserInput">> ELSE <<>>
      [] OTHER -> <<>>

With(needs, has, handler) == IF needs \subseteq has THEN <<handler>> ELSE <<>>
OfThread == {"thread"}
TurnRoutes(method, has) ==
    LET thread == IF "turn's thread" \in has THEN has \cup OfThread ELSE has
    IN  CASE method = "turn/started" -> With(OfThread, thread, "onTurnStarted")
          [] method = "turn/completed" -> With(OfThread, thread, "onTurnCompleted")
          [] method = "turn/plan/updated" -> With(OfThread, has, "onTurnPlanUpdated")
          [] method = "turn/diff/updated" -> With({"thread", "text"}, has, "onTurnDiffUpdated")
          [] method = "error" -> With(OfThread, has, "onTurnError")
          [] OTHER -> <<>>
ThreadRoutes(method, has) ==
    CASE method = "thread/started" -> With(OfThread, has, "onThreadStarted")
      [] method = "thread/name/updated" -> With(OfThread, has, "onThreadNameUpdated")
      [] method = "thread/status/changed" -> With({"thread", "text"}, has, "onThreadStatusChanged")
      [] method = "thread/closed" -> With(OfThread, has, "onThreadClosed")
      [] method = "thread/archived" -> With(OfThread, has, "onThreadArchived")
      [] method = "thread/unarchived" -> With(OfThread, has, "onThreadUnarchived")
      [] method = "codex/backgroundThread" -> With(OfThread, has, "onBackgroundThreadAction")
      [] method = "thread/tokenUsage/updated" -> With({"thread", "usage"}, has, "onThreadTokenUsageUpdated")
      [] OTHER -> <<>>
AccountRoutes(method, has) ==
    CASE method = "account/rateLimits/updated" -> With({"limits"}, has, "onAccountRateLimitsUpdated")
      [] method = "account/updated" -> <<"onAccountUpdated">>
      [] method = "account/login/completed" -> <<"onAccountLoginCompleted">>
      [] OTHER -> <<>>
(* A message that is completed is told twice: as an item, then as a message. *)
ItemRoutes(method, has) ==
    CASE method = "item/completed" ->
             With({"thread", "item"}, has, "onItemCompleted")
             \o With({"thread", "item", "text"}, has, "onAgentMessageCompleted")
      [] method = "item/started" -> With({"thread", "item"}, has, "onItemStarted")
      [] OTHER -> <<>>
DeltaRoutes(method, has) ==
    LET whole == {"thread", "item", "text"}
    IN  CASE method = "item/agentMessage/delta" -> With(whole, has, "onAgentMessageDelta")
          [] method = "item/reasoning/summaryTextDelta" -> With(whole, has, "onReasoningSummaryDelta")
          [] method = "item/reasoning/summaryPartAdded" -> With({"thread", "item"}, has, "onReasoningSummaryBoundary")
          [] method = "item/reasoning/textDelta" -> With(whole, has, "onReasoningTextDelta")
          [] method = "item/plan/delta" -> With(whole, has, "onPlanDelta")
          [] method = "item/commandExecution/outputDelta" -> With(whole, has, "onCommandOutputDelta")
          [] method = "item/commandExecution/terminalInteraction" -> With({"thread", "item"}, has, "onTerminalInteraction")
          [] method = "item/fileChange/outputDelta" -> With(whole, has, "onFileChangeOutputDelta")
          [] OTHER -> <<>>
Dispatch(method, has) ==
    RequestRoutes(method, has) \o TurnRoutes(method, has) \o ThreadRoutes(method, has)
    \o AccountRoutes(method, has) \o ItemRoutes(method, has) \o DeltaRoutes(method, has)

(* What the server sends, with the fields it gives: a turn may name its      *)
(* thread itself.  An error here is one that is not retried.  What each does *)
(* to the threads that are at work:                                          *)
Sent == {[method |-> "turn/started", has |-> {"turn's thread"}], [method |-> "turn/started", has |-> OfThread],
         [method |-> "turn/completed", has |-> {"turn's thread"}], [method |-> "error", has |-> OfThread],
         [method |-> "thread/closed", has |-> OfThread],
         [method |-> "item/completed", has |-> {"thread", "item", "text"}]}
Starts(h) == h = "onTurnStarted"
Ends(h) == h \in {"onTurnCompleted", "onTurnError", "onThreadClosed"}
(* useThreads' handlers: a message that is completed leaves its thread at    *)
(* work until its turn is over.                                             *)
Handled(at, e) ==
    LET hs == {Dispatch(e.method, e.has)[i] : i \in DOMAIN Dispatch(e.method, e.has)}
    IN  IF \E h \in hs : Starts(h) THEN at \cup {e.thread}
        ELSE IF \E h \in hs : Ends(h) THEN at \ {e.thread} ELSE at

----------------------------------------------------------------------------
Natives == 1..MaxListens
Menus == {"model", "sidebar"}
NativeStates == {"asked", "registered", "gone"}
Registered == {n \in Natives : natives[n] = "registered"}
Events == [method : {e.method : e \in Sent}, has : SUBSET Fields, thread : Threads]

TypeOK ==
    /\ listeners \subseteq Consumers
    /\ hub \in [unlisten : {0} \cup Natives, promise : {0} \cup Natives]
    /\ natives \in [Natives -> NativeStates]
    /\ \A i \in DOMAIN wire : wire[i].native \in Natives /\ wire[i].event \in Events
    /\ busy \in [Consumers -> SUBSET Threads]
    /\ selected \in [Menus -> [made : 0..Choices, rendered : 0..Choices]]
    /\ toasts \in [shown : SUBSET Toasts, timers : SUBSET Toasts]
    /\ noted.events \in 0..MaxEvents /\ noted.listens \in 0..MaxListens

Rest == <<busy, wire, selected, toasts>>
(* The threads at work after an event, as the server has it.                 *)
Truly(at, e) ==
    IF e.method = "turn/started" THEN at \cup {e.thread}
    ELSE IF e.method \in {"turn/completed", "error", "thread/closed"} THEN at \ {e.thread} ELSE at
(* What a listener that comes now will hear of the events on their way.      *)
OnTheirWay ==
    LET F[i \in 0..Len(wire)] ==
            IF i = 0 THEN {} ELSE IF natives[wire[i].native] = "gone" THEN F[i - 1]
            ELSE Truly(F[i - 1], wire[i].event)
    IN  F[Len(wire)]

(* start(): one listen at a time, for all.                                   *)
Listening == hub.unlisten # 0 \/ hub.promise # 0
Start(n) ==
    IF Listening THEN UNCHANGED <<hub, natives>> /\ noted' = n
    ELSE /\ noted.listens < MaxListens
         /\ hub' = [hub EXCEPT !.promise = noted.listens + 1]
         /\ natives' = [natives EXCEPT ![noted.listens + 1] = "asked"]
         /\ noted' = [n EXCEPT !.listens = @ + 1, !.deaf = FALSE]
Subscribe(c) ==
    /\ c \notin listeners /\ listeners' = listeners \cup {c}
    /\ Start([noted EXCEPT !.expected[c] = OnTheirWay])
    /\ busy' = [busy EXCEPT ![c] = {}]
    /\ UNCHANGED <<wire, selected, toasts>>
(* stop(): the last one to leave takes the native listener along, a listen   *)
(* that is not answered yet is left to its answer.                           *)
Unsubscribe(c) ==
    /\ c \in listeners /\ listeners' = listeners \ {c}
    /\ IF listeners' = {} /\ hub.unlisten # 0
       THEN /\ natives' = [natives EXCEPT ![hub.unlisten] = "gone"]
            /\ hub' = [hub EXCEPT !.unlisten = 0]
       ELSE UNCHANGED <<natives, hub>>
    /\ noted' = [noted EXCEPT !.deaf = @ /\ listeners' # {}]
    /\ UNCHANGED Rest
Register(n) ==
    /\ natives[n] = "asked" /\ natives' = [natives EXCEPT ![n] = "registered"]
    /\ UNCHANGED <<listeners, hub, noted, Rest>>
(* The promise of listen resolves: without a listener left, it is undone.     *)
ListenAnswered(n) ==
    /\ hub.promise = n /\ natives[n] = "registered"
    /\ IF listeners = {}
       THEN natives' = [natives EXCEPT ![n] = "gone"] /\ hub' = [hub EXCEPT !.promise = 0]
       ELSE natives' = natives /\ hub' = [unlisten |-> n, promise |-> 0]
    /\ UNCHANGED <<listeners, noted, Rest>>
ListenFails(n) ==
    /\ hub.promise = n /\ natives[n] = "asked"
    /\ hub' = [hub EXCEPT !.promise = 0] /\ natives' = [natives EXCEPT ![n] = "gone"]
    /\ noted' = [noted EXCEPT !.deaf = listeners # {}]
    /\ UNCHANGED <<listeners, Rest>>

----------------------------------------------------------------------------
Counted == noted.events < MaxEvents /\ noted' = [noted EXCEPT !.events = @ + 1]
EventOf(e, t) == [method |-> e.method, has |-> e.has, thread |-> t]
(* The server sends an event to every native listener it has.                *)
Emit(e, t) ==
    /\ noted.events < MaxEvents /\ Registered # {}
    /\ \E n \in Registered :
          wire' = Append(wire, [native |-> n, event |-> EventOf(e, t)])
    /\ noted' = [noted EXCEPT
           !.events = @ + 1,
           !.expected = [c \in Consumers |-> IF c \in listeners THEN Truly(@[c], EventOf(e, t)) ELSE @[c]]]
    /\ UNCHANGED <<listeners, hub, natives, busy, selected, toasts>>
(* The hub hands an event to each listener there is.                         *)
Deliver ==
    /\ wire # <<>> /\ wire' = Tail(wire)
    /\ busy' = [c \in Consumers |->
           IF c \in listeners /\ natives[Head(wire).native] # "gone"
           THEN Handled(busy[c], Head(wire).event) ELSE busy[c]]
    /\ UNCHANGED <<listeners, hub, natives, selected, toasts, noted>>

(* A menu command cycles or toggles from the choice in its handler, that of  *)
(* the last render; the render that follows brings the one made.             *)
NextChoice(m, i) == (i + 1) % (IF m = "sidebar" THEN 2 ELSE Choices)
MenuCommand(m) ==
    /\ noted.events < MaxEvents
    /\ selected' = [selected EXCEPT ![m].made = NextChoice(m, selected[m].rendered)]
    /\ noted' = [noted EXCEPT !.events = @ + 1, !.commands[m] = @ + 1,
                              !.rushed = @ \cup {x \in {m} : selected[x].made # selected[x].rendered}]
    /\ UNCHANGED <<listeners, hub, natives, wire, busy, toasts>>
Render(m) ==
    /\ selected[m].made # selected[m].rendered
    /\ selected' = [selected EXCEPT ![m].rendered = selected[m].made]
    /\ UNCHANGED <<listeners, hub, natives, wire, busy, toasts, noted>>

PushErrorToast(x) ==
    /\ x \notin toasts.shown \cup toasts.timers /\ Counted
    /\ toasts' = [shown |-> toasts.shown \cup {x}, timers |-> toasts.timers \cup {x}]
    /\ UNCHANGED <<listeners, hub, natives, wire, busy, selected>>
(* The user or the timeout of the toast dismisses it.                        *)
DismissToast(x) ==
    /\ x \in toasts.shown
    /\ toasts' = [shown |-> toasts.shown \ {x}, timers |-> toasts.timers \ {x}]
    /\ UNCHANGED <<listeners, hub, natives, wire, busy, selected, noted>>

Init ==
    /\ listeners = {} /\ hub = [unlisten |-> 0, promise |-> 0]
    /\ natives = [n \in Natives |-> "gone"] /\ wire = <<>>
    /\ busy = [c \in Consumers |-> {}]
    /\ selected = [m \in Menus |-> [made |-> 0, rendered |-> 0]]
    /\ toasts = [shown |-> {}, timers |-> {}]
    /\ noted = [events |-> 0, listens |-> 0, deaf |-> FALSE,
                expected |-> [c \in Consumers |-> {}],
                commands |-> [m \in Menus |-> 0], rushed |-> {}]

Next ==
    \/ \E c \in Consumers : Subscribe(c) \/ Unsubscribe(c)
    \/ \E n \in Natives : Register(n) \/ ListenAnswered(n) \/ ListenFails(n)
    \/ \E e \in Sent, t \in Threads : Emit(e, t)
    \/ Deliver \/ (\E m \in Menus : MenuCommand(m) \/ Render(m))
    \/ \E x \in Toasts : PushErrorToast(x) \/ DismissToast(x)

Spec == Init /\ [][Next]_vars

----------------------------------------------------------------------------
(* Whatever comes and goes, the backend has one native listener at most, and *)
(* none without a hook that listens; a hook that listens has one, unless the *)
(* listen failed and no other hook has come since.                          *)
OneNativeListener ==
    /\ \A m, n \in Registered : m = n
    /\ listeners = {} /\ hub.promise = 0 => Registered = {}
    /\ listeners # {} /\ ~noted.deaf => Listening

(* When all events have arrived, each hook has the threads at work that the  *)
(* server has told of while it listened.                                    *)
EachHearsAll == wire = <<>> => \A c \in listeners : busy[c] = noted.expected[c]

(* Every menu command takes the choice one further, but one that comes       *)
(* before the render of the one before; and each toast has its timeout.      *)
CommandsCount ==
    /\ \A m \in Menus \ noted.rushed :
          selected[m].made = noted.commands[m] % (IF m = "sidebar" THEN 2 ELSE Choices)
    /\ toasts.shown = toasts.timers

(* What every step keeps: what is registered or asked for is what the hub   *)
(* holds, one at a time, and it holds an unlisten only for its listeners.   *)
NotedFields == {"events", "listens", "deaf", "expected", "commands", "rushed"}
HubInv ==
    /\ hub \in [unlisten : {0} \cup Natives, promise : {0} \cup Natives]
    /\ natives \in [Natives -> NativeStates]
    /\ DOMAIN noted = NotedFields
    /\ noted.listens \in Nat /\ noted.deaf \in BOOLEAN
    /\ \A n \in Natives : natives[n] = "registered" => n \in {hub.unlisten, hub.promise}
    /\ \A n \in Natives : natives[n] = "asked" => hub.promise = n
    /\ hub.unlisten = 0 \/ hub.promise = 0
    /\ hub.unlisten # 0 => listeners # {}
    /\ listeners # {} /\ ~noted.deaf => Listening
=============================================================================
