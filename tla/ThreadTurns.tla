---------------------------- MODULE ThreadTurns ----------------------------
(***************************************************************************)
(* One conversation thread as the window sees it: the status the reducer   *)
(* keeps, the references useThreadTurnEvents keeps beside it, the messages  *)
(* useThreadMessaging sends and the queue useQueuedSend holds back while a  *)
(* turn runs.                                                               *)
(*                                                                         *)
(* Two things make it hard.  The hooks decide from the state of the last   *)
(* render ("shown") while dispatches have already moved the reducer on     *)
(* ("ui").  And answers to requests and events of the server come by       *)
(* different ways: an answer can be handled after the end of the turn it   *)
(* announces.                                                              *)
(*                                                                         *)
(* The server (Codex app-server or the Claude bridge) is external: it runs  *)
(* at most one turn of the thread and tells of it by events, in order.      *)
(***************************************************************************)
EXTENDS Naturals, Sequences, FiniteSets

CONSTANTS
    Messages,        \* what the user sends
    SteerEnabled,    \* the Codex configuration allows turn/steer
    NoTurn, Unset,   \* null and undefined
    NoMessage,
    MaxTurns,        \* bound on the turns the server starts
    Scenes           \* the scenes a behaviour may play, see Scene

(* A scene says what each message is, what may go wrong or intervene, and  *)
(* bounds the items announced and the presses of the stop button.          *)
Kinds == {"text",
          "command",   \* a slash command that starts no turn
          "review",    \* a /review command with a target
          "refused"}   \* a prompt whose expansion fails

FaultKinds == {"fail",    \* a request is refused or its invocation rejected
               "lose",    \* a request is obeyed and its answer lost
               "throw",   \* a slash command throws
               "close",   \* the server unloads the thread
               "status",  \* the server tells of status changes besides turns
               "pause",   \* a question to the user pauses the queue
               "remove"}  \* the user takes messages out of the queue

Scene == [kind : [Messages -> Kinds], faults : SUBSET FaultKinds,
          items : Nat, presses : Nat]

ASSUME ConstantsAssumption ==
    /\ NoMessage \notin Messages
    /\ SteerEnabled \in BOOLEAN
    /\ MaxTurns \in Nat
    /\ NoTurn \notin Nat /\ Unset \notin Nat /\ NoTurn # Unset
    /\ \A s \in Scenes : /\ s.kind \in [Messages -> Kinds]
                         /\ s.faults \subseteq FaultKinds
                         /\ s.items \in Nat /\ s.presses \in Nat

VARIABLES
    scene,      \* the scene, chosen at the start
    ui,         \* the state after every dispatch so far
    shown,      \* the state of the last render
    refs,       \* what useThreadTurnEvents knows ahead of the reducer
    pending,    \* pendingInterruptsRef holds this thread
    loaded,     \* loadedThreadsRef[thread]
    call,       \* per message: the send under way
    requests,   \* requests the server has not seen, in order
    events,     \* events emitted and not handled, in order
    server,     \* external: the turn it runs, the last it started, ...
    items,      \* number of items announced so far
    presses,    \* number of times the stop button was pressed
    taken,      \* how often the server took each message
    aimed,      \* messages that were being started when `pending` was set
    blame       \* what has gone against the order the hooks count on

vars == <<scene, ui, shown, refs, pending, loaded, call, requests, events, server, items,
          presses, taken, aimed, blame>>
hooks == <<refs, pending, loaded>>
outside == <<server, items, taken>>
ghosts == <<presses, aimed, blame>>

Turns == 1..MaxTurns
TurnOrNone == Turns \cup {NoTurn}

Status == [processing : BOOLEAN, reviewing : BOOLEAN, turn : TurnOrNone,
           queue : Seq(Messages), inFlight : Messages \cup {NoMessage},
           started : BOOLEAN, paused : BOOLEAN]

Quiet == [step |-> "none", mode |-> "start", turn |-> NoTurn, from |-> "user"]

Call == [step : {"none", "ensuring", "asked", "ok", "failed", "stale", "command"},
         mode : {"start", "steer", "review"}, turn : TurnOrNone,
         from : {"user", "queue"}]

(* turn/start, turn/steer or review/start for a message; turn/interrupt.    *)
Request == [msg : Messages \cup {NoMessage}, turn : TurnOrNone]

Event == [kind : {"started", "item", "entered", "exited", "completed", "error",
                  "retry", "active", "idle", "closed"}, turn : TurnOrNone]

TypeOK ==
    /\ scene \in Scenes
    /\ ui \in Status /\ shown \in Status
    /\ refs \in [imm : TurnOrNone \cup {Unset}, last : TurnOrNone \cup {Unset},
                 opt : BOOLEAN]
    /\ pending \in BOOLEAN /\ loaded \in BOOLEAN
    /\ call \in [Messages -> Call]
    /\ requests \in Seq(Request)
    /\ events \in Seq(Event)
    /\ server \in [running : TurnOrNone, last : 0..MaxTurns, reviewing : BOOLEAN,
                   ended : SUBSET Turns,
                   startedFor : [Turns -> Messages \cup {NoMessage}]]
    /\ items \in 0..scene.items /\ presses \in 0..scene.presses
    /\ taken \in [Messages -> Nat]
    /\ aimed \subseteq Messages
    /\ blame \subseteq {"late answer", "failed steer", "double start", "stale steer",
                       "unseen turn", "old end"}

----------------------------------------------------------------------------
(* The reducer, and what useThreadTurnEvents keeps beside it.              *)

Mark(s, processing) == [s EXCEPT !.processing = processing]
Review(s, reviewing) == [s EXCEPT !.reviewing = reviewing]
SetTurn(s, turn) == [s EXCEPT !.turn = turn]
(* Mutant: undefined where the reducer has null.                           *)
StoppedUndefined(s) == SetTurn(Mark(s, FALSE), Unset)
Stopped(s) == SetTurn(Mark(s, FALSE), NoTurn)

Forget(r) == [r EXCEPT !.opt = FALSE, !.imm = NoTurn]

(* What getLatestKnownActiveTurnId leaves in the references.               *)
Latest(r, reducer) ==
    LET ahead  == r.opt /\ r.imm # Unset
        caught == ahead /\ reducer = r.imm
        adopt  == ahead /\ ~caught /\ r.last # Unset /\ reducer # r.last
    IN  IF ahead /\ ~caught /\ ~adopt
        THEN [r EXCEPT !.last = reducer]
        ELSE [opt  |-> r.opt /\ ~caught /\ ~adopt,
              imm  |-> IF adopt \/ r.last # reducer THEN reducer ELSE r.imm,
              last |-> reducer]

(* What it returns.                                                        *)
LatestTurn(r, reducer) ==
    IF r.imm = Unset THEN reducer ELSE Latest(r, reducer).imm

----------------------------------------------------------------------------
(* Sending.  A closure decides from the render c it was made in.           *)

CanSteer(c) == c.processing /\ SteerEnabled /\ c.turn # NoTurn

(* handleSend's effectiveIntent, for what the user wishes.                 *)
Queues(c, wish) == c.processing /\ ~(wish = "steer" /\ CanSteer(c))

Kind(m) == scene.kind[m]

(* Where sendMessageToThread, or startReviewTarget, first writes.          *)
Begun(s, mode) == IF mode = "review" THEN Review(Mark(s, TRUE), TRUE) ELSE Mark(s, TRUE)

Send(m) == [msg |-> m, turn |-> NoTurn]
Halt(turn) == [msg |-> NoMessage, turn |-> turn]

(* A message leaves the composer or the queue: everything up to the first  *)
(* await, with the state after the caller's own dispatches in s.           *)
Launch(m, from, s, c) ==
    LET mode == IF Kind(m) = "review" THEN "review"
                ELSE IF CanSteer(c) THEN "steer" ELSE "start"
        step == IF Kind(m) = "command" THEN "command"
                ELSE IF loaded THEN "asked" ELSE "ensuring"
    IN  IF Kind(m) = "refused"
        THEN ui' = s /\ UNCHANGED <<call, requests>>
        ELSE /\ call' = [call EXCEPT ![m] = [step |-> step, mode |-> mode,
                                             turn |-> c.turn, from |-> from]]
             /\ IF step = "asked"
                THEN ui' = Begun(s, mode) /\ requests' = Append(requests, Send(m))
                ELSE ui' = s /\ UNCHANGED requests

Members(seq) == {seq[i] : i \in 1..Len(seq)}

(* The user has not sent m yet.                                            *)
Fresh(m) ==
    /\ call[m].step = "none" /\ taken[m] = 0
    /\ m \notin Members(ui.queue) /\ m # ui.inFlight

(* A send waits for the thread to be resumed, and nothing shows it yet.    *)
Ensuring == \E m \in Messages : call[m].step = "ensuring"

(* handleSend.                                                             *)
HandleSend(m, wish) ==
    /\ Fresh(m) /\ ~shown.reviewing
    /\ IF Queues(shown, wish)
       THEN ui' = [ui EXCEPT !.queue = Append(@, m)] /\ UNCHANGED <<call, requests>>
       ELSE Launch(m, "user", ui, shown)
    /\ blame' = blame \cup (IF \/ ~shown.processing /\ ui.processing
                               \/ Ensuring /\ ~Queues(shown, wish)
                           THEN {"double start"} ELSE {})
    /\ UNCHANGED <<scene, shown, hooks, events, outside, presses, aimed>>

(* queueMessage queues whether a turn runs or not.                         *)
QueueMessage(m) ==
    /\ Fresh(m) /\ ~shown.reviewing
    /\ ui' = [ui EXCEPT !.queue = Append(@, m)]
    /\ UNCHANGED <<scene, shown, hooks, call, requests, events, outside, ghosts>>

(* The queue without m.  Every entry has an id of its own, so the filter by *)
(* id drops one entry at most, and those behind it move up.                *)
Without(queue, m) ==
    IF m \in Members(queue)
    THEN LET i == CHOOSE i \in 1..Len(queue) : queue[i] = m
         IN  [j \in 1..Len(queue) - 1 |-> IF j < i THEN queue[j] ELSE queue[j + 1]]
    ELSE queue

(* removeQueuedMessage.                                                    *)
RemoveQueued(m) ==
    /\ "remove" \in scene.faults /\ m \in Members(shown.queue)
    /\ ui' = [ui EXCEPT !.queue = Without(@, m)]
    /\ UNCHANGED <<scene, shown, hooks, call, requests, events, outside, ghosts>>

(* The thread has been resumed for a send that waited for it.              *)
Ensured(m) ==
    /\ call[m].step = "ensuring"
    /\ loaded' = TRUE
    /\ call' = [call EXCEPT ![m].step = "asked"]
    /\ ui' = Begun(ui, call[m].mode)
    /\ requests' = Append(requests, Send(m))
    /\ UNCHANGED <<scene, shown, refs, pending, events, outside, ghosts>>

----------------------------------------------------------------------------
(* A commit, and the effects of useQueuedSend that run after it: the first *)
(* follows the message in flight, the second sends the next one.           *)

Busy(s) == s.processing \/ s.reviewing

(* Mutant: the message in flight is kept when its turn is over.            *)
FollowedKept(s) ==
    IF s.inFlight # NoMessage /\ Busy(s) THEN [s EXCEPT !.started = TRUE] ELSE s

Followed(s) ==
    CASE s.inFlight = NoMessage -> s
      [] s.inFlight # NoMessage /\ Busy(s) -> [s EXCEPT !.started = TRUE]
      [] s.inFlight # NoMessage /\ ~Busy(s) ->
            IF s.started THEN [s EXCEPT !.inFlight = NoMessage, !.started = FALSE]
            ELSE s

MayFlush(s) == ~Busy(s) /\ ~s.paused /\ s.inFlight = NoMessage /\ s.queue # <<>>

(* Mutant: what is sent stays in the queue.                                *)
FlushedKept(s) == [s EXCEPT !.inFlight = Head(s.queue), !.started = FALSE]

Flushed(s) ==
    [s EXCEPT !.inFlight = Head(s.queue), !.started = FALSE, !.queue = Tail(@)]

Render ==
    /\ shown # ui
    /\ shown' = ui
    /\ IF MayFlush(ui)
       THEN Launch(Head(ui.queue), "queue", Flushed(ui), ui)
       ELSE ui' = Followed(ui) /\ UNCHANGED <<call, requests>>
    /\ blame' = blame \cup (IF MayFlush(ui) /\ Ensuring THEN {"double start"} ELSE {})
    /\ UNCHANGED <<scene, hooks, events, outside, presses, aimed>>

Requeued(s, m) ==
    [s EXCEPT !.inFlight = NoMessage, !.started = FALSE, !.queue = <<m>> \o @]

(* A slash command comes to its end; when it throws, the queue takes it    *)
(* back.                                                                   *)
CommandEnds(m) ==
    /\ call[m].step = "command"
    /\ call' = [call EXCEPT ![m] = Quiet]
    /\ \/ taken' = [taken EXCEPT ![m] = @ + 1] /\ ui' = ui
       \/ /\ "throw" \in scene.faults /\ call[m].from = "queue"
          /\ ui' = Requeued(ui, m) /\ UNCHANGED taken
    /\ UNCHANGED <<scene, shown, hooks, requests, events, server, items, ghosts>>

(* A question to the user comes, or is answered.                           *)
Pause ==
    /\ "pause" \in scene.faults
    /\ ui' = [ui EXCEPT !.paused = ~@]
    /\ UNCHANGED <<scene, shown, hooks, call, requests, events, outside, ghosts>>

----------------------------------------------------------------------------
(* Answers.                                                                *)

Ev(kind, turn) == [kind |-> kind, turn |-> turn]

(* The end of the turn has been handled.                                   *)
Over(turn) ==
    /\ turn \in server.ended
    /\ \A i \in 1..Len(events) :
          ~(events[i].turn = turn /\ events[i].kind = "completed")

(* A step puts the thread at rest before a render showed it at work.        *)
Unseen == IF ui.processing /\ ~shown.processing /\ ~ui'.processing
          THEN {"unseen turn"} ELSE {}

(* What sendMessageToThread and startReviewTarget dispatch, and whether    *)
(* handleSend, which saw a turn run, queues the message.                   *)
AnswerHandled(m) ==
    LET c == call[m] IN
    /\ c.step \in {"ok", "failed", "stale"}
    /\ call' = [call EXCEPT ![m] = Quiet]
    /\ \/ c.step = "ok" /\ c.mode # "review" /\ ui' = SetTurn(ui, c.turn)
       \/ c.step = "ok" /\ c.mode = "review" /\ ui' = ui
       \/ c.step = "failed" /\ c.mode = "start" /\ ui' = Stopped(ui)
       \/ /\ c.step = "failed" /\ c.mode = "review"
          /\ \/ ui' = Review(Stopped(ui), FALSE)          \* an error in the answer
             \/ ui' = Review(Mark(ui, FALSE), FALSE)      \* a rejected invocation
       \/ /\ c.mode = "steer" /\ c.step \in {"failed", "stale"}
          /\ LET s == IF c.step = "stale" THEN Stopped(ui) ELSE ui
             IN  ui' = [s EXCEPT !.queue = Append(@, m)]
    /\ blame' = blame
         \cup (IF c.step = "ok" /\ c.mode # "review" /\ (Over(c.turn) \/ c.turn # server.last)
               THEN {"late answer"} ELSE {})
         \cup (IF c.step = "failed" /\ c.mode = "steer" THEN {"failed steer"} ELSE {})
         \cup (IF c.step = "stale" THEN {"stale steer"} ELSE {})
         \cup Unseen
    /\ UNCHANGED <<scene, shown, hooks, requests, events, outside, presses, aimed>>

(* Mutant: the stop is forgotten.                                          *)
NotAwaited == pending

(* What a stop that does not know the turn remembers.                      *)
Awaited == pending \/ shown.turn = NoTurn

(* interruptTurn, from the stop button, which is there while the thread is *)
(* shown as processing.                                                    *)
Interrupt ==
    /\ presses < scene.presses /\ shown.processing
    /\ ui' = Stopped(ui)
    /\ pending' = Awaited
    /\ aimed' = IF shown.turn = NoTurn
                THEN {m \in Messages :
                        \/ call[m].step \in {"ensuring", "asked"} /\ call[m].mode # "steer"
                        \/ \E t \in Turns : /\ server.startedFor[t] = m
                                           /\ Ev("started", t) \in Members(events)}
                ELSE aimed
    /\ requests' = Append(requests, Halt(shown.turn))
    /\ presses' = presses + 1
    /\ UNCHANGED <<scene, shown, refs, loaded, call, events, outside, blame>>

----------------------------------------------------------------------------
(* Events.                                                                 *)

(* Mutant: the active turn is taken from the last render alone.            *)
EndsAsShown(e) == e.turn = NoTurn \/ shown.turn \in {e.turn, NoTurn}

Ends(e) == e.turn = NoTurn \/ LatestTurn(refs, shown.turn) \in {e.turn, NoTurn}

TurnStarted(e) ==
    /\ e.kind = "started"
    /\ IF pending
       THEN /\ pending' = FALSE
            /\ requests' = Append(requests, Halt(e.turn))
            /\ UNCHANGED <<ui, refs>>
       ELSE /\ ui' = SetTurn(Mark(ui, TRUE), e.turn)
            /\ refs' = [imm |-> e.turn, last |-> shown.turn, opt |-> TRUE]
            /\ UNCHANGED <<pending, requests>>
    /\ UNCHANGED loaded

TurnCompleted(e) ==
    /\ e.kind = "completed"
    /\ IF Ends(e)
       THEN ui' = Stopped(ui) /\ refs' = Forget(Latest(refs, shown.turn))
            /\ pending' = FALSE
       ELSE refs' = Latest(refs, shown.turn) /\ UNCHANGED <<ui, pending>>
    /\ UNCHANGED <<loaded, requests>>

TurnError(e) ==
    /\ e.kind \in {"error", "retry"}
    /\ IF e.kind = "retry"
       THEN UNCHANGED <<ui, refs>>
       ELSE IF Ends(e)
            THEN ui' = Review(Stopped(ui), FALSE)
                 /\ refs' = Forget(Latest(refs, shown.turn))
            ELSE refs' = Latest(refs, shown.turn) /\ UNCHANGED ui
    /\ UNCHANGED <<pending, loaded, requests>>

(* item/started and the deltas mark the thread as processing; the items of *)
(* a review enter and leave it.                                            *)
ItemEvent(e) ==
    /\ \/ e.kind = "item" /\ ui' = Mark(ui, TRUE)
       \/ e.kind = "entered" /\ ui' = Review(Mark(ui, TRUE), TRUE)
       \/ e.kind = "exited" /\ ui' = Review(Mark(ui, FALSE), FALSE)
    /\ UNCHANGED <<refs, pending, loaded, requests>>

ThreadStatusChanged(e) ==
    /\ \/ e.kind = "active" /\ ui' = Mark(ui, TRUE) /\ UNCHANGED <<refs, pending>>
       \/ /\ e.kind = "idle" /\ ui' = Stopped(ui)
          /\ refs' = Forget(refs) /\ pending' = FALSE
    /\ UNCHANGED <<loaded, requests>>

ThreadClosed(e) ==
    /\ e.kind = "closed"
    /\ ui' = Review(Stopped(ui), FALSE)
    /\ refs' = Forget(refs) /\ pending' = FALSE /\ loaded' = FALSE
    /\ UNCHANGED requests

HandleEvent ==
    /\ events # <<>>
    /\ LET e == Head(events) IN
       \/ TurnStarted(e) \/ TurnCompleted(e) \/ TurnError(e)
       \/ ItemEvent(e) \/ ThreadStatusChanged(e) \/ ThreadClosed(e)
    /\ events' = Tail(events)
    /\ blame' = blame \cup Unseen
         \cup (IF pending /\ ~pending' /\ Head(events).kind # "started"
               THEN {"old end"} ELSE {})
    /\ UNCHANGED <<scene, shown, call, outside, presses, aimed>>

----------------------------------------------------------------------------
(* The server, external.                                                   *)

Told(kinds) == IF "status" \in scene.faults THEN kinds ELSE <<>>

Served(m) ==
    /\ requests # <<>> /\ Head(requests).msg = m
    /\ requests' = Tail(requests)

(* It starts a turn, or obeys without its answer getting through.          *)
ServeStart(m) ==
    LET c == call[m]  t == server.last + 1 IN
    /\ Served(m) /\ c.mode \in {"start", "review"}
    /\ server.running = NoTurn /\ server.last < MaxTurns
    /\ server' = [server EXCEPT !.running = t, !.last = t,
                                !.reviewing = (c.mode = "review"),
                                !.startedFor[t] = m]
    /\ events' = events \o Told(<<Ev("active", NoTurn)>>) \o <<Ev("started", t)>>
                   \o (IF c.mode = "review" THEN <<Ev("entered", t)>> ELSE <<>>)
    /\ taken' = [taken EXCEPT ![m] = @ + 1]
    /\ \/ call' = [call EXCEPT ![m].step = "ok", ![m].turn = t]
       \/ "lose" \in scene.faults /\ call' = [call EXCEPT ![m].step = "failed"]
    /\ UNCHANGED <<scene, ui, shown, hooks, items, ghosts>>

(* It steers the turn that is named, if that one runs.                     *)
ServeSteer(m) ==
    LET c == call[m] IN
    /\ Served(m) /\ c.mode = "steer"
    /\ IF c.turn = server.running
       THEN /\ taken' = [taken EXCEPT ![m] = @ + 1]
            /\ \/ call' = [call EXCEPT ![m].step = "ok"]
               \/ "lose" \in scene.faults /\ call' = [call EXCEPT ![m].step = "failed"]
       ELSE call' = [call EXCEPT ![m].step = "stale"] /\ UNCHANGED taken
    /\ UNCHANGED <<scene, ui, shown, hooks, events, server, items, ghosts>>

(* It refuses: a turn runs already, or for reasons of its own.             *)
Refuse(m) ==
    /\ Served(m)
    /\ \/ call[m].mode # "steer" /\ server.running # NoTurn
       \/ "fail" \in scene.faults
    /\ call' = [call EXCEPT ![m].step = "failed"]
    /\ aimed' = IF m \in aimed THEN {} ELSE aimed     \* no turn starts for it
    /\ UNCHANGED <<scene, ui, shown, hooks, events, outside, presses, blame>>

(* It works on the turn.                                                   *)
ServeItem(kind) ==
    /\ server.running # NoTurn /\ items < scene.items
    /\ kind \in {"item", "retry"}
    /\ events' = Append(events, Ev(kind, server.running))
    /\ items' = items + 1
    /\ UNCHANGED <<scene, ui, shown, hooks, call, requests, server, taken, ghosts>>

Ended(errors) ==
    /\ server' = [server EXCEPT !.running = NoTurn, !.reviewing = FALSE,
                                !.ended = @ \cup {server.running}]
    /\ events' = events
         \o (IF server.reviewing THEN <<Ev("exited", server.running)>> ELSE <<>>)
         \o errors \o <<Ev("completed", server.running)>>
         \o Told(<<Ev("idle", NoTurn)>>)

(* The turn ends, well or with an error.                                   *)
EndTurn ==
    /\ server.running # NoTurn
    /\ \/ Ended(<<>>)
       \/ "fail" \in scene.faults /\ Ended(<<Ev("error", server.running)>>)
    /\ UNCHANGED <<scene, ui, shown, hooks, call, requests, items, taken, ghosts>>

(* It sees a request to interrupt; only the turn it runs can be named.     *)
ServeInterrupt ==
    /\ Served(NoMessage)
    /\ IF server.running # NoTurn /\ Head(requests).turn = server.running
       THEN Ended(<<>>)
       ELSE UNCHANGED <<server, events>>
    /\ UNCHANGED <<scene, ui, shown, hooks, call, items, taken, ghosts>>

(* It unloads a thread that is at rest.                                    *)
CloseThread ==
    /\ "close" \in scene.faults /\ server.running = NoTurn /\ loaded
    /\ \A i \in 1..Len(events) : events[i].kind # "closed"
    /\ events' = Append(events, Ev("closed", NoTurn))
    /\ UNCHANGED <<scene, ui, shown, hooks, call, requests, outside, ghosts>>

----------------------------------------------------------------------------
Init ==
    /\ scene \in Scenes
    /\ ui = [processing |-> FALSE, reviewing |-> FALSE, turn |-> NoTurn,
             queue |-> <<>>, inFlight |-> NoMessage, started |-> FALSE,
             paused |-> FALSE]
    /\ shown = ui
    /\ refs = [imm |-> Unset, last |-> Unset, opt |-> FALSE]
    /\ pending = FALSE /\ loaded = TRUE
    /\ call = [m \in Messages |-> Quiet]
    /\ requests = <<>> /\ events = <<>>
    /\ server = [running |-> NoTurn, last |-> 0, reviewing |-> FALSE, ended |-> {},
                 startedFor |-> [t \in Turns |-> NoMessage]]
    /\ items = 0 /\ presses = 0
    /\ taken = [m \in Messages |-> 0]
    /\ aimed = {} /\ blame = {}

User ==
    \/ \E m \in Messages, wish \in {"queue", "steer"} : HandleSend(m, wish)
    \/ \E m \in Messages : QueueMessage(m) \/ RemoveQueued(m)
    \/ Interrupt \/ Pause

Answers == \E m \in Messages : AnswerHandled(m) \/ CommandEnds(m) \/ Ensured(m)

Serve ==
    \/ \E m \in Messages : ServeStart(m) \/ ServeSteer(m) \/ Refuse(m)
    \/ ServeInterrupt

Next ==
    \/ User \/ Render \/ Answers \/ HandleEvent \/ Serve
    \/ \E kind \in {"item", "retry"} : ServeItem(kind)
    \/ EndTurn \/ CloseThread

(* React renders what was dispatched, events and answers are handled, the  *)
(* server serves requests and ends its turns.                              *)
Fairness ==
    /\ WF_vars(Render) /\ WF_vars(Answers) /\ WF_vars(HandleEvent)
    /\ WF_vars(Serve) /\ WF_vars(EndTurn)

Spec == Init /\ [][Next]_vars /\ Fairness

----------------------------------------------------------------------------
AtRest ==
    /\ server.running = NoTurn /\ events = <<>> /\ requests = <<>>
    /\ \A m \in Messages : call[m].step = "none"

(* An answer that was handled after the end of its turn, and a steer that   *)
(* was refused for another reason than a stale turn: each leaves the status *)
(* of the thread wrong for good.                                            *)
Disordered == blame \cap {"late answer", "failed steer"} # {}

(* When the server runs no turn and every event, request and answer has    *)
(* been handled, the window shows the thread at rest: not processing, not  *)
(* reviewing, with no active turn.  It relates the reducer's status to the *)
(* server's over every order in which answers, events and renders come.    *)
IdleAtRest ==
    AtRest /\ ~Disordered => ~ui.processing /\ ~ui.reviewing /\ ui.turn = NoTurn

(* The server takes no message twice, whatever the retries of handleSend   *)
(* and of the queue, unless an answer was lost: a message goes back to the *)
(* queue only when the server has not taken it.                            *)
TakenOnce == \A m \in Messages : taken[m] > 1 => "lose" \in scene.faults

(* No message was started beside one that was being started, no steer      *)
(* failed, and no end of an older turn let go of a stop: pendingInterrupts  *)
(* holds one flag for the thread, and each of these makes two messages      *)
(* claim it or takes it away.                                              *)
Unblamed == blame \cap {"failed steer", "stale steer", "double start", "old end"} = {}

(* A stop that had to wait for the start of its turn (pendingInterruptsRef) *)
(* is neither lost nor kept: when the only press of the button found one    *)
(* message being started, the turn of that message is interrupted as soon   *)
(* as it is told of, and no other turn is.  The disorders of Unblamed break *)
(* it, and so does a second press, since one flag per thread cannot hold    *)
(* two stops, nor know a turn whose start it consumed.                      *)
StopsItsOwnTurn ==
    [][events # <<>> /\ events' = Tail(events) /\ Head(events).kind = "started"
          /\ presses = 1 /\ aimed # {} /\ (\A m, n \in aimed : m = n)
          /\ Unblamed
       => LET turn == Head(events).turn IN
          requests' = Append(requests, Halt(turn)) <=> server.startedFor[turn] \in aimed]_vars

(* A message the queue sent and whose turn could not be started goes back  *)
(* to the queue, to be sent again.                                         *)
FailedSendRetried ==
    [][\A m \in Messages :
          call[m].step = "failed" /\ call[m].from = "queue" /\ call'[m].step = "none"
             => m \in Members(ui'.queue)]_vars

(* What is queued is sent in the end: the effects of useQueuedSend are     *)
(* woken by every end of a turn.  Between the send and the end of its turn  *)
(* they must see one render of the thread at work ("unseen turn"), or the   *)
(* message stays in flight and blocks the others.                          *)
QueueDrains ==
    \A m \in Messages :
        m \in Members(ui.queue)
          ~> (m \notin Members(ui.queue) \/ Disordered \/ "unseen turn" \in blame)
----------------------------------------------------------------------------
(* The scenes TLC plays, of two messages and as many turns.                *)
First == CHOOSE m \in Messages : TRUE
Both(k1, k2) == [m \in Messages |-> IF m = First THEN k1 ELSE k2]
Play(kinds, faults, nItems, nPresses) ==
    [kind |-> kinds, faults |-> faults, items |-> nItems, presses |-> nPresses]

(* Nothing fails: what the queue takes must leave it.                      *)
MCCalmScenes ==
    {Play(Both("text", "text"), {}, 1, 0),
     Play(Both("text", "review"), {}, 0, 0),
     Play(Both("review", "review"), {}, 0, 0)}

(* What can go wrong, each fault with the messages it concerns.            *)
MCScenes ==
    MCCalmScenes \cup
    {Play(Both("text", "text"), {}, 0, 1),
     Play(Both("text", "text"), {"fail"}, 0, 0),
     Play(Both("text", "text"), {"status", "remove"}, 0, 0),
     Play(Both("text", "text"), {"close"}, 0, 0),
     Play(Both("text", "review"), {"fail"}, 0, 0),
     Play(Both("text", "command"), {"throw", "pause"}, 0, 0),
     Play(Both("text", "refused"), {"fail", "lose"}, 0, 1)}

(* In the scenes where nothing fails what is queued is sent in the end: the *)
(* effects of useQueuedSend are woken by every end of a turn.              *)
CalmQueueDrains == scene \in MCCalmScenes => QueueDrains
=============================================================================
