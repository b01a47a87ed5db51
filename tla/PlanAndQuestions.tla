--------------------------- MODULE PlanAndQuestions ---------------------------
(***************************************************************************)
(* What an agent asks below the messages of its thread: questions with        *)
(* answers to choose or to type (RequestUserInputMessage,                    *)
(* useThreadUserInput), and what to do with a plan that is ready             *)
(* (computePlanFollowupState, PlanReadyFollowupMessage, usePlanReadyActions). *)
(* One component shows the messages of whatever thread is looked at.         *)
(***************************************************************************)
EXTENDS Naturals, Sequences, FiniteSets
LOCAL INSTANCE SequencesExt

CONSTANTS
    Threads,        \* threads of one workspace
    None,
    MaxEvents,      \* bound: events of the agents and the server
    MaxSteps        \* bound: what the user does

VARIABLES
    looked,         \* activeThreadId
    asked,          \* state.userInputRequests
    form,           \* RequestUserInputMessage: the request it is for, what is typed
    plan,           \* per thread: the latest plan item, a message of the user after it, isThinking
    follow,         \* dismissedPlanFollowupByThread; changes of PlanReadyFollowupMessage
    mode,           \* collaborationModeId of each thread
    calls,          \* calls under way
    world,          \* questions the server still waits for; the workspace is connected
    noted           \* history

vars == <<looked, asked, form, plan, follow, mode, calls, world, noted>>

Plans == 0..MaxEvents
Tones == {"processing", "completed", "failed"}
Modes == {"default", "plan"}
Questions == [id : 1..MaxEvents, thread : Threads]
Typed == [thread : Threads, of : Plans]       \* a text is known by what it was typed for
Calls == [do : {"answer", "connect", "send"}, thread : Threads, of : Plans, text : Typed \cup {None}, mode : Modes]

TypeOK ==
    /\ looked \in Threads
    /\ \A i \in DOMAIN asked : asked[i] \in Questions
    /\ form \in [of : Questions \cup {None}, text : Typed \cup {None}]
    /\ plan \in [Threads -> [n : Plans, tone : Tones, said : BOOLEAN, thinking : BOOLEAN]]
    /\ follow.dismissed \in [Threads -> Plans] /\ follow.text \in Typed \cup {None}
    /\ mode \in [Threads -> Modes]
    /\ \A i \in DOMAIN calls : calls[i] \in Calls
    /\ world.waits \subseteq Questions /\ world.connected \in BOOLEAN
    /\ noted.steps \in 0..MaxSteps /\ noted.events \in 0..MaxEvents

----------------------------------------------------------------------------
(* The first question of the thread looked at; the plan of a thread is asked   *)
(* about when it is there, did not fail, is complete or its turn is over, no  *)
(* message of the user follows it, no question is shown and it was not        *)
(* dismissed.                                                               *)
ActiveRequest(as, t) ==
    LET own == SelectSeq(as, LAMBDA q : q.thread = t) IN IF own = <<>> THEN None ELSE Head(own)
ComputePlanFollowupState(as, p, t) ==
    /\ ActiveRequest(as, t) = None
    /\ p[t].n # 0 /\ p[t].tone # "failed" /\ ~p[t].said
    /\ p[t].thinking => p[t].tone = "completed"
PlanFollowup(as, p, t, f) == ComputePlanFollowupState(as, p, t) /\ f.dismissed[t] # p[t].n

(* What is typed is thrown away when another question is shown, or the one    *)
(* about the plan goes.                                                     *)
FormFor(as, t) == IF ActiveRequest(as, t) = form.of THEN form ELSE [of |-> ActiveRequest(as, t), text |-> None]
FollowFor(as, p, t, f) == IF PlanFollowup(as, p, t, f) THEN f ELSE [f EXCEPT !.text = None]
Render(t, as, p, f) ==
    /\ looked' = t /\ asked' = as /\ plan' = p
    /\ form' = FormFor(as, t) /\ follow' = FollowFor(as, p, t, f)

Step == noted.steps < MaxSteps
Event == noted.events < MaxEvents
Stepped == [noted EXCEPT !.steps = @ + 1]
Happened == [noted EXCEPT !.events = @ + 1]
Here == [thread |-> looked, of |-> plan[looked].n]

Connecting == \E i \in DOMAIN calls : calls[i].do = "connect"

Carried ==
    /\ PlanFollowup(asked, plan, looked, follow)
    /\ PlanFollowup(asked', plan', looked', follow')
    /\ follow'.text \notin {None, [thread |-> looked', of |-> plan'[looked'].n]}

LookAt(t) ==
    /\ Step /\ t # looked /\ Render(t, asked, plan, follow)
    /\ noted' = [Stepped EXCEPT
          !.moved = @ \/ Connecting,
          !.carried = @ \/ Carried]
    /\ UNCHANGED <<mode, calls, world>>

(* Events: a question, a plan that is streamed, completed or fails, the end    *)
(* of a turn, a message of the user written elsewhere.                       *)
AddUserInputRequest(t) ==
    LET q == [id |-> noted.events + 1, thread |-> t]
    IN  /\ Event /\ Render(looked, Append(asked, q), plan, follow)
        /\ world' = [world EXCEPT !.waits = @ \cup {q}] /\ noted' = Happened
        /\ UNCHANGED <<mode, calls>>
PlanEvent(t) ==
    /\ Event
    /\ \E p \in {[n |-> noted.events + 1, tone |-> "processing", said |-> FALSE, thinking |-> TRUE],
                 [n |-> noted.events + 1, tone |-> "completed", said |-> FALSE, thinking |-> TRUE],
                 [plan[t] EXCEPT !.tone = "completed"], [plan[t] EXCEPT !.tone = "failed"],
                 [plan[t] EXCEPT !.thinking = FALSE], [plan[t] EXCEPT !.said = TRUE]} :
          p # plan[t] /\ p.n # 0 /\ Render(looked, asked, [plan EXCEPT ![t] = p], follow)
    /\ noted' = [Happened EXCEPT !.carried = @ \/ Carried]
    /\ UNCHANGED <<mode, calls, world>>

----------------------------------------------------------------------------
(* handleSelect, handleNotesChange, handleSubmit, handleUserInputSubmit.       *)
Call(do, t, of, text, m) == [do |-> do, thread |-> t, of |-> of, text |-> text, mode |-> m]
TypeAnswer ==
    /\ form.of # None /\ form.text = None
    /\ form' = [form EXCEPT !.text = [thread |-> looked, of |-> form.of.id]]
    /\ UNCHANGED <<looked, asked, plan, follow, mode, calls, world, noted>>
HandleSubmit ==
    /\ Step /\ form.of # None
    /\ calls' = Append(calls, Call("answer", form.of.thread, form.of.id, form.text, "default"))
    /\ noted' = Stepped
    /\ UNCHANGED <<looked, asked, form, plan, follow, mode, world>>
Answered(i) ==
    LET q == [id |-> calls[i].of, thread |-> calls[i].thread]
    IN  /\ calls[i].do = "answer" /\ calls' = RemoveAt(calls, i)
        /\ world' = [world EXCEPT !.waits = @ \ {q}]
        /\ noted' = [noted EXCEPT !.sent = @ \cup {calls[i]}]
        /\ Render(looked, SelectSeq(asked, LAMBDA r : r # q), plan, follow)
        /\ mode' = mode

(* The user answers what to do with the plan: its question is dismissed, the   *)
(* workspace connected if it is not, the mode set and the thread written to.  *)
TypeChanges ==
    /\ PlanFollowup(asked, plan, looked, follow) /\ follow.text = None
    /\ follow' = [follow EXCEPT !.text = Here]
    /\ UNCHANGED <<looked, asked, form, plan, mode, calls, world, noted>>
SetsMode(m) == [mode EXCEPT ![looked] = m]
Answers(text, m) ==
    /\ PlanFollowup(asked, plan, looked, follow)
    /\ Render(looked, asked, plan, [dismissed |-> [follow.dismissed EXCEPT ![looked] = plan[looked].n], text |-> None])
    /\ calls' = Append(calls, Call(IF world.connected THEN "send" ELSE "connect", looked, plan[looked].n, text, m))
    /\ mode' = IF world.connected THEN SetsMode(m) ELSE mode
    /\ noted' = [Stepped EXCEPT !.wanted[looked] = m, !.moved = @ \/ Connecting]
    /\ world' = world
HandlePlanAccept == Step /\ Answers(None, "default")
HandlePlanSubmitChanges == Step /\ follow.text # None /\ Answers(follow.text, "plan")
PlanGoesOn(i) ==
    /\ calls[i].do = "connect" /\ calls' = [calls EXCEPT ![i].do = "send"]
    /\ world' = [world EXCEPT !.connected = TRUE] /\ mode' = SetsMode(calls[i].mode)
    /\ UNCHANGED <<looked, asked, form, plan, follow, noted>>
Sent(i) ==
    LET t == calls[i].thread
    IN  /\ calls[i].do = "send" /\ calls' = RemoveAt(calls, i)
        /\ Render(looked, asked, [plan EXCEPT ![t].said = TRUE, ![t].thinking = TRUE], follow)
        /\ noted' = [noted EXCEPT !.sent = @ \cup {calls[i]}]
        /\ UNCHANGED <<mode, world>>
Fails(i) ==
    /\ calls' = RemoveAt(calls, i)
    /\ noted' = [noted EXCEPT !.lost = @ \cup {calls[i]}]
    /\ UNCHANGED <<looked, asked, form, plan, follow, mode, world>>

Init ==
    /\ looked \in Threads /\ asked = <<>> /\ form = [of |-> None, text |-> None]
    /\ plan = [t \in Threads |-> [n |-> 0, tone |-> "processing", said |-> FALSE, thinking |-> FALSE]]
    /\ follow = [dismissed |-> [t \in Threads |-> 0], text |-> None]
    /\ mode = [t \in Threads |-> "plan"] /\ calls = <<>>
    /\ \E c \in BOOLEAN : world = [waits |-> {}, connected |-> c]
    /\ noted = [steps |-> 0, events |-> 0, moved |-> FALSE, carried |-> FALSE, sent |-> {}, lost |-> {},
                wanted |-> [t \in Threads |-> "plan"]]

Next ==
    \/ \E t \in Threads : LookAt(t) \/ AddUserInputRequest(t) \/ PlanEvent(t)
    \/ TypeAnswer \/ HandleSubmit \/ TypeChanges \/ HandlePlanAccept \/ HandlePlanSubmitChanges
    \/ \E i \in DOMAIN calls : Answered(i) \/ PlanGoesOn(i) \/ Sent(i) \/ Fails(i)

Spec == Init /\ [][Next]_vars

----------------------------------------------------------------------------
(* An answer has the text that was typed for its question or plan, unless the  *)
(* one about the plan stayed, with what was typed, while the thread or the     *)
(* plan changed; and what the server waits for is asked, and nothing else.     *)
TextsAreOfTheirQuestion ==
    /\ \A c \in noted.sent :
          c.text # None => c.text = [thread |-> c.thread, of |-> c.of] \/ (c.do = "send" /\ noted.carried)
    /\ ToSet(asked) = world.waits

(* A plan is dismissed by what the user answered: the thread was told, or its  *)
(* call is under way, or failed: then nobody asks again.  And each thread has  *)
(* the mode its last answer wanted, unless the user looked at another thread  *)
(* or answered again while the workspace was being connected, or that failed. *)
Told(t, n, cs) == \E c \in cs : c.thread = t /\ c.of = n /\ c.do # "answer"
PlansAreAnswered ==
    /\ \A t \in Threads :
          LET n == follow.dismissed[t]
          IN  n # 0 => Told(t, n, ToSet(calls)) \/ Told(t, n, noted.sent \cup noted.lost)
    /\ ~noted.moved /\ {c \in noted.lost \cup ToSet(calls) : c.do = "connect"} = {} =>
          \A t \in Threads : mode[t] = noted.wanted[t]
=============================================================================
