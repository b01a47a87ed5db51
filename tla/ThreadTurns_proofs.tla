------------------------- MODULE ThreadTurns_proofs -------------------------
(***************************************************************************)
(* Theorems about ThreadTurns, for any messages, scenes and number of      *)
(* turns: types, that no message is taken twice by the server, that the    *)
(* window is at rest when the server is, and that a stop that waits        *)
(* interrupts its own turn.  The second follows a message from the         *)
(* composer to the server: it is queued once at most, and while it is      *)
(* queued no send of it is under way.  The third says what each call and   *)
(* each event under way will still do to the status.  The fourth says      *)
(* which start of a turn the window is told of next while a stop waits.    *)
(***************************************************************************)
EXTENDS ThreadTurns, TLAPS

Server == [running : TurnOrNone, last : 0..MaxTurns, reviewing : BOOLEAN,
           ended : SUBSET Turns, startedFor : [Turns -> Messages \cup {NoMessage}]]
Refs == [imm : TurnOrNone \cup {Unset}, last : TurnOrNone \cup {Unset}, opt : BOOLEAN]
Disorders == {"late answer", "failed steer", "double start", "stale steer",
              "unseen turn", "old end"}

(* The parts of TypeOK that steps touch together. *)
WindowOK == ui \in Status /\ shown \in Status
HooksOK  == refs \in Refs /\ pending \in BOOLEAN /\ loaded \in BOOLEAN
CallsOK  == call \in [Messages -> Call] /\ requests \in Seq(Request)
ServerOK == server \in Server /\ items \in 0..scene.items /\ taken \in [Messages -> Nat]
GhostsOK == presses \in 0..scene.presses /\ aimed \subseteq Messages /\ blame \subseteq Disorders

LEMMA TypeParts ==
  /\ TypeOK <=> /\ scene \in Scenes /\ WindowOK /\ HooksOK /\ CallsOK
                /\ events \in Seq(Event) /\ ServerOK /\ GhostsOK
  /\ TypeOK' <=> /\ scene' \in Scenes /\ WindowOK' /\ HooksOK' /\ CallsOK'
                 /\ events' \in Seq(Event) /\ ServerOK' /\ GhostsOK'
BY DEF TypeOK, WindowOK, HooksOK, CallsOK, ServerOK, GhostsOK, Server, Refs, Disorders

(* A part that is left alone keeps its type. *)
LEMMA PartsStill ==
  /\ WindowOK /\ UNCHANGED <<ui, shown>> => WindowOK'
  /\ HooksOK /\ UNCHANGED hooks => HooksOK'
  /\ CallsOK /\ UNCHANGED <<call, requests>> => CallsOK'
  /\ ServerOK /\ UNCHANGED <<scene, outside>> => ServerOK'
  /\ GhostsOK /\ UNCHANGED <<scene, ghosts>> => GhostsOK'
BY DEF WindowOK, HooksOK, CallsOK, ServerOK, GhostsOK, hooks, outside, ghosts

(* What the reducer's actions return, and that they leave the queue alone. *)
LEMMA StatusOps ==
  ASSUME NEW s \in Status
  PROVE  /\ \A b \in BOOLEAN : Mark(s, b) \in Status /\ Mark(s, b).queue = s.queue
         /\ \A b \in BOOLEAN : Review(s, b) \in Status /\ Review(s, b).queue = s.queue
         /\ \A t \in TurnOrNone : SetTurn(s, t) \in Status /\ SetTurn(s, t).queue = s.queue
         /\ Stopped(s) \in Status /\ Stopped(s).queue = s.queue
         /\ \A mode : Begun(s, mode) \in Status /\ Begun(s, mode).queue = s.queue
         /\ Followed(s) \in Status /\ Followed(s).queue = s.queue
BY DEF Mark, Review, Status, SetTurn, Stopped, TurnOrNone, Begun, Followed

(* What changes the queue. *)
LEMMA QueueOps ==
  ASSUME NEW s \in Status, NEW q \in Seq(Messages)
  PROVE  [s EXCEPT !.queue = q] \in Status /\ [s EXCEPT !.queue = q].queue = q
BY DEF Status

LEMMA Queued ==
  ASSUME NEW s \in Status, NEW m \in Messages
  PROVE  /\ [s EXCEPT !.queue = Append(@, m)] \in Status
         /\ [s EXCEPT !.queue = Append(@, m)].queue = Append(s.queue, m)
BY QueueOps DEF Status

LEMMA WithoutType ==
  ASSUME NEW q \in Seq(Messages), NEW m
  PROVE  Without(q, m) \in Seq(Messages)
<1> SUFFICES ASSUME m \in Members(q) PROVE Without(q, m) \in Seq(Messages)
  BY DEF Without
<1> DEFINE i == CHOOSE i \in 1..Len(q) : q[i] = m
<1>1. i \in 1..Len(q)
  BY DEF Members
<1>2. Without(q, m) = [j \in 1..Len(q) - 1 |-> IF j < i THEN q[j] ELSE q[j + 1]]
  BY DEF Without
<1> HIDE DEF i
<1>3. Len(q) - 1 \in Nat /\ \A j \in 1..Len(q) - 1 : (IF j < i THEN q[j] ELSE q[j + 1]) \in Messages
  BY <1>1
<1>4. QED
  BY <1>2, <1>3

LEMMA FlushedType ==
  ASSUME NEW s \in Status, s.queue # <<>>
  PROVE  /\ Flushed(s) \in Status /\ Flushed(s).queue = Tail(s.queue)
         /\ Head(s.queue) \in Messages
<1>1. s.queue \in Seq(Messages)
  BY DEF Status
<1>2. Tail(s.queue) \in Seq(Messages) /\ Head(s.queue) \in Messages
  BY <1>1
<1>3. QED
  BY <1>2 DEF Flushed, Status

LEMMA RequeuedType ==
  ASSUME NEW s \in Status, NEW m \in Messages
  PROVE  Requeued(s, m) \in Status /\ Requeued(s, m).queue = <<m>> \o s.queue
<1>1. s.queue \in Seq(Messages)
  BY DEF Status
<1>2. <<m>> \o s.queue \in Seq(Messages)
  BY <1>1
<1>3. QED
  BY <1>2 DEF Requeued, Status

LEMMA RefsOps ==
  ASSUME NEW r \in Refs, NEW t \in TurnOrNone
  PROVE  Latest(r, t) \in Refs /\ Forget(r) \in Refs /\ Forget(Latest(r, t)) \in Refs
BY DEF Latest, Refs, Forget, TurnOrNone

LEMMA RequestTypes ==
  /\ \A m \in Messages : Send(m) \in Request
  /\ \A t \in TurnOrNone : Halt(t) \in Request
BY DEF Send, Halt, Request, TurnOrNone

LEMMA EventTypes ==
  \A k \in {"started", "item", "entered", "exited", "completed", "error",
            "retry", "active", "idle", "closed"} :
    \A t \in TurnOrNone : Ev(k, t) \in Event
BY DEF Ev, Event

(* A message that is launched, in terms of queue, call and requests.       *)
LEMMA Launched ==
  ASSUME CallsOK, NEW m \in Messages, NEW from \in {"user", "queue"},
         NEW s \in Status, NEW c \in Status, Launch(m, from, s, c)
  PROVE  /\ ui' \in Status /\ ui'.queue = s.queue /\ CallsOK'
         /\ \A x \in Messages \ {m} : call'[x] = call[x]
         /\ \/ call' = call /\ requests' = requests
            \/ call'[m].step \in {"ensuring", "command"} /\ requests' = requests
            \/ call'[m].step = "asked" /\ requests' = Append(requests, Send(m))
<1>1. CASE Kind(m) = "refused"
  BY <1>1 DEF Launch, CallsOK
<1>2. CASE Kind(m) # "refused"
  <2> DEFINE mode == IF Kind(m) = "review" THEN "review"
                     ELSE IF CanSteer(c) THEN "steer" ELSE "start"
             step == IF Kind(m) = "command" THEN "command"
                     ELSE IF loaded THEN "asked" ELSE "ensuring"
             new  == [step |-> step, mode |-> mode, turn |-> c.turn, from |-> from]
  <2>1. /\ call' = [call EXCEPT ![m] = new]
        /\ IF step = "asked"
           THEN ui' = Begun(s, mode) /\ requests' = Append(requests, Send(m))
           ELSE ui' = s /\ requests' = requests
    BY <1>2 DEF Launch
  <2>2. mode \in {"start", "steer", "review"} /\ step \in {"asked", "ensuring", "command"}
    OBVIOUS
  <2> HIDE DEF mode, step
  <2>3. new \in Call /\ new.step = step
    BY <2>2 DEF Call, Status
  <2> HIDE DEF new
  <2>4. call' \in [Messages -> Call] /\ call'[m] = new /\ \A x \in Messages \ {m} : call'[x] = call[x]
    BY <2>1, <2>3 DEF CallsOK
  <2>5. ui' \in Status /\ ui'.queue = s.queue
    BY <2>1, StatusOps
  <2>6. requests' \in Seq(Request)
    BY <2>1, RequestTypes DEF CallsOK
  <2>7. QED
    BY <2>1, <2>2, <2>3, <2>4, <2>5, <2>6 DEF CallsOK
<1>3. QED
  BY <1>1, <1>2

LEMMA TypeInit == Init => TypeOK
<1> SUFFICES ASSUME Init PROVE TypeOK
  OBVIOUS
<1>0. scene \in Scenes /\ scene.items \in Nat /\ scene.presses \in Nat /\ MaxTurns \in Nat
  BY ConstantsAssumption DEF Init
<1>1. WindowOK
  BY DEF Init, WindowOK, Status, TurnOrNone
<1>2. HooksOK
  BY DEF Init, HooksOK, Refs
<1>3. CallsOK
  BY DEF Quiet, Call, TurnOrNone, Init, CallsOK
<1>4. ServerOK
  BY <1>0 DEF Init, ServerOK, Server, TurnOrNone
<1>5. GhostsOK /\ events \in Seq(Event)
  BY <1>0 DEF Init, GhostsOK
<1>6. QED
  BY <1>0, <1>1, <1>2, <1>3, <1>4, <1>5, TypeParts

LEMMA TypeUser ==
  ASSUME TypeOK, User
  PROVE  TypeOK'
<1>0. /\ scene \in Scenes /\ WindowOK /\ HooksOK /\ CallsOK
      /\ events \in Seq(Event) /\ ServerOK /\ GhostsOK
      /\ ui \in Status /\ shown \in Status /\ ui.queue \in Seq(Messages)
  BY TypeParts DEF WindowOK, Status
<1>1. ASSUME NEW m \in Messages, NEW wish \in {"queue", "steer"}, HandleSend(m, wish)
      PROVE  TypeOK'
  BY <1>0, <1>1, Queued, PartsStill, Launched, TypeParts DEF HandleSend, WindowOK, GhostsOK,
     Disorders
<1>2. ASSUME NEW m \in Messages, QueueMessage(m)
      PROVE  TypeOK'
  BY <1>0, <1>2, Queued, PartsStill, TypeParts DEF QueueMessage, WindowOK
<1>3. ASSUME NEW m \in Messages, RemoveQueued(m)
      PROVE  TypeOK'
  BY <1>0, <1>3, QueueOps, WithoutType, PartsStill, TypeParts DEF RemoveQueued, WindowOK
<1>4. CASE Interrupt
  <2>1. WindowOK'
    BY <1>0, <1>4, StatusOps DEF Interrupt, WindowOK
  <2>2. HooksOK'
    BY <1>0, <1>4 DEF Interrupt, HooksOK, Awaited
  <2>3. CallsOK'
    BY <1>0, RequestTypes, <1>4 DEF Status, CallsOK, Interrupt
  <2>4. GhostsOK'
    <3>1. scene.presses \in Nat
      BY <1>0, ConstantsAssumption
    <3>2. presses' \in 0..scene.presses
      BY <1>0, <1>4, <3>1 DEF Interrupt, GhostsOK
    <3>3. aimed' \subseteq Messages /\ blame' \subseteq Disorders
      BY <1>0, <1>4 DEF Interrupt, GhostsOK, Disorders
    <3>4. QED
      BY <1>4, <3>2, <3>3 DEF Interrupt, GhostsOK
  <2>5. QED
    BY <1>0, <1>4, <2>1, <2>2, <2>3, <2>4, PartsStill, TypeParts DEF Interrupt
<1>5. CASE Pause
  BY <1>0, <1>5, PartsStill, TypeParts DEF Pause, WindowOK, Status
<1>6. QED
  BY <1>1, <1>2, <1>3, <1>4, <1>5 DEF User

LEMMA TypeRender ==
  ASSUME TypeOK, Render
  PROVE  TypeOK'
BY TypeParts, FlushedType, Launched, StatusOps, PartsStill DEF WindowOK, MayFlush, Render,
   GhostsOK, Disorders

LEMMA TypeAnswers ==
  ASSUME TypeOK, Answers
  PROVE  TypeOK'
<1>0. /\ scene \in Scenes /\ WindowOK /\ HooksOK /\ CallsOK
      /\ events \in Seq(Event) /\ ServerOK /\ GhostsOK
      /\ ui \in Status /\ shown \in Status /\ ui.queue \in Seq(Messages)
  BY TypeParts DEF WindowOK, Status
<1>1. Quiet \in Call
  BY DEF Quiet, Call, TurnOrNone
<1>2. ASSUME NEW m \in Messages, AnswerHandled(m)
      PROVE  TypeOK'
  <2> DEFINE c == call[m]
  <2>1. c \in Call
    BY <1>0 DEF CallsOK
  <2>2. ui' \in Status
    <3>1. SetTurn(ui, c.turn) \in Status
      BY <1>0, <2>1, StatusOps DEF Call
    <3>2. /\ Stopped(ui) \in Status /\ Stopped(ui).queue = ui.queue
          /\ Mark(ui, FALSE) \in Status
      BY <1>0, StatusOps
    <3>3. Review(Stopped(ui), FALSE) \in Status /\ Review(Mark(ui, FALSE), FALSE) \in Status
      BY <3>2, StatusOps
    <3>4. ASSUME NEW s \in {ui, Stopped(ui)}
          PROVE  [s EXCEPT !.queue = Append(@, m)] \in Status
      BY <1>0, <3>2, Queued
    <3>5. QED
      BY <1>0, <1>2, <3>1, <3>2, <3>3, <3>4 DEF AnswerHandled
  <2>3. WindowOK'
    BY <1>0, <1>2, <2>2 DEF AnswerHandled, WindowOK
  <2>4. CallsOK'
    BY <1>0, <1>1, <1>2 DEF AnswerHandled, CallsOK
  <2>5. GhostsOK'
    BY <1>0, <1>2 DEF AnswerHandled, GhostsOK, Disorders, Unseen
  <2>6. QED
    BY <1>0, <1>2, <2>3, <2>4, <2>5, PartsStill, TypeParts DEF AnswerHandled
<1>3. ASSUME NEW m \in Messages, CommandEnds(m)
      PROVE  TypeOK'
  <2>1. WindowOK'
    BY <1>0, <1>3, RequeuedType DEF CommandEnds, WindowOK
  <2>2. CallsOK'
    BY <1>0, <1>1, <1>3 DEF CommandEnds, CallsOK
  <2>3. ServerOK'
    BY <1>0, <1>3, SMTT(20) DEF CommandEnds, ServerOK
  <2>4. QED
    BY <1>0, <1>3, <2>1, <2>2, <2>3, PartsStill, TypeParts DEF CommandEnds
<1>4. ASSUME NEW m \in Messages, Ensured(m)
      PROVE  TypeOK'
  <2>1. WindowOK'
    BY <1>0, <1>4, StatusOps DEF Ensured, WindowOK
  <2>2. HooksOK'
    BY <1>0, <1>4 DEF Ensured, HooksOK
  <2>3. CallsOK'
    BY <1>0, <1>4, RequestTypes DEF Ensured, CallsOK, Call
  <2>4. QED
    BY <1>0, <1>4, <2>1, <2>2, <2>3, PartsStill, TypeParts DEF Ensured
<1>5. QED
  BY <1>2, <1>3, <1>4 DEF Answers

LEMMA TypeHandleEvent ==
  ASSUME TypeOK, HandleEvent
  PROVE  TypeOK'
<1>0. /\ scene \in Scenes /\ WindowOK /\ HooksOK /\ CallsOK
      /\ events \in Seq(Event) /\ ServerOK /\ GhostsOK
      /\ ui \in Status /\ shown \in Status /\ refs \in Refs
      /\ shown.turn \in TurnOrNone
  BY TypeParts DEF WindowOK, HooksOK, Status
<1> DEFINE e == Head(events)
<1>1. e \in Event /\ e.turn \in TurnOrNone /\ events' \in Seq(Event)
  <2>1. events # <<>> /\ events' = Tail(events)
    BY DEF HandleEvent
  <2>2. e \in Event /\ events' \in Seq(Event)
    BY <1>0, <2>1
  <2>3. QED
    BY <2>2 DEF Event
<1>2. /\ Mark(ui, TRUE) \in Status /\ Mark(ui, FALSE) \in Status /\ Stopped(ui) \in Status
      /\ Forget(refs) \in Refs /\ Latest(refs, shown.turn) \in Refs
      /\ Forget(Latest(refs, shown.turn)) \in Refs
  BY <1>0, StatusOps, RefsOps
<1>3. /\ Review(Mark(ui, TRUE), TRUE) \in Status /\ Review(Mark(ui, FALSE), FALSE) \in Status
      /\ Review(Stopped(ui), FALSE) \in Status /\ SetTurn(Mark(ui, TRUE), e.turn) \in Status
  BY <1>1, <1>2, StatusOps
<1>4. [imm |-> e.turn, last |-> shown.turn, opt |-> TRUE] \in Refs
  BY <1>0, <1>1 DEF Refs
<1>5. /\ ui' \in Status /\ refs' \in Refs /\ pending' \in BOOLEAN /\ loaded' \in BOOLEAN
      /\ requests' \in {requests, Append(requests, Halt(e.turn))}
  <2> HIDE DEF e
  <2>0. pending \in BOOLEAN /\ loaded \in BOOLEAN
    BY <1>0 DEF HooksOK
  <2>1. CASE TurnStarted(e)
    BY <1>0, <1>3, <1>4, <2>0, <2>1 DEF TurnStarted
  <2>2. CASE TurnCompleted(e)
    BY <1>0, <1>2, <2>0, <2>2 DEF TurnCompleted
  <2>3. CASE TurnError(e)
    BY <1>0, <1>2, <1>3, <2>0, <2>3 DEF TurnError
  <2>4. CASE ItemEvent(e)
    BY <1>0, <1>2, <1>3, <2>0, <2>4 DEF ItemEvent
  <2>5. CASE ThreadStatusChanged(e)
    BY <1>0, <1>2, <2>0, <2>5 DEF ThreadStatusChanged
  <2>6. CASE ThreadClosed(e)
    BY <1>0, <1>2, <1>3, <2>0, <2>6 DEF ThreadClosed
  <2>7. QED
    BY <2>1, <2>2, <2>3, <2>4, <2>5, <2>6 DEF HandleEvent, e
<1>6. CallsOK'
  <2>1. Halt(e.turn) \in Request /\ requests \in Seq(Request)
    BY <1>0, <1>1, RequestTypes DEF CallsOK
  <2>2. requests' \in Seq(Request)
    BY <1>5, <2>1
  <2>3. QED
    BY <1>0, <2>2 DEF HandleEvent, CallsOK
<1>7. WindowOK' /\ HooksOK'
  BY <1>0, <1>5 DEF HandleEvent, WindowOK, HooksOK
<1>8. GhostsOK'
  BY <1>0 DEF HandleEvent, GhostsOK, Disorders, Unseen
<1>9. QED
  BY <1>0, <1>1, <1>6, <1>7, <1>8, PartsStill, TypeParts DEF HandleEvent

(* What the server tells of the end of a turn, and its state after it.      *)
LEMMA EndedType ==
  ASSUME TypeOK, server.running # NoTurn, NEW errors \in Seq(Event), Ended(errors),
         UNCHANGED <<scene, items, taken>>
  PROVE  events' \in Seq(Event) /\ ServerOK'
<1>0. events \in Seq(Event) /\ server \in Server /\ ServerOK
  BY TypeParts DEF ServerOK
<1>1. server.running \in TurnOrNone /\ server.running \in Turns
  BY <1>0 DEF Server, TurnOrNone
<1>2. server' \in Server
  BY <1>0, <1>1 DEF Ended, Server, TurnOrNone
<1>3. /\ Ev("exited", server.running) \in Event /\ Ev("completed", server.running) \in Event
      /\ Ev("idle", NoTurn) \in Event
  BY <1>1, EventTypes DEF TurnOrNone
<1>4. Told(<<Ev("idle", NoTurn)>>) \in Seq(Event)
  BY <1>3 DEF Told
<1>5. (IF server.reviewing THEN <<Ev("exited", server.running)>> ELSE <<>>) \in Seq(Event)
  BY <1>3
<1>6. events' \in Seq(Event)
  <2> DEFINE left == IF server.reviewing THEN <<Ev("exited", server.running)>> ELSE <<>>
             done == <<Ev("completed", server.running)>>
             idle == Told(<<Ev("idle", NoTurn)>>)
  <2>1. done \in Seq(Event)
    BY <1>3
  <2>2. events' = events \o left \o errors \o done \o idle
    BY DEF Ended
  <2> HIDE DEF left, done, idle
  <2>3. left \in Seq(Event) /\ idle \in Seq(Event)
    BY <1>4, <1>5 DEF left, idle
  <2> QED
    BY <1>0, <2>1, <2>2, <2>3
<1>7. QED
  BY <1>0, <1>2, <1>6 DEF ServerOK

LEMMA TypeServe ==
  ASSUME TypeOK, Serve \/ (\E kind \in {"item", "retry"} : ServeItem(kind)) \/ EndTurn \/ CloseThread
  PROVE  TypeOK'
<1>0. /\ scene \in Scenes /\ WindowOK /\ HooksOK /\ CallsOK
      /\ events \in Seq(Event) /\ ServerOK /\ GhostsOK
      /\ call \in [Messages -> Call] /\ requests \in Seq(Request)
      /\ server \in Server /\ server.running \in TurnOrNone
  BY TypeParts DEF CallsOK, ServerOK, Server
<1>1. ASSUME NEW m, Served(m) PROVE requests' \in Seq(Request)
  BY <1>0, <1>1 DEF Served
<1>2. ASSUME NEW m \in Messages, ServeStart(m)
      PROVE  TypeOK'
  <2> DEFINE t == server.last + 1
  <2>1. t \in Turns
    BY <1>0, <1>2, ConstantsAssumption DEF ServeStart, Server, Turns
  <2> HIDE DEF t
  <2>2. server' \in Server
    <3>1. server' = [server EXCEPT !.running = t, !.last = t,
                                   !.reviewing = (call[m].mode = "review"),
                                   !.startedFor[t] = m]
      BY <1>2 DEF ServeStart, t
    <3>2. t \in 0..MaxTurns /\ t \in TurnOrNone
      BY <2>1, ConstantsAssumption DEF Turns, TurnOrNone
    <3>3. QED
      BY <1>0, <2>1, <3>1, <3>2 DEF Server
  <2>3. taken' \in [Messages -> Nat] /\ items' = items /\ scene' = scene
    BY <1>0, <1>2 DEF ServeStart, ServerOK
  <2>4. ServerOK'
    BY <1>0, <2>2, <2>3 DEF ServerOK
  <2>5. events' \in Seq(Event)
    BY <2>1, EventTypes, <1>2, <1>0 DEF TurnOrNone, Told, ServeStart, t
  <2>6. call' \in [Messages -> Call]
    <3>1. t \in TurnOrNone
      BY <2>1 DEF TurnOrNone
    <3>2. \/ call' = [call EXCEPT ![m].step = "ok", ![m].turn = t]
          \/ call' = [call EXCEPT ![m].step = "failed"]
      BY <1>2 DEF ServeStart, t
    <3>3. QED
      BY <1>0, <3>1, <3>2, SMTT(20) DEF Call
  <2>7. CallsOK'
    BY <1>1, <1>2, <2>6 DEF ServeStart, CallsOK
  <2>8. QED
    BY <1>0, <1>2, <2>3, <2>4, <2>5, <2>7, PartsStill, TypeParts DEF ServeStart
<1>3. ASSUME NEW m \in Messages, ServeSteer(m)
      PROVE  TypeOK'
  <2>1. call' \in [Messages -> Call]
    BY <1>0, <1>3 DEF ServeSteer, Call
  <2>2. CallsOK'
    BY <1>1, <1>3, <2>1 DEF ServeSteer, CallsOK
  <2>3. ServerOK'
    BY <1>0, <1>3, SMTT(20) DEF ServeSteer, ServerOK
  <2>4. QED
    BY <1>0, <1>3, <2>2, <2>3, PartsStill, TypeParts DEF ServeSteer
<1>4. ASSUME NEW m \in Messages, Refuse(m)
      PROVE  TypeOK'
  BY <1>0, <1>4, <1>1, PartsStill, TypeParts DEF Refuse, Call, CallsOK, GhostsOK, Disorders
<1>5. CASE ServeInterrupt
  <2>1. CallsOK'
    BY <1>0, <1>1, <1>5 DEF ServeInterrupt, CallsOK
  <2>2. events' \in Seq(Event) /\ ServerOK'
    <3>1. CASE server.running # NoTurn /\ Head(requests).turn = server.running
      <4>1. Ended(<<>>) /\ UNCHANGED <<scene, items, taken>> /\ <<>> \in Seq(Event)
        BY <1>5, <3>1 DEF ServeInterrupt
      <4>2. QED
        BY <3>1, <4>1, EndedType
    <3>2. CASE ~(server.running # NoTurn /\ Head(requests).turn = server.running)
      BY <1>0, <1>5, <3>2 DEF ServeInterrupt, ServerOK
    <3>3. QED
      BY <3>1, <3>2
  <2>3. QED
    BY <1>0, <1>5, <2>1, <2>2, PartsStill, TypeParts DEF ServeInterrupt
<1>6. ASSUME NEW kind \in {"item", "retry"}, ServeItem(kind)
      PROVE  TypeOK'
  BY <1>0, EventTypes, <1>6, ConstantsAssumption, PartsStill, TypeParts DEF ServeItem, ServerOK
<1>7. CASE EndTurn
  <2>1. <<Ev("error", server.running)>> \in Seq(Event) /\ <<>> \in Seq(Event)
    BY <1>0, EventTypes
  <2>2. events' \in Seq(Event) /\ ServerOK'
    BY <1>7, <2>1, EndedType DEF EndTurn
  <2>3. QED
    BY <1>0, <1>7, <2>2, PartsStill, TypeParts DEF EndTurn
<1>8. CASE CloseThread
  BY EventTypes, <1>0, <1>8, PartsStill, TypeParts DEF TurnOrNone, CloseThread
<1>9. QED
  BY <1>2, <1>3, <1>4, <1>5, <1>6, <1>7, <1>8 DEF Serve

LEMMA TypeNext == TypeOK /\ [Next]_vars => TypeOK'
BY PartsStill, TypeParts, TypeUser, TypeRender, TypeAnswers, TypeHandleEvent, TypeServe DEF
   vars, hooks, outside, ghosts, Next

(* Every variable of the thread keeps its type, whatever is sent, answered, *)
(* told and rendered in whatever order.                                    *)
THEOREM ThreadTypeCorrect == Spec => []TypeOK
BY TypeInit, TypeNext, PTL DEF Spec

-----------------------------------------------------------------------------
(* Where a message is.  It is queued once at most and requested once at     *)
(* most; while it is queued no send of it is under way, and its request     *)
(* belongs to a send that awaits the answer.  Unless answers are lost, what *)
(* the server has taken is neither queued nor on its way.                   *)
Distinct(q) == \A i, j \in 1..Len(q) : q[i] = q[j] => i = j
OneEach(reqs) ==
    \A i, j \in 1..Len(reqs) : reqs[i].msg = reqs[j].msg /\ reqs[i].msg \in Messages => i = j
Named(reqs) == {m \in Messages : \E i \in 1..Len(reqs) : reqs[i].msg = m}

QueueOK    == Distinct(ui.queue) /\ \A m \in Members(ui.queue) : call[m].step = "none"
RequestsOK == OneEach(requests) /\ \A m \in Named(requests) : call[m].step = "asked"
TakenOK ==
    "lose" \notin scene.faults =>
        \A m \in Messages :
            /\ taken[m] <= 1
            /\ taken[m] = 1 => m \notin Members(ui.queue) /\ call[m].step \in {"none", "ok"}
OnceInv == QueueOK /\ RequestsOK /\ TakenOK

(* What the queue's operations do to its members.                           *)
LEMMA DistinctAppend ==
  ASSUME NEW q \in Seq(Messages), NEW m \in Messages, m \notin Members(q), Distinct(q)
  PROVE  Distinct(Append(q, m)) /\ Members(Append(q, m)) = Members(q) \cup {m}
<1> DEFINE r == Append(q, m)
<1>1. /\ Len(r) = Len(q) + 1 /\ Len(q) \in Nat /\ r[Len(q) + 1] = m
      /\ \A i \in 1..Len(q) : r[i] = q[i]
  OBVIOUS
<1>2. \A i \in 1..Len(r) : i \in 1..Len(q) \/ i = Len(q) + 1
  BY <1>1
<1> HIDE DEF r
<1>3. Distinct(r)
  BY <1>1, <1>2 DEF Distinct, Members
<1>4. Members(r) = Members(q) \cup {m}
  BY <1>1, <1>2 DEF Members
<1>5. QED
  BY <1>3, <1>4 DEF r

LEMMA DistinctPrepend ==
  ASSUME NEW q \in Seq(Messages), NEW m \in Messages, m \notin Members(q), Distinct(q)
  PROVE  Distinct(<<m>> \o q) /\ Members(<<m>> \o q) = Members(q) \cup {m}
<1> DEFINE r == <<m>> \o q
<1>1. /\ Len(r) = Len(q) + 1 /\ Len(q) \in Nat /\ r[1] = m
      /\ \A i \in 1..Len(q) : r[i + 1] = q[i]
  OBVIOUS
<1> HIDE DEF r
<1>2. \A i \in 1..Len(r) : i = 1 \/ (i - 1 \in 1..Len(q) /\ r[i] = q[i - 1])
  BY <1>1
<1>3. Distinct(r)
  <2> SUFFICES ASSUME NEW i \in 1..Len(r), NEW j \in 1..Len(r), r[i] = r[j] PROVE i = j
    BY DEF Distinct
  <2>1. CASE i # 1 /\ j # 1
    BY <1>2, <2>1 DEF Distinct
  <2>2. CASE i = 1 \/ j = 1
    BY <1>1, <1>2, <2>2 DEF Members
  <2>3. QED
    BY <2>1, <2>2
<1>4. Members(r) = Members(q) \cup {m}
  BY <1>1, <1>2 DEF Members
<1>5. QED
  BY <1>3, <1>4 DEF r

LEMMA DistinctTail ==
  ASSUME NEW q \in Seq(Messages), q # <<>>, Distinct(q)
  PROVE  /\ Distinct(Tail(q)) /\ Members(Tail(q)) \subseteq Members(q)
         /\ Head(q) \in Members(q) /\ Head(q) \notin Members(Tail(q))
<1> DEFINE r == Tail(q)
<1>1. /\ Len(q) \in Nat \ {0} /\ Len(r) = Len(q) - 1 /\ Head(q) = q[1]
      /\ \A i \in 1..Len(r) : r[i] = q[i + 1]
  OBVIOUS
<1> HIDE DEF r
<1>2. \A i \in 1..Len(r) : i + 1 \in 1..Len(q) /\ i + 1 # 1
  BY <1>1
<1>3. Distinct(r)
  BY <1>1, <1>2 DEF Distinct
<1>4. Members(r) \subseteq Members(q)
  BY <1>1, <1>2 DEF Members
<1>5. Head(q) \in Members(q)
  BY <1>1 DEF Members
<1>6. Head(q) \notin Members(r)
  BY <1>1, <1>2 DEF Members, Distinct
<1>7. QED
  BY <1>3, <1>4, <1>5, <1>6 DEF r

LEMMA DistinctWithout ==
  ASSUME NEW q \in Seq(Messages), NEW m, Distinct(q)
  PROVE  Distinct(Without(q, m)) /\ Members(Without(q, m)) \subseteq Members(q)
<1> SUFFICES ASSUME m \in Members(q)
             PROVE  Distinct(Without(q, m)) /\ Members(Without(q, m)) \subseteq Members(q)
  BY DEF Without
<1> DEFINE k == CHOOSE i \in 1..Len(q) : q[i] = m
           r == Without(q, m)
           at(j) == IF j < k THEN j ELSE j + 1
<1>1. k \in 1..Len(q)
  BY DEF Members
<1>2. r = [j \in 1..Len(q) - 1 |-> IF j < k THEN q[j] ELSE q[j + 1]]
  BY DEF Without
<1> HIDE DEF k, r
<1>3. Len(q) \in Nat /\ Len(q) - 1 \in Nat
  BY <1>1
<1>4. r \in Seq(Messages)
  BY WithoutType DEF r
<1>5. DOMAIN r = 1..Len(q) - 1 /\ Len(r) = Len(q) - 1
  BY <1>2, <1>3, <1>4
<1>6. \A j \in 1..Len(r) : at(j) \in 1..Len(q) /\ r[j] = q[at(j)]
  BY <1>1, <1>2, <1>3, <1>5
<1>7. Distinct(r)
  <2> SUFFICES ASSUME NEW i \in 1..Len(r), NEW j \in 1..Len(r), r[i] = r[j] PROVE i = j
    BY DEF Distinct
  <2>1. at(i) = at(j)
    BY <1>6 DEF Distinct
  <2>2. QED
    BY <1>1, <2>1
<1>8. Members(r) \subseteq Members(q)
  BY <1>6 DEF Members
<1>9. QED
  BY <1>7, <1>8 DEF r

(* What the requests' operations do to the messages they name.              *)
LEMMA NamedAppend ==
  ASSUME NEW q \in Seq(Request), NEW r \in Request, OneEach(q),
         r.msg \in Messages => r.msg \notin Named(q)
  PROVE  /\ OneEach(Append(q, r))
         /\ \A m \in Messages : m \in Named(Append(q, r)) <=> m \in Named(q) \/ m = r.msg
<1> DEFINE s == Append(q, r)
<1>1. /\ Len(s) = Len(q) + 1 /\ Len(q) \in Nat /\ s[Len(q) + 1] = r
      /\ \A i \in 1..Len(q) : s[i] = q[i]
  OBVIOUS
<1> HIDE DEF s
<1>2. \A i \in 1..Len(s) : i \in 1..Len(q) \/ i = Len(q) + 1
  BY <1>1
<1>3. OneEach(s)
  BY <1>1, <1>2 DEF OneEach, Named
<1>4. \A m \in Messages : m \in Named(s) <=> m \in Named(q) \/ m = r.msg
  BY <1>1, <1>2 DEF Named
<1>5. QED
  BY <1>3, <1>4 DEF s

LEMMA NamedTail ==
  ASSUME NEW q \in Seq(Request), q # <<>>, OneEach(q)
  PROVE  /\ OneEach(Tail(q)) /\ Named(Tail(q)) \subseteq Named(q)
         /\ Head(q).msg \notin Named(Tail(q))
         /\ Head(q).msg \in Messages => Head(q).msg \in Named(q)
<1> DEFINE s == Tail(q)
<1>1. /\ Len(q) \in Nat \ {0} /\ Len(s) = Len(q) - 1 /\ Head(q) = q[1]
      /\ \A i \in 1..Len(s) : s[i] = q[i + 1]
  OBVIOUS
<1> HIDE DEF s
<1>2. \A i \in 1..Len(s) : i + 1 \in 1..Len(q) /\ i + 1 # 1
  BY <1>1
<1>3. OneEach(s)
  BY <1>1, <1>2 DEF OneEach
<1>4. Named(s) \subseteq Named(q)
  BY <1>1, <1>2 DEF Named
<1>5. 1 \in 1..Len(q)
  BY <1>1
<1>6. Head(q).msg \notin Named(s)
  BY <1>1, <1>2, <1>5 DEF Named, OneEach
<1>7. Head(q).msg \in Messages => Head(q).msg \in Named(q)
  BY <1>1, <1>5 DEF Named
<1>8. QED
  BY <1>3, <1>4, <1>6, <1>7 DEF s

(* The requests that are left when the first one is served.                 *)
LEMMA TailNamed ==
  ASSUME NEW q \in Seq(Request), q # <<>>, NEW m \in Messages, m \in Named(q), m # Head(q).msg
  PROVE  m \in Named(Tail(q))
BY DEF Named

(* A step that moves no message on: queue and requests only lose some.      *)
LEMMA OnceFrame ==
  ASSUME OnceInv, UNCHANGED <<scene, call, taken>>,
         Distinct(ui'.queue), Members(ui'.queue) \subseteq Members(ui.queue),
         OneEach(requests'), Named(requests') \subseteq Named(requests)
  PROVE  OnceInv'
BY DEF OnceInv, QueueOK, RequestsOK, TakenOK

(* A step that moves the message m on.                                      *)
LEMMA OnceStep ==
  ASSUME OnceInv, scene' = scene, NEW m \in Messages,
         \A x \in Messages \ {m} :
           /\ call'[x] = call[x] /\ taken'[x] = taken[x]
           /\ x \in Members(ui'.queue) => x \in Members(ui.queue)
           /\ x \in Named(requests') => x \in Named(requests),
         Members(ui'.queue) \subseteq Messages,
         Distinct(ui'.queue), OneEach(requests'),
         m \in Members(ui'.queue) => call'[m].step = "none",
         m \in Named(requests') => call'[m].step = "asked",
         "lose" \notin scene.faults =>
           /\ taken'[m] <= 1
           /\ taken'[m] = 1 => m \notin Members(ui'.queue) /\ call'[m].step \in {"none", "ok"}
  PROVE  OnceInv'
BY DEF OnceInv, QueueOK, RequestsOK, Named, TakenOK

LEMMA OnceTypes ==
  ASSUME TypeOK
  PROVE  /\ ui \in Status /\ shown \in Status /\ ui.queue \in Seq(Messages)
         /\ Members(ui.queue) \subseteq Messages
         /\ CallsOK /\ call \in [Messages -> Call] /\ requests \in Seq(Request)
         /\ \A m \in Messages : taken[m] \in Nat
         /\ taken \in [Messages -> Nat]
BY TypeParts DEF WindowOK, Status, Members, CallsOK, ServerOK

LEMMA OnceInit == Init => OnceInv
BY DEF Init, Members, Named, Distinct, OneEach, OnceInv, QueueOK, RequestsOK, TakenOK

(* A launch of a message that is not under way.                             *)
LEMMA OnceLaunch ==
  ASSUME TypeOK, OnceInv, NEW m \in Messages, NEW from \in {"user", "queue"},
         NEW s \in Status, NEW c \in Status, Launch(m, from, s, c),
         UNCHANGED <<scene, taken>>,
         call[m].step = "none", "lose" \notin scene.faults => taken[m] = 0,
         Distinct(s.queue), Members(s.queue) \subseteq Members(ui.queue), m \notin Members(s.queue)
  PROVE  OnceInv'
<1>0. /\ CallsOK /\ requests \in Seq(Request) /\ Members(ui.queue) \subseteq Messages
      /\ OneEach(requests) /\ m \notin Named(requests)
  BY OnceTypes DEF OnceInv, RequestsOK
<1>1. /\ ui'.queue = s.queue
      /\ \A x \in Messages \ {m} : call'[x] = call[x]
      /\ \/ call' = call /\ requests' = requests
         \/ call'[m].step \in {"ensuring", "command"} /\ requests' = requests
         \/ call'[m].step = "asked" /\ requests' = Append(requests, Send(m))
  BY <1>0, Launched
<1>2. Send(m) \in Request /\ Send(m).msg = m
  BY RequestTypes DEF Send
<1>3. /\ OneEach(requests')
      /\ \A x \in Messages \ {m} : x \in Named(requests') => x \in Named(requests)
      /\ m \in Named(requests') => call'[m].step = "asked"
  BY <1>0, <1>2, NamedAppend, <1>1
<1>4. "lose" \notin scene.faults =>
        /\ taken'[m] <= 1
        /\ taken'[m] = 1 => m \notin Members(ui'.queue) /\ call'[m].step \in {"none", "ok"}
  OBVIOUS
<1>5. \A x \in Messages \ {m} :
           /\ call'[x] = call[x] /\ taken'[x] = taken[x]
           /\ x \in Members(ui'.queue) => x \in Members(ui.queue)
           /\ x \in Named(requests') => x \in Named(requests)
  BY <1>1, <1>3
<1>6. Members(ui'.queue) \subseteq Messages /\ Distinct(ui'.queue) /\ m \notin Members(ui'.queue)
  BY <1>0, <1>1
<1>7. QED
  BY <1>3, <1>4, <1>5, <1>6, OnceStep

LEMMA OnceUser ==
  ASSUME TypeOK, OnceInv, User
  PROVE  OnceInv'
<1>0. /\ ui \in Status /\ shown \in Status /\ ui.queue \in Seq(Messages)
      /\ Members(ui.queue) \subseteq Messages /\ Distinct(ui.queue)
      /\ requests \in Seq(Request) /\ OneEach(requests)
  BY OnceTypes DEF OnceInv, QueueOK, RequestsOK
(* A message that was never sent joins the queue.                           *)
<1>1. ASSUME NEW m \in Messages, Fresh(m), ui' = [ui EXCEPT !.queue = Append(@, m)],
             UNCHANGED <<scene, call, requests, taken>>
      PROVE  OnceInv'
  BY <1>0, <1>1, Queued, DistinctAppend, OnceStep DEF Fresh, OnceInv, RequestsOK
<1>2. ASSUME NEW m \in Messages, NEW wish \in {"queue", "steer"}, HandleSend(m, wish)
      PROVE  OnceInv'
  BY <1>2, <1>1, <1>0, OnceLaunch DEF HandleSend, outside, Fresh
<1>3. ASSUME NEW m \in Messages, QueueMessage(m)
      PROVE  OnceInv'
  BY <1>1, <1>3 DEF QueueMessage, outside
<1>4. ASSUME NEW m \in Messages, RemoveQueued(m)
      PROVE  OnceInv'
  BY <1>0, <1>4, QueueOps, WithoutType, DistinctWithout, OnceFrame DEF RemoveQueued, outside
<1>5. CASE Interrupt
  BY <1>0, <1>5, StatusOps, RequestTypes, ConstantsAssumption, NamedAppend, OnceFrame DEF
     Interrupt, outside, Status, Halt, Named
<1>6. CASE Pause
  BY <1>0, <1>6, OnceFrame DEF Pause, Status, outside
<1>7. QED
  BY <1>2, <1>3, <1>4, <1>5, <1>6 DEF User

LEMMA OnceRender ==
  ASSUME TypeOK, OnceInv, Render
  PROVE  OnceInv'
<1>0. /\ ui \in Status /\ ui.queue \in Seq(Messages) /\ Distinct(ui.queue)
      /\ Members(ui.queue) \subseteq Messages /\ OneEach(requests)
  BY OnceTypes DEF OnceInv, QueueOK, RequestsOK
<1>1. UNCHANGED <<scene, taken>>
  BY DEF Render, outside
<1>2. CASE MayFlush(ui)
  <2> DEFINE m == Head(ui.queue)
  <2>1. ui.queue # <<>> /\ Launch(m, "queue", Flushed(ui), ui)
    BY <1>2 DEF Render, MayFlush
  <2>2. Flushed(ui) \in Status /\ Flushed(ui).queue = Tail(ui.queue) /\ m \in Messages
    BY <1>0, <2>1, FlushedType
  <2>3. /\ Distinct(Tail(ui.queue)) /\ Members(Tail(ui.queue)) \subseteq Members(ui.queue)
        /\ m \in Members(ui.queue) /\ m \notin Members(Tail(ui.queue))
    BY <1>0, <2>1, DistinctTail
  <2> HIDE DEF m
  <2>4. call[m].step = "none"
    BY <2>3 DEF OnceInv, QueueOK
  <2>5. "lose" \notin scene.faults => taken[m] = 0
    BY <2>2, OnceTypes, <2>3 DEF OnceInv, TakenOK
  <2>6. QED
    BY <1>0, <1>1, <2>1, <2>2, <2>3, <2>4, <2>5, OnceLaunch
<1>3. CASE ~MayFlush(ui)
  BY <1>0, <1>3, StatusOps, <1>1, OnceFrame DEF Render
<1>4. QED
  BY <1>2, <1>3

LEMMA OnceAnswers ==
  ASSUME TypeOK, OnceInv, Answers
  PROVE  OnceInv'
<1>0. /\ ui \in Status /\ ui.queue \in Seq(Messages) /\ Distinct(ui.queue)
      /\ Members(ui.queue) \subseteq Messages
      /\ requests \in Seq(Request) /\ OneEach(requests)
      /\ call \in [Messages -> Call] /\ taken \in [Messages -> Nat]
  BY OnceTypes DEF OnceInv, QueueOK, RequestsOK
<1>1. ASSUME NEW m \in Messages, call[m].step \notin {"none", "asked"}
      PROVE  m \notin Members(ui.queue) /\ m \notin Named(requests)
  BY <1>1 DEF OnceInv, QueueOK, RequestsOK
<1>2. Quiet.step = "none"
  BY DEF Quiet
<1>3. ASSUME NEW m \in Messages, AnswerHandled(m)
      PROVE  OnceInv'
  <2>1. /\ call[m].step \in {"ok", "failed", "stale"} /\ call' = [call EXCEPT ![m] = Quiet]
        /\ UNCHANGED <<scene, requests, taken>>
    BY <1>3 DEF AnswerHandled, outside
  <2>2. m \notin Members(ui.queue) /\ m \notin Named(requests)
    BY <1>1, <2>1
  <2>3. call'[m].step = "none" /\ \A x \in Messages \ {m} : call'[x] = call[x]
    BY <1>0, <1>2, <2>1
  <2>4. \/ ui'.queue = ui.queue
        \/ /\ call[m].step \in {"failed", "stale"}
           /\ ui'.queue = Append(ui.queue, m)
    <3>1. /\ call[m].turn \in TurnOrNone
          /\ SetTurn(ui, call[m].turn).queue = ui.queue
      BY <1>0, StatusOps DEF Call
    <3>2. /\ Stopped(ui) \in Status /\ Stopped(ui).queue = ui.queue
          /\ Mark(ui, FALSE) \in Status /\ Mark(ui, FALSE).queue = ui.queue
      BY <1>0, StatusOps
    <3>3. /\ Review(Stopped(ui), FALSE).queue = ui.queue
          /\ Review(Mark(ui, FALSE), FALSE).queue = ui.queue
      BY <3>2, StatusOps
    <3>4. ASSUME NEW s \in {ui, Stopped(ui)}
          PROVE  [s EXCEPT !.queue = Append(@, m)].queue = Append(ui.queue, m)
      BY <1>0, <3>2, Queued
    <3>5. QED
      BY <1>3, <3>1, <3>2, <3>3, <3>4 DEF AnswerHandled
  <2>5. taken[m] \in Nat /\ ("lose" \notin scene.faults =>
          taken[m] <= 1 /\ (call[m].step # "ok" => taken[m] = 0))
    BY <1>0, <2>1 DEF OnceInv, TakenOK
  <2>6. CASE ui'.queue = ui.queue
    BY <1>0, <2>1, <2>2, <2>3, <2>5, <2>6, OnceStep
  <2>7. CASE call[m].step \in {"failed", "stale"} /\ ui'.queue = Append(ui.queue, m)
    BY <1>0, <2>2, <2>7, DistinctAppend, <2>1, <2>3, <2>5, OnceStep
  <2>8. QED
    BY <2>4, <2>6, <2>7
<1>4. ASSUME NEW m \in Messages, CommandEnds(m)
      PROVE  OnceInv'
  <2>1. /\ call[m].step = "command" /\ call' = [call EXCEPT ![m] = Quiet]
        /\ UNCHANGED <<scene, requests>>
        /\ \/ taken' = [taken EXCEPT ![m] = @ + 1] /\ ui' = ui
           \/ ui' = Requeued(ui, m) /\ taken' = taken
    BY <1>4 DEF CommandEnds
  <2>2. m \notin Members(ui.queue) /\ m \notin Named(requests)
    BY <1>1, <2>1
  <2>3. call'[m].step = "none" /\ \A x \in Messages \ {m} : call'[x] = call[x]
    BY <1>0, <1>2, <2>1
  <2>4. taken[m] \in Nat /\ ("lose" \notin scene.faults => taken[m] = 0)
    BY <1>0, <2>1 DEF OnceInv, TakenOK
  <2>5. CASE taken' = [taken EXCEPT ![m] = @ + 1] /\ ui' = ui
    BY <1>0, <2>5, <2>1, <2>2, <2>3, <2>4, OnceStep
  <2>6. CASE ui' = Requeued(ui, m) /\ taken' = taken
    <3>1. ui'.queue = <<m>> \o ui.queue
      BY <1>0, <2>6, RequeuedType
    <3>2. Distinct(ui'.queue) /\ Members(ui'.queue) = Members(ui.queue) \cup {m}
      BY <1>0, <2>2, <3>1, DistinctPrepend
    <3>3. QED
      BY <1>0, <2>1, <2>2, <2>3, <2>4, <2>6, <3>2, OnceStep
  <2>7. QED
    BY <2>1, <2>5, <2>6
<1>5. ASSUME NEW m \in Messages, Ensured(m)
      PROVE  OnceInv'
  <2>1. /\ call[m].step = "ensuring" /\ call' = [call EXCEPT ![m].step = "asked"]
        /\ requests' = Append(requests, Send(m)) /\ UNCHANGED <<scene, taken>>
        /\ ui' = Begun(ui, call[m].mode)
    BY <1>5 DEF Ensured, outside
  <2>2. m \notin Members(ui.queue) /\ m \notin Named(requests)
    BY <1>1, <2>1
  <2>3. call'[m].step = "asked" /\ \A x \in Messages \ {m} : call'[x] = call[x]
    BY <1>0, <2>1 DEF Call
  <2>4. ui'.queue = ui.queue
    BY <1>0, <2>1, StatusOps
  <2>5. Send(m) \in Request /\ Send(m).msg = m
    BY RequestTypes DEF Send
  <2>6. /\ OneEach(requests')
        /\ \A x \in Messages : x \in Named(requests') <=> x \in Named(requests) \/ x = m
    <3> DEFINE r == Send(m)
    <3>1. r \in Request /\ r.msg = m /\ requests' = Append(requests, r)
      BY <2>1, <2>5
    <3> HIDE DEF r
    <3>2. /\ OneEach(Append(requests, r))
          /\ \A x \in Messages :
               x \in Named(Append(requests, r)) <=> x \in Named(requests) \/ x = r.msg
      BY <1>0, <2>2, <3>1, NamedAppend
    <3>3. QED
      BY <3>1, <3>2
  <2>7. taken[m] \in Nat /\ ("lose" \notin scene.faults => taken[m] = 0)
    <3>1. taken[m] \in Nat /\ call[m].step \notin {"none", "ok"}
      BY <1>0, <2>1
    <3>2. ASSUME "lose" \notin scene.faults PROVE taken[m] = 0
      BY <3>1, <3>2 DEF OnceInv, TakenOK
    <3>3. QED
      BY <3>1, <3>2
  <2>8. QED
    BY <1>0, <2>1, <2>2, <2>3, <2>4, <2>6, <2>7, OnceStep
<1>6. QED
  BY <1>3, <1>4, <1>5 DEF Answers

(* The handling of an event leaves the queue alone, and asks at most to     *)
(* interrupt a turn.                                                        *)
LEMMA EventHandled ==
  ASSUME TypeOK, HandleEvent
  PROVE  /\ Head(events) \in Event /\ Head(events).turn \in TurnOrNone
         /\ ui'.queue = ui.queue
         /\ requests' \in {requests, Append(requests, Halt(Head(events).turn))}
<1>0. ui \in Status /\ events \in Seq(Event) /\ events # <<>>
  BY OnceTypes, TypeParts DEF HandleEvent
<1> DEFINE e == Head(events)
<1>1. e \in Event /\ e.turn \in TurnOrNone
  <2>1. e \in Event
    BY <1>0
  <2>2. QED
    BY <2>1 DEF Event
<1>2. /\ Mark(ui, TRUE) \in Status /\ Mark(ui, TRUE).queue = ui.queue
      /\ Mark(ui, FALSE) \in Status /\ Mark(ui, FALSE).queue = ui.queue
      /\ Stopped(ui) \in Status /\ Stopped(ui).queue = ui.queue
  BY <1>0, StatusOps
<1>3. /\ Review(Mark(ui, TRUE), TRUE).queue = ui.queue
      /\ Review(Mark(ui, FALSE), FALSE).queue = ui.queue
      /\ Review(Stopped(ui), FALSE).queue = ui.queue
      /\ SetTurn(Mark(ui, TRUE), e.turn).queue = ui.queue
  BY <1>1, <1>2, StatusOps
<1>4. ui'.queue = ui.queue /\ requests' \in {requests, Append(requests, Halt(e.turn))}
  <2> HIDE DEF e
  <2>1. CASE TurnStarted(e)
    BY <1>3, <2>1 DEF TurnStarted
  <2>2. CASE TurnCompleted(e)
    BY <1>2, <2>2 DEF TurnCompleted
  <2>3. CASE TurnError(e)
    BY <1>3, <2>3 DEF TurnError
  <2>4. CASE ItemEvent(e)
    BY <1>2, <1>3, <2>4 DEF ItemEvent
  <2>5. CASE ThreadStatusChanged(e)
    BY <1>2, <2>5 DEF ThreadStatusChanged
  <2>6. CASE ThreadClosed(e)
    BY <1>3, <2>6 DEF ThreadClosed
  <2>7. QED
    BY <2>1, <2>2, <2>3, <2>4, <2>5, <2>6 DEF HandleEvent, e
<1>5. QED
  BY <1>1, <1>4

LEMMA OnceHandleEvent ==
  ASSUME TypeOK, OnceInv, HandleEvent
  PROVE  OnceInv'
<1>0. /\ ui \in Status /\ Distinct(ui.queue) /\ OneEach(requests) /\ requests \in Seq(Request)
      /\ events \in Seq(Event) /\ events # <<>>
  BY OnceTypes, TypeParts DEF OnceInv, QueueOK, RequestsOK, HandleEvent
<1> DEFINE e == Head(events)
<1>1. e \in Event /\ e.turn \in TurnOrNone
  BY EventHandled
<1>2. ui'.queue = ui.queue /\ requests' \in {requests, Append(requests, Halt(e.turn))}
  BY EventHandled
<1>3. Halt(e.turn) \in Request /\ Halt(e.turn).msg \notin Messages
  BY <1>1, RequestTypes, ConstantsAssumption DEF Halt
<1>4. OneEach(requests') /\ Named(requests') \subseteq Named(requests)
  <2>1. CASE requests' = requests
    BY <1>0, <2>1
  <2>2. CASE requests' = Append(requests, Halt(e.turn))
    BY <1>0, <1>3, <2>2, NamedAppend DEF Named
  <2>3. QED
    BY <1>2, <2>1, <2>2
<1>5. UNCHANGED <<scene, call, taken>>
  BY DEF HandleEvent, outside
<1>6. QED
  BY <1>0, <1>2, <1>4, <1>5, OnceFrame

LEMMA OnceServe ==
  ASSUME TypeOK, OnceInv,
         Serve \/ (\E kind \in {"item", "retry"} : ServeItem(kind)) \/ EndTurn \/ CloseThread
  PROVE  OnceInv'
<1>0. /\ Distinct(ui.queue) /\ Members(ui.queue) \subseteq Messages
      /\ requests \in Seq(Request) /\ OneEach(requests)
      /\ call \in [Messages -> Call] /\ taken \in [Messages -> Nat]
  BY OnceTypes DEF OnceInv, QueueOK, RequestsOK
(* A request leaves for the server: its send awaited it, and no other does. *)
<1>1. ASSUME NEW m \in Messages, Served(m)
      PROVE  /\ call[m].step = "asked" /\ m \notin Members(ui.queue)
             /\ "lose" \notin scene.faults => taken[m] = 0
             /\ OneEach(requests') /\ Named(requests') \subseteq Named(requests)
             /\ m \notin Named(requests')
  BY <1>1, <1>0, NamedTail DEF Served, OnceInv, QueueOK, RequestsOK, TakenOK
(* The server took it or not, and the answer says so unless it was lost.    *)
<1>2. ASSUME NEW m \in Messages, Served(m), UNCHANGED <<scene, ui>>,
             \A x \in Messages \ {m} : call'[x] = call[x] /\ taken'[x] = taken[x],
             \/ taken'[m] = taken[m]
             \/ taken'[m] = taken[m] + 1 /\ (call'[m].step = "ok" \/ "lose" \in scene.faults)
      PROVE  OnceInv'
  BY <1>1, <1>2, <1>0, OnceStep
<1>3. ASSUME NEW m \in Messages, ServeStart(m)
      PROVE  OnceInv'
  BY <1>3, <1>0, <1>2 DEF ServeStart, Call
<1>4. ASSUME NEW m \in Messages, ServeSteer(m)
      PROVE  OnceInv'
  BY <1>4, <1>0, <1>2 DEF ServeSteer, Call
<1>5. ASSUME NEW m \in Messages, Refuse(m)
      PROVE  OnceInv'
  BY <1>5, <1>0, <1>2 DEF Refuse, outside
<1>6. CASE ServeInterrupt
  BY <1>6, <1>0, NamedTail, OnceFrame DEF ServeInterrupt, Served
<1>7. CASE (\E kind \in {"item", "retry"} : ServeItem(kind)) \/ EndTurn \/ CloseThread
  BY <1>7, <1>0, OnceFrame DEF ServeItem, EndTurn, CloseThread, outside
<1>8. QED
  BY <1>3, <1>4, <1>5, <1>6, <1>7 DEF Serve

LEMMA OnceNext == TypeOK /\ OnceInv /\ [Next]_vars => OnceInv'
BY OnceFrame, OnceUser, OnceRender, OnceAnswers, OnceHandleEvent, OnceServe DEF vars, outside,
   OnceInv, QueueOK, RequestsOK, Next

(* The server takes no message twice, for any number of messages, turns and *)
(* retries: handleSend and the queue send again only what was not taken,    *)
(* unless an answer was lost.                                               *)
THEOREM MessageTakenOnce == Spec => []TakenOnce
<1>1. TypeOK /\ OnceInv => TakenOnce
  BY OnceTypes DEF TakenOnce, OnceInv, TakenOK
<1>2. QED
  BY <1>1, TypeInit, TypeNext, OnceInit, OnceNext, PTL DEF Spec

----------------------------------------------------------------------------
(* The status at rest.  What is under way is told by events, in order: what *)
(* marks the thread at work is followed by the end of its turn, unless that *)
(* turn runs, and an event of a turn comes before the end of any later one. *)
Later(evs, i, kind) == \E j \in (i + 1)..Len(evs) : evs[j].kind = kind
Closed(evs, i) ==
    \E j \in (i + 1)..Len(evs) : evs[j].kind = "completed" /\ evs[j].turn = evs[i].turn

InOrder(evs, srv, i) ==
    /\ evs[i].turn # NoTurn => evs[i].turn <= srv.last
    /\ evs[i].kind \in {"started", "item", "entered", "completed"} => evs[i].turn # NoTurn
    /\ evs[i].kind \in {"started", "item", "entered"} =>
          evs[i].turn = srv.running \/ Closed(evs, i)
    /\ evs[i].kind = "active" => srv.running # NoTurn \/ Later(evs, i, "completed")
    /\ evs[i].kind = "entered" => srv.reviewing \/ Later(evs, i, "exited")
    /\ evs[i].kind = "completed" =>
          /\ evs[i].turn \in srv.ended
          /\ \A j \in (i + 1)..Len(evs) : evs[j].turn # NoTurn => evs[i].turn < evs[j].turn

Ordered(evs, srv) == \A i \in 1..Len(evs) : InOrder(evs, srv, i)

(* The server has ended every turn it started but the one it runs.          *)
Settled(srv) ==
    /\ srv.ended = (1..srv.last) \ {srv.running}
    /\ srv.running = NoTurn \/ srv.running = srv.last
    /\ srv.reviewing => srv.running # NoTurn

ServerInv == Settled(server) /\ Ordered(events, server)

(* A turn that is not over for the window: it runs, or its end is to come.  *)
Has(evs, kind, t) == \E i \in 1..Len(evs) : evs[i].kind = kind /\ evs[i].turn = t
Live(t) == t \in 1..server.last /\ (t = server.running \/ Has(events, "completed", t))
Known(t) == t = NoTurn \/ Live(t)
Exits == \E i \in 1..Len(events) : events[i].kind = "exited"

(* A send whose request or whose failure is still to be handled.            *)
Owes(c) == c.step \in {"asked", "failed", "stale"}
OwesReview(c) == c.mode = "review" /\ c.step \in {"asked", "failed"}
Owed == \E m \in Messages : Owes(call[m])
OwedReview == \E m \in Messages : OwesReview(call[m])

(* The thread at work owes it to a send or to a turn, the thread in review  *)
(* to those of a review.                                                    *)
SteersNamed == \A m \in Messages : call[m].mode = "steer" => call[m].turn # NoTurn
AtWork == ui.processing /\ ~Disordered => Owed \/ \E t \in Turns : Live(t)
InReview == ui.reviewing => OwedReview \/ server.reviewing \/ Exits
WorkInv == SteersNamed /\ AtWork /\ InReview

(* No turn that is over is taken for the active one: what the reducer has   *)
(* and what goes ahead of it are live turns, and where the last render      *)
(* shows one that is over the references know it; and neither names a later *)
(* turn than the reducer.                                                   *)
Stale == shown.turn = refs.last
ShownLive == Known(shown.turn) \/ Stale
RefsLive == IF refs.imm = Unset THEN refs.last = Unset /\ ~refs.opt ELSE Known(refs.imm)
NoneLater ==
    ui.turn # NoTurn =>
      /\ refs.imm \in {Unset, NoTurn} \/ refs.imm <= ui.turn
      /\ shown.turn = NoTurn \/ shown.turn <= ui.turn \/ Stale
Late == "late answer" \in blame
TurnsInv == ~Late => Known(ui.turn) /\ ShownLive /\ RefsLive /\ NoneLater

RestInv == ServerInv /\ WorkInv /\ TurnsInv

(* The events: what one more, or one less, does to their order.             *)
LEMMA AppendFacts ==
  ASSUME NEW evs \in Seq(Event), NEW e \in Event
  PROVE  /\ Append(evs, e) \in Seq(Event)
         /\ Len(evs) \in Nat /\ Len(Append(evs, e)) = Len(evs) + 1
         /\ Append(evs, e)[Len(evs) + 1] = e
         /\ \A i \in 1..Len(evs) : Append(evs, e)[i] = evs[i]
         /\ \A i \in 1..Len(Append(evs, e)) : i \in 1..Len(evs) \/ i = Len(evs) + 1
         /\ \A k, t : Has(evs, k, t) => Has(Append(evs, e), k, t)
         /\ Has(Append(evs, e), e.kind, e.turn)
<1> DEFINE s == Append(evs, e)
<1>1. /\ s \in Seq(Event) /\ Len(evs) \in Nat /\ Len(s) = Len(evs) + 1
      /\ s[Len(evs) + 1] = e /\ \A i \in 1..Len(evs) : s[i] = evs[i]
  OBVIOUS
<1> HIDE DEF s
<1>2. \A i \in 1..Len(s) : i \in 1..Len(evs) \/ i = Len(evs) + 1
  BY <1>1
<1>3. \A i \in 1..Len(evs) : i \in 1..Len(s)
  BY <1>1
<1>4. ASSUME NEW k, NEW t, Has(evs, k, t) PROVE Has(s, k, t)
  BY <1>1, <1>3, <1>4 DEF Has
<1>5. Has(s, e.kind, e.turn)
  BY <1>1 DEF Has
<1>6. QED
  BY <1>1, <1>2, <1>4, <1>5 DEF s

LEMMA TailFacts ==
  ASSUME NEW evs \in Seq(Event), evs # <<>>
  PROVE  /\ Tail(evs) \in Seq(Event) /\ Head(evs) \in Event
         /\ Len(evs) \in Nat \ {0} /\ Len(Tail(evs)) = Len(evs) - 1 /\ Head(evs) = evs[1]
         /\ \A i \in 1..Len(Tail(evs)) : i + 1 \in 1..Len(evs) /\ Tail(evs)[i] = evs[i + 1]
         /\ \A i \in 2..Len(evs) : i - 1 \in 1..Len(Tail(evs)) /\ Tail(evs)[i - 1] = evs[i]
<1> DEFINE s == Tail(evs)
<1>1. /\ s \in Seq(Event) /\ Head(evs) \in Event
      /\ Len(evs) \in Nat \ {0} /\ Len(s) = Len(evs) - 1 /\ Head(evs) = evs[1]
      /\ \A i \in 1..Len(s) : s[i] = evs[i + 1]
  OBVIOUS
<1> HIDE DEF s
<1>2. \A i \in 1..Len(s) : i + 1 \in 1..Len(evs)
  BY <1>1
<1>3. ASSUME NEW i \in 2..Len(evs) PROVE i - 1 \in 1..Len(s) /\ s[i - 1] = evs[i]
  BY <1>1
<1>4. QED
  BY <1>1, <1>2, <1>3 DEF s

(* An event of the turn that runs, or of none, follows what came before.    *)
LEMMA OrderedAppend ==
  ASSUME NEW evs \in Seq(Event), NEW srv \in Server, NEW e \in Event,
         Settled(srv), Ordered(evs, srv), e.kind # "completed",
         e.turn # NoTurn => e.turn = srv.running,
         e.kind \in {"started", "item", "entered"} => e.turn # NoTurn,
         e.kind = "active" => srv.running # NoTurn,
         e.kind = "entered" => srv.reviewing
  PROVE  Ordered(Append(evs, e), srv)
<1> DEFINE s == Append(evs, e)
<1>1. /\ Len(evs) \in Nat /\ Len(s) = Len(evs) + 1 /\ s[Len(evs) + 1] = e
      /\ \A i \in 1..Len(evs) : s[i] = evs[i]
      /\ \A i \in 1..Len(s) : i \in 1..Len(evs) \/ i = Len(evs) + 1
  BY AppendFacts
<1> HIDE DEF s
<1>2. \A i \in 1..Len(evs) : \A j \in (i + 1)..Len(evs) : j \in (i + 1)..Len(s) /\ j \in 1..Len(evs)
  BY <1>1
<1>3. \A i \in 1..Len(evs) : \A j \in (i + 1)..Len(s) : j \in (i + 1)..Len(evs) \/ j = Len(evs) + 1
  BY <1>1
<1>4. srv.last \in Nat /\ (srv.running # NoTurn => srv.running = srv.last)
  BY ConstantsAssumption DEF Server, Settled
<1>5. ASSUME NEW i \in 1..Len(evs) PROVE InOrder(s, srv, i)
  <2>1. InOrder(evs, srv, i) /\ s[i] = evs[i] /\ evs[i] \in Event
    BY <1>1 DEF Ordered
  <2>2. /\ Closed(evs, i) => Closed(s, i)
        /\ \A k : Later(evs, i, k) => Later(s, i, k)
    BY <1>1, <1>2 DEF Closed, Later
  <2>3. ASSUME evs[i].kind = "completed", NEW j \in (i + 1)..Len(s), s[j].turn # NoTurn
        PROVE  evs[i].turn < s[j].turn
    BY <1>1, <1>2, <2>1, <2>3, <1>4, <1>3 DEF InOrder, Settled
  <2>4. QED
    BY <2>1, <2>2, <2>3 DEF InOrder
<1>6. InOrder(s, srv, Len(evs) + 1)
  BY <1>1, <1>4 DEF InOrder
<1>7. QED
  BY <1>1, <1>5, <1>6 DEF Ordered, s

(* Every review that was entered is left.                                   *)
Left(evs) == \A i \in 1..Len(evs) : evs[i].kind = "entered" => Later(evs, i, "exited")

LEMMA LeftAppend ==
  ASSUME NEW evs \in Seq(Event), NEW e \in Event, e.kind # "entered",
         e.kind = "exited" \/ Left(evs)
  PROVE  Left(Append(evs, e))
<1> DEFINE s == Append(evs, e)
<1>1. /\ Len(evs) \in Nat /\ Len(s) = Len(evs) + 1 /\ s[Len(evs) + 1] = e
      /\ \A i \in 1..Len(evs) : s[i] = evs[i]
      /\ \A i \in 1..Len(s) : i \in 1..Len(evs) \/ i = Len(evs) + 1
  BY AppendFacts
<1> HIDE DEF s
<1>2. \A i \in 1..Len(evs) : /\ Len(evs) + 1 \in (i + 1)..Len(s)
                             /\ \A j \in (i + 1)..Len(evs) : j \in (i + 1)..Len(s) /\ j \in 1..Len(evs)
  BY <1>1
<1>3. ASSUME NEW i \in 1..Len(s), s[i].kind = "entered" PROVE Later(s, i, "exited")
  <2>1. i \in 1..Len(evs) /\ evs[i].kind = "entered"
    BY <1>1, <1>3
  <2>2. CASE e.kind = "exited"
    BY <1>1, <1>2, <2>1, <2>2 DEF Later
  <2>3. CASE Left(evs)
    BY <1>1, <1>2, <2>1, <2>3 DEF Later, Left
  <2>4. QED
    BY <2>2, <2>3
<1>4. QED
  BY <1>3 DEF Left, s

(* The end of the turn that runs.                                           *)
LEMMA OrderedEnd ==
  ASSUME NEW evs \in Seq(Event), NEW srv \in Server, NEW srv2 \in Server,
         Settled(srv), Ordered(evs, srv), Left(evs), srv.running # NoTurn,
         srv2.running = NoTurn, srv2.last = srv.last, srv2.reviewing = FALSE,
         srv2.ended = srv.ended \cup {srv.running}
  PROVE  Settled(srv2) /\ Ordered(Append(evs, Ev("completed", srv.running)), srv2)
<1> DEFINE e == Ev("completed", srv.running)
           s == Append(evs, e)
<1>0. e \in Event /\ e.kind = "completed" /\ e.turn = srv.running
  BY EventTypes DEF Ev, Server
<1> HIDE DEF e
<1>1. /\ Len(evs) \in Nat /\ Len(s) = Len(evs) + 1 /\ s[Len(evs) + 1] = e
      /\ \A i \in 1..Len(evs) : s[i] = evs[i]
      /\ \A i \in 1..Len(s) : i \in 1..Len(evs) \/ i = Len(evs) + 1
  BY <1>0, AppendFacts
<1> HIDE DEF s
<1>2. \A i \in 1..Len(evs) : \A j \in (i + 1)..Len(evs) : j \in (i + 1)..Len(s) /\ j \in 1..Len(evs)
  BY <1>1
<1>3. \A i \in 1..Len(evs) : \A j \in (i + 1)..Len(s) : j \in (i + 1)..Len(evs) \/ j = Len(evs) + 1
  BY <1>1
<1>4. /\ srv.last \in Nat \ {0} /\ srv.running = srv.last /\ NoTurn \notin Nat
      /\ srv.running \in 1..srv.last
  BY ConstantsAssumption DEF Server, Settled, TurnOrNone, Turns
<1>5. Settled(srv2)
  BY <1>4 DEF Settled
<1>6. ASSUME NEW i \in 1..Len(evs) PROVE InOrder(s, srv2, i)
  <2>1. InOrder(evs, srv, i) /\ s[i] = evs[i] /\ evs[i] \in Event
    BY <1>1 DEF Ordered
  <2>2. /\ Closed(evs, i) => Closed(s, i)
        /\ \A k : Later(evs, i, k) => Later(s, i, k)
    BY <1>1, <1>2 DEF Closed, Later
  <2>3. Len(evs) + 1 \in (i + 1)..Len(s)
    BY <1>1
  <2>4. Later(s, i, "completed") /\ (evs[i].turn = srv.running => Closed(s, i))
    BY <1>0, <1>1, <2>1, <2>3 DEF Closed, Later
  <2>5. ASSUME evs[i].kind = "completed", NEW j \in (i + 1)..Len(s), s[j].turn # NoTurn
        PROVE  evs[i].turn < s[j].turn
    BY <1>1, <1>2, <2>1, <2>5, <1>0, <1>4, <1>3 DEF InOrder, Settled
  <2>6. evs[i].kind = "entered" => Later(s, i, "exited")
    BY <2>2 DEF Left
  <2>7. QED
    BY <2>1, <2>2, <2>4, <2>5, <2>6 DEF InOrder
<1>7. InOrder(s, srv2, Len(evs) + 1)
  BY <1>0, <1>1, <1>4 DEF InOrder
<1>8. QED
  BY <1>1, <1>5, <1>6, <1>7 DEF Ordered, s, e

(* The server starts a turn: what it told before was of others.             *)
LEMMA OrderedStart ==
  ASSUME NEW evs \in Seq(Event), NEW srv \in Server, NEW srv2 \in Server,
         Settled(srv), Ordered(evs, srv), srv.running = NoTurn,
         srv2.running = srv.last + 1, srv2.last = srv.last + 1, srv2.ended = srv.ended
  PROVE  Settled(srv2) /\ Ordered(evs, srv2)
<1>1. srv.last \in Nat /\ NoTurn \notin Nat /\ ~srv.reviewing
  BY ConstantsAssumption DEF Server, Settled
<1>2. Settled(srv2)
  BY <1>1 DEF Settled
<1>3. ASSUME NEW i \in 1..Len(evs) PROVE InOrder(evs, srv2, i)
  <2>1. InOrder(evs, srv, i) /\ evs[i] \in Event
    BY DEF Ordered
  <2>2. evs[i].turn # NoTurn => evs[i].turn \in Nat
    BY <2>1, ConstantsAssumption DEF Event, TurnOrNone, Turns
  <2>3. evs[i].turn # NoTurn => evs[i].turn <= srv2.last
    BY <1>1, <2>1, <2>2 DEF InOrder
  <2>4. QED
    BY <1>1, <2>1, <2>3 DEF InOrder
<1>4. QED
  BY <1>2, <1>3 DEF Ordered

(* An event that has been handled leaves the order of the others.           *)
LEMMA OrderedTail ==
  ASSUME NEW evs \in Seq(Event), evs # <<>>, NEW srv, Ordered(evs, srv)
  PROVE  Ordered(Tail(evs), srv)
<1> DEFINE s == Tail(evs)
<1>1. /\ Len(evs) \in Nat \ {0} /\ Len(s) = Len(evs) - 1
      /\ \A i \in 1..Len(s) : i + 1 \in 1..Len(evs) /\ s[i] = evs[i + 1]
  BY TailFacts
<1> HIDE DEF s
<1>2. ASSUME NEW i \in 1..Len(s) PROVE InOrder(s, srv, i)
  <2>1. InOrder(evs, srv, i + 1) /\ s[i] = evs[i + 1]
    BY <1>1 DEF Ordered
  <2>2. \A j \in ((i + 1) + 1)..Len(evs) : /\ j - 1 \in (i + 1)..Len(s) /\ j - 1 \in 1..Len(s)
                                           /\ (j - 1) + 1 = j
    BY <1>1
  <2>3. \A j \in ((i + 1) + 1)..Len(evs) : j - 1 \in (i + 1)..Len(s) /\ s[j - 1] = evs[j]
    BY <1>1, <2>2
  <2>4. \A j \in (i + 1)..Len(s) : j + 1 \in ((i + 1) + 1)..Len(evs) /\ s[j] = evs[j + 1]
    BY <1>1
  <2>5. /\ Closed(evs, i + 1) => Closed(s, i)
        /\ \A k : Later(evs, i + 1, k) => Later(s, i, k)
    BY <2>1, <2>3 DEF Closed, Later
  <2>6. QED
    BY <2>1, <2>4, <2>5 DEF InOrder
<1>3. QED
  BY <1>2 DEF Ordered, s

(* What the reducer's actions do to the status.                             *)
LEMMA StatusFields ==
  ASSUME NEW s \in Status
  PROVE  /\ \A b \in BOOLEAN : /\ Mark(s, b).processing = b
                               /\ Mark(s, b).reviewing = s.reviewing /\ Mark(s, b).turn = s.turn
         /\ \A b \in BOOLEAN : /\ Review(s, b).processing = s.processing
                               /\ Review(s, b).reviewing = b /\ Review(s, b).turn = s.turn
         /\ \A t : /\ SetTurn(s, t).processing = s.processing
                   /\ SetTurn(s, t).reviewing = s.reviewing /\ SetTurn(s, t).turn = t
BY DEF Mark, Status, Review, SetTurn

LEMMA StatusEnds ==
  ASSUME NEW s \in Status
  PROVE  /\ ~Stopped(s).processing /\ Stopped(s).reviewing = s.reviewing /\ Stopped(s).turn = NoTurn
         /\ LET r == Review(Stopped(s), FALSE) IN ~r.processing /\ ~r.reviewing /\ r.turn = NoTurn
         /\ LET r == Review(Mark(s, FALSE), FALSE)
            IN  ~r.processing /\ ~r.reviewing /\ r.turn = s.turn
         /\ LET r == Review(Mark(s, TRUE), TRUE)
            IN  r.processing /\ r.reviewing /\ r.turn = s.turn
<1>1. /\ Mark(s, FALSE) \in Status /\ Mark(s, TRUE) \in Status /\ Stopped(s) \in Status
  BY StatusOps
<1>2. ~Stopped(s).processing /\ Stopped(s).reviewing = s.reviewing /\ Stopped(s).turn = NoTurn
  <2> DEFINE r == Mark(s, FALSE)
  <2>1. r \in Status /\ r.processing = FALSE /\ r.reviewing = s.reviewing
    BY <1>1, StatusFields
  <2> HIDE DEF r
  <2>2. /\ SetTurn(r, NoTurn).processing = FALSE
        /\ SetTurn(r, NoTurn).reviewing = s.reviewing /\ SetTurn(r, NoTurn).turn = NoTurn
    BY <2>1, StatusFields
  <2>3. QED
    BY <2>2 DEF Stopped, r
<1>3. LET r == Review(Stopped(s), FALSE) IN ~r.processing /\ ~r.reviewing /\ r.turn = NoTurn
  BY <1>1, <1>2, StatusFields
<1>4. LET r == Review(Mark(s, FALSE), FALSE)
      IN  ~r.processing /\ ~r.reviewing /\ r.turn = s.turn
  BY <1>1, StatusFields, ZenonT(30)
<1>5. LET r == Review(Mark(s, TRUE), TRUE)
      IN  r.processing /\ r.reviewing /\ r.turn = s.turn
  BY <1>1, StatusFields, ZenonT(30)
<1>6. QED
  BY <1>2, <1>3, <1>4, <1>5

(* What leaves the status alone.                                            *)
SameStatus(s, r) ==
    r.processing = s.processing /\ r.reviewing = s.reviewing /\ r.turn = s.turn

LEMMA StatusKept ==
  ASSUME NEW s \in Status
  PROVE  /\ SameStatus(s, Followed(s)) /\ SameStatus(s, Flushed(s))
         /\ \A m : SameStatus(s, Requeued(s, m))
         /\ \A m : SameStatus(s, [s EXCEPT !.queue = Append(@, m)])
         /\ \A q : SameStatus(s, [s EXCEPT !.queue = q])
BY DEF Status, SameStatus, Followed, Flushed, Requeued

(* A launch marks the thread only when it asks, and names a turn to steer.  *)
LEMMA LaunchMarks ==
  ASSUME CallsOK, NEW m \in Messages, NEW from \in {"user", "queue"},
         NEW s \in Status, NEW c \in Status, Launch(m, from, s, c)
  PROVE  /\ ui'.turn = s.turn
         /\ \A x \in Messages \ {m} : call'[x] = call[x]
         /\ \/ call' = call /\ SameStatus(s, ui')
            \/ /\ call'[m].mode = "steer" => call'[m].turn # NoTurn
               /\ \/ SameStatus(s, ui')
                  \/ /\ call'[m].step = "asked"
                     /\ ui'.reviewing => s.reviewing \/ call'[m].mode = "review"
<1>1. CASE Kind(m) = "refused"
  BY <1>1 DEF Launch, SameStatus
<1>2. CASE Kind(m) # "refused"
  <2> DEFINE mode == IF Kind(m) = "review" THEN "review"
                     ELSE IF CanSteer(c) THEN "steer" ELSE "start"
             step == IF Kind(m) = "command" THEN "command"
                     ELSE IF loaded THEN "asked" ELSE "ensuring"
             new  == [step |-> step, mode |-> mode, turn |-> c.turn, from |-> from]
  <2>1. /\ call' = [call EXCEPT ![m] = new]
        /\ IF step = "asked"
           THEN ui' = Begun(s, mode) /\ requests' = Append(requests, Send(m))
           ELSE ui' = s /\ requests' = requests
    BY <1>2 DEF Launch
  <2>2. mode = "steer" => c.turn # NoTurn
    BY DEF CanSteer
  <2> HIDE DEF mode, step
  <2>3. new.step = step /\ new.mode = mode /\ new.turn = c.turn
    OBVIOUS
  <2> HIDE DEF new
  <2>4. call'[m] = new /\ \A x \in Messages \ {m} : call'[x] = call[x]
    BY <2>1 DEF CallsOK
  <2>5. CASE step = "asked"
    <3>1. ui' = Begun(s, mode)
      BY <2>1, <2>5
    <3>2. Mark(s, TRUE).reviewing = s.reviewing /\ Mark(s, TRUE).turn = s.turn
      BY StatusFields
    <3>3. ui'.turn = s.turn /\ (ui'.reviewing => s.reviewing \/ mode = "review")
      BY <3>1, <3>2, StatusEnds DEF Begun
    <3>4. QED
      BY <2>2, <2>3, <2>4, <2>5, <3>3
  <2>6. CASE step # "asked"
    BY <2>1, <2>2, <2>3, <2>4, <2>6 DEF SameStatus
  <2>7. QED
    BY <2>5, <2>6
<1>3. QED
  BY <1>1, <1>2

(* The references after getLatestKnownActiveTurnId.                         *)
LEMMA LatestFacts ==
  ASSUME NEW r \in Refs, NEW t \in TurnOrNone,
         r.imm = Unset => r.last = Unset /\ ~r.opt
  PROVE  /\ Latest(r, t).last = t
         /\ Latest(r, t).imm = LatestTurn(r, t)
         /\ Latest(r, t).imm # Unset
         /\ \/ r.imm # Unset /\ Latest(r, t).imm = r.imm
            \/ Latest(r, t).imm = t /\ t # r.last
<1>1. t # Unset
  BY ConstantsAssumption DEF TurnOrNone, Turns
<1>2. CASE r.imm = Unset
  BY <1>1, <1>2 DEF Latest, LatestTurn
<1>3. CASE r.imm # Unset
  <2> DEFINE ahead  == r.opt /\ r.imm # Unset
             caught == ahead /\ t = r.imm
             adopt  == ahead /\ ~caught /\ r.last # Unset /\ t # r.last
  <2>1. CASE ahead /\ ~caught /\ ~adopt
    BY <2>1, <1>3 DEF Latest, LatestTurn, Refs
  <2>2. CASE ~(ahead /\ ~caught /\ ~adopt)
    BY <2>2, <1>1, <1>3 DEF Latest, LatestTurn
  <2>3. QED
    BY <2>1, <2>2
<1>4. QED
  BY <1>2, <1>3

(* A step that adds to what is under way and starts nothing in the window.  *)
LEMMA WorkFrame ==
  ASSUME WorkInv, Disordered => Disordered', SteersNamed',
         \A t \in Turns : Live(t) => Live(t)',
         Owed => Owed' \/ (\E t \in Turns : Live(t))',
         OwedReview => OwedReview' \/ server'.reviewing,
         server.reviewing => server'.reviewing \/ Exits', Exits => Exits',
         ui'.processing => ui.processing, ui'.reviewing => ui.reviewing
  PROVE  WorkInv'
BY DEF WorkInv, AtWork, InReview

LEMMA TurnsFrame ==
  ASSUME TurnsInv, Late => Late',
         \A t \in Turns : Live(t) => Live(t)',
         refs \in Refs, ui.turn \in TurnOrNone, shown.turn \in TurnOrNone,
         UNCHANGED refs, shown'.turn = shown.turn,
         ui'.turn = ui.turn \/ ui'.turn = NoTurn
  PROVE  TurnsInv'
BY DEF Known, TurnOrNone, TurnsInv, ShownLive, Stale, Refs, RefsLive, NoneLater

(* The types the proofs about the status use.                               *)
LEMMA RestTypes ==
  ASSUME TypeOK
  PROVE  /\ ui \in Status /\ shown \in Status /\ refs \in Refs
         /\ ui.turn \in TurnOrNone /\ shown.turn \in TurnOrNone
         /\ ui.processing \in BOOLEAN /\ ui.reviewing \in BOOLEAN
         /\ CallsOK /\ call \in [Messages -> Call]
         /\ events \in Seq(Event) /\ server \in Server
         /\ server.last \in 0..MaxTurns /\ server.running \in TurnOrNone
BY TypeParts DEF WindowOK, HooksOK, ServerOK, Status, CallsOK, Server

(* What the server runs, or says the end of, is live.                       *)
LEMMA LiveTurns ==
  ASSUME TypeOK, ServerInv
  PROVE  /\ \A t : Live(t) => t \in Turns /\ t <= server.last
         /\ server.running # NoTurn => Live(server.running)
         /\ \A t : Has(events, "completed", t) => Live(t) /\ t # server.running
BY RestTypes, ConstantsAssumption DEF Turns, Live, ServerInv, Settled, TurnOrNone, Has,
   Ordered, InOrder

LEMMA LiveStill ==
  ASSUME UNCHANGED <<server, events>>
  PROVE  /\ \A t : Live(t) <=> Live(t)'
         /\ Exits <=> Exits'
         /\ ServerInv => ServerInv'
BY DEF Live, Exits, ServerInv

LEMMA RestInit == Init => RestInv
<1> SUFFICES ASSUME Init PROVE RestInv
  OBVIOUS
<1>1. server.running = NoTurn /\ server.last = 0 /\ server.ended = {} /\ ~server.reviewing
  BY DEF Init
<1>2. ServerInv
  BY <1>1 DEF Init, ServerInv, Settled, Ordered
<1>3. WorkInv
  BY DEF Init, WorkInv, SteersNamed, AtWork, InReview, Quiet
<1>4. TurnsInv
  BY DEF Init, TurnsInv, Known, ShownLive, RefsLive, NoneLater
<1>5. QED
  BY <1>2, <1>3, <1>4 DEF RestInv

(* A message that is not under way is launched.                             *)
LEMMA RestLaunch ==
  ASSUME TypeOK, WorkInv, NEW m \in Messages, NEW from \in {"user", "queue"},
         NEW s \in Status, NEW c \in Status, Launch(m, from, s, c),
         SameStatus(ui, s), call[m].step = "none",
         UNCHANGED <<server, events>>, Disordered => Disordered'
  PROVE  WorkInv' /\ ui'.turn = ui.turn
BY RestTypes, LaunchMarks, LiveStill, WorkFrame DEF WorkInv, SteersNamed, Owes, OwesReview,
   Owed, OwedReview, SameStatus, AtWork, InReview

(* A step of the window alone that launches nothing and at most stops.      *)
LEMMA RestStill ==
  ASSUME TypeOK, RestInv, UNCHANGED <<server, events, call>>,
         \A b : b \in blame => b \in blame',
         UNCHANGED refs, shown'.turn = shown.turn,
         ui'.turn = ui.turn \/ ui'.turn = NoTurn,
         ui'.processing => ui.processing, ui'.reviewing => ui.reviewing
  PROVE  RestInv'
BY LiveStill, WorkFrame, RestTypes, TurnsFrame DEF RestInv, Disordered, Owed, OwedReview,
   SteersNamed, WorkInv, Late

LEMMA RestUser ==
  ASSUME TypeOK, OnceInv, RestInv, User
  PROVE  RestInv'
<1>0. ui \in Status /\ shown \in Status /\ ui.turn \in TurnOrNone /\ shown.turn \in TurnOrNone
  BY RestTypes
<1>1. ASSUME NEW m \in Messages, NEW wish \in {"queue", "steer"}, HandleSend(m, wish)
      PROVE  RestInv'
  <2>1. /\ UNCHANGED <<server, events, refs, shown>> /\ \A b : b \in blame => b \in blame'
        /\ call[m].step = "none"
    BY <1>1 DEF HandleSend, hooks, outside, Fresh
  <2>2. CASE Queues(shown, wish)
    <3>1. call' = call /\ SameStatus(ui, ui')
      BY <1>0, <1>1, <2>2, StatusKept DEF HandleSend
    <3>2. QED
      BY <2>1, <3>1, RestStill DEF SameStatus
  <2>3. CASE ~Queues(shown, wish)
    BY <1>1, <2>3, <2>1, <1>0, RestLaunch, LiveStill, RestTypes, TurnsFrame DEF HandleSend,
       SameStatus, Disordered, RestInv, Late
  <2>4. QED
    BY <2>2, <2>3
<1>2. ASSUME NEW m \in Messages, QueueMessage(m)
      PROVE  RestInv'
  BY <1>0, <1>2, StatusKept, RestStill DEF QueueMessage, hooks, outside, ghosts, SameStatus
<1>3. ASSUME NEW m \in Messages, RemoveQueued(m)
      PROVE  RestInv'
  BY <1>0, <1>3, StatusKept, RestStill DEF RemoveQueued, hooks, outside, ghosts, SameStatus
<1>4. CASE Interrupt
  BY <1>4, <1>0, StatusEnds, RestStill DEF Interrupt, outside
<1>5. CASE Pause
  BY <1>0, <1>5, RestStill DEF Pause, hooks, outside, ghosts, SameStatus, Status
<1>6. QED
  BY <1>1, <1>2, <1>3, <1>4, <1>5 DEF User

LEMMA RestRender ==
  ASSUME TypeOK, OnceInv, RestInv, Render
  PROVE  RestInv'
<1>0. ui \in Status /\ ui.turn \in TurnOrNone
  BY RestTypes
<1>1. UNCHANGED <<server, events, refs>> /\ shown' = ui /\ blame \subseteq blame'
  BY DEF Render, hooks, outside
<1>2. (\A t : Live(t) <=> Live(t)') /\ (Exits <=> Exits') /\ ServerInv'
  BY <1>1, LiveStill DEF RestInv
<1>3. Disordered => Disordered'
  BY <1>1 DEF Disordered
<1>4. WorkInv' /\ ui'.turn = ui.turn
  <2>1. CASE MayFlush(ui)
    <3> DEFINE m == Head(ui.queue)
    <3>1. ui.queue # <<>> /\ Launch(m, "queue", Flushed(ui), ui)
      BY <2>1 DEF Render, MayFlush
    <3>2. Flushed(ui) \in Status /\ m \in Messages
      BY <1>0, <3>1, FlushedType
    <3>3. call[m].step = "none"
      BY <3>1, OnceTypes, DistinctTail DEF OnceInv, QueueOK
    <3> HIDE DEF m
    <3>4. SameStatus(ui, Flushed(ui))
      BY <1>0, StatusKept
    <3>5. QED
      BY <1>0, <1>1, <1>3, <3>1, <3>2, <3>3, <3>4, RestLaunch DEF RestInv
  <2>2. CASE ~MayFlush(ui)
    BY <2>2, <1>0, StatusKept, <1>1, <1>2, <1>3, WorkFrame DEF Render, Owed, OwedReview,
       SteersNamed, RestInv, WorkInv, SameStatus
  <2>3. QED
    BY <2>1, <2>2
<1>5. ui.turn # NoTurn => shown'.turn <= ui.turn
  BY <1>0, <1>1, ConstantsAssumption DEF TurnOrNone, Turns
<1>6. TurnsInv'
  BY <1>1, <1>2, <1>4, <1>5 DEF Late, TurnsInv, RestInv, Known, ShownLive, RefsLive, NoneLater
<1>7. QED
  BY <1>2, <1>4, <1>6 DEF RestInv

LEMMA RestAnswers ==
  ASSUME TypeOK, RestInv, Answers
  PROVE  RestInv'
<1>0. /\ ui \in Status /\ ui.turn \in TurnOrNone /\ refs \in Refs /\ shown.turn \in TurnOrNone
      /\ call \in [Messages -> Call] /\ server \in Server /\ server.last \in 0..MaxTurns
      /\ ServerInv /\ WorkInv /\ TurnsInv
  BY RestTypes DEF RestInv
<1>1. /\ Quiet.step = "none" /\ Quiet.mode = "start"
      /\ ~Owes(Quiet) /\ ~OwesReview(Quiet)
  BY DEF Quiet, Owes, OwesReview
<1>2. ASSUME NEW m \in Messages, AnswerHandled(m)
      PROVE  RestInv'
  <2> DEFINE c == call[m]
  <2>1. /\ UNCHANGED <<server, events, refs, shown>> /\ \A b : b \in blame => b \in blame'
        /\ call' = [call EXCEPT ![m] = Quiet] /\ c \in Call
    BY <1>0, <1>2 DEF AnswerHandled, hooks, outside
  <2>2. call'[m] = Quiet /\ \A x \in Messages \ {m} : call'[x] = call[x]
    BY <1>0, <2>1
  <2>3. (\A t : Live(t) <=> Live(t)') /\ (Exits <=> Exits') /\ ServerInv'
    BY <1>0, <2>1, LiveStill
  <2>4. SteersNamed'
    BY <1>0, <1>1, <2>2 DEF WorkInv, SteersNamed
  <2>5. /\ Stopped(ui) \in Status
        /\ ~Stopped(ui).processing /\ Stopped(ui).reviewing = ui.reviewing
        /\ Stopped(ui).turn = NoTurn
    BY <1>0, StatusOps, StatusEnds
  <2>6. /\ ui'.processing => ui.processing /\ (c.step = "ok" \/ Disordered')
        /\ ui'.reviewing => ui.reviewing /\ ~OwesReview(c)
        /\ \/ ui'.turn = ui.turn \/ ui'.turn = NoTurn
           \/ c.step = "ok" /\ c.mode # "review" /\ ui'.turn = c.turn
    <3>1. CASE c.step = "ok" /\ c.mode # "review" /\ ui' = SetTurn(ui, c.turn)
      BY <1>0, <3>1, StatusFields DEF OwesReview
    <3>2. CASE c.step = "ok" /\ c.mode = "review" /\ ui' = ui
      BY <3>2 DEF OwesReview
    <3>3. CASE c.step = "failed" /\ c.mode = "start" /\ ui' = Stopped(ui)
      BY <2>5, <3>3 DEF OwesReview
    <3>4. CASE /\ c.step = "failed" /\ c.mode = "review"
               /\ \/ ui' = Review(Stopped(ui), FALSE) \/ ui' = Review(Mark(ui, FALSE), FALSE)
      <4>1. /\ ~Review(Stopped(ui), FALSE).processing /\ ~Review(Stopped(ui), FALSE).reviewing
            /\ Review(Stopped(ui), FALSE).turn = NoTurn
        BY <1>0, StatusEnds
      <4>2. /\ ~Review(Mark(ui, FALSE), FALSE).processing
            /\ ~Review(Mark(ui, FALSE), FALSE).reviewing
            /\ Review(Mark(ui, FALSE), FALSE).turn = ui.turn
        BY <1>0, StatusEnds
      <4>3. QED
        BY <3>4, <4>1, <4>2
    <3>5. CASE c.mode = "steer" /\ c.step = "stale" /\ ui' = [Stopped(ui) EXCEPT !.queue = Append(@, m)]
      BY <2>5, <3>5, StatusKept DEF SameStatus, OwesReview
    <3>6. CASE c.mode = "steer" /\ c.step = "failed" /\ ui' = [ui EXCEPT !.queue = Append(@, m)]
      <4>1. "failed steer" \in blame'
        BY <1>2, <3>6 DEF AnswerHandled
      <4>2. Disordered'
        BY <4>1 DEF Disordered
      <4>3. QED
        BY <1>0, <3>6, <4>2, StatusKept DEF SameStatus, OwesReview
    <3>7. QED
      BY <1>2, <3>1, <3>2, <3>3, <3>4, <3>5, <3>6 DEF AnswerHandled
  <2>7. Disordered => Disordered'
    BY <2>1 DEF Disordered
  <2>8. /\ c.step = "ok" /\ Owed => Owed'
        /\ ~OwesReview(c) /\ OwedReview => OwedReview'
    <3>1. c.step = "ok" => ~Owes(c)
      BY DEF Owes
    <3> HIDE DEF c
    <3>2. QED
      BY <2>2, <3>1 DEF Owed, OwedReview, c
  <2>9. WorkInv'
    BY <1>0, <2>3, <2>6, <2>7, <2>8, <2>1, <2>4 DEF WorkInv, AtWork, InReview
  <2>10. TurnsInv'
    <3>1. CASE ui'.turn = ui.turn \/ ui'.turn = NoTurn
      BY <1>0, <2>1, <2>3, <3>1, TurnsFrame DEF Late
    <3>2. CASE c.step = "ok" /\ c.mode # "review" /\ ui'.turn = c.turn
      <4>1. ~Late' => ~Late /\ ~Over(c.turn) /\ c.turn = server.last
        BY <1>2, <3>2 DEF AnswerHandled, Late
      <4>2. ~Late' => Live(server.last)
        BY <1>0, <2>1, ConstantsAssumption, <4>1 DEF Call, Turns, TurnOrNone, Over, Has,
           ServerInv, Settled, Live
      <4>3. \A t : Live(t) => t <= server.last
        BY <1>0, LiveTurns
      <4>4. ~Late' => Known(ui.turn)'
        BY <2>3, <3>2, <4>1, <4>2 DEF Known
      <4>5. ~Late' => ShownLive' /\ RefsLive'
        BY <1>0, <2>1, <2>3, <4>1 DEF TurnsInv, ShownLive, RefsLive, Known, Stale
      <4>6. ~Late' => NoneLater'
        BY <1>0, <2>1, <3>2, <4>1, <4>3 DEF TurnsInv, ShownLive, RefsLive, Known, Stale, NoneLater
      <4>7. QED
        BY <4>4, <4>5, <4>6 DEF TurnsInv
    <3>3. QED
      BY <2>6, <3>1, <3>2
  <2>11. QED
    BY <2>3, <2>9, <2>10 DEF RestInv
<1>3. ASSUME NEW m \in Messages, CommandEnds(m)
      PROVE  RestInv'
  <2>1. /\ UNCHANGED <<server, events, refs, shown, blame>>
        /\ call[m].step = "command" /\ call' = [call EXCEPT ![m] = Quiet]
    BY <1>3 DEF CommandEnds, hooks, ghosts
  <2>2. call'[m] = Quiet /\ \A x \in Messages \ {m} : call'[x] = call[x]
    BY <1>0, <2>1
  <2>3. (\A t : Live(t) <=> Live(t)') /\ (Exits <=> Exits') /\ ServerInv'
    BY <1>0, <2>1, LiveStill
  <2>4. SteersNamed' /\ (Disordered => Disordered')
    BY <1>0, <1>1, <2>1, <2>2 DEF WorkInv, SteersNamed, Disordered
  <2>5. ui' = ui \/ ui' = Requeued(ui, m)
    BY <1>3 DEF CommandEnds
  <2>6. /\ ui'.processing = ui.processing /\ ui'.reviewing = ui.reviewing
        /\ ui'.turn = ui.turn
    BY <1>0, <2>5, StatusKept DEF SameStatus
  <2>7. (Owed => Owed') /\ (OwedReview => OwedReview')
    BY <2>1, <2>2 DEF Owes, OwesReview, Owed, OwedReview
  <2>8. WorkInv'
    BY <1>0, <2>1, <2>3, <2>4, <2>6, <2>7, WorkFrame
  <2>9. TurnsInv'
    BY <1>0, <2>1, <2>3, <2>6, TurnsFrame DEF Late
  <2>10. QED
    BY <2>3, <2>8, <2>9 DEF RestInv
<1>4. ASSUME NEW m \in Messages, Ensured(m)
      PROVE  RestInv'
  <2>1. /\ UNCHANGED <<server, events, refs, shown, blame>> /\ ui' = Begun(ui, call[m].mode)
        /\ call' = [call EXCEPT ![m].step = "asked"]
    BY <1>4 DEF Ensured, outside, ghosts
  <2>2. /\ call'[m].step = "asked" /\ call'[m].mode = call[m].mode /\ call'[m].turn = call[m].turn
        /\ \A x \in Messages \ {m} : call'[x] = call[x]
    BY <1>0, <2>1 DEF Call
  <2>3. (\A t : Live(t) <=> Live(t)') /\ (Exits <=> Exits') /\ ServerInv'
    BY <1>0, <2>1, LiveStill
  <2>4. ui'.turn = ui.turn /\ (ui'.reviewing => ui.reviewing \/ call[m].mode = "review")
    BY <1>0, StatusFields, <2>1, StatusEnds DEF Begun
  <2>5. SteersNamed'
    BY <1>0, <2>2 DEF WorkInv, SteersNamed
  <2>6. AtWork'
    BY <2>2 DEF AtWork, Owed, Owes
  <2>7. InReview'
    BY <2>2, <1>0, <2>1, <2>3, <2>4 DEF OwedReview, OwesReview, WorkInv, InReview
  <2>8. TurnsInv'
    BY <1>0, <2>1, <2>3, <2>4, TurnsFrame DEF Late
  <2>9. QED
    BY <2>3, <2>5, <2>6, <2>7, <2>8 DEF RestInv, WorkInv
<1>5. QED
  BY <1>2, <1>3, <1>4 DEF Answers

(* An event is handled: what stays live, and what the event itself says.    *)
LEMMA EventFacts ==
  ASSUME TypeOK, ServerInv, events # <<>>, events' = Tail(events), server' = server,
         NEW e, e = Head(events)
  PROVE  /\ ServerInv' /\ e \in Event /\ e.turn \in TurnOrNone
         /\ \A t : Live(t) /\ (e.kind = "completed" => t # e.turn) => Live(t)'
         /\ Exits /\ e.kind # "exited" => Exits'
         /\ e.kind \in {"started", "item", "entered"} => Live(e.turn)'
         /\ e.kind = "active" => (\E t \in Turns : Live(t))'
         /\ e.kind = "entered" => server.reviewing \/ Exits'
         /\ e.kind = "completed" =>
               e.turn # NoTurn /\ \A t : Live(t) /\ t # e.turn => e.turn < t
<1> DEFINE s == Tail(events)
<1>0. events \in Seq(Event) /\ events' = s
  BY RestTypes
<1>1. /\ s \in Seq(Event) /\ e \in Event /\ Len(events) \in Nat \ {0}
      /\ Len(s) = Len(events) - 1 /\ e = events[1]
      /\ \A i \in 1..Len(s) : i + 1 \in 1..Len(events) /\ s[i] = events[i + 1]
      /\ \A i \in 2..Len(events) : i - 1 \in 1..Len(s) /\ s[i - 1] = events[i]
  BY <1>0, TailFacts
<1> HIDE DEF s
<1>2. e.turn \in TurnOrNone /\ (e.turn # NoTurn => e.turn \in Nat) /\ NoTurn \notin Nat
  BY <1>1, ConstantsAssumption DEF Event, TurnOrNone, Turns
<1>3. ServerInv'
  BY <1>0, OrderedTail DEF ServerInv, s
<1>4. InOrder(events, server, 1)
  BY <1>1 DEF ServerInv, Ordered
<1>5. \A i \in 1..Len(events) : i = 1 \/ i \in 2..Len(events)
  BY <1>1
<1>6. \A k, t : Has(events, k, t) => (e.kind = k /\ e.turn = t) \/ Has(s, k, t)
  BY <1>1, <1>5 DEF Has
<1>7. \A t : Live(t) /\ (e.kind = "completed" => t # e.turn) => Live(t)'
  BY <1>0, <1>6 DEF Live
<1>8. Exits /\ e.kind # "exited" => Exits'
  BY <1>0, <1>1, <1>5 DEF Exits
<1>9. /\ Later(events, 1, "exited") => Exits'
      /\ Later(events, 1, "completed") => \E t : Has(s, "completed", t)
      /\ Closed(events, 1) => Has(s, "completed", e.turn)
  <2>1. \A j \in (1 + 1)..Len(events) : j - 1 \in 1..Len(s) /\ s[j - 1] = events[j]
    BY <1>1
  <2>2. Later(events, 1, "exited") => Exits'
    BY <1>0, <2>1 DEF Later, Exits
  <2>3. Later(events, 1, "completed") => \E t : Has(s, "completed", t)
    BY <2>1 DEF Later, Has
  <2>4. Closed(events, 1) => Has(s, "completed", e.turn)
    BY <1>1, <2>1 DEF Closed, Has
  <2>5. QED
    BY <2>2, <2>3, <2>4
<1>10. \A t : Has(s, "completed", t) => Has(events, "completed", t)
  BY <1>1 DEF Has
<1>11. \A t : Has(s, "completed", t) => t \in Turns /\ Live(t)'
  BY <1>0, <1>10, LiveTurns DEF Live
<1>12. server.running # NoTurn => server.running \in Turns /\ Live(server.running)'
  BY LiveTurns, <1>0 DEF Live
<1>13. e.kind \in {"started", "item", "entered"} => Live(e.turn)'
  BY <1>1, <1>4, <1>9, <1>11, <1>12 DEF InOrder
<1>14. e.kind = "active" => (\E t \in Turns : Live(t))'
  BY <1>1, <1>4, <1>9, <1>11, <1>12 DEF InOrder
<1>15. e.kind = "entered" => server.reviewing \/ Exits'
  BY <1>1, <1>4, <1>9 DEF InOrder
<1>16. ASSUME e.kind = "completed"
       PROVE  e.turn # NoTurn /\ \A t : Live(t) /\ t # e.turn => e.turn < t
  <2>1. /\ e.turn # NoTurn /\ e.turn \in server.ended
        /\ \A j \in (1 + 1)..Len(events) : events[j].turn # NoTurn => e.turn < events[j].turn
    BY <1>1, <1>4, <1>16 DEF InOrder
  <2>2. ASSUME NEW t, Live(t), t # e.turn PROVE e.turn < t
    BY <1>2, <1>6, <2>2, <2>1, RestTypes, <1>1 DEF Live, ServerInv, Settled, Has
  <2>3. QED
    BY <2>1, <2>2
<1>17. QED
  BY <1>1, <1>2, <1>3, <1>7, <1>8, <1>13, <1>14, <1>15, <1>16

(* An event that does not end the turn it names: the references name a      *)
(* later one, which is live and stays so.                                   *)
LEMMA NotEnded ==
  ASSUME TypeOK, TurnsInv, ~Late, NEW e, ~Ends(e), NEW r, r = Latest(refs, shown.turn)
  PROVE  /\ r \in Refs /\ r.last = shown.turn /\ r.imm # Unset /\ r.imm # e.turn /\ Live(r.imm)
         /\ ui.turn # NoTurn => r.imm <= ui.turn
<1>0. refs \in Refs /\ shown.turn \in TurnOrNone
  BY RestTypes
<1>1. /\ Known(ui.turn) /\ ShownLive /\ RefsLive /\ NoneLater
  BY DEF TurnsInv
<1>2. /\ r.last = shown.turn /\ r.imm = LatestTurn(refs, shown.turn) /\ r.imm # Unset
      /\ \/ refs.imm # Unset /\ r.imm = refs.imm
         \/ r.imm = shown.turn /\ shown.turn # refs.last
  BY <1>0, <1>1, LatestFacts DEF RefsLive
<1>3. r.imm # e.turn /\ r.imm # NoTurn
  BY <1>2 DEF Ends
<1>4. Live(r.imm)
  BY <1>1, <1>2, <1>3 DEF RefsLive, ShownLive, Known, Stale
<1>5. ui.turn # NoTurn => r.imm <= ui.turn
  BY <1>1, <1>2, <1>3 DEF NoneLater, Stale
<1>6. QED
  BY <1>0, <1>2, <1>3, <1>4, <1>5, RefsOps

(* The references are forgotten together with the turn.                     *)
LEMMA TurnsForget ==
  ASSUME NEW r \in Refs, refs' = Forget(r), ui'.turn = NoTurn,
         ~Late' => ShownLive' \/ shown'.turn = r.last
  PROVE  TurnsInv'
BY ConstantsAssumption DEF Forget, Refs, TurnsInv, Known, ShownLive, Stale, RefsLive,
   NoneLater

(* An event that does not end its turn: the references catch up.            *)
LEMMA TurnsLatest ==
  ASSUME TypeOK, ServerInv, TurnsInv, Late => Late', NEW e, ~Ends(e),
         refs' = Latest(refs, shown.turn), UNCHANGED <<ui, shown>>,
         \A t : Live(t) /\ (e.kind = "completed" => t # e.turn) => Live(t)',
         e.kind = "completed" => e.turn # NoTurn /\ e.turn \in TurnOrNone
                                 /\ \A t : Live(t) /\ t # e.turn => e.turn < t
  PROVE  TurnsInv' /\ (~Late => (\E t \in Turns : Live(t))')
BY NotEnded, LiveTurns, RestTypes, ConstantsAssumption DEF TurnsInv, TurnOrNone, Turns, Known,
   ShownLive, Stale, RefsLive, NoneLater

LEMMA RestHandleEvent ==
  ASSUME TypeOK, RestInv, HandleEvent
  PROVE  RestInv'
<1> SUFFICES ASSUME NEW e, e = Head(events) PROVE RestInv'
  OBVIOUS
<1>0. /\ ui \in Status /\ ui.turn \in TurnOrNone /\ refs \in Refs /\ shown.turn \in TurnOrNone
      /\ ServerInv /\ WorkInv /\ TurnsInv
  BY RestTypes DEF RestInv
<1>1. /\ events # <<>> /\ events' = Tail(events) /\ UNCHANGED <<shown, call, server>>
      /\ \A b : b \in blame => b \in blame'
      /\ \/ TurnStarted(e) \/ TurnCompleted(e) \/ TurnError(e)
         \/ ItemEvent(e) \/ ThreadStatusChanged(e) \/ ThreadClosed(e)
  BY DEF HandleEvent, outside
<1>2. /\ ServerInv' /\ e \in Event /\ e.turn \in TurnOrNone
      /\ \A t : Live(t) /\ (e.kind = "completed" => t # e.turn) => Live(t)'
      /\ Exits /\ e.kind # "exited" => Exits'
      /\ e.kind \in {"started", "item", "entered"} => Live(e.turn)'
      /\ e.kind = "active" => (\E t \in Turns : Live(t))'
      /\ e.kind = "entered" => server.reviewing \/ Exits'
      /\ e.kind = "completed" =>
            e.turn # NoTurn /\ \A t : Live(t) /\ t # e.turn => e.turn < t
  BY <1>0, <1>1, EventFacts
<1>3. (Late => Late') /\ (Disordered => Disordered') /\ (Late => Disordered)
  BY <1>1 DEF Late, Disordered
<1>4. e.kind # "completed" => \A t \in Turns : Live(t) => Live(t)'
  BY <1>2
<1>5. e.kind \in {"started", "item", "entered"} =>
        e.turn \in Turns /\ e.turn \in Nat /\ (\E t \in Turns : Live(t))'
  BY RestTypes, ConstantsAssumption, <1>1, <1>2 DEF Live, Turns
<1>6. /\ \A b \in BOOLEAN : /\ Mark(ui, b) \in Status /\ Mark(ui, b).processing = b
                            /\ Mark(ui, b).reviewing = ui.reviewing /\ Mark(ui, b).turn = ui.turn
      /\ ~Stopped(ui).processing /\ Stopped(ui).reviewing = ui.reviewing
      /\ Stopped(ui).turn = NoTurn
      /\ ~Review(Stopped(ui), FALSE).processing /\ ~Review(Stopped(ui), FALSE).reviewing
      /\ Review(Stopped(ui), FALSE).turn = NoTurn
      /\ ~Review(Mark(ui, FALSE), FALSE).processing /\ ~Review(Mark(ui, FALSE), FALSE).reviewing
      /\ Review(Mark(ui, FALSE), FALSE).turn = ui.turn
      /\ Review(Mark(ui, TRUE), TRUE).turn = ui.turn
  <2>1. \A b \in BOOLEAN : /\ Mark(ui, b) \in Status /\ Mark(ui, b).processing = b
                           /\ Mark(ui, b).reviewing = ui.reviewing /\ Mark(ui, b).turn = ui.turn
    BY <1>0, StatusOps, StatusFields
  <2>2. QED
    BY <1>0, <2>1, StatusEnds
<1>7. ASSUME ui'.processing /\ ~Disordered =>
               (ui.processing /\ e.kind # "completed") \/ (\E t \in Turns : Live(t))',
             ui'.reviewing => (ui.reviewing /\ e.kind # "exited") \/ server.reviewing \/ Exits',
             TurnsInv'
      PROVE  RestInv'
  BY <1>0, <1>1, <1>3, <1>4, <1>7, <1>2 DEF WorkInv, SteersNamed, Owed, OwedReview, AtWork,
     InReview, RestInv
(* What leaves the references alone, and what forgets them.                 *)
<1>8. ASSUME e.kind # "completed", refs' = refs, ui'.turn = ui.turn \/ ui'.turn = NoTurn
      PROVE  TurnsInv'
  BY <1>0, <1>1, <1>3, <1>4, <1>8, TurnsFrame
<1>9. ASSUME e.kind # "completed", refs' = Forget(refs), ui'.turn = NoTurn
      PROVE  TurnsInv'
  BY <1>1, <1>2, <1>9, <1>0, <1>3, TurnsForget DEF Known, TurnsInv, ShownLive, Stale
<1>10. ASSUME refs' = Forget(Latest(refs, shown.turn)), ui'.turn = NoTurn
       PROVE  TurnsInv'
  <2> DEFINE r == Latest(refs, shown.turn)
  <2>1. r \in Refs
    BY <1>0, RefsOps
  <2>2. ~Late => r.last = shown.turn
    BY <1>0, LatestFacts DEF TurnsInv, RefsLive
  <2> HIDE DEF r
  <2>3. QED
    BY <1>1, <1>3, <1>10, <2>1, <2>2, TurnsForget DEF r
<1>11. ASSUME ~Ends(e), refs' = Latest(refs, shown.turn), ui' = ui
       PROVE  TurnsInv' /\ (~Late => (\E t \in Turns : Live(t))')
  BY <1>1, <1>11, <1>0, <1>2, <1>3, TurnsLatest
<1>12. CASE TurnStarted(e)
  <2>1. CASE pending
    BY <1>7, <1>8, <1>12, <2>1 DEF TurnStarted
  <2>2. CASE ~pending
    <3>1. /\ e.kind = "started" /\ ui' = SetTurn(Mark(ui, TRUE), e.turn)
          /\ refs' = [imm |-> e.turn, last |-> shown.turn, opt |-> TRUE]
      BY <1>12, <2>2 DEF TurnStarted
    <3>2. ui'.turn = e.turn /\ ui'.reviewing = ui.reviewing
      <4> DEFINE marked == Mark(ui, TRUE)
      <4>1. marked \in Status /\ marked.reviewing = ui.reviewing
        BY <1>6
      <4> HIDE DEF marked
      <4>2. /\ SetTurn(marked, e.turn).turn = e.turn
            /\ SetTurn(marked, e.turn).reviewing = ui.reviewing
        BY <4>1, StatusFields
      <4>3. QED
        BY <3>1, <4>2 DEF marked
    <3>3. refs'.imm = e.turn /\ refs'.last = shown.turn
      BY <3>1
    <3>4. e.turn \in Nat /\ e.turn # Unset /\ e.turn <= e.turn
      BY <1>5, <3>1, ConstantsAssumption
    <3>5. Known(ui.turn)' /\ ShownLive' /\ RefsLive' /\ NoneLater'
      BY <1>1, <1>2, <3>1, <3>2, <3>3, <3>4
         DEF Known, ShownLive, Stale, RefsLive, NoneLater
    <3>6. TurnsInv'
      BY <3>5 DEF TurnsInv
    <3>7. QED
      BY <1>5, <1>7, <3>1, <3>2, <3>6
  <2>3. QED
    BY <2>1, <2>2
<1>13. CASE TurnCompleted(e)
  BY <1>13, <1>6, <1>7, <1>10, <1>3, <1>11 DEF TurnCompleted
<1>14. CASE TurnError(e)
  BY <1>7, <1>8, <1>14, <1>6, <1>10, <1>11 DEF TurnError
<1>15. CASE ItemEvent(e)
  BY <1>15, <1>6, <1>8, <1>5, <1>7, <1>2 DEF ItemEvent
<1>16. CASE ThreadStatusChanged(e)
  BY <1>2, <1>6, <1>7, <1>8, <1>9, <1>16 DEF ThreadStatusChanged
<1>17. CASE ThreadClosed(e)
  BY <1>17, <1>6, <1>7, <1>9 DEF ThreadClosed
<1>18. QED
  BY <1>1, <1>12, <1>13, <1>14, <1>15, <1>16, <1>17

(* The events of a step that may tell of e, when c, after evs.              *)
Option(evs, c, e) == evs \o (IF c THEN <<e>> ELSE <<>>)

LEMMA OptionFacts ==
  ASSUME NEW evs \in Seq(Event), NEW c \in BOOLEAN, NEW e \in Event
  PROVE  /\ Option(evs, c, e) = IF c THEN Append(evs, e) ELSE evs
         /\ Option(evs, c, e) \in Seq(Event)
         /\ \A k, t : Has(evs, k, t) => Has(Option(evs, c, e), k, t)
         /\ c => Has(Option(evs, c, e), e.kind, e.turn)
<1>1. evs \o <<e>> = Append(evs, e) /\ evs \o <<>> = evs
  OBVIOUS
<1>2. Option(evs, c, e) = IF c THEN Append(evs, e) ELSE evs
  BY <1>1 DEF Option
<1>3. QED
  BY <1>2, AppendFacts

LEMMA OptionOrdered ==
  ASSUME NEW evs \in Seq(Event), NEW srv \in Server, NEW c \in BOOLEAN, NEW e \in Event,
         Settled(srv), Ordered(evs, srv),
         c => /\ e.kind # "completed"
              /\ e.turn # NoTurn => e.turn = srv.running
              /\ e.kind \in {"started", "item", "entered"} => e.turn # NoTurn
              /\ e.kind = "active" => srv.running # NoTurn
              /\ e.kind = "entered" => srv.reviewing
  PROVE  Ordered(Option(evs, c, e), srv)
BY OptionFacts, OrderedAppend

(* The server adds to what is under way: the order of its events is kept,   *)
(* and what was live is.                                                    *)
Adds ==
    /\ Settled(server)' /\ Ordered(events, server)'
    /\ server.last <= server'.last
    /\ \A k, t : Has(events, k, t) => Has(events', k, t)
    /\ server.running # NoTurn =>
          server'.running = server.running \/ Has(events', "completed", server.running)
    /\ server.reviewing => server'.reviewing \/ \E t : Has(events', "exited", t)

LEMMA AddsFacts ==
  ASSUME TypeOK, TypeOK', Adds
  PROVE  /\ ServerInv' /\ \A t : Live(t) => Live(t)'
         /\ Exits => Exits'
         /\ server.reviewing => server'.reviewing \/ Exits'
<1>1. server.last \in Nat /\ server'.last \in Nat
  BY RestTypes, TypeParts DEF ServerOK, Server
<1>2. ASSUME NEW t, Live(t) PROVE Live(t)'
  BY ConstantsAssumption, <1>1, <1>2 DEF Live, Adds
<1>3. Exits => Exits'
  <2>1. Exits <=> \E t : Has(events, "exited", t)
    BY DEF Exits, Has
  <2>2. Exits' <=> \E t : Has(events', "exited", t)
    BY DEF Exits, Has
  <2>3. QED
    BY <2>1, <2>2 DEF Adds
<1>4. server.reviewing => server'.reviewing \/ Exits'
  BY DEF Exits, Adds, Has
<1>5. QED
  BY <1>2, <1>3, <1>4 DEF Adds, ServerInv

(* One event more, of the turn that runs or of none.                        *)
LEMMA AddsOne ==
  ASSUME TypeOK, ServerInv, UNCHANGED server, NEW e \in Event, events' = Append(events, e),
         e.turn = server.running \/ e.turn = NoTurn,
         e.kind = "item" => e.turn # NoTurn,
         e.kind \in {"item", "retry", "closed"}
  PROVE  Adds
BY RestTypes, ConstantsAssumption, OrderedAppend, AppendFacts DEF ServerInv, Adds

(* The end of the turn that runs.                                           *)
LEMMA AddsEnd ==
  ASSUME TypeOK, ServerInv, server.running # NoTurn,
         NEW fails \in BOOLEAN, NEW errors,
         errors = (IF fails THEN <<Ev("error", server.running)>> ELSE <<>>), Ended(errors)
  PROVE  Adds
<1> SUFFICES ASSUME NEW t, t = server.running PROVE Adds
  OBVIOUS
<1> DEFINE told == "status" \in scene.faults
           s1 == Option(events, server.reviewing, Ev("exited", t))
           s2 == Option(s1, fails, Ev("error", t))
           s3 == Append(s2, Ev("completed", t))
           s4 == Option(s3, told, Ev("idle", NoTurn))
<1>0. /\ events \in Seq(Event) /\ server \in Server /\ server.last \in Nat /\ t \in TurnOrNone
      /\ server.reviewing \in BOOLEAN /\ Settled(server) /\ Ordered(events, server)
      /\ NoTurn \in TurnOrNone /\ told \in BOOLEAN
  BY RestTypes, ConstantsAssumption DEF Server, ServerInv, TurnOrNone
<1>1. \A k \in {"exited", "error", "completed"} : Ev(k, t) \in Event /\ Ev(k, t).kind = k /\ Ev(k, t).turn = t
  BY <1>0, EventTypes DEF Ev
<1>2. Ev("idle", NoTurn) \in Event /\ Ev("idle", NoTurn).kind = "idle" /\ Ev("idle", NoTurn).turn = NoTurn
  BY <1>0, EventTypes DEF Ev
<1>3. /\ s1 \in Seq(Event) /\ Ordered(s1, server)
      /\ \A k, x : Has(events, k, x) => Has(s1, k, x)
      /\ server.reviewing => Has(s1, "exited", t)
  BY <1>0, <1>1, OptionFacts, OptionOrdered
<1>4. Left(s1)
  <2>1. CASE server.reviewing
    BY <1>0, <1>1, <2>1, OptionFacts, LeftAppend
  <2>2. CASE ~server.reviewing
    BY <1>0, <1>1, <2>2, OptionFacts DEF Ordered, InOrder, Left
  <2>3. QED
    BY <2>1, <2>2
<1>5. /\ s2 \in Seq(Event) /\ Ordered(s2, server) /\ Left(s2)
      /\ \A k, x : Has(s1, k, x) => Has(s2, k, x)
  <2> HIDE DEF s1
  <2>1. /\ s2 \in Seq(Event) /\ Ordered(s2, server)
        /\ \A k, x : Has(s1, k, x) => Has(s2, k, x)
    BY <1>0, <1>1, <1>3, OptionFacts, OptionOrdered
  <2>2. Left(s2)
    BY <1>1, <1>3, <1>4, OptionFacts, LeftAppend
  <2>3. QED
    BY <2>1, <2>2
<1> HIDE DEF s2
<1>6. /\ server'.running = NoTurn /\ server'.last = server.last /\ server'.reviewing = FALSE
      /\ server'.ended = server.ended \cup {t} /\ server' \in Server
  BY <1>0 DEF Ended, Server, TurnOrNone
<1>7. Settled(server') /\ Ordered(s3, server')
  BY <1>0, <1>5, <1>6, OrderedEnd
<1>8. s3 \in Seq(Event) /\ Has(s3, "completed", t) /\ \A k, x : Has(s2, k, x) => Has(s3, k, x)
  BY <1>1, <1>5, AppendFacts
<1> HIDE DEF told
<1>9. /\ s4 \in Seq(Event) /\ Ordered(s4, server') /\ \A k, x : Has(s3, k, x) => Has(s4, k, x)
  <2> DEFINE e == Ev("idle", NoTurn)
  <2> HIDE DEF s3
  <2>1. e \in Event /\ e.kind = "idle" /\ e.turn = NoTurn /\ told \in BOOLEAN
    BY <1>0, <1>2
  <2> HIDE DEF e
  <2>2. Ordered(Option(s3, told, e), server')
    BY <1>6, <1>7, <1>8, <2>1, OptionOrdered
  <2>3. /\ Option(s3, told, e) \in Seq(Event)
        /\ \A k, x : Has(s3, k, x) => Has(Option(s3, told, e), k, x)
    BY <1>8, <2>1, OptionFacts
  <2>4. QED
    BY <2>2, <2>3 DEF e
<1>10. events' = s4
  <2>1. events' = (((events \o (IF server.reviewing THEN <<Ev("exited", t)>> ELSE <<>>))
                   \o errors) \o <<Ev("completed", t)>>) \o Told(<<Ev("idle", NoTurn)>>)
    BY DEF Ended
  <2>2. Told(<<Ev("idle", NoTurn)>>) = IF told THEN <<Ev("idle", NoTurn)>> ELSE <<>>
    BY DEF Told, told
  <2>3. s2 \o <<Ev("completed", t)>> = s3
    BY <1>1, <1>5
  <2>4. s2 = (events \o (IF server.reviewing THEN <<Ev("exited", t)>> ELSE <<>>)) \o errors
    BY DEF s2, Option
  <2>5. QED
    BY <2>1, <2>2, <2>3, <2>4 DEF Option
<1>11. \A k, x : Has(events, k, x) => Has(events', k, x)
  BY <1>3, <1>5, <1>8, <1>9, <1>10
<1>12. Has(events', "completed", t) /\ (server.reviewing => Has(events', "exited", t))
  BY <1>3, <1>5, <1>8, <1>9, <1>10
<1>13. (Settled(server) /\ Ordered(events, server))'
  BY <1>7, <1>9, <1>10
<1>14. QED
  BY <1>0, <1>6, <1>11, <1>12, <1>13 DEF Adds

(* The server starts a turn.                                                *)
LEMMA AddsStart ==
  ASSUME TypeOK, TypeOK', ServerInv, NEW m \in Messages, ServeStart(m)
  PROVE  Adds /\ server'.running # NoTurn /\ (call[m].mode = "review" => server'.reviewing)
<1> SUFFICES ASSUME NEW t, t = server.last + 1
             PROVE  Adds /\ server'.running # NoTurn
                    /\ (call[m].mode = "review" => server'.reviewing)
  OBVIOUS
<1> DEFINE told == "status" \in scene.faults
           review == call[m].mode = "review"
           s1 == Option(events, told, Ev("active", NoTurn))
           s2 == Option(s1, TRUE, Ev("started", t))
           s3 == Option(s2, review, Ev("entered", t))
<1>0. /\ events \in Seq(Event) /\ server \in Server /\ server.last \in Nat
      /\ server.running = NoTurn /\ ~server.reviewing
      /\ Settled(server) /\ Ordered(events, server)
      /\ server' \in Server /\ NoTurn \in TurnOrNone /\ NoTurn \notin Nat
  BY TypeParts, RestTypes, ConstantsAssumption DEF ServerOK, ServerInv, TurnOrNone, ServeStart,
     Settled
<1>1. /\ server'.running = t /\ server'.last = t /\ server'.ended = server.ended
      /\ server'.reviewing = review /\ t # NoTurn /\ t \in TurnOrNone
  <2>1. /\ server' = [server EXCEPT !.running = t, !.last = t, !.reviewing = review,
                                    !.startedFor[t] = m]
    BY DEF ServeStart
  <2>2. server'.running = t /\ server'.last = t /\ server'.ended = server.ended
        /\ server'.reviewing = review
    BY <1>0, <2>1 DEF Server
  <2>3. t # NoTurn /\ server'.running \in TurnOrNone
    BY <1>0 DEF Server
  <2>4. QED
    BY <2>2, <2>3
<1>2. \A k \in {"started", "entered"} : Ev(k, t) \in Event /\ Ev(k, t).kind = k /\ Ev(k, t).turn = t
  BY <1>1, EventTypes DEF Ev
<1>3. /\ Ev("active", NoTurn) \in Event /\ Ev("active", NoTurn).kind = "active"
      /\ Ev("active", NoTurn).turn = NoTurn
  BY <1>0, EventTypes DEF Ev
<1>4. Settled(server') /\ Ordered(events, server')
  BY <1>0, <1>1, OrderedStart
<1>5. told \in BOOLEAN /\ review \in BOOLEAN
  OBVIOUS
<1>6. events' = s3
  BY DEF ServeStart, Option, Told
<1> HIDE DEF told, review
<1>7. /\ s1 \in Seq(Event) /\ Ordered(s1, server')
      /\ \A k, x : Has(events, k, x) => Has(s1, k, x)
  <2> DEFINE e == Ev("active", NoTurn)
  <2>1. e \in Event /\ e.kind = "active" /\ e.turn = NoTurn
    BY <1>3
  <2> HIDE DEF e
  <2>2. Ordered(Option(events, told, e), server')
    BY <1>0, <1>1, <1>4, <1>5, <2>1, OptionOrdered
  <2>3. QED
    BY <1>0, <1>5, <2>1, <2>2, OptionFacts DEF e
<1> HIDE DEF s1
<1>8. /\ s2 \in Seq(Event) /\ Ordered(s2, server')
      /\ \A k, x : Has(s1, k, x) => Has(s2, k, x)
  <2> DEFINE e == Ev("started", t)
  <2>1. e \in Event /\ e.kind = "started" /\ e.turn = t
    BY <1>2
  <2> HIDE DEF e
  <2>2. Ordered(Option(s1, TRUE, e), server')
    BY <1>0, <1>1, <1>4, <1>7, <2>1, OptionOrdered
  <2>3. QED
    BY <1>7, <2>1, <2>2, OptionFacts DEF e
<1> HIDE DEF s2
<1>9. /\ s3 \in Seq(Event) /\ Ordered(s3, server')
      /\ \A k, x : Has(s2, k, x) => Has(s3, k, x)
  <2> DEFINE e == Ev("entered", t)
  <2>1. e \in Event /\ e.kind = "entered" /\ e.turn = t
    BY <1>2
  <2> HIDE DEF e
  <2>2. Ordered(Option(s2, review, e), server')
    BY <1>0, <1>1, <1>4, <1>5, <1>8, <2>1, OptionOrdered
  <2>3. QED
    BY <1>5, <1>8, <2>1, <2>2, OptionFacts DEF e
<1>10. \A k, x : Has(events, k, x) => Has(events', k, x)
  BY <1>6, <1>7, <1>8, <1>9
<1>11. (Settled(server) /\ Ordered(events, server))'
  BY <1>4, <1>6, <1>9
<1>12. server.last <= server'.last
  BY <1>0, <1>1
<1>13. Adds
  BY <1>0, <1>10, <1>11, <1>12 DEF Adds
<1>14. QED
  BY <1>1, <1>13 DEF review

(* A step of the server: the window keeps what it shows.                    *)
LEMMA ServeFrame ==
  ASSUME TypeOK, TypeOK', RestInv, Adds \/ UNCHANGED <<server, events>>,
         UNCHANGED <<ui, shown, refs>>, \A b : b \in blame => b \in blame',
         SteersNamed', Owed => Owed' \/ (\E t \in Turns : Live(t))',
         OwedReview => OwedReview' \/ server'.reviewing
  PROVE  RestInv'
BY AddsFacts, LiveStill, WorkFrame, RestTypes, TurnsFrame DEF RestInv, Disordered, Late

LEMMA RestServe ==
  ASSUME TypeOK, TypeOK', RestInv,
         Serve \/ (\E kind \in {"item", "retry"} : ServeItem(kind)) \/ EndTurn \/ CloseThread
  PROVE  RestInv'
<1>0. /\ call \in [Messages -> Call] /\ events \in Seq(Event) /\ server \in Server
      /\ server.running \in TurnOrNone /\ ServerInv /\ WorkInv /\ SteersNamed
  BY RestTypes DEF RestInv, WorkInv
<1>1. ASSUME NEW m \in Messages, ServeStart(m)
      PROVE  RestInv'
  <2>1. /\ UNCHANGED <<ui, shown, refs, blame>> /\ call[m].mode \in {"start", "review"}
        /\ \/ call' = [call EXCEPT ![m].step = "ok", ![m].turn = server.last + 1]
           \/ call' = [call EXCEPT ![m].step = "failed"]
    BY <1>1 DEF ServeStart, hooks, ghosts
  <2>2. call'[m].mode = call[m].mode /\ \A x \in Messages \ {m} : call'[x] = call[x]
    BY <1>0, <2>1 DEF Call
  <2>3. Adds /\ server'.running # NoTurn /\ (call[m].mode = "review" => server'.reviewing)
    BY <1>0, <1>1, AddsStart
  <2>4. (\E t \in Turns : Live(t))'
    BY TypeParts, <2>3, ConstantsAssumption DEF ServerOK, Adds, Settled, Server, TurnOrNone,
       Turns, Live
  <2>5. SteersNamed'
    BY <1>0, <2>1, <2>2 DEF SteersNamed
  <2>6. OwedReview => OwedReview' \/ server'.reviewing
    BY <2>2, <2>3 DEF OwedReview, OwesReview
  <2>7. QED
    BY <2>1, <2>3, <2>4, <2>5, <2>6, ServeFrame
<1>2. ASSUME NEW m \in Messages, ServeSteer(m)
      PROVE  RestInv'
  BY <1>2, <1>0, LiveTurns, LiveStill, ServeFrame DEF ServeSteer, hooks, ghosts, Call,
     SteersNamed, Owed, Owes, OwedReview, OwesReview
<1>3. ASSUME NEW m \in Messages, Refuse(m)
      PROVE  RestInv'
  BY <1>3, <1>0, ServeFrame DEF Refuse, hooks, outside, Call, SteersNamed, Owed, Owes,
     OwedReview, OwesReview
<1>4. ASSUME UNCHANGED <<ui, shown, refs, call, blame>>, Adds \/ UNCHANGED <<server, events>>
      PROVE  RestInv'
  BY <1>0, <1>4, ServeFrame DEF SteersNamed, Owed, OwedReview
<1>5. CASE ServeInterrupt
  BY <1>5, <1>0, AddsEnd, <1>4 DEF ServeInterrupt, hooks, ghosts
<1>6. ASSUME NEW kind \in {"item", "retry"}, ServeItem(kind)
      PROVE  RestInv'
  <2> DEFINE e == Ev(kind, server.running)
  <2>1. /\ UNCHANGED <<ui, shown, refs, call, blame, server>> /\ events' = Append(events, e)
        /\ server.running # NoTurn
    BY <1>6 DEF ServeItem, hooks, ghosts
  <2>2. e \in Event /\ e.kind = kind /\ e.turn = server.running
    BY <1>0, EventTypes DEF Ev
  <2> HIDE DEF e
  <2>3. Adds
    BY <1>0, <2>1, <2>2, AddsOne
  <2>4. QED
    BY <1>4, <2>1, <2>3
<1>7. CASE EndTurn
  BY <1>7, <1>0, AddsEnd, <1>4 DEF EndTurn, hooks, ghosts
<1>8. CASE CloseThread
  <2> DEFINE e == Ev("closed", NoTurn)
  <2>1. /\ UNCHANGED <<ui, shown, refs, call, blame, server>> /\ events' = Append(events, e)
    BY <1>8 DEF CloseThread, hooks, outside, ghosts
  <2>2. e \in Event /\ e.kind = "closed" /\ e.turn = NoTurn
    BY EventTypes DEF Ev, TurnOrNone
  <2> HIDE DEF e
  <2>3. Adds
    BY <1>0, <2>1, <2>2, AddsOne
  <2>4. QED
    BY <1>4, <2>1, <2>3
<1>9. QED
  BY <1>1, <1>2, <1>3, <1>5, <1>6, <1>7, <1>8 DEF Serve

LEMMA RestNext == TypeOK /\ OnceInv /\ RestInv /\ [Next]_vars => RestInv'
BY TypeNext, RestStill, RestUser, RestRender, RestAnswers, RestHandleEvent, RestServe DEF
   vars, Next

(* When the server runs no turn and every event, request and answer has     *)
(* been handled, the window shows the thread at rest, for any number of     *)
(* messages and turns and whatever fails, as long as no answer was handled  *)
(* after the end of its turn and no steer was refused but for a stale turn. *)
THEOREM ThreadIdleAtRest == Spec => []IdleAtRest
<1>1. TypeOK /\ RestInv => IdleAtRest
  <2> SUFFICES ASSUME TypeOK, RestInv, AtRest, ~Disordered
               PROVE  ~ui.processing /\ ~ui.reviewing /\ ui.turn = NoTurn
    BY DEF IdleAtRest
  <2>1. ~Owed /\ ~OwedReview
    BY DEF AtRest, Owed, Owes, OwedReview, OwesReview
  <2>2. \A t : ~Live(t)
    BY RestTypes, ConstantsAssumption DEF AtRest, Live, Has
  <2>3. ~ui.processing
    BY <2>1, <2>2 DEF RestInv, WorkInv, AtWork
  <2>4. ~ui.reviewing
    BY <2>1 DEF RestInv, WorkInv, InReview, AtRest, Exits, ServerInv, Settled
  <2>5. ui.turn = NoTurn
    BY <2>2 DEF RestInv, TurnsInv, Known, Disordered, Late
  <2>6. QED
    BY <2>3, <2>4, <2>5
<1>2. QED
  BY <1>1, TypeInit, TypeNext, OnceInit, OnceNext, RestInit, RestNext, PTL DEF Spec

----------------------------------------------------------------------------
(* The stop that waits for the start of its turn.  While it waits, the next *)
(* turn the window is told of is the one of the message it is aimed at: its *)
(* start is told already, or its request is the first to start a turn, or  *)
(* it waits for the thread and no other message is being started.  Once it *)
(* no longer waits, that start has been handled.                           *)
Starts(evs, i) == evs[i].kind = "started"
NoStarts(evs) == \A i \in 1..Len(evs) : ~Starts(evs, i)
NextFor(evs, for, m) ==
    \E i \in 1..Len(evs) :
      /\ Starts(evs, i)
      /\ \A j \in 1..i : Starts(evs, j) => for[evs[j].turn] = m
NoneFor(evs, for, m) == \A i \in 1..Len(evs) : Starts(evs, i) => for[evs[i].turn] # m
StartsOnce(evs) ==
    \A i, j \in 1..Len(evs) :
      Starts(evs, i) /\ Starts(evs, j) /\ evs[i].turn = evs[j].turn => i = j

(* evs2 is evs1 with more at its end, no start of a turn among it.          *)
More(evs1, evs2) ==
    /\ Len(evs1) <= Len(evs2)
    /\ \A i \in 1..Len(evs1) : evs2[i] = evs1[i]
    /\ \A i \in 1..Len(evs2) : i \in 1..Len(evs1) \/ ~Starts(evs2, i)

LEMMA MoreFacts ==
  ASSUME NEW evs1 \in Seq(Event), NEW evs2 \in Seq(Event), More(evs1, evs2), NEW for, NEW m
  PROVE  /\ NoStarts(evs1) => NoStarts(evs2)
         /\ NextFor(evs1, for, m) => NextFor(evs2, for, m)
         /\ NoneFor(evs1, for, m) => NoneFor(evs2, for, m)
         /\ StartsOnce(evs1) => StartsOnce(evs2)
<1>1. Len(evs1) \in Nat /\ Len(evs2) \in Nat /\ \A i \in 1..Len(evs1) : i \in 1..Len(evs2)
  BY DEF More
<1>2. \A i \in 1..Len(evs2) :
        Starts(evs2, i) => i \in 1..Len(evs1) /\ evs2[i] = evs1[i] /\ Starts(evs1, i)
  BY DEF More, Starts
<1>3. \A i \in 1..Len(evs1) : \A j \in 1..i : j \in 1..Len(evs1)
  BY <1>1
<1>4. NoStarts(evs1) => NoStarts(evs2)
  BY <1>2 DEF NoStarts
<1>5. ASSUME NextFor(evs1, for, m) PROVE NextFor(evs2, for, m)
  BY <1>5, <1>1, <1>2, <1>3 DEF NextFor, More, Starts
<1>6. NoneFor(evs1, for, m) => NoneFor(evs2, for, m)
  BY <1>2 DEF NoneFor
<1>7. StartsOnce(evs1) => StartsOnce(evs2)
  BY <1>2 DEF StartsOnce
<1>8. QED
  BY <1>4, <1>5, <1>6, <1>7

LEMMA MoreAppend ==
  ASSUME NEW evs1 \in Seq(Event), NEW evs2 \in Seq(Event), More(evs1, evs2),
         NEW e \in Event, e.kind # "started"
  PROVE  More(evs1, Append(evs2, e))
<1> DEFINE s == Append(evs2, e)
<1>1. /\ Len(evs1) \in Nat /\ Len(evs2) \in Nat /\ Len(s) = Len(evs2) + 1
      /\ s[Len(evs2) + 1] = e /\ \A i \in 1..Len(evs2) : s[i] = evs2[i]
      /\ \A i \in 1..Len(s) : i \in 1..Len(evs2) \/ i = Len(evs2) + 1
  BY AppendFacts
<1> HIDE DEF s
<1>2. Len(evs1) <= Len(s) /\ \A i \in 1..Len(evs1) : i \in 1..Len(evs2)
  BY <1>1 DEF More
<1>3. \A i \in 1..Len(evs1) : s[i] = evs1[i]
  BY <1>1, <1>2 DEF More
<1>4. \A i \in 1..Len(s) : i \in 1..Len(evs1) \/ ~Starts(s, i)
  BY <1>1 DEF More, Starts
<1>5. QED
  BY <1>2, <1>3, <1>4 DEF More, s

LEMMA MoreOption ==
  ASSUME NEW evs1 \in Seq(Event), NEW evs2 \in Seq(Event), More(evs1, evs2),
         NEW c \in BOOLEAN, NEW e \in Event, e.kind # "started"
  PROVE  More(evs1, Option(evs2, c, e))
BY MoreAppend, OptionFacts

LEMMA MoreSame == ASSUME NEW evs \in Seq(Event) PROVE More(evs, evs)
BY DEF More

(* The start of a turn joins the events.                                    *)
LEMMA StartAppend ==
  ASSUME NEW evs \in Seq(Event), NEW e \in Event, e.kind = "started", NEW for, NEW m
  PROVE  /\ NextFor(evs, for, m) => NextFor(Append(evs, e), for, m)
         /\ NoStarts(evs) /\ for[e.turn] = m => NextFor(Append(evs, e), for, m)
         /\ NoneFor(evs, for, m) /\ for[e.turn] # m => NoneFor(Append(evs, e), for, m)
         /\ StartsOnce(evs) /\ (\A i \in 1..Len(evs) : Starts(evs, i) => evs[i].turn # e.turn)
              => StartsOnce(Append(evs, e))
<1> DEFINE s == Append(evs, e)
<1>1. /\ Len(evs) \in Nat /\ Len(s) = Len(evs) + 1
      /\ s[Len(evs) + 1] = e /\ \A i \in 1..Len(evs) : s[i] = evs[i]
      /\ \A i \in 1..Len(s) : i \in 1..Len(evs) \/ i = Len(evs) + 1
  BY AppendFacts
<1> HIDE DEF s
<1>2. /\ Len(evs) + 1 \in 1..Len(s) /\ Starts(s, Len(evs) + 1)
      /\ \A i \in 1..Len(evs) : i \in 1..Len(s) /\ (Starts(s, i) <=> Starts(evs, i))
      /\ \A i \in 1..Len(evs) : \A j \in 1..i : j \in 1..Len(evs)
  BY <1>1 DEF Starts
<1>3. ASSUME NextFor(evs, for, m) PROVE NextFor(s, for, m)
  BY <1>3, <1>1, <1>2 DEF NextFor
<1>4. ASSUME NoStarts(evs), for[e.turn] = m PROVE NextFor(s, for, m)
  BY <1>1, <1>2, <1>4 DEF NoStarts, NextFor
<1>5. NoneFor(evs, for, m) /\ for[e.turn] # m => NoneFor(s, for, m)
  BY <1>1, <1>2 DEF NoneFor
<1>6. StartsOnce(evs) /\ (\A i \in 1..Len(evs) : Starts(evs, i) => evs[i].turn # e.turn)
        => StartsOnce(s)
  BY <1>1, <1>2 DEF StartsOnce
<1>7. QED
  BY <1>3, <1>4, <1>5, <1>6 DEF s

(* The first event is handled.                                              *)
LEMMA StartTail ==
  ASSUME NEW evs \in Seq(Event), evs # <<>>, NEW for, NEW m
  PROVE  /\ NoStarts(evs) => NoStarts(Tail(evs))
         /\ NextFor(evs, for, m) /\ Starts(evs, 1) => for[evs[1].turn] = m
         /\ NextFor(evs, for, m) /\ ~Starts(evs, 1) => NextFor(Tail(evs), for, m)
         /\ NoneFor(evs, for, m) => NoneFor(Tail(evs), for, m)
         /\ StartsOnce(evs) => StartsOnce(Tail(evs))
         /\ StartsOnce(evs) /\ Starts(evs, 1) =>
              \A i \in 1..Len(Tail(evs)) : Starts(Tail(evs), i) => Tail(evs)[i].turn # evs[1].turn
<1> DEFINE s == Tail(evs)
<1>1. /\ Len(evs) \in Nat \ {0} /\ Len(s) = Len(evs) - 1
      /\ \A i \in 1..Len(s) : i + 1 \in 1..Len(evs) /\ s[i] = evs[i + 1]
      /\ \A i \in 2..Len(evs) : i - 1 \in 1..Len(s) /\ s[i - 1] = evs[i]
  BY TailFacts
<1> HIDE DEF s
<1>2. \A i \in 1..Len(s) : Starts(s, i) <=> Starts(evs, i + 1)
  BY <1>1 DEF Starts
<1>3. NoStarts(evs) => NoStarts(s)
  BY <1>1, <1>2 DEF NoStarts
<1>4. NextFor(evs, for, m) /\ Starts(evs, 1) => for[evs[1].turn] = m
  BY <1>1 DEF NextFor
<1>5. ASSUME NextFor(evs, for, m), ~Starts(evs, 1) PROVE NextFor(s, for, m)
  <2>1. PICK i \in 1..Len(evs) :
          Starts(evs, i) /\ \A j \in 1..i : Starts(evs, j) => for[evs[j].turn] = m
    BY <1>5 DEF NextFor
  <2>2. i \in 2..Len(evs) /\ i - 1 \in 1..Len(s) /\ (i - 1) + 1 = i
    BY <1>1, <1>5, <2>1
  <2>3. \A j \in 1..(i - 1) : j \in 1..Len(s) /\ j + 1 \in 1..i
    BY <1>1, <2>2
  <2>4. \A j \in 1..(i - 1) : Starts(s, j) => for[s[j].turn] = m
    BY <1>1, <1>2, <2>1, <2>3
  <2>5. Starts(s, i - 1)
    BY <1>2, <2>1, <2>2
  <2>6. QED
    BY <2>2, <2>4, <2>5 DEF NextFor
<1>6. NoneFor(evs, for, m) => NoneFor(s, for, m)
  BY <1>1, <1>2 DEF NoneFor
<1>7. StartsOnce(evs) => StartsOnce(s)
  BY <1>1, <1>2 DEF StartsOnce
<1>8. ASSUME StartsOnce(evs), Starts(evs, 1), NEW i \in 1..Len(s), Starts(s, i)
      PROVE  s[i].turn # evs[1].turn
  BY <1>1, <1>2, <1>8 DEF StartsOnce
<1>9. QED
  BY <1>3, <1>4, <1>5, <1>6, <1>7, <1>8 DEF s

(* Only the turns that were started matter.                                 *)
LEMMA ForAgrees ==
  ASSUME NEW evs \in Seq(Event), NEW for1, NEW for2, NEW m,
         \A i \in 1..Len(evs) : Starts(evs, i) => for1[evs[i].turn] = for2[evs[i].turn]
  PROVE  /\ NextFor(evs, for1, m) => NextFor(evs, for2, m)
         /\ NoneFor(evs, for1, m) => NoneFor(evs, for2, m)
BY DEF NextFor, NoneFor

(* The sends that are starting a turn, and the one the stop waits for.      *)
Starting(c) == c.step \in {"ensuring", "asked"} /\ c.mode # "steer"
NextAsked(m) ==
    /\ call[m].step = "asked" /\ call[m].mode # "steer"
    /\ \E i \in 1..Len(requests) :
         /\ requests[i].msg = m
         /\ \A j \in 1..(i - 1) :
              requests[j].msg \in Messages => call[requests[j].msg].mode = "steer"
WaitsAlone(m) ==
    /\ call[m].step = "ensuring" /\ call[m].mode # "steer"
    /\ \A n \in Messages \ {m} : ~Starting(call[n])

(* A turn was started for m.                                                *)
Began(m) == \E t \in 1..server.last : server.startedFor[t] = m

AskedNamed == \A m \in Messages : call[m].step = "asked" => m \in Named(requests)
TurnsNamed == \A t \in 1..server.last : server.startedFor[t] \in Messages
NoStop     == presses = 0 => aimed = {} /\ ~pending

(* One turn for each message, and none for one that is still to be sent.    *)
Unsent(m)  == m \in Members(ui.queue) \/ call[m].step \in {"ensuring", "asked", "command"}
BeganOnce ==
    /\ \A m \in Messages : Began(m) => taken[m] # 0 /\ ~Unsent(m)
    /\ \A t, u \in 1..server.last : server.startedFor[t] = server.startedFor[u] => t = u

StopWaits(m) ==
    \/ NextFor(events, server.startedFor, m)
    \/ NoStarts(events) /\ (NextAsked(m) \/ WaitsAlone(m))
StopDone(m) == Began(m) /\ NoneFor(events, server.startedFor, m)
StopAims ==
    presses = 1 =>
      \A m \in Messages : aimed = {m} => IF pending THEN StopWaits(m) ELSE StopDone(m)

StopInv ==
    /\ AskedNamed /\ TurnsNamed /\ NoStop /\ StartsOnce(events)
    /\ Unblamed => BeganOnce /\ StopAims

LEMMA StopTypes ==
  ASSUME TypeOK, RestInv
  PROVE  /\ events \in Seq(Event) /\ requests \in Seq(Request)
         /\ call \in [Messages -> Call] /\ server \in Server /\ server.last \in Nat
         /\ pending \in BOOLEAN /\ aimed \subseteq Messages /\ presses \in Nat
         /\ \A i \in 1..Len(events) : Starts(events, i) => events[i].turn \in 1..server.last
<1>1. /\ events \in Seq(Event) /\ requests \in Seq(Request)
      /\ call \in [Messages -> Call] /\ server \in Server /\ server.last \in Nat
      /\ pending \in BOOLEAN /\ aimed \subseteq Messages
  BY RestTypes, TypeParts, ConstantsAssumption DEF CallsOK, HooksOK, GhostsOK
<1>2. presses \in Nat
  BY TypeParts, ConstantsAssumption DEF GhostsOK
<1>3. ASSUME NEW i \in 1..Len(events), Starts(events, i) PROVE events[i].turn \in 1..server.last
  <2>1. events[i] \in Event
    BY <1>1
  <2>2. events[i].turn \in TurnOrNone /\ events[i].turn # NoTurn /\ events[i].turn <= server.last
    BY <1>3, <2>1 DEF RestInv, ServerInv, Ordered, InOrder, Starts, Event
  <2>3. QED
    BY <1>1, <2>2, ConstantsAssumption DEF TurnOrNone, Turns
<1>4. QED
  BY <1>1, <1>2, <1>3

LEMMA BlameGrows == blame \subseteq blame' /\ Unblamed' => Unblamed
BY DEF Unblamed

LEMMA StopInit == Init => StopInv
BY DEF Init, Quiet, AskedNamed, TurnsNamed, NoStop, StartsOnce, BeganOnce, Began, StopAims,
   StopInv

(* What is requested next stays so when requests join the others, and when  *)
(* one of another message is served.                                        *)
LEMMA AskedAppend ==
  ASSUME NEW m \in Messages, NextAsked(m), requests \in Seq(Request), NEW r \in Request,
         requests' \in {requests, Append(requests, r)},
         call'[m].step = call[m].step, call'[m].mode = call[m].mode,
         \A n \in Named(requests) : call'[n].mode = call[n].mode
  PROVE  NextAsked(m)'
BY DEF NextAsked, Named

LEMMA AskedTail ==
  ASSUME NEW m \in Messages, NextAsked(m), requests \in Seq(Request), requests # <<>>,
         Head(requests).msg # m, requests' = Tail(requests),
         call'[m].step = call[m].step, \A n \in Messages : call'[n].mode = call[n].mode
  PROVE  NextAsked(m)'
<1>1. PICK i \in 1..Len(requests) :
        /\ requests[i].msg = m
        /\ \A j \in 1..(i - 1) :
             requests[j].msg \in Messages => call[requests[j].msg].mode = "steer"
  BY DEF NextAsked
<1>2. /\ Len(requests) \in Nat \ {0} /\ Len(requests') = Len(requests) - 1
      /\ Head(requests) = requests[1]
      /\ \A j \in 1..Len(requests') : requests'[j] = requests[j + 1]
  OBVIOUS
<1>3. i # 1 /\ i \in Nat
  BY <1>1, <1>2
<1>4. i - 1 \in 1..Len(requests') /\ (i - 1) + 1 = i
  BY <1>1, <1>2, <1>3
<1>5. \A j \in 1..((i - 1) - 1) : j \in 1..Len(requests') /\ j + 1 \in 1..(i - 1)
  BY <1>2, <1>3, <1>4
<1>6. \A j \in 1..((i - 1) - 1) :
        requests'[j].msg \in Messages => call'[requests'[j].msg].mode = "steer"
  BY <1>1, <1>2, <1>5
<1>7. requests'[i - 1].msg = m
  BY <1>1, <1>2, <1>4
<1>8. QED
  BY <1>4, <1>6, <1>7 DEF NextAsked

(* A step that starts no turn and neither presses the button nor lets go of *)
(* a stop.                                                                  *)
LEMMA StopStep ==
  ASSUME TypeOK, TypeOK', RestInv, StopInv, More(events, events'),
         server'.last = server.last, server'.startedFor = server.startedFor,
         blame \subseteq blame', UNCHANGED <<presses, pending>>, aimed' \in {aimed, {}},
         AskedNamed',
         Unblamed' => \A m \in Messages : Began(m) => taken'[m] # 0 /\ ~Unsent(m)',
         Unblamed' => \A m \in Messages :
            /\ NextAsked(m) /\ m \in aimed' => NextAsked(m)'
            /\ WaitsAlone(m) /\ m \in aimed' => NextAsked(m)' \/ WaitsAlone(m)'
  PROVE  StopInv'
<1>0. events \in Seq(Event) /\ events' \in Seq(Event)
  BY TypeParts
<1>1. TurnsNamed' /\ NoStop' /\ \A m : Began(m)' <=> Began(m)
  BY DEF StopInv, TurnsNamed, NoStop, Began
<1>2. StartsOnce(events)'
  BY <1>0, MoreFacts DEF StopInv
<1>3. ASSUME Unblamed' PROVE BeganOnce' /\ StopAims'
  BY <1>3, BlameGrows, <1>1, <1>0, MoreFacts DEF StopInv, BeganOnce, StopAims, StopWaits,
     StopDone
<1>4. QED
  BY <1>1, <1>2, <1>3 DEF StopInv

(* A message that is not under way is launched: another one that waits for  *)
(* the thread makes that a double start.                                    *)
LEMMA StopLaunch ==
  ASSUME TypeOK, TypeOK', OnceInv, RestInv, StopInv,
         NEW n \in Messages, NEW from \in {"user", "queue"},
         NEW s \in Status, NEW c \in Status, Launch(n, from, s, c),
         call[n].step = "none", Members(s.queue) \subseteq Members(ui.queue),
         Unblamed => ~Began(n),
         UNCHANGED <<server, events, taken, presses, pending, aimed>>,
         blame \subseteq blame', Ensuring => ~Unblamed'
  PROVE  StopInv'
<1>0. /\ requests \in Seq(Request) /\ events \in Seq(Event) /\ CallsOK
      /\ n \notin Named(requests) /\ OneEach(requests)
  BY StopTypes, OnceTypes DEF OnceInv, RequestsOK
<1>1. /\ ui'.queue = s.queue
      /\ \A x \in Messages \ {n} : call'[x] = call[x]
      /\ \/ call' = call /\ requests' = requests
         \/ call'[n].step \in {"ensuring", "command"} /\ requests' = requests
         \/ call'[n].step = "asked" /\ requests' = Append(requests, Send(n))
  BY <1>0, Launched
<1>2. Send(n) \in Request /\ Send(n).msg = n
  BY RequestTypes DEF Send
<1>3. /\ requests' \in {requests, Append(requests, Send(n))}
      /\ \A x \in Messages : x \in Named(requests) => x \in Named(requests')
      /\ call'[n].step = "asked" => n \in Named(requests')
  <2>1. CASE requests' = requests /\ call'[n].step # "asked"
    BY <2>1
  <2>2. CASE requests' = Append(requests, Send(n))
    BY <1>0, <1>2, <2>2, NamedAppend
  <2>3. QED
    BY <1>1, <2>1, <2>2
<1>4. AskedNamed'
  BY <1>1, <1>3 DEF StopInv, AskedNamed
<1>5. ASSUME Unblamed', NEW m \in Messages, Began(m) PROVE taken'[m] # 0 /\ ~Unsent(m)'
  BY <1>5, BlameGrows, <1>1 DEF StopInv, BeganOnce, Unsent
<1>6. ASSUME Unblamed', NEW m \in Messages
      PROVE  (NextAsked(m) => NextAsked(m)') /\ ~WaitsAlone(m)
  BY <1>6, <1>0, <1>1, <1>2, <1>3, AskedAppend DEF WaitsAlone, Ensuring, NextAsked, Named
<1>7. More(events, events')
  BY <1>0, MoreSame
<1>8. QED
  BY <1>4, <1>5, <1>6, <1>7, StopStep

(* A step that leaves the sends, the requests and the events alone, and     *)
(* takes no message into the queue for which a turn was started.            *)
LEMMA StopStill ==
  ASSUME TypeOK, TypeOK', RestInv, StopInv,
         UNCHANGED <<call, requests, server, events, taken, presses, pending, aimed, blame>>,
         \A m \in Members(ui'.queue) : m \in Members(ui.queue) \/ (Unblamed => ~Began(m))
  PROVE  StopInv'
BY BlameGrows, StopTypes, MoreSame, StopStep DEF StopInv, AskedNamed, BeganOnce, Unsent,
   NextAsked, WaitsAlone

(* The button is pressed.                                                   *)
LEMMA StopPress ==
  ASSUME TypeOK, TypeOK', OnceInv, RestInv, StopInv, Interrupt
  PROVE  StopInv'
<1>0. /\ events \in Seq(Event) /\ requests \in Seq(Request) /\ presses \in Nat
      /\ ui \in Status /\ shown.turn \in TurnOrNone /\ OneEach(requests)
      /\ call \in [Messages -> Call] /\ RequestsOK
      /\ \A i \in 1..Len(events) : Starts(events, i) => events[i].turn \in 1..server.last
  BY StopTypes, RestTypes DEF OnceInv, RequestsOK
<1>1. /\ UNCHANGED <<call, events, server, taken, blame>> /\ presses' = presses + 1
      /\ requests' = Append(requests, Halt(shown.turn)) /\ ui'.queue = ui.queue
      /\ pending' = Awaited
  BY <1>0, StatusOps DEF Interrupt, outside
<1>2. Halt(shown.turn) \in Request /\ Halt(shown.turn).msg \notin Messages
  BY <1>0, RequestTypes, ConstantsAssumption DEF Halt
<1>3. \A x \in Messages : x \in Named(requests') <=> x \in Named(requests)
  <2> DEFINE r == Halt(shown.turn)
  <2>1. r \in Request /\ r.msg \notin Messages /\ requests' = Append(requests, r)
    BY <1>1, <1>2
  <2> HIDE DEF r
  <2>2. \A x \in Messages : x \in Named(Append(requests, r)) <=> x \in Named(requests) \/ x = r.msg
    BY <1>0, <2>1, NamedAppend
  <2>3. QED
    BY <2>1, <2>2
<1>4. AskedNamed' /\ TurnsNamed' /\ NoStop' /\ StartsOnce(events)'
  BY <1>0, <1>1, <1>3 DEF StopInv, AskedNamed, TurnsNamed, NoStop
<1>5. ASSUME Unblamed' PROVE BeganOnce' /\ StopAims'
  <2>1. Unblamed /\ BeganOnce
    BY <1>1, <1>5, BlameGrows DEF StopInv
  <2>2. BeganOnce'
    BY <1>1, <2>1 DEF BeganOnce, Began, Unsent
  <2>3. ASSUME presses' = 1, NEW m \in Messages, aimed' = {m}
        PROVE  pending' /\ StopWaits(m)'
    <3>1. presses = 0 /\ aimed = {} /\ ~pending
      BY <1>0, <1>1, <2>3 DEF StopInv, NoStop
    <3>2. shown.turn = NoTurn
      BY <2>3, <3>1 DEF Interrupt
    <3>3. aimed' = {x \in Messages :
                      \/ call[x].step \in {"ensuring", "asked"} /\ call[x].mode # "steer"
                      \/ \E t \in Turns : /\ server.startedFor[t] = x
                                          /\ Ev("started", t) \in Members(events)}
      BY <3>2 DEF Interrupt
    <3>4. \A x \in Messages : Starting(call[x]) => x = m
      BY <2>3, <3>3 DEF Starting
    <3>5. ASSUME NEW i \in 1..Len(events), Starts(events, i)
          PROVE  server.startedFor[events[i].turn] = m
      <4>1. events[i] \in Event /\ events[i].turn \in 1..server.last
        BY <1>0, <3>5
      <4>2. server.startedFor[events[i].turn] \in Messages
        BY <4>1 DEF StopInv, TurnsNamed
      <4>3. events[i].turn \in Turns
        BY RestTypes, <4>1, ConstantsAssumption DEF Turns
      <4>4. Ev("started", events[i].turn) \in Members(events)
        BY <3>5, <4>1 DEF Ev, Event, Members, Starts
      <4>5. server.startedFor[events[i].turn] \in aimed'
        BY <3>3, <4>2, <4>3, <4>4
      <4>6. QED
        BY <2>3, <4>5
    <3>6. StopWaits(m)'
      <4>1. CASE ~NoStarts(events)
        BY <4>1, <1>0, <3>5, <1>1 DEF NoStarts, NextFor, StopWaits
      <4>2. CASE NoStarts(events)
        <5>1. Starting(call[m])
          <6>1. ASSUME NEW t, Ev("started", t) \in Members(events) PROVE FALSE
            BY <4>2, <6>1 DEF Ev, Members, NoStarts, Starts
          <6>2. m \in aimed'
            BY <2>3
          <6>3. QED
            BY <3>3, <6>1, <6>2 DEF Starting
        <5>2. CASE call[m].step = "ensuring"
          BY <1>1, <3>4, <5>1, <5>2, <4>2 DEF WaitsAlone, Starting, StopWaits
        <5>3. CASE call[m].step = "asked"
          <6>1. PICK i \in 1..Len(requests) : requests[i].msg = m
            BY <5>3 DEF StopInv, AskedNamed, Named
          <6>2. ASSUME NEW j \in 1..(i - 1), requests[j].msg \in Messages
                PROVE  call[requests[j].msg].mode = "steer"
            BY <1>0, <6>1, <6>2, <3>4 DEF OneEach, RequestsOK, Named, Starting
          <6>3. NextAsked(m)
            BY <5>1, <5>3, <6>1, <6>2 DEF NextAsked, Starting
          <6>4. \A x \in Named(requests) : call'[x].mode = call[x].mode
            BY <1>1
          <6>5. NextAsked(m)'
            BY <1>0, <1>1, <1>2, <6>3, <6>4, AskedAppend
          <6>6. QED
            BY <1>1, <4>2, <6>5 DEF StopWaits
        <5>4. QED
          BY <5>1, <5>2, <5>3 DEF Starting
      <4>3. QED
        BY <4>1, <4>2
    <3>7. QED
      BY <1>1, <3>2, <3>6 DEF Awaited
  <2>4. QED
    BY <2>2, <2>3 DEF StopAims
<1>6. QED
  BY <1>4, <1>5 DEF StopInv

LEMMA StopUser ==
  ASSUME TypeOK, TypeOK', OnceInv, RestInv, StopInv, User
  PROVE  StopInv'
<1>0. /\ ui \in Status /\ shown \in Status /\ ui.queue \in Seq(Messages)
      /\ \A m \in Messages : taken[m] \in Nat
  BY OnceTypes
<1>1. ASSUME NEW m \in Messages, Fresh(m) PROVE Unblamed => ~Began(m)
  BY <1>1 DEF StopInv, BeganOnce, Fresh
<1>2. ASSUME NEW m \in Messages, Fresh(m), ui' = [ui EXCEPT !.queue = Append(@, m)]
      PROVE  \A x \in Members(ui'.queue) : x \in Members(ui.queue) \/ (Unblamed => ~Began(x))
  BY <1>0, <1>2, Queued, <1>1 DEF Members
<1>3. ASSUME NEW m \in Messages, NEW wish \in {"queue", "steer"}, HandleSend(m, wish)
      PROVE  StopInv'
  <2>1. /\ Fresh(m) /\ blame \subseteq blame'
        /\ UNCHANGED <<server, events, taken, presses, pending, aimed>>
    BY <1>3 DEF HandleSend, outside, hooks
  <2>2. CASE Queues(shown, wish) /\ blame' = blame
    BY <1>3, <2>2, <1>2, <2>1, StopStill DEF HandleSend
  <2>3. CASE Queues(shown, wish) /\ blame' # blame
    BY <1>3, <2>3, <2>1, StopTypes, MoreSame, StopStep DEF HandleSend, Unblamed, StopInv,
       AskedNamed
  <2>4. CASE ~Queues(shown, wish)
    BY <1>3, <2>4, <1>1, <2>1, <1>0, StopLaunch DEF HandleSend, Unblamed, Fresh
  <2>5. QED
    BY <2>2, <2>3, <2>4
<1>4. ASSUME NEW m \in Messages, QueueMessage(m)
      PROVE  StopInv'
  BY <1>4, <1>2, StopStill DEF QueueMessage, outside, hooks, ghosts
<1>5. ASSUME NEW m \in Messages, RemoveQueued(m)
      PROVE  StopInv'
  BY <1>0, <1>5, QueueOps, WithoutType, DistinctWithout, StopStill DEF RemoveQueued, outside,
     hooks, ghosts, OnceInv, QueueOK
<1>6. CASE Pause
  BY <1>0, <1>6, StopStill DEF Pause, Status, outside, hooks, ghosts
<1>7. QED
  BY <1>3, <1>4, <1>5, <1>6, StopPress DEF User

LEMMA StopRender ==
  ASSUME TypeOK, TypeOK', OnceInv, RestInv, StopInv, Render
  PROVE  StopInv'
<1>0. ui \in Status /\ ui.queue \in Seq(Messages)
  BY OnceTypes
<1>1. /\ blame \subseteq blame' /\ (Unblamed' => blame' = blame)
      /\ UNCHANGED <<server, events, taken, presses, pending, aimed>>
  BY DEF Render, Unblamed, outside, hooks
<1>2. CASE MayFlush(ui)
  <2> DEFINE m == Head(ui.queue)
  <2>1. ui.queue # <<>> /\ Launch(m, "queue", Flushed(ui), ui)
    BY <1>2 DEF Render, MayFlush
  <2>2. Flushed(ui) \in Status /\ Flushed(ui).queue = Tail(ui.queue) /\ m \in Messages
    BY <1>0, <2>1, FlushedType
  <2>3. Members(Tail(ui.queue)) \subseteq Members(ui.queue) /\ m \in Members(ui.queue)
    BY <1>0, <2>1, DistinctTail DEF OnceInv, QueueOK
  <2> HIDE DEF m
  <2>4. call[m].step = "none" /\ (Unblamed => ~Began(m))
    BY <2>2, <2>3 DEF OnceInv, QueueOK, StopInv, BeganOnce, Unsent
  <2>5. Ensuring => ~Unblamed'
    BY <1>2 DEF Render, Unblamed
  <2>6. QED
    BY <1>0, <1>1, <2>1, <2>2, <2>3, <2>4, <2>5, StopLaunch
<1>3. CASE ~MayFlush(ui)
  BY <1>0, <1>3, StatusOps, <1>1, StopStill DEF Render
<1>4. QED
  BY <1>2, <1>3

(* A send comes to its end, and its message goes back to the queue only     *)
(* when no turn was started for it.                                         *)
LEMMA StopAnswered ==
  ASSUME TypeOK, TypeOK', OnceInv, RestInv, StopInv, NEW n \in Messages,
         call[n].step \notin {"ensuring", "asked"}, call' = [call EXCEPT ![n] = Quiet],
         UNCHANGED <<requests, server, events, presses, pending, aimed>>,
         blame \subseteq blame',
         \A m \in Messages : taken[m] # 0 => taken'[m] # 0,
         Unblamed' => \A m \in Members(ui'.queue) : m \in Members(ui.queue) \/ ~Began(m)
  PROVE  StopInv'
<1>0. /\ call \in [Messages -> Call] /\ events \in Seq(Event) /\ requests \in Seq(Request)
      /\ RequestsOK
  BY StopTypes DEF OnceInv
<1>1. call'[n].step = "none" /\ \A x \in Messages \ {n} : call'[x] = call[x]
  BY <1>0 DEF Quiet
<1>2. AskedNamed'
  BY <1>1 DEF StopInv, AskedNamed
<1>3. ASSUME Unblamed', NEW m \in Messages, Began(m) PROVE taken'[m] # 0 /\ ~Unsent(m)'
  BY <1>3, BlameGrows, <1>1 DEF StopInv, BeganOnce, Unsent
<1>4. ASSUME NEW m \in Messages
      PROVE  (NextAsked(m) => NextAsked(m)') /\ (WaitsAlone(m) => WaitsAlone(m)')
  BY <1>0, <1>1, RequestTypes, AskedAppend DEF NextAsked, RequestsOK, Named, WaitsAlone,
     Starting
<1>5. More(events, events')
  BY <1>0, MoreSame
<1>6. QED
  BY <1>2, <1>3, <1>4, <1>5, StopStep

LEMMA StopAnswers ==
  ASSUME TypeOK, TypeOK', OnceInv, RestInv, StopInv, Answers
  PROVE  StopInv'
<1>0. /\ ui \in Status /\ ui.queue \in Seq(Messages) /\ call \in [Messages -> Call]
      /\ requests \in Seq(Request) /\ events \in Seq(Event) /\ OneEach(requests) /\ RequestsOK
      /\ taken \in [Messages -> Nat]
  BY OnceTypes, StopTypes DEF OnceInv, RequestsOK
<1>1. ASSUME NEW n \in Messages, AnswerHandled(n)
      PROVE  StopInv'
  <2>1. /\ call[n].step \in {"ok", "failed", "stale"} /\ call' = [call EXCEPT ![n] = Quiet]
        /\ UNCHANGED <<requests, server, events, presses, pending, aimed, taken>>
        /\ blame \subseteq blame'
    BY <1>1 DEF AnswerHandled, outside, hooks
  <2>2. Unblamed' => ui'.queue = ui.queue
    <3>1. /\ call[n].turn \in TurnOrNone
          /\ SetTurn(ui, call[n].turn).queue = ui.queue
      BY <1>0, StatusOps DEF Call
    <3>2. /\ Stopped(ui) \in Status /\ Stopped(ui).queue = ui.queue
          /\ Mark(ui, FALSE) \in Status /\ Mark(ui, FALSE).queue = ui.queue
      BY <1>0, StatusOps
    <3>3. /\ Review(Stopped(ui), FALSE).queue = ui.queue
          /\ Review(Mark(ui, FALSE), FALSE).queue = ui.queue
      BY <3>2, StatusOps
    <3>4. ASSUME Unblamed' PROVE ~(call[n].mode = "steer" /\ call[n].step \in {"failed", "stale"})
      BY <1>1, <3>4 DEF AnswerHandled, Unblamed
    <3>5. QED
      BY <1>1, <3>1, <3>2, <3>3, <3>4 DEF AnswerHandled
  <2>3. QED
    BY <2>1, <2>2, StopAnswered
<1>2. ASSUME NEW n \in Messages, CommandEnds(n)
      PROVE  StopInv'
  <2>1. /\ call[n].step = "command" /\ call' = [call EXCEPT ![n] = Quiet]
        /\ UNCHANGED <<requests, server, events, presses, pending, aimed, blame>>
        /\ \/ taken' = [taken EXCEPT ![n] = @ + 1] /\ ui' = ui
           \/ ui' = Requeued(ui, n) /\ taken' = taken
    BY <1>2 DEF CommandEnds, hooks, ghosts
  <2>2. \A m \in Messages : taken[m] # 0 => taken'[m] # 0
    BY <1>0, <2>1
  <2>3. Unblamed' => ~Began(n)
    BY <2>1, BlameGrows DEF StopInv, BeganOnce, Unsent
  <2>4. \A m \in Members(ui'.queue) : m \in Members(ui.queue) \/ m = n
    <3>1. CASE ui' = ui
      BY <3>1
    <3>2. CASE ui' = Requeued(ui, n)
      <4>1. ui'.queue = <<n>> \o ui.queue
        BY <1>0, <3>2, RequeuedType
      <4>2. n \notin Members(ui.queue)
        BY <2>1 DEF OnceInv, QueueOK
      <4>3. QED
        BY <1>0, <4>1, <4>2, DistinctPrepend DEF OnceInv, QueueOK
    <3>3. QED
      BY <2>1, <3>1, <3>2
  <2>5. QED
    BY <2>1, <2>2, <2>3, <2>4, StopAnswered
<1>3. ASSUME NEW n \in Messages, Ensured(n)
      PROVE  StopInv'
  <2>1. /\ call[n].step = "ensuring" /\ call' = [call EXCEPT ![n].step = "asked"]
        /\ requests' = Append(requests, Send(n)) /\ ui' = Begun(ui, call[n].mode)
        /\ UNCHANGED <<server, events, taken, presses, pending, aimed, blame>>
    BY <1>3 DEF Ensured, outside, ghosts
  <2>2. /\ call'[n].step = "asked" /\ call'[n].mode = call[n].mode
        /\ \A x \in Messages \ {n} : call'[x] = call[x]
    BY <1>0, <2>1 DEF Call
  <2>3. ui'.queue = ui.queue
    BY <1>0, <2>1, StatusOps
  <2>4. Send(n) \in Request /\ Send(n).msg = n /\ n \notin Named(requests)
    BY <1>0, <2>1, RequestTypes DEF Send, RequestsOK
  <2>5. \A x \in Messages : x \in Named(requests') <=> x \in Named(requests) \/ x = n
    <3> DEFINE r == Send(n)
    <3>1. r \in Request /\ r.msg = n /\ r.msg \notin Named(requests) /\ requests' = Append(requests, r)
      BY <2>1, <2>4
    <3> HIDE DEF r
    <3>2. \A x \in Messages : x \in Named(Append(requests, r)) <=> x \in Named(requests) \/ x = r.msg
      BY <1>0, <3>1, NamedAppend
    <3>3. QED
      BY <3>1, <3>2
  <2>6. AskedNamed'
    BY <2>2, <2>5 DEF StopInv, AskedNamed
  <2>7. ASSUME Unblamed', NEW m \in Messages, Began(m) PROVE taken'[m] # 0 /\ ~Unsent(m)'
    BY <2>7, BlameGrows, <2>1, <2>2, <2>3 DEF StopInv, BeganOnce, Unsent
  <2>8. ASSUME NEW m \in Messages, NextAsked(m) PROVE NextAsked(m)'
    BY <2>1, <2>8, <2>2, <1>0, <2>4, AskedAppend DEF NextAsked, Named
  <2>9. ASSUME NEW m \in Messages, WaitsAlone(m) PROVE NextAsked(m)' \/ WaitsAlone(m)'
    <3>1. CASE m # n
      BY <2>1, <2>2, <2>9, <3>1 DEF WaitsAlone, Starting
    <3>2. CASE m = n
      <4>1. /\ Len(requests') = Len(requests) + 1 /\ Len(requests) \in Nat
            /\ requests'[Len(requests) + 1] = Send(n)
            /\ \A j \in 1..Len(requests) : requests'[j] = requests[j]
        BY <1>0, <2>1
      <4>2. ASSUME NEW j \in 1..((Len(requests) + 1) - 1), requests'[j].msg \in Messages
            PROVE  call'[requests'[j].msg].mode = "steer"
        <5>1. j \in 1..Len(requests) /\ requests'[j] = requests[j]
          BY <4>1
        <5>2. requests[j].msg \in Named(requests)
          BY <4>2, <5>1 DEF Named
        <5>3. call[requests[j].msg].step = "asked" /\ requests[j].msg # m
          BY <1>0, <2>4, <3>2, <5>2 DEF RequestsOK
        <5>4. call[requests[j].msg].mode = "steer"
          BY <2>9, <4>2, <5>1, <5>3 DEF WaitsAlone, Starting
        <5>5. QED
          BY <2>2, <3>2, <4>2, <5>1, <5>3, <5>4
      <4>3. Len(requests) + 1 \in 1..Len(requests') /\ requests'[Len(requests) + 1].msg = m
        BY <2>4, <3>2, <4>1
      <4>4. call'[m].step = "asked" /\ call'[m].mode # "steer"
        BY <2>2, <2>9, <3>2 DEF WaitsAlone
      <4>5. NextAsked(m)'
        BY <4>2, <4>3, <4>4 DEF NextAsked
      <4>6. QED
        BY <4>5
    <3>3. QED
      BY <3>1, <3>2
  <2>10. More(events, events')
    BY <1>0, <2>1, MoreSame
  <2>11. QED
    BY <2>1, <2>6, <2>7, <2>8, <2>9, <2>10, StopStep
<1>4. QED
  BY <1>1, <1>2, <1>3 DEF Answers

(* What the handling of an event does to a stop and to the requests.        *)
LEMMA StopHandled ==
  ASSUME HandleEvent, TypeOK, NEW e, e = Head(events)
  PROVE  /\ IF e.kind = "started" /\ pending
            THEN ~pending' /\ requests' = Append(requests, Halt(e.turn))
            ELSE requests' = requests
         /\ pending' \in BOOLEAN
         /\ pending' => pending
         /\ Unblamed' /\ e.kind # "started" => pending' = pending
<1>1. pending \in BOOLEAN
  BY TypeParts DEF HooksOK
<1>2. /\ IF e.kind = "started" /\ pending
         THEN ~pending' /\ requests' = Append(requests, Halt(e.turn))
         ELSE requests' = requests
      /\ pending' \in {pending, FALSE}
  BY <1>1 DEF TurnStarted, TurnCompleted, TurnError, ItemEvent, ThreadStatusChanged,
     ThreadClosed, HandleEvent
<1>3. pending /\ ~pending' /\ e.kind # "started" => "old end" \in blame'
  BY DEF HandleEvent
<1>4. Unblamed' /\ e.kind # "started" => ~(pending /\ ~pending')
  BY <1>3 DEF Unblamed
<1>5. pending' \in BOOLEAN /\ (pending' => pending)
  <2>1. pending' \in {pending, FALSE}
    BY <1>2
  <2>2. CASE pending' = FALSE
    BY <2>2
  <2>3. CASE pending' = pending
    BY <1>1, <2>3
  <2>4. QED
    BY <2>1, <2>2, <2>3
<1>6. Unblamed' /\ e.kind # "started" => pending' = pending
  BY <1>1, <1>4, <1>5
<1>7. QED
  BY <1>2, <1>5, <1>6

LEMMA StopEvent ==
  ASSUME TypeOK, TypeOK', OnceInv, RestInv, StopInv, HandleEvent
  PROVE  StopInv'
<1> SUFFICES ASSUME NEW e, e = Head(events) PROVE StopInv'
  OBVIOUS
<1>0. /\ events \in Seq(Event) /\ requests \in Seq(Request) /\ OneEach(requests)
      /\ \A i \in 1..Len(events) : Starts(events, i) => events[i].turn \in 1..server.last
      /\ pending \in BOOLEAN
  BY StopTypes DEF OnceInv, RequestsOK
<1>1. /\ events # <<>> /\ events' = Tail(events) /\ blame \subseteq blame'
      /\ UNCHANGED <<call, server, taken, presses, aimed>>
  BY DEF HandleEvent, outside
<1>2. 1 \in 1..Len(events) /\ e = events[1] /\ e \in Event /\ (Starts(events, 1) <=> e.kind = "started")
  BY <1>0, <1>1, TailFacts DEF Starts
<1>3. /\ IF e.kind = "started" /\ pending
         THEN ~pending' /\ requests' = Append(requests, Halt(e.turn))
         ELSE requests' = requests
      /\ pending' \in BOOLEAN
      /\ pending' => pending
      /\ Unblamed' /\ e.kind # "started" => pending' = pending
  BY StopHandled
<1>4. ui'.queue = ui.queue
  BY EventHandled
<1>5. Halt(e.turn) \in Request
  BY <1>2, RequestTypes DEF Event
<1>6. \A x \in Messages : x \in Named(requests) => x \in Named(requests')
  <2> DEFINE r == Halt(e.turn)
  <2>1. r \in Request /\ r.msg \notin Messages
    BY <1>5, ConstantsAssumption DEF Halt
  <2> HIDE DEF r
  <2>2. \A x \in Messages : x \in Named(Append(requests, r)) <=> x \in Named(requests) \/ x = r.msg
    BY <1>0, <2>1, NamedAppend
  <2>3. QED
    BY <1>3, <2>2 DEF r
<1>7. AskedNamed' /\ TurnsNamed' /\ NoStop'
  BY <1>1, <1>3, <1>6 DEF StopInv, AskedNamed, TurnsNamed, NoStop
<1>8. StartsOnce(events)'
  BY <1>0, <1>1, StartTail DEF StopInv
<1>9. ASSUME Unblamed' PROVE BeganOnce' /\ StopAims'
  <2>1. Unblamed /\ BeganOnce /\ StopAims
    BY <1>1, <1>9, BlameGrows DEF StopInv
  <2>2. BeganOnce' /\ \A m : Began(m)' <=> Began(m)
    BY <1>1, <1>4, <2>1 DEF BeganOnce, Began, Unsent
  <2>3. ASSUME presses' = 1, NEW m \in Messages, aimed' = {m}
        PROVE  IF pending' THEN StopWaits(m)' ELSE StopDone(m)'
    <3>0. /\ NoStarts(events) => NoStarts(events')
          /\ NextFor(events, server.startedFor, m) /\ Starts(events, 1) => server.startedFor[events[1].turn] = m
          /\ NextFor(events, server.startedFor, m) /\ ~Starts(events, 1) => NextFor(events', server.startedFor, m)
          /\ NoneFor(events, server.startedFor, m) => NoneFor(events', server.startedFor, m)
          /\ StartsOnce(events) /\ Starts(events, 1) =>
               \A i \in 1..Len(events') : Starts(events', i) => events'[i].turn # events[1].turn
      BY <1>0, <1>1, StartTail
    <3>1. IF pending THEN StopWaits(m) ELSE StopDone(m)
      BY <1>1, <2>1, <2>3 DEF StopAims
    <3>2. CASE ~pending
      BY <3>0, <3>1, <3>2, <1>1, <2>2, <1>3 DEF StopDone
    <3>3. CASE pending /\ e.kind = "started"
      <4>1. server.startedFor[e.turn] = m /\ e.turn \in 1..server.last
        BY <1>0, <1>2, <3>0, <3>1, <3>3 DEF StopWaits, NoStarts
      <4>2. Began(m)
        BY <4>1 DEF Began
      <4>3. NoneFor(events', server.startedFor, m)
        <5>1. ASSUME NEW i \in 1..Len(events'), Starts(events', i)
              PROVE  server.startedFor[events'[i].turn] # m
          <6>1. events'[i].turn # e.turn
            BY <1>2, <3>0, <3>3, <5>1 DEF StopInv
          <6>2. events'[i].turn \in 1..server.last
            BY <1>0, <1>1, TailFacts, <5>1 DEF Starts
          <6>3. QED
            BY <2>1, <4>1, <6>1, <6>2 DEF BeganOnce
        <5>2. QED
          BY <5>1 DEF NoneFor
      <4>4. StopDone(m)'
        BY <1>1, <2>2, <4>2, <4>3 DEF StopDone
      <4>5. QED
        BY <1>3, <3>3, <4>4
    <3>4. CASE pending /\ e.kind # "started"
      BY <1>2, <1>3, <1>9, <3>4, <1>1, <3>0, <3>1 DEF NextAsked, WaitsAlone, StopWaits
    <3>5. QED
      BY <1>0, <3>2, <3>3, <3>4
  <2>4. QED
    BY <2>2, <2>3 DEF StopAims
<1>10. QED
  BY <1>7, <1>8, <1>9 DEF StopInv

(* A request of n is answered without a turn that starts for it.            *)
LEMMA StopServed ==
  ASSUME TypeOK, TypeOK', OnceInv, RestInv, StopInv, NEW n \in Messages, Served(n),
         call'[n].step \notin {"ensuring", "asked", "command"}, call'[n].mode = call[n].mode,
         \A x \in Messages \ {n} : call'[x] = call[x],
         UNCHANGED <<ui, server, events, presses, pending, blame>>,
         \A m \in Messages : taken[m] # 0 => taken'[m] # 0,
         aimed' \in {aimed, {}}, call[n].mode = "steer" \/ n \notin aimed'
  PROVE  StopInv'
<1>0. /\ call \in [Messages -> Call] /\ events \in Seq(Event) /\ requests \in Seq(Request)
      /\ OneEach(requests) /\ RequestsOK
  BY StopTypes DEF OnceInv, RequestsOK
<1>1. requests # <<>> /\ Head(requests).msg = n /\ requests' = Tail(requests)
  BY DEF Served
<1>2. call[n].step = "asked"
  BY <1>0, <1>1, NamedTail DEF RequestsOK
<1>3. AskedNamed'
  BY <1>0, <1>1, TailNamed DEF StopInv, AskedNamed
<1>4. ASSUME Unblamed', NEW m \in Messages, Began(m) PROVE taken'[m] # 0 /\ ~Unsent(m)'
  BY <1>4, BlameGrows DEF StopInv, BeganOnce, Unsent
<1>5. ASSUME NEW m \in Messages, m \in aimed', NextAsked(m) PROVE NextAsked(m)'
  <2>1. m # n
    BY <1>5 DEF NextAsked
  <2>2. \A x \in Messages : call'[x].mode = call[x].mode
    OBVIOUS
  <2>3. QED
    BY <1>0, <1>1, <1>5, <2>1, <2>2, AskedTail
<1>6. ASSUME NEW m \in Messages, WaitsAlone(m) PROVE WaitsAlone(m)'
  BY <1>2, <1>6 DEF WaitsAlone, Starting
<1>7. More(events, events')
  BY <1>0, MoreSame
<1>8. QED
  BY <1>3, <1>4, <1>5, <1>6, <1>7, StopStep

(* The server starts the turn of n: it is the next one that is told of.     *)
LEMMA StopStarted ==
  ASSUME TypeOK, TypeOK', OnceInv, RestInv, StopInv, NEW n \in Messages, ServeStart(n)
  PROVE  StopInv'
<1> SUFFICES ASSUME NEW t, t = server.last + 1,
                    NEW for, for = server.startedFor, NEW for2, for2 = server'.startedFor
             PROVE  StopInv'
  OBVIOUS
<1> DEFINE told == "status" \in scene.faults
           review == call[n].mode = "review"
           active == Ev("active", NoTurn)
           start == Ev("started", t)
           entered == Ev("entered", t)
           s1 == Option(events, told, active)
           s2 == Append(s1, start)
           s3 == Option(s2, review, entered)
<1>0. /\ call \in [Messages -> Call] /\ events \in Seq(Event) /\ requests \in Seq(Request)
      /\ server \in Server /\ server.last \in Nat /\ OneEach(requests) /\ RequestsOK
      /\ taken \in [Messages -> Nat] /\ QueueOK
      /\ \A i \in 1..Len(events) : Starts(events, i) => events[i].turn \in 1..server.last
  BY StopTypes, OnceTypes DEF OnceInv, RequestsOK
<1>1. /\ requests # <<>> /\ Head(requests).msg = n /\ requests' = Tail(requests)
      /\ call[n].mode \in {"start", "review"} /\ server.last < MaxTurns
      /\ server' = [server EXCEPT !.running = t, !.last = t, !.reviewing = review,
                                  !.startedFor[t] = n]
      /\ taken' = [taken EXCEPT ![n] = @ + 1]
      /\ \/ call' = [call EXCEPT ![n].step = "ok", ![n].turn = t]
         \/ call' = [call EXCEPT ![n].step = "failed"]
      /\ UNCHANGED <<ui, pending, presses, aimed, blame>>
  BY DEF ServeStart, Served, hooks, ghosts
<1>2. call[n].step = "asked" /\ n \notin Members(ui.queue)
  BY <1>0, <1>1, NamedTail DEF RequestsOK, QueueOK
<1>3. /\ call'[n].step \in {"ok", "failed"} /\ call'[n].mode = call[n].mode
      /\ \A x \in Messages \ {n} : call'[x] = call[x]
  BY <1>0, <1>1 DEF Call
<1>4. /\ server'.last = t /\ for2[t] = n
      /\ \A u \in 1..server.last : for2[u] = for[u]
      /\ t \in TurnOrNone /\ t \notin 1..server.last /\ t \in 1..t
      /\ \A u \in 1..t : u \in 1..server.last \/ u = t
      /\ \A u \in 1..server.last : u \in 1..t
  BY <1>0, <1>1, ConstantsAssumption DEF Server, Turns, TurnOrNone
<1>5. /\ active \in Event /\ active.kind = "active"
      /\ start \in Event /\ start.kind = "started" /\ start.turn = t
      /\ entered \in Event /\ entered.kind = "entered"
  BY <1>4, EventTypes DEF Ev, TurnOrNone
<1>6. told \in BOOLEAN /\ review \in BOOLEAN
  OBVIOUS
<1>7. events' = s3
  <2>1. s1 \in Seq(Event)
    BY <1>0, <1>5, <1>6, OptionFacts
  <2>2. s1 \o <<start>> = s2
    BY <1>5, <2>1
  <2>3. events' = ((events \o Told(<<active>>)) \o <<start>>) \o (IF review THEN <<entered>> ELSE <<>>)
    BY DEF ServeStart
  <2>4. events \o Told(<<active>>) = s1
    BY DEF Option, Told
  <2>5. QED
    BY <2>2, <2>3, <2>4 DEF Option
<1> HIDE DEF told, review, active, start, entered
<1>8. s1 \in Seq(Event) /\ More(events, s1)
  BY <1>0, <1>5, <1>6, OptionFacts, MoreOption, MoreSame
<1>9. \A i \in 1..Len(s1) : Starts(s1, i) => s1[i].turn \in 1..server.last
  BY <1>0, <1>8 DEF More, Starts
<1> HIDE DEF s1
<1>10. s2 \in Seq(Event)
  BY <1>5, <1>8
<1>11. s3 \in Seq(Event) /\ More(s2, s3)
  BY <1>5, <1>6, <1>10, OptionFacts, MoreOption, MoreSame
<1>12. ASSUME NEW m
       PROVE  /\ NextFor(events, for, m) => NextFor(s3, for2, m)
              /\ NoStarts(events) /\ m = n => NextFor(s3, for2, m)
              /\ NoneFor(events, for, m) /\ m # n => NoneFor(s3, for2, m)
  <2>1. /\ NextFor(events, for, m) => NextFor(s1, for, m)
        /\ NoStarts(events) => NoStarts(s1)
        /\ NoneFor(events, for, m) => NoneFor(s1, for, m)
    BY <1>0, <1>8, MoreFacts
  <2>2. \A i \in 1..Len(s1) : Starts(s1, i) => for[s1[i].turn] = for2[s1[i].turn]
    BY <1>4, <1>9
  <2>3. /\ NextFor(s1, for, m) => NextFor(s1, for2, m)
        /\ NoneFor(s1, for, m) => NoneFor(s1, for2, m)
    BY <1>8, <2>2, ForAgrees
  <2>4. /\ NextFor(s1, for2, m) => NextFor(s2, for2, m)
        /\ NoStarts(s1) /\ m = n => NextFor(s2, for2, m)
        /\ NoneFor(s1, for2, m) /\ m # n => NoneFor(s2, for2, m)
    BY <1>4, <1>5, <1>8, StartAppend
  <2>5. /\ NextFor(s2, for2, m) => NextFor(s3, for2, m)
        /\ NoneFor(s2, for2, m) => NoneFor(s3, for2, m)
    BY <1>10, <1>11, MoreFacts
  <2>6. QED
    BY <2>1, <2>3, <2>4, <2>5
<1>13. StartsOnce(s3)
  <2>1. StartsOnce(s1)
    BY <1>0, <1>8, MoreFacts DEF StopInv
  <2>2. \A i \in 1..Len(s1) : Starts(s1, i) => s1[i].turn # start.turn
    BY <1>4, <1>5, <1>9
  <2>3. StartsOnce(s2)
    BY <1>5, <1>8, <2>1, <2>2, StartAppend
  <2>4. QED
    BY <1>10, <1>11, <2>3, MoreFacts
<1>14. AskedNamed'
  BY <1>3, <1>0, <1>1, TailNamed DEF StopInv, AskedNamed
<1>15. TurnsNamed' /\ NoStop'
  BY <1>1, <1>4 DEF StopInv, TurnsNamed, NoStop
<1>16. ASSUME Unblamed' PROVE BeganOnce' /\ StopAims'
  <2>1. BeganOnce /\ StopAims
    BY <1>1, <1>16, BlameGrows DEF StopInv
  <2>2. ~Began(n) /\ \A m : Began(m)' <=> Began(m) \/ m = n
    BY <1>2, <2>1, <1>4 DEF BeganOnce, Unsent, Began
  <2>3. BeganOnce'
    <3>1. ASSUME NEW m \in Messages, Began(m)' PROVE taken'[m] # 0 /\ ~Unsent(m)'
      BY <1>0, <1>1, <1>2, <1>3, <2>1, <2>2, <3>1 DEF Unsent, BeganOnce
    <3>2. ASSUME NEW u \in 1..t, NEW v \in 1..t, for2[u] = for2[v] PROVE u = v
      BY <1>4, <2>2, <2>1, <3>2 DEF Began, BeganOnce
    <3>3. QED
      BY <1>4, <3>1, <3>2 DEF BeganOnce
  <2>4. ASSUME presses' = 1, NEW m \in Messages, aimed' = {m}
        PROVE  IF pending' THEN StopWaits(m)' ELSE StopDone(m)'
    <3>0. pending' = pending
      BY <1>1
    <3>1. IF pending THEN StopWaits(m) ELSE StopDone(m)
      BY <1>1, <2>1, <2>4 DEF StopAims
    <3>2. CASE ~pending
      BY <2>2, <3>1, <3>2, <1>7, <1>12, <3>0 DEF StopDone
    <3>3. CASE pending
      <4>0. SUFFICES StopWaits(m)'
        BY <3>0, <3>3
      <4>1. CASE NextFor(events, for, m)
        BY <1>7, <1>12, <4>1 DEF StopWaits
      <4>2. CASE NoStarts(events) /\ NextAsked(m)
        <5>1. PICK i \in 1..Len(requests) :
                /\ requests[i].msg = m
                /\ \A j \in 1..(i - 1) :
                     requests[j].msg \in Messages => call[requests[j].msg].mode = "steer"
          BY <4>2 DEF NextAsked
        <5>2. requests[1].msg = n
          BY <1>0, <1>1
        <5>3. i = 1
          <6>1. i # 1 => 1 \in 1..(i - 1)
            BY <1>0
          <6>2. QED
            BY <1>1, <5>1, <5>2, <6>1
        <5>4. m = n
          BY <5>1, <5>2, <5>3
        <5>5. QED
          BY <1>7, <1>12, <4>2, <5>4 DEF StopWaits
      <4>3. CASE WaitsAlone(m)
        BY <1>2, <4>3, <1>1 DEF WaitsAlone, Starting
      <4>4. QED
        BY <3>1, <3>3, <4>1, <4>2, <4>3 DEF StopWaits
    <3>4. QED
      BY <3>2, <3>3
  <2>5. QED
    BY <2>3, <2>4 DEF StopAims
<1>17. QED
  BY <1>7, <1>13, <1>14, <1>15, <1>16 DEF StopInv

(* What the server tells at the end of a turn starts none.                  *)
LEMMA MoreEnd ==
  ASSUME TypeOK, server.running # NoTurn, NEW fails \in BOOLEAN, NEW errors,
         errors = (IF fails THEN <<Ev("error", server.running)>> ELSE <<>>), Ended(errors)
  PROVE  /\ More(events, events')
         /\ server'.last = server.last /\ server'.startedFor = server.startedFor
<1> SUFFICES ASSUME NEW t, t = server.running
             PROVE  /\ More(events, events')
                    /\ server'.last = server.last /\ server'.startedFor = server.startedFor
  OBVIOUS
<1> DEFINE told == "status" \in scene.faults
           exited == Ev("exited", t)
           error == Ev("error", t)
           completed == Ev("completed", t)
           idle == Ev("idle", NoTurn)
           left == server.reviewing
           s1 == Option(events, left, exited)
           s2 == Option(s1, fails, error)
           s3 == Append(s2, completed)
           s4 == Option(s3, told, idle)
<1>0. /\ events \in Seq(Event) /\ server \in Server /\ t \in TurnOrNone
      /\ left \in BOOLEAN /\ NoTurn \in TurnOrNone /\ told \in BOOLEAN
  BY RestTypes DEF Server, TurnOrNone
<1>1. /\ exited \in Event /\ exited.kind # "started"
      /\ error \in Event /\ error.kind # "started"
      /\ completed \in Event /\ completed.kind # "started"
      /\ idle \in Event /\ idle.kind # "started"
  BY <1>0, EventTypes DEF Ev
<1>2. server'.last = server.last /\ server'.startedFor = server.startedFor
  BY <1>0 DEF Ended, Server
<1>3. s1 \in Seq(Event) /\ s2 \in Seq(Event)
  <2>1. s1 \in Seq(Event)
    BY <1>0, <1>1, OptionFacts
  <2> HIDE DEF s1
  <2>2. QED
    BY <1>1, <2>1, OptionFacts
<1>4. events' = s4
  <2>1. events' = (((events \o (IF left THEN <<exited>> ELSE <<>>)) \o errors) \o <<completed>>)
                    \o Told(<<idle>>)
    BY DEF Ended
  <2>2. Told(<<idle>>) = IF told THEN <<idle>> ELSE <<>>
    BY DEF Told
  <2>3. s2 = (events \o (IF left THEN <<exited>> ELSE <<>>)) \o errors
    BY DEF Option
  <2>4. s2 \o <<completed>> = s3
    BY <1>1, <1>3
  <2>5. QED
    BY <2>1, <2>2, <2>3, <2>4 DEF Option
<1> HIDE DEF told, exited, error, completed, idle, left
<1>5. More(events, s1)
  BY <1>0, <1>1, MoreSame, MoreOption
<1> HIDE DEF s1
<1>6. More(events, s2)
  BY <1>0, <1>1, <1>3, <1>5, MoreOption
<1> HIDE DEF s2
<1>7. More(events, s3) /\ s3 \in Seq(Event)
  BY <1>0, <1>1, <1>3, <1>6, MoreAppend, AppendFacts
<1> HIDE DEF s3
<1>8. More(events, s4)
  BY <1>0, <1>1, <1>7, MoreOption
<1>9. QED
  BY <1>2, <1>4, <1>8

(* The server works on a turn, ends one or sees a request to interrupt.     *)
LEMMA StopTold ==
  ASSUME TypeOK, TypeOK', OnceInv, RestInv, StopInv,
         UNCHANGED <<ui, call, taken, presses, pending, aimed, blame>>,
         More(events, events'),
         server'.last = server.last, server'.startedFor = server.startedFor,
         \/ requests' = requests
         \/ requests # <<>> /\ Head(requests).msg \notin Messages /\ requests' = Tail(requests)
  PROVE  StopInv'
<1>0. requests \in Seq(Request) /\ OneEach(requests)
  BY StopTypes DEF OnceInv, RequestsOK
<1>1. AskedNamed'
  BY <1>0, TailNamed DEF StopInv, AskedNamed
<1>2. ASSUME Unblamed', NEW m \in Messages, Began(m) PROVE taken'[m] # 0 /\ ~Unsent(m)'
  BY <1>2, BlameGrows DEF StopInv, BeganOnce, Unsent
<1>3. ASSUME NEW m \in Messages, NextAsked(m) PROVE NextAsked(m)'
  BY <1>3, <1>0, AskedTail DEF NextAsked
<1>4. ASSUME NEW m \in Messages, WaitsAlone(m) PROVE WaitsAlone(m)'
  BY <1>4 DEF WaitsAlone
<1>5. QED
  BY <1>1, <1>2, <1>3, <1>4, StopStep

LEMMA StopServe ==
  ASSUME TypeOK, TypeOK', OnceInv, RestInv, StopInv,
         Serve \/ (\E kind \in {"item", "retry"} : ServeItem(kind)) \/ EndTurn \/ CloseThread
  PROVE  StopInv'
<1>0. /\ call \in [Messages -> Call] /\ taken \in [Messages -> Nat] /\ events \in Seq(Event)
      /\ server.running \in TurnOrNone
  BY OnceTypes, RestTypes
<1>1. ASSUME NEW n \in Messages, ServeSteer(n)
      PROVE  StopInv'
  BY <1>1, <1>0, StopServed DEF ServeSteer, hooks, ghosts, Call
<1>2. ASSUME NEW n \in Messages, Refuse(n)
      PROVE  StopInv'
  BY <1>2, <1>0, StopServed DEF Refuse, hooks, outside, Call
<1>3. CASE ServeInterrupt
  BY <1>3, ConstantsAssumption, MoreEnd, <1>0, MoreSame, StopTold DEF ServeInterrupt, Served,
     hooks, ghosts
<1>4. ASSUME NEW kind \in {"item", "retry"}, ServeItem(kind)
      PROVE  StopInv'
  <2> DEFINE e == Ev(kind, server.running)
  <2>1. /\ UNCHANGED <<ui, call, taken, presses, pending, aimed, blame, server, requests>>
        /\ events' = Append(events, e)
    BY <1>4 DEF ServeItem, hooks, ghosts
  <2>2. e \in Event /\ e.kind # "started"
    BY <1>0, EventTypes DEF Ev
  <2> HIDE DEF e
  <2>3. More(events, events')
    BY <1>0, <2>1, <2>2, MoreSame, MoreAppend
  <2>4. QED
    BY <2>1, <2>3, StopTold
<1>5. CASE EndTurn
  BY <1>5, MoreEnd, StopTold DEF EndTurn, hooks, ghosts
<1>6. CASE CloseThread
  <2> DEFINE e == Ev("closed", NoTurn)
  <2>1. /\ UNCHANGED <<ui, call, taken, presses, pending, aimed, blame, server, requests>>
        /\ events' = Append(events, e)
    BY <1>6 DEF CloseThread, hooks, outside, ghosts
  <2>2. e \in Event /\ e.kind # "started"
    BY EventTypes DEF Ev, TurnOrNone
  <2> HIDE DEF e
  <2>3. More(events, events')
    BY <1>0, <2>1, <2>2, MoreSame, MoreAppend
  <2>4. QED
    BY <2>1, <2>3, StopTold
<1>7. QED
  BY <1>1, <1>2, <1>3, <1>4, <1>5, <1>6, StopStarted DEF Serve

LEMMA StopNext == TypeOK /\ OnceInv /\ RestInv /\ StopInv /\ [Next]_vars => StopInv'
BY TypeNext, StopStill, StopUser, StopRender, StopAnswers, StopEvent, StopServe DEF vars,
   hooks, outside, ghosts, Next

(* Events only leave by being handled.                                      *)
LEMMA HandledOnly ==
  ASSUME TypeOK, [Next]_vars, events # <<>>, events' = Tail(events)
  PROVE  HandleEvent
<1>0. events \in Seq(Event) /\ Tail(events) # events /\ ~More(events, Tail(events))
  BY TypeParts DEF More
<1>1. ~UNCHANGED vars /\ ~User /\ ~Render /\ ~Answers
  <2>1. events' # events
    BY <1>0
  <2>2. QED
    BY <2>1 DEF vars, User, HandleSend, QueueMessage, RemoveQueued, Interrupt, Pause, Render,
                Answers, AnswerHandled, CommandEnds, Ensured
<1>2. ASSUME NEW n \in Messages, ServeStart(n) PROVE FALSE
  <2> DEFINE start == Ev("started", server.last + 1)
             told == Told(<<Ev("active", NoTurn)>>)
             enters == IF call[n].mode = "review" THEN <<Ev("entered", server.last + 1)>> ELSE <<>>
  <2>1. events' = ((events \o told) \o <<start>>) \o enters
    BY <1>2 DEF ServeStart
  <2> DEFINE active == Ev("active", NoTurn)
             entered == Ev("entered", server.last + 1)
  <2>2. told = (IF "status" \in scene.faults THEN <<active>> ELSE <<>>)
    BY DEF Told
  <2>3. told \in Seq({active}) /\ enters \in Seq({entered})
    <3> HIDE DEF active, entered
    <3>1. <<active>> \in Seq({active}) /\ <<>> \in Seq({active})
      OBVIOUS
    <3>2. <<entered>> \in Seq({entered}) /\ <<>> \in Seq({entered})
      OBVIOUS
    <3>3. enters = <<entered>> \/ enters = <<>>
      BY DEF entered
    <3>4. QED
      BY <2>2, <3>1, <3>2, <3>3
  <2> HIDE DEF told, enters, start, active, entered
  <2>4. Len(events') >= Len(events)
    BY <1>0, <2>1, <2>3
  <2>5. Len(events') = Len(Tail(events)) /\ Len(Tail(events)) < Len(events)
    BY <1>0
  <2>6. Len(events') \in Nat /\ Len(events) \in Nat
    BY <1>0
  <2>7. QED
    BY <2>4, <2>5, <2>6
<1>3. ASSUME More(events, events') PROVE FALSE
  BY <1>0, <1>3
<1>4. ASSUME NEW n \in Messages, ServeSteer(n) \/ Refuse(n) PROVE FALSE
  BY <1>0, <1>4 DEF ServeSteer, Refuse
<1>5. ASSUME ServeInterrupt PROVE FALSE
  BY <1>5, <1>3, MoreEnd, <1>0 DEF ServeInterrupt
<1>6. ASSUME NEW e, events' = Append(events, e) PROVE FALSE
  BY <1>0, <1>6
<1>7. ASSUME EndTurn PROVE FALSE
  BY <1>7, <1>3, MoreEnd DEF EndTurn
<1>8. (\A kind : ~ServeItem(kind)) /\ ~CloseThread
  BY <1>6 DEF ServeItem, CloseThread
<1>9. QED
  BY <1>1, <1>2, <1>4, <1>5, <1>7, <1>8 DEF Next, Serve

(* When the start of a turn is handled while one press of the button waits  *)
(* for the turn of one message, that turn is interrupted exactly when it is *)
(* the one of that message.                                                 *)
LEMMA StopAtStart ==
  ASSUME TypeOK, RestInv, StopInv, HandleEvent, Unblamed, presses = 1,
         Head(events).kind = "started",
         NEW m \in Messages, aimed = {m}
  PROVE  requests' = Append(requests, Halt(Head(events).turn))
            <=> server.startedFor[Head(events).turn] = m
<1> SUFFICES ASSUME NEW e, e = Head(events)
             PROVE  requests' = Append(requests, Halt(e.turn)) <=> server.startedFor[e.turn] = m
  OBVIOUS
<1>0. events \in Seq(Event) /\ requests \in Seq(Request) /\ events # <<>>
  BY StopTypes DEF HandleEvent
<1>1. 1 \in 1..Len(events) /\ e = events[1] /\ Starts(events, 1)
  BY <1>0, TailFacts DEF Starts
<1>2. IF pending THEN requests' = Append(requests, Halt(e.turn)) ELSE requests' = requests
  BY StopHandled
<1>3. IF pending THEN StopWaits(m) ELSE StopDone(m)
  BY DEF StopInv, StopAims
<1>4. CASE pending
  BY <1>1, <1>3, <1>4, <1>0, StartTail, <1>2 DEF StopWaits, NoStarts
<1>5. CASE ~pending
  BY <1>1, <1>3, <1>5, <1>0, <1>2 DEF StopDone, NoneFor
<1>6. QED
  BY <1>4, <1>5

(* A stop that had to wait for the start of its turn interrupts that turn,  *)
(* and no other, for any messages, turns and faults: pendingInterruptsRef,  *)
(* useThreadTurnEvents and interruptTurn of useThreadMessaging.             *)
THEOREM StopReachesItsTurn == Spec => StopsItsOwnTurn
<1>1. /\ TypeOK /\ OnceInv /\ RestInv /\ StopInv /\ [Next]_vars
      => [events # <<>> /\ events' = Tail(events) /\ Head(events).kind = "started"
          /\ presses = 1 /\ aimed # {} /\ (\A m, n \in aimed : m = n)
          /\ Unblamed
       => LET turn == Head(events).turn IN
          requests' = Append(requests, Halt(turn)) <=> server.startedFor[turn] \in aimed]_vars
  BY HandledOnly, TypeParts, StopAtStart DEF GhostsOK
<1>2. QED
  BY <1>1, TypeInit, TypeNext, OnceInit, OnceNext, RestInit, RestNext, StopInit, StopNext, PTL
     DEF Spec, StopsItsOwnTurn

=============================================================================
