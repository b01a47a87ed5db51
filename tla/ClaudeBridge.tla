--------------------------- MODULE ClaudeBridge ---------------------------
(***************************************************************************)
(* One Claude session of the bridge: src-tauri/src/claude_bridge.          *)
(*                                                                         *)
(* Threads of control and what they share:                                 *)
(*   - any number of callers run the request interceptor, a synchronous    *)
(*     function that checks process_exited, locks BridgeState, emits       *)
(*     events and sends to the stdin channel, each a step of its own;      *)
(*   - stdout_reader_task maps each line under the lock, releases it, and  *)
(*     only then answers and emits; at end of file it cleans up;           *)
(*   - stdin_writer_task is the only owner of the child's stdin;           *)
(*   - the Claude CLI (external) answers prompts in the order they come.   *)
(*                                                                         *)
(* A uuid is a number never used before; a prompt is named by the turn id  *)
(* the interceptor made for it.  Text, models, token counts and items are  *)
(* left out.  Lines carry the prompt they answer ("of"): the code cannot   *)
(* see it, no action reads it, the properties do.                          *)
(***************************************************************************)
EXTENDS Naturals, Sequences, FiniteSets

CONSTANTS
  Callers,       (* tasks that may be inside the interceptor at once        *)
  Threads,       (* thread ids a prompt may name                            *)
  Thread0,       (* the thread id made when the session was spawned         *)
  MaxPrompts,    (* bound: turn/start and turn/steer requests               *)
  MaxStops,      (* bound: turn/interrupt requests                          *)
  MaxMessages,   (* bound: message_start lines per prompt                   *)
  MaxRequests,   (* bound: control requests of the CLI                      *)
  QuietResults   (* may the CLI end a prompt, without error, before its
                    first message_start?                                    *)

ASSUME ThreadsAssumption == Thread0 \in Threads
ASSUME BoundsAssumption ==
  /\ MaxPrompts \in Nat /\ MaxStops \in Nat
  /\ MaxMessages \in Nat /\ MaxRequests \in Nat
  /\ QuietResults \in BOOLEAN

VARIABLES
  (* BridgeState, behind its mutex *)
  thread_id, turn_id, turn_started, turn_has_content,
  pending_control_requests,  (* approval id -> control request of the CLI   *)
  approval_id_counter,
  uuids,                     (* uuids drawn so far                          *)
  (* shared without the mutex *)
  process_exited, stdin_q, writer_alive,
  (* the interceptor's callers *)
  pc, job, prompts, stops,
  (* stdout_reader_task *)
  reader, outbox,
  (* the CLI *)
  stdout, cli_alive, inbox, cur, messages, waiting, interrupted, requests,
  (* history, read by properties only *)
  emitted,                   (* events the frontend has been sent           *)
  installed,                 (* turns the interceptor made                  *)
  answers                    (* control responses sent, by control request  *)

bridge  == <<thread_id, turn_id, turn_started, turn_has_content,
             pending_control_requests, approval_id_counter, uuids>>
callers == <<pc, job, prompts, stops>>
channel == <<stdin_q, writer_alive>>
reading == <<reader, outbox>>
cli     == <<cli_alive, inbox, cur, messages, waiting, interrupted, requests>>
history == <<emitted, installed, answers>>
vars    == <<bridge, process_exited, channel, callers, reading, stdout, cli, history>>

RequestIds == 1..MaxRequests
Subtypes   == {"can_use_tool", "other"}

StdinMessage ==
       [type : {"user"}, of : Nat]
  \cup [type : {"control_response"}, request_id : RequestIds]
  \cup [type : {"interrupt"}]

Line ==
       [type : {"message_start"}, of : Nat]
  \cup [type : {"result"}, of : Nat, is_error : BOOLEAN]
  \cup [type : {"control_request"}, of : Nat, subtype : Subtypes, request_id : RequestIds]

Started(t, th)       == [method |-> "turn/started", turn |-> t, thread |-> th]
Completed(t, th, of) == [method |-> "turn/completed", turn |-> t, thread |-> th, of |-> of]
Approval(a, r)       == [method |-> "codex/requestApproval", id |-> a, request_id |-> r]
Ack(r)               == [method |-> "ack", request_id |-> r]
Disconnected         == [method |-> "codex/disconnected"]

Event ==
       [method : {"turn/started"}, turn : Nat, thread : Threads]
  \cup [method : {"turn/completed"}, turn : Nat, thread : Threads, of : Nat]
  \cup [method : {"codex/requestApproval"}, id : Nat, request_id : RequestIds]
  \cup [method : {"codex/disconnected"}]

(* What one run of the interceptor keeps in its local variables. *)
Job   == [turn : Nat, thread : Threads, approval : Nat, request_id : RequestIds \cup {0}]
NoJob == [turn |-> 0, thread |-> Thread0, approval |-> 0, request_id |-> 0]

NoPending == [a \in {} |-> 0]
FirstApprovalId == 100000

Init ==
  /\ thread_id = Thread0 /\ turn_id = 0
  /\ turn_started = FALSE /\ turn_has_content = FALSE
  /\ pending_control_requests = NoPending
  /\ approval_id_counter = FirstApprovalId
  /\ uuids = 0
  /\ process_exited = FALSE
  /\ stdin_q = <<>> /\ writer_alive = TRUE
  /\ pc = [c \in Callers |-> "idle"] /\ job = [c \in Callers |-> NoJob]
  /\ prompts = 0 /\ stops = 0
  /\ reader = "read" /\ outbox = {}
  /\ stdout = <<>>
  /\ cli_alive = TRUE /\ inbox = <<>> /\ cur = 0 /\ messages = 0
  /\ waiting = 0 /\ interrupted = FALSE /\ requests = 0
  /\ emitted = {} /\ installed = {} /\ answers = [r \in RequestIds |-> 0]

-----------------------------------------------------------------------------
(* Steps several actions share.                                             *)

(* UnboundedSender::send: an error, ignored, once the writer has gone.      *)
Send(m) ==
  /\ stdin_q' = IF writer_alive THEN Append(stdin_q, m) ELSE stdin_q
  /\ UNCHANGED writer_alive

SendResponse(r) ==
  /\ Send([type |-> "control_response", request_id |-> r])
  /\ answers' = [answers EXCEPT ![r] = @ + 1]

(* Seeded fault: the next turn gets the id of the one that ended. *)
NewTurnKeepingId ==
  /\ turn_started' = FALSE /\ turn_has_content' = FALSE
  /\ uuids' = uuids + 1
  /\ UNCHANGED <<turn_id, thread_id, approval_id_counter>>

(* new_turn: everything of the turn is reset under a fresh id; the approval *)
(* counter is not.                                                          *)
NewTurn ==
  /\ turn_id' = uuids + 1 /\ uuids' = uuids + 1
  /\ turn_started' = FALSE /\ turn_has_content' = FALSE
  /\ UNCHANGED <<thread_id, approval_id_counter>>

Without(f, a) == [x \in DOMAIN f \ {a} |-> f[x]]
With(f, a, v) == [x \in DOMAIN f \cup {a} |-> IF x = a THEN v ELSE f[x]]

(* Seeded faults: an answered approval stays in the map, or leaves a hole. *)
KeepPending(a)      == UNCHANGED pending_control_requests
TombstonePending(a) == pending_control_requests' = With(pending_control_requests, a, 0)

RemovePending(a) == pending_control_requests' = Without(pending_control_requests, a)

-----------------------------------------------------------------------------
(* The interceptor.                                                         *)

(* turn/start and turn/steer: the dead process check comes first, and a     *)
(* request that fails it is answered PROCESS_EXITED_ERROR with no change.   *)
CheckTurn(c, method, th) ==
  /\ pc[c] = "idle" /\ prompts < MaxPrompts
  /\ ~process_exited
  /\ prompts' = prompts + 1
  /\ pc' = [pc EXCEPT ![c] = IF method = "turn/steer" THEN "steer" ELSE "install"]
  /\ job' = [job EXCEPT ![c].thread = th]
  /\ UNCHANGED <<bridge, process_exited, channel, stops, reading, stdout, cli, history>>

(* A steer interrupts whatever is running before it becomes a turn. *)
SteerInterrupt(c) ==
  /\ pc[c] = "steer"
  /\ Send([type |-> "interrupt"])
  /\ pc' = [pc EXCEPT ![c] = "install"]
  /\ UNCHANGED <<bridge, process_exited, job, prompts, stops, reading, stdout, cli, history>>

(* Seeded faults: the thread is not recorded; pending approvals are dropped. *)
InstallKeepingThread(c) ==
  /\ turn_id' = uuids + 1 /\ uuids' = uuids + 1
  /\ turn_started' = TRUE /\ turn_has_content' = FALSE
  /\ UNCHANGED <<thread_id, pending_control_requests, approval_id_counter>>
InstallDroppingPending(c) ==
  /\ thread_id' = job[c].thread
  /\ turn_id' = uuids + 1 /\ uuids' = uuids + 1
  /\ turn_started' = TRUE /\ turn_has_content' = FALSE
  /\ pending_control_requests' = NoPending
  /\ UNCHANGED approval_id_counter

(* The locked section: thread, fresh turn, marked as started at once. *)
Install(c) ==
  /\ thread_id' = job[c].thread
  /\ turn_id' = uuids + 1 /\ uuids' = uuids + 1
  /\ turn_started' = TRUE /\ turn_has_content' = FALSE
  /\ UNCHANGED <<pending_control_requests, approval_id_counter>>

InstallTurn(c) ==
  /\ pc[c] = "install"
  /\ Install(c)
  /\ job' = [job EXCEPT ![c].turn = uuids + 1]
  /\ pc' = [pc EXCEPT ![c] = "announce"]
  /\ installed' = installed \cup {uuids + 1}
  /\ UNCHANGED <<process_exited, channel, prompts, stops, reading, stdout, cli,
                 emitted, answers>>

(* turn/started and the user's own item go out with the lock released. *)
AnnounceTurn(c) ==
  /\ pc[c] = "announce"
  /\ emitted' = emitted \cup {Started(job[c].turn, job[c].thread)}
  /\ pc' = [pc EXCEPT ![c] = "prompt"]
  /\ UNCHANGED <<bridge, process_exited, channel, job, prompts, stops, reading,
                 stdout, cli, installed, answers>>

SendPrompt(c) ==
  /\ pc[c] = "prompt"
  /\ Send([type |-> "user", of |-> job[c].turn])
  /\ pc' = [pc EXCEPT ![c] = "idle"] /\ job' = [job EXCEPT ![c] = NoJob]
  /\ UNCHANGED <<bridge, process_exited, prompts, stops, reading, stdout, cli, history>>

(* turn/interrupt: one send, if the process is not known to be dead. *)
Interrupt(c) ==
  /\ pc[c] = "idle" /\ stops < MaxStops
  /\ ~process_exited
  /\ Send([type |-> "interrupt"])
  /\ stops' = stops + 1
  /\ UNCHANGED <<bridge, process_exited, pc, job, prompts, reading, stdout, cli, history>>

(* The user answers an approval that was shown, perhaps a second time or    *)
(* too late.  Liveness is checked before the entry is consumed.             *)
CheckAnswer(c, a) ==
  /\ pc[c] = "idle" /\ ~process_exited
  /\ \E r \in RequestIds : Approval(a, r) \in emitted
  /\ pc' = [pc EXCEPT ![c] = "take"]
  /\ job' = [job EXCEPT ![c].approval = a]
  /\ UNCHANGED <<bridge, process_exited, channel, prompts, stops, reading, stdout,
                 cli, history>>

(* The entry is removed under the lock; an unknown id drops the answer. *)
TakeApproval(c) ==
  /\ pc[c] = "take"
  /\ LET a == job[c].approval IN
     IF a \in DOMAIN pending_control_requests
     THEN /\ RemovePending(a)
          /\ job' = [job EXCEPT ![c].request_id = pending_control_requests[a]]
          /\ pc'  = [pc EXCEPT ![c] = "reply"]
     ELSE /\ job' = [job EXCEPT ![c] = NoJob]
          /\ pc'  = [pc EXCEPT ![c] = "idle"]
          /\ UNCHANGED pending_control_requests
  /\ UNCHANGED <<thread_id, turn_id, turn_started, turn_has_content,
                 approval_id_counter, uuids, process_exited, channel, prompts, stops,
                 reading, stdout, cli, history>>

SendAnswer(c) ==
  /\ pc[c] = "reply"
  /\ SendResponse(job[c].request_id)
  /\ pc' = [pc EXCEPT ![c] = "idle"] /\ job' = [job EXCEPT ![c] = NoJob]
  /\ UNCHANGED <<bridge, process_exited, prompts, stops, reading, stdout, cli, emitted, installed>>

Interceptor(c) ==
  \/ \E m \in {"turn/start", "turn/steer"}, th \in Threads : CheckTurn(c, m, th)
  \/ SteerInterrupt(c) \/ InstallTurn(c) \/ AnnounceTurn(c) \/ SendPrompt(c)
  \/ Interrupt(c)
  \/ \E e \in emitted : e.method = "codex/requestApproval" /\ CheckAnswer(c, e.id)
  \/ TakeApproval(c) \/ SendAnswer(c)

(* What a caller does once it has begun: it never waits for anyone. *)
Proceed(c) ==
  SteerInterrupt(c) \/ InstallTurn(c) \/ AnnounceTurn(c) \/ SendPrompt(c)
  \/ TakeApproval(c) \/ SendAnswer(c)

-----------------------------------------------------------------------------
(* stdin_writer_task and what the CLI's own input loop does with a message: *)
(* a prompt queues up, an answer wakes the request that waits for it, an    *)
(* interrupt cancels the request and the prompt in progress, if any.        *)
WriterWrite ==
  /\ writer_alive /\ cli_alive /\ stdin_q # <<>>
  /\ LET m == Head(stdin_q) IN
     /\ inbox' = IF m.type = "user" THEN Append(inbox, m.of) ELSE inbox
     /\ interrupted' = (interrupted \/ (m.type = "interrupt" /\ cur # 0))
     /\ waiting' = IF \/ m.type = "interrupt"
                      \/ m.type = "control_response" /\ m.request_id = waiting
                   THEN 0 ELSE waiting
  /\ stdin_q' = Tail(stdin_q)
  /\ UNCHANGED <<bridge, process_exited, writer_alive, callers, reading, stdout,
                 cli_alive, cur, messages, requests, history>>

(* The first failed write ends the task; the channel goes with it. *)
WriterFail ==
  /\ writer_alive /\ ~cli_alive /\ stdin_q # <<>>
  /\ writer_alive' = FALSE /\ stdin_q' = <<>>
  /\ UNCHANGED <<bridge, process_exited, callers, reading, stdout, cli, history>>

-----------------------------------------------------------------------------
(* The Claude CLI: one prompt at a time, in order, each ended by a result.  *)
CliPrint(line) == stdout' = Append(stdout, line)

CliTake ==
  /\ cli_alive /\ cur = 0 /\ inbox # <<>>
  /\ cur' = Head(inbox) /\ inbox' = Tail(inbox) /\ messages' = 0
  /\ UNCHANGED <<bridge, process_exited, channel, callers, reading, stdout,
                 cli_alive, waiting, interrupted, requests, history>>

CliBusy == cli_alive /\ cur # 0 /\ waiting = 0

CliMessageStart ==
  /\ CliBusy /\ ~interrupted /\ messages < MaxMessages
  /\ CliPrint([type |-> "message_start", of |-> cur])
  /\ messages' = messages + 1
  /\ UNCHANGED <<bridge, process_exited, channel, callers, reading, cli_alive, inbox,
                 cur, waiting, interrupted, requests, history>>

CliAsk(subtype) ==
  /\ CliBusy /\ ~interrupted /\ messages > 0 /\ requests < MaxRequests
  /\ requests' = requests + 1 /\ waiting' = requests + 1
  /\ CliPrint([type |-> "control_request", of |-> cur, subtype |-> subtype,
            request_id |-> requests + 1])
  /\ UNCHANGED <<bridge, process_exited, channel, callers, reading, cli_alive, inbox,
                 cur, messages, interrupted, history>>

CliResult(is_error) ==
  /\ CliBusy
  /\ is_error \/ messages > 0 \/ QuietResults
  /\ CliPrint([type |-> "result", of |-> cur, is_error |-> is_error])
  /\ cur' = 0 /\ messages' = 0 /\ interrupted' = FALSE
  /\ UNCHANGED <<bridge, process_exited, channel, callers, reading, cli_alive, inbox,
                 waiting, requests, history>>

CliExit ==
  /\ cli_alive
  /\ cli_alive' = FALSE
  /\ UNCHANGED <<bridge, process_exited, channel, callers, reading, stdout, inbox, cur,
                 messages, waiting, interrupted, requests, history>>

Cli == \/ CliTake \/ CliMessageStart \/ CliExit
       \/ \E s \in Subtypes : CliAsk(s)
       \/ \E b \in BOOLEAN : CliResult(b)

-----------------------------------------------------------------------------
(* stdout_reader_task.  An action that maps a line holds the lock for the   *)
(* whole of it; what is to be emitted waits in outbox.                      *)
ReadLine(type) ==
  /\ reader = "read" /\ stdout # <<>> /\ Head(stdout).type = type
  /\ stdout' = Tail(stdout)
  /\ UNCHANGED <<process_exited, channel, callers, cli, history>>

Emit(events) ==
  /\ outbox' = events
  /\ reader' = IF events = {} THEN "read" ELSE "emit"

ReadMessageStart ==
  /\ ReadLine("message_start")
  /\ turn_has_content' = TRUE
  /\ turn_started' = TRUE
  /\ Emit(IF turn_started THEN {} ELSE {Started(turn_id, thread_id)})
  /\ UNCHANGED <<thread_id, turn_id, pending_control_requests, approval_id_counter, uuids>>

(* The guard against a result left over from a prompt that was steered away: *)
(* nothing of the current turn has been read yet, and it is not an error.    *)
IsStale(is_error) == turn_started /\ ~turn_has_content /\ ~is_error

ReadResult ==
  /\ ReadLine("result")
  /\ LET line == Head(stdout) IN
     IF IsStale(line.is_error)
     THEN /\ Emit({})
          /\ UNCHANGED bridge
     ELSE /\ Emit(IF turn_started THEN {Completed(turn_id, thread_id, line.of)} ELSE {})
          /\ pending_control_requests' = NoPending
          /\ NewTurn

(* Seeded fault: approval ids start over with every turn. *)
ApprovalIdPerTurn == FirstApprovalId + Cardinality(DOMAIN pending_control_requests)

NextApprovalId == approval_id_counter

(* A tool call that needs permission becomes an approval under a fresh id;  *)
(* any other control request is acknowledged.                               *)
ReadControlRequest ==
  /\ ReadLine("control_request")
  /\ LET r == Head(stdout).request_id IN
     IF Head(stdout).subtype = "can_use_tool"
     THEN /\ pending_control_requests' = With(pending_control_requests, NextApprovalId, r)
          /\ approval_id_counter' = approval_id_counter + 1
          /\ outbox' = {Approval(NextApprovalId, r)} /\ reader' = "filter"
     ELSE /\ outbox' = {Ack(r)} /\ reader' = "ack"
          /\ UNCHANGED <<pending_control_requests, approval_id_counter>>
  /\ UNCHANGED <<thread_id, turn_id, turn_started, turn_has_content, uuids>>

(* Seeded fault: requests other than can_use_tool are ignored. *)
ReaderIgnores ==
  /\ reader = "ack"
  /\ Emit({})
  /\ UNCHANGED <<bridge, process_exited, channel, callers, stdout, cli, history>>

ReaderAck ==
  /\ reader = "ack"
  /\ \E e \in outbox : SendResponse(e.request_id)
  /\ Emit({})
  /\ UNCHANGED <<bridge, process_exited, callers, stdout, cli, emitted,
                 installed>>

(* A remembered prefix rule answers for the user, who is then not asked. *)
AutoApprove ==
  /\ reader = "filter"
  /\ \E e \in outbox :
       IF e.id \in DOMAIN pending_control_requests
       THEN /\ SendResponse(pending_control_requests[e.id])
            /\ RemovePending(e.id)
       ELSE UNCHANGED <<channel, answers, pending_control_requests>>
  /\ Emit({})
  /\ UNCHANGED <<thread_id, turn_id, turn_started, turn_has_content,
                 approval_id_counter, uuids, process_exited, callers, stdout, cli, emitted,
                 installed>>

AskUser ==
  /\ reader = "filter"
  /\ reader' = "emit"
  /\ UNCHANGED <<bridge, process_exited, channel, callers, outbox, stdout, cli, history>>

ReaderEmit ==
  /\ reader = "emit"
  /\ emitted' = emitted \cup outbox
  /\ Emit({})
  /\ UNCHANGED <<bridge, process_exited, channel, callers, stdout, cli, installed, answers>>

(* End of file: the flag first, then the lock. *)
ReaderEof ==
  /\ reader = "read" /\ stdout = <<>> /\ ~cli_alive
  /\ process_exited' = TRUE
  /\ reader' = "cleanup"
  /\ UNCHANGED <<bridge, channel, callers, outbox, stdout, cli, history>>

(* Seeded fault: the exit leaves the running turn open. *)
ForgetRunningTurn == {Disconnected}

(* The exit itself answers the turn that is open. *)
Farewell ==
  {Disconnected} \cup
  (IF turn_started THEN {Completed(turn_id, thread_id, turn_id)} ELSE {})

ReaderCleanup ==
  /\ reader = "cleanup"
  /\ outbox' = Farewell
  /\ pending_control_requests' = NoPending
  /\ reader' = "farewell"
  /\ UNCHANGED <<thread_id, turn_id, turn_started, turn_has_content,
                 approval_id_counter, uuids, process_exited, channel, callers, stdout,
                 cli, history>>

ReaderFarewell ==
  /\ reader = "farewell"
  /\ emitted' = emitted \cup outbox
  /\ outbox' = {} /\ reader' = "done"
  /\ UNCHANGED <<bridge, process_exited, channel, callers, stdout, cli, installed, answers>>

Reader ==
  \/ ReadMessageStart \/ ReadResult \/ ReadControlRequest
  \/ ReaderAck \/ AutoApprove \/ AskUser \/ ReaderEmit
  \/ ReaderEof \/ ReaderCleanup \/ ReaderFarewell

-----------------------------------------------------------------------------
Next ==
  \/ \E c \in Callers : Interceptor(c)
  \/ WriterWrite \/ WriterFail
  \/ Cli
  \/ Reader

(* The tasks are scheduled by tokio and the interceptor never blocks.  That *)
(* the CLI works on what it has been given and that a user who sees an      *)
(* approval answers it in the end are assumptions about the environment.    *)
TaskFairness ==
  /\ \A c \in Callers : WF_vars(Proceed(c))
  /\ WF_vars(WriterWrite) /\ WF_vars(WriterFail)
  /\ WF_vars(Reader)
EnvironmentFairness ==
  /\ WF_vars(CliTake) /\ WF_vars(\E b \in BOOLEAN : CliResult(b))
  /\ \A i \in 0 .. MaxRequests - 1 :
       SF_vars(\E c \in Callers :
                 /\ FirstApprovalId + i \in DOMAIN pending_control_requests
                 /\ CheckAnswer(c, FirstApprovalId + i))

-----------------------------------------------------------------------------
Spec     == Init /\ [][Next]_vars
FairSpec == Spec /\ TaskFairness /\ EnvironmentFairness

-----------------------------------------------------------------------------
BridgeTypeOK ==
  /\ thread_id \in Threads /\ turn_id \in Nat
  /\ turn_started \in BOOLEAN /\ turn_has_content \in BOOLEAN
  /\ DOMAIN pending_control_requests \subseteq Nat
  /\ \A a \in DOMAIN pending_control_requests : pending_control_requests[a] \in RequestIds
  /\ approval_id_counter \in Nat /\ uuids \in Nat
ChannelTypeOK ==
  process_exited \in BOOLEAN /\ stdin_q \in Seq(StdinMessage) /\ writer_alive \in BOOLEAN
CallersTypeOK ==
  /\ pc \in [Callers -> {"idle", "steer", "install", "announce", "prompt", "take", "reply"}]
  /\ job \in [Callers -> Job]
  /\ prompts \in Nat /\ stops \in Nat
ReaderTypeOK ==
  /\ reader \in {"read", "ack", "filter", "emit", "cleanup", "farewell", "done"}
  /\ outbox \subseteq Event \cup {Ack(r) : r \in RequestIds}
CliTypeOK ==
  /\ stdout \in Seq(Line)
  /\ cli_alive \in BOOLEAN
  /\ inbox \in Seq(Nat) /\ cur \in Nat /\ messages \in Nat
  /\ waiting \in RequestIds \cup {0} /\ interrupted \in BOOLEAN
  /\ requests \in 0 .. MaxRequests
HistoryTypeOK ==
  emitted \subseteq Event /\ installed \subseteq Nat /\ answers \in [RequestIds -> Nat]

TypeOK ==
  /\ BridgeTypeOK /\ ChannelTypeOK /\ CallersTypeOK
  /\ ReaderTypeOK /\ CliTypeOK /\ HistoryTypeOK

AllEvents  == emitted \cup outbox
Completions(events) == {e \in events : e.method = "turn/completed"}
Starts(events)      == {e \in events : e.method = "turn/started"}
Approvals(events)   == {e \in events : e.method = "codex/requestApproval"}

(* Where a control request of the CLI can be. *)
Unread(i, r) ==
  i \in DOMAIN stdout /\ stdout[i].type = "control_request" /\ stdout[i].request_id = r
Pending(a, r)  == a \in DOMAIN pending_control_requests /\ pending_control_requests[a] = r
Acking(r)      == reader = "ack" /\ Ack(r) \in outbox
Replying(c, r) == pc[c] = "reply" /\ job[c].request_id = r
Touched(r)     == \/ \E i \in DOMAIN stdout : Unread(i, r)
                  \/ \E a \in DOMAIN pending_control_requests : Pending(a, r)
                  \/ Acking(r)
                  \/ \E c \in Callers : Replying(c, r)
AnswerSent(r)  == \E i \in DOMAIN stdin_q : /\ stdin_q[i].type = "control_response"
                                             /\ stdin_q[i].request_id = r

(* A control request of the CLI gets at most one control response, whoever  *)
(* answers: the user, the user again, a prefix rule, or the reader's ack.   *)
(* (removal from pending_control_requests under the lock)                   *)
OneAnswerPerRequest == \A r \in RequestIds : answers[r] <= 1

(* While the CLI is blocked on a control request, that request is always    *)
(* somewhere: unread, pending, being answered, or answered and on its way.  *)
(* No result, steer or new turn may drop it: the CLI would wait forever.    *)
WaitedRequestNotLost ==
  cli_alive /\ waiting # 0 => Touched(waiting) \/ AnswerSent(waiting)

(* turn/completed is emitted at most once for a turn, by a result or by the *)
(* exit clean-up, although the two read the state at different times.       *)
NoSecondCompletion ==
  \A e \in Completions(outbox), d \in Completions(emitted) : e.turn # d.turn

(* The completion of a turn names the thread its start named, also when     *)
(* prompts for two threads are installed by two callers at once.            *)
CompletedOnItsThread ==
  /\ \A e \in Completions(AllEvents), s \in Starts(AllEvents) :
       e.turn = s.turn => e.thread = s.thread
  /\ \A e \in Completions(AllEvents), c \in Callers :
       pc[c] = "announce" /\ e.turn = job[c].turn => e.thread = job[c].thread

(* What the user answers is what the user was shown: an approval id never   *)
(* comes to stand for another request, across turns and late answers.       *)
AnswerReachesAsker ==
  \A e \in Approvals(AllEvents) :
    /\ e.id \in DOMAIN pending_control_requests =>
         pending_control_requests[e.id] = e.request_id
    /\ \A c \in Callers :
         pc[c] = "reply" /\ job[c].approval = e.id => job[c].request_id = e.request_id

-----------------------------------------------------------------------------
(* What the ledgers of BridgeLedgers are here.  Of turns:                   *)
ClosedTurns  == {e.turn : e \in Completions(AllEvents)}
ClosedByExit == reader \in {"farewell", "done"} /\ turn_id \in ClosedTurns
OpenTurns    == IF turn_started /\ ~ClosedByExit THEN {turn_id} ELSE {}
BegunTurns   == installed \cup {e.turn : e \in Starts(AllEvents)}

(* Of approvals: a request is answered at the moment it leaves the map, so  *)
(* an answer and a clearing result cannot both have it.                     *)
UnreadRequests == {r \in RequestIds : \E i \in DOMAIN stdout : Unread(i, r)}
AskedRequests  == {r \in RequestIds : \E a \in DOMAIN pending_control_requests : Pending(a, r)}
TakenRequests  == {r \in RequestIds : \/ answers[r] > 0 \/ Acking(r)
                                      \/ \E c \in Callers : Replying(c, r)}

Ledgers == INSTANCE BridgeLedgers WITH
             open <- OpenTurns, closed <- ClosedTurns,
             gone <- BegunTurns \ (ClosedTurns \cup OpenTurns),
             asked <- AskedRequests, answered <- TakenRequests,
             voided <- (1 .. requests) \ (UnreadRequests \cup AskedRequests \cup TakenRequests)

(* The session keeps the turn ledger: of what was begun, one turn at most   *)
(* is open, and a closed or superseded one never comes back.                *)
KeepsTurnLedger == Ledgers!TurnSpec

(* And the approval ledger: each control request is acknowledged, or asked  *)
(* and then answered once or voided.                                        *)
KeepsApprovalLedger == Ledgers!ApprovalSpec

-----------------------------------------------------------------------------
(* A turn that runs while the process is up is completed in the end, by its *)
(* result or by the exit, unless a later turn takes its place.              *)
TurnAnswered ==
  \A t \in 1 .. 2 * MaxPrompts :
    (turn_started /\ turn_id = t /\ ~process_exited) ~>
      (t \in ClosedTurns \/ turn_id # t)

(* The CLI does not hang on a control request: each is answered in the end, *)
(* or cancelled by an interrupt, as long as the process lives.              *)
RequestSettled ==
  \A r \in RequestIds : (waiting = r) ~> (waiting # r \/ ~cli_alive)

-----------------------------------------------------------------------------
(* Claims of the repository that the code does not keep.                    *)

(* docs/claude-bridge-state.md:301: a stale result of a previous turn is    *)
(* not processed as the current turn: a turn the interceptor made is        *)
(* completed by the result of its own prompt only.                          *)
ResultBelongsToTurn ==
  \A e \in Completions(AllEvents) : e.turn \in installed => e.of = e.turn

(* process.rs:643: the flag is set before the clean-up so that no doomed    *)
(* turn is accepted: once the frontend is told of the exit, the turn that   *)
(* is running has been completed.                                           *)
NoDoomedTurn ==
  Disconnected \in emitted /\ turn_started => turn_id \in ClosedTurns

-----------------------------------------------------------------------------
(* Strengthenings: what the proofs need to be inductive, part by part.      *)

(* What the reader holds in each phase, and what a caller's job is good for. *)
OutboxOK ==
  /\ reader \in {"read", "cleanup", "done"} => outbox = {}
  /\ reader = "ack"    => \E r \in RequestIds : outbox = {Ack(r)}
  /\ reader = "filter" => \E e \in Approvals(outbox \cap Event) : outbox = {e}
  /\ reader \in {"emit", "farewell"} => outbox \subseteq Event
JobOK == \A c \in Callers : pc[c] = "reply" => job[c].request_id # 0

(* Every turn id seen was drawn; the current one is not yet completed, and  *)
(* whatever has named its thread has named the session's current thread.    *)
TurnIdsOK ==
  /\ turn_id <= uuids
  /\ \A e \in Completions(AllEvents) \cup Starts(AllEvents) : e.turn <= uuids
  /\ \A c \in Callers : job[c].turn <= uuids
CurrentTurnOpen ==
  reader \notin {"farewell", "done"} => \A e \in Completions(AllEvents) : e.turn # turn_id
CurrentThreadOK ==
  /\ \A s \in Starts(AllEvents) : s.turn = turn_id => s.thread = thread_id
  /\ \A c \in Callers :
       pc[c] = "announce" /\ job[c].turn = turn_id => job[c].thread = thread_id

(* Approval ids in use lie below the counter. *)
ApprovalIdsOK ==
  /\ \A a \in DOMAIN pending_control_requests : a < approval_id_counter
  /\ \A e \in Approvals(AllEvents) : e.id < approval_id_counter
  /\ \A c \in Callers : pc[c] \in {"take", "reply"} => job[c].approval < approval_id_counter

(* A control request is in one place at a time: not made yet, unread,       *)
(* pending, being acknowledged, in one caller's hands, or answered.         *)
OnePlace ==
  \A r \in RequestIds :
    /\ \A i, j \in DOMAIN stdout : Unread(i, r) /\ Unread(j, r) => i = j
    /\ \A a, b \in DOMAIN pending_control_requests : Pending(a, r) /\ Pending(b, r) => a = b
    /\ \A c, d \in Callers : Replying(c, r) /\ Replying(d, r) => c = d
    /\ \A i \in DOMAIN stdout : Unread(i, r) =>
         /\ \A a \in DOMAIN pending_control_requests : ~Pending(a, r)
         /\ ~Acking(r) /\ \A c \in Callers : ~Replying(c, r)
    /\ \A a \in DOMAIN pending_control_requests : Pending(a, r) =>
         ~Acking(r) /\ \A c \in Callers : ~Replying(c, r)
    /\ \A c \in Callers : Replying(c, r) => ~Acking(r)
AnswersOK ==
  \A r \in RequestIds :
    /\ Touched(r) => answers[r] = 0 /\ r <= requests
    /\ answers[r] > 0 => r <= requests

(* A CLI that waits prints nothing: unless its question has been read, the  *)
(* question is the last line of its output.                                 *)
WaitingIsLast ==
  cli_alive /\ waiting # 0 /\ stdout # <<>> => Unread(Len(stdout), waiting)
WriterOK == cli_alive => writer_alive
EofOK    == reader \in {"cleanup", "farewell", "done"} => ~cli_alive

=============================================================================
