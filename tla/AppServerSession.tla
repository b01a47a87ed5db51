------------------------- MODULE AppServerSession -------------------------
(***************************************************************************)
(* The request table of one app-server session: WorkspaceSession in        *)
(* src-tauri/src/backend/app_server.rs.                                    *)
(*                                                                         *)
(* Callers await send_request (a oneshot per request, looked up by id in   *)
(* `pending`) or just write a message; every await between two locks is a  *)
(* point where others run, so each lock section is an action.  One reader  *)
(* task owns the process's stdout; spawn_workspace_session makes the first *)
(* request, `initialize`, and drops it half-way after 15 seconds.          *)
(*                                                                         *)
(* A call is named by a number nobody in the code sees; the request id is  *)
(* what the code drew for it.  Lines say which call they answer ("of"),    *)
(* which only properties read.  Methods, parameters, workspaces and the    *)
(* routing of notifications are left out.                                  *)
(***************************************************************************)
EXTENDS Naturals, Sequences

CONSTANTS
  Callers,
  Spawner,      (* the caller that runs spawn_workspace_session             *)
  MaxCalls,     (* bound: requests                                          *)
  MaxNotes,     (* bound: notifications and responses written               *)
  MaxAsks,      (* bound: requests the server makes of us                   *)
  PipeSize,     (* messages the stdin pipe holds before a write blocks      *)
  Garbles       (* may the server print a line that is not UTF-8?           *)

ASSUME SpawnerAssumption == Spawner \in Callers
ASSUME TableBoundsAssumption ==
  /\ MaxCalls \in Nat /\ MaxNotes \in Nat /\ MaxAsks \in Nat
  /\ PipeSize \in Nat \ {0} /\ Garbles \in BOOLEAN

VARIABLES
  phase,            (* how far spawn_workspace_session has come             *)
  next_id,          (* AtomicU64                                            *)
  pending,          (* request id -> call whose oneshot it holds            *)
  request_context,  (* ids                                                  *)
  stdin, stdin_owner,
  pc, job,          (* callers                                              *)
  reader, held,     (* the reader task and the line it works on             *)
  stdout, alive, got, asks,   (* the server process                         *)
  calls, notes,
  answer,           (* call -> calls whose response its oneshot received    *)
  dropped,          (* calls whose sender was dropped unused                *)
  returned          (* what calls returned: [call, of], of = 0 is an error  *)

table   == <<next_id, pending, request_context>>
pipe    == <<stdin, stdin_owner>>
callers == <<pc, job, calls, notes, returned>>
reading == <<reader, held>>
server  == <<alive, got, asks>>
oneshot == <<answer, dropped>>
vars    == <<phase, table, pipe, callers, reading, stdout, server, oneshot>>

CallIds == 1..MaxCalls

(* What a call carries: its number, its request id; 0 for a plain message. *)
Job   == [call : 0..MaxCalls, id : Nat]
NoJob == [call |-> 0, id |-> 0]

Line == [type : {"response", "request"}, id : Nat, of : 0..MaxCalls]
          \cup [type : {"garbled"}, id : {0}, of : {0}]
NoLine == [type |-> "garbled", id |-> 0, of |-> 0]

Init ==
  /\ phase = "spawn"
  /\ next_id = 1 /\ pending = [i \in {} |-> 0] /\ request_context = {}
  /\ stdin = <<>> /\ stdin_owner = {}
  /\ pc = [c \in Callers |-> "idle"] /\ job = [c \in Callers |-> NoJob]
  /\ reader = "read" /\ held = NoLine
  /\ stdout = <<>> /\ alive = TRUE /\ got = {} /\ asks = 0
  /\ calls = 0 /\ notes = 0
  /\ answer = [k \in CallIds |-> {}] /\ dropped = {} /\ returned = {}

Goto(c, label) == pc' = [pc EXCEPT ![c] = label]
Without(f, i)  == [x \in DOMAIN f \ {i} |-> f[x]]
With(f, i, v)  == [x \in DOMAIN f \cup {i} |-> IF x = i THEN v ELSE f[x]]

-----------------------------------------------------------------------------
(* send_request.                                                            *)

(* While the session is being spawned only the spawner holds it. *)
MayCall(c) == phase = "ready" \/ (phase = "spawn" /\ c = Spawner /\ calls = 0)

(* Seeded fault: ids are taken from the size of the table. *)
IdFromTable == IF DOMAIN pending = {} THEN 1 ELSE next_id

NextId == next_id

Begin(c) ==
  /\ pc[c] = "idle" /\ MayCall(c) /\ calls < MaxCalls
  /\ calls' = calls + 1 /\ next_id' = next_id + 1
  /\ job' = [job EXCEPT ![c] = [call |-> calls + 1, id |-> NextId]]
  /\ Goto(c, "register")
  /\ UNCHANGED <<phase, pending, request_context, pipe, notes, returned, reading,
                 stdout, server, oneshot>>

Register(c) ==
  /\ pc[c] = "register"
  /\ pending' = With(pending, job[c].id, job[c].call)
  /\ Goto(c, "context")
  /\ UNCHANGED <<phase, next_id, request_context, pipe, job, calls, notes, returned,
                 reading, stdout, server, oneshot>>

AddContext(c) ==
  /\ pc[c] = "context"
  /\ request_context' = request_context \cup {job[c].id}
  /\ Goto(c, "lock")
  /\ UNCHANGED <<phase, next_id, pending, pipe, job, calls, notes, returned, reading,
                 stdout, server, oneshot>>

(* send_notification and send_response leave the table alone. *)
BeginNote(c) ==
  /\ pc[c] = "idle"
  /\ \/ phase = "ready" /\ notes < MaxNotes /\ notes' = notes + 1
     \/ phase = "notify" /\ c = Spawner /\ UNCHANGED notes
  /\ Goto(c, "lock")
  /\ UNCHANGED <<phase, table, pipe, job, calls, returned, reading, stdout, server, oneshot>>

LockStdin(c) ==
  /\ pc[c] = "lock" /\ stdin_owner = {}
  /\ stdin_owner' = {c}
  /\ Goto(c, "write")
  /\ UNCHANGED <<phase, table, stdin, job, calls, notes, returned, reading, stdout,
                 server, oneshot>>

(* spawn_workspace_session goes on with what its own call returned. *)
Proceed(c, ok) ==
  phase' = CASE phase = "spawn"                   -> IF ok THEN "notify" ELSE "failed"
             [] phase = "notify" /\ c = Spawner   -> IF ok THEN "ready" ELSE "failed"
             [] OTHER                             -> phase

Return(c, of) ==
  /\ Proceed(c, of # 0)
  /\ returned' = returned \cup {[call |-> job[c].call, of |-> of]}
  /\ Goto(c, "idle") /\ job' = [job EXCEPT ![c] = NoJob]

(* write_all holds the lock until the pipe has room: it blocks, without a   *)
(* time limit, on a process that lives and does not read.                   *)
Write(c) ==
  /\ pc[c] = "write" /\ alive /\ Len(stdin) < PipeSize
  /\ stdin' = Append(stdin, job[c])
  /\ stdin_owner' = {}
  /\ IF job[c].call # 0
     THEN Goto(c, "wait") /\ UNCHANGED phase
     ELSE Goto(c, "idle") /\ Proceed(c, TRUE)
  /\ UNCHANGED <<table, job, calls, notes, returned, reading, stdout, server, oneshot>>

WriteError(c) ==
  /\ pc[c] = "write" /\ ~alive
  /\ stdin_owner' = {}
  /\ IF job[c].call # 0
     THEN Goto(c, "undo_pending") /\ UNCHANGED phase
     ELSE Goto(c, "idle") /\ Proceed(c, FALSE)
  /\ UNCHANGED <<table, stdin, job, calls, notes, returned, reading, stdout, server, oneshot>>

ReceiveValue(c) ==
  /\ pc[c] = "wait"
  /\ \E of \in answer[job[c].call] : Return(c, of)
  /\ UNCHANGED <<table, pipe, calls, notes, reading, stdout, server, oneshot>>

(* The sender was dropped: "request canceled"; the table is not touched. *)
ReceiveCanceled(c) ==
  /\ pc[c] = "wait" /\ job[c].call \in dropped /\ answer[job[c].call] = {}
  /\ Return(c, 0)
  /\ UNCHANGED <<table, pipe, calls, notes, reading, stdout, server, oneshot>>

(* 300 seconds, and nothing has come: a ready oneshot wins over the timer. *)
TimeOut(c) ==
  /\ pc[c] = "wait" /\ answer[job[c].call] = {} /\ job[c].call \notin dropped
  /\ Goto(c, "undo_pending")
  /\ UNCHANGED <<phase, table, pipe, job, calls, notes, returned, reading, stdout,
                 server, oneshot>>

(* A failed write and a timeout withdraw the request the same way. *)
UndoPending(c) ==
  /\ pc[c] = "undo_pending"
  /\ pending' = Without(pending, job[c].id)
  /\ Goto(c, "undo_context")
  /\ UNCHANGED <<phase, next_id, request_context, pipe, job, calls, notes, returned,
                 reading, stdout, server, oneshot>>

(* Seeded fault: only the oneshot is withdrawn. *)
UndoNothing(c) ==
  /\ pc[c] = "undo_context"
  /\ Return(c, 0)
  /\ UNCHANGED <<table, pipe, calls, notes, reading, stdout, server, oneshot>>

UndoContext(c) ==
  /\ pc[c] = "undo_context"
  /\ request_context' = request_context \ {job[c].id}
  /\ Return(c, 0)
  /\ UNCHANGED <<next_id, pending, pipe, calls, notes, reading, stdout, server, oneshot>>

Call(c) ==
  \/ Register(c) \/ AddContext(c) \/ LockStdin(c) \/ Write(c) \/ WriteError(c)
  \/ ReceiveValue(c) \/ ReceiveCanceled(c) \/ UndoPending(c) \/ UndoContext(c)

(* initialize took 15 seconds: its future is dropped wherever it stands,    *)
(* its entries stay, the lock it may hold is released; the child is killed. *)
AbandonInitialize ==
  /\ phase = "spawn" /\ pc[Spawner] # "idle"
  /\ phase' = "kill"
  /\ stdin_owner' = stdin_owner \ {Spawner}
  /\ Goto(Spawner, "idle") /\ job' = [job EXCEPT ![Spawner] = NoJob]
  /\ UNCHANGED <<table, stdin, calls, notes, returned, reading, stdout, server, oneshot>>

KillChild ==
  /\ phase = "kill"
  /\ phase' = "failed" /\ alive' = FALSE
  /\ UNCHANGED <<table, pipe, callers, reading, stdout, got, asks, oneshot>>

-----------------------------------------------------------------------------
(* The reader task.                                                         *)

(* A line is ours to correlate when it has an id and no method. *)
CorrelateAnyId(line) == TRUE    (* seeded fault: requests are, too *)
Correlates(line) == line.type = "response"

(* The context goes first, under its own lock. *)
ReadLine ==
  /\ reader = "read" /\ stdout # <<>> /\ Head(stdout).type # "garbled"
  /\ stdout' = Tail(stdout)
  /\ IF Correlates(Head(stdout))
     THEN /\ held' = Head(stdout) /\ reader' = "deliver"
          /\ request_context' = request_context \ {Head(stdout).id}
     ELSE UNCHANGED <<reading, request_context>>
  /\ UNCHANGED <<phase, next_id, pending, pipe, callers, server, oneshot>>

(* Then the oneshot, if the call is still in the table. *)
Deliver ==
  /\ reader = "deliver"
  /\ IF held.id \in DOMAIN pending
     THEN /\ answer' = [answer EXCEPT ![pending[held.id]] = @ \cup {held.of}]
          /\ pending' = Without(pending, held.id)
     ELSE UNCHANGED <<answer, pending>>
  /\ reader' = "read" /\ held' = NoLine
  /\ UNCHANGED <<phase, next_id, request_context, pipe, callers, stdout, server, dropped>>

(* The loop ends at end of file and at the first read error. *)
EndOfOutput ==
  /\ reader = "read"
  /\ \/ stdout = <<>> /\ ~alive
     \/ stdout # <<>> /\ Head(stdout).type = "garbled"
  /\ reader' = "clear_pending"
  /\ UNCHANGED <<phase, table, pipe, callers, held, stdout, server, oneshot>>

(* Seeded fault: the table outlives the output. *)
LeavePending ==
  /\ reader = "clear_pending"
  /\ reader' = "clear_context"
  /\ UNCHANGED <<phase, table, pipe, callers, held, stdout, server, oneshot>>

ClearPending ==
  /\ reader = "clear_pending"
  /\ dropped' = dropped \cup {pending[i] : i \in DOMAIN pending}
  /\ pending' = [i \in {} |-> 0]
  /\ reader' = "clear_context"
  /\ UNCHANGED <<phase, next_id, request_context, pipe, callers, held, stdout, server, answer>>

ClearContext ==
  /\ reader = "clear_context"
  /\ request_context' = {}
  /\ reader' = "done"
  /\ UNCHANGED <<phase, next_id, pending, pipe, callers, held, stdout, server, oneshot>>

Reader == ReadLine \/ Deliver \/ EndOfOutput \/ ClearPending \/ ClearContext

-----------------------------------------------------------------------------
(* The app-server process: it answers what it has read once, in any order,  *)
(* or never; it makes requests of its own, under ids of its own choice.     *)
ServerPrint(line) == stdout' = Append(stdout, line)

ServerRead ==
  /\ alive /\ stdin # <<>>
  /\ stdin' = Tail(stdin)
  /\ got' = got \cup (IF Head(stdin).call # 0 THEN {Head(stdin)} ELSE {})
  /\ UNCHANGED <<phase, table, stdin_owner, callers, reading, stdout, alive, asks, oneshot>>

ServerAnswer(r) ==
  /\ alive /\ r \in got
  /\ got' = got \ {r}
  /\ ServerPrint([type |-> "response", id |-> r.id, of |-> r.call])
  /\ UNCHANGED <<phase, table, pipe, callers, reading, alive, asks, oneshot>>

ServerAsk(id) ==
  /\ alive /\ asks < MaxAsks
  /\ asks' = asks + 1
  /\ ServerPrint([type |-> "request", id |-> id, of |-> 0])
  /\ UNCHANGED <<phase, table, pipe, callers, reading, alive, got, oneshot>>

ServerGarble ==
  /\ alive /\ Garbles /\ asks < MaxAsks
  /\ asks' = asks + 1
  /\ ServerPrint(NoLine)
  /\ UNCHANGED <<phase, table, pipe, callers, reading, alive, got, oneshot>>

ServerExit ==
  /\ alive
  /\ alive' = FALSE
  /\ UNCHANGED <<phase, table, pipe, callers, reading, stdout, got, asks, oneshot>>

Server ==
  \/ ServerRead \/ ServerGarble \/ ServerExit
  \/ \E r \in got : ServerAnswer(r)
  \/ \E id \in CallIds : ServerAsk(id)

Next ==
  \/ \E c \in Callers : Begin(c) \/ BeginNote(c) \/ Call(c) \/ TimeOut(c)
  \/ AbandonInitialize \/ KillChild
  \/ Reader
  \/ Server

Spec == Init /\ [][Next]_vars

(* What tokio schedules; no timer is fair, and the server owes us nothing. *)
Fairness ==
  /\ \A c \in Callers : WF_vars(Call(c))
  /\ WF_vars(Reader) /\ WF_vars(KillChild)
FairSpec == Spec /\ Fairness

-----------------------------------------------------------------------------
Labels == {"idle", "register", "context", "lock", "write", "wait", "undo_pending",
           "undo_context"}

TableTypeOK ==
  /\ next_id \in Nat
  /\ DOMAIN pending \subseteq Nat
  /\ \A i \in DOMAIN pending : pending[i] \in CallIds
  /\ request_context \subseteq Nat
PipeTypeOK    == stdin \in Seq(Job) /\ stdin_owner \subseteq Callers
CallersTypeOK ==
  /\ phase \in {"spawn", "notify", "ready", "kill", "failed"}
  /\ pc \in [Callers -> Labels] /\ job \in [Callers -> Job]
  /\ calls \in 0..MaxCalls /\ notes \in Nat
  /\ returned \subseteq [call : 0..MaxCalls, of : 0..MaxCalls]
ReaderTypeOK  ==
  /\ reader \in {"read", "deliver", "clear_pending", "clear_context", "done"}
  /\ held \in Line
ServerTypeOK  ==
  /\ stdout \in Seq(Line) /\ alive \in BOOLEAN
  /\ got \subseteq Job /\ asks \in Nat
OneshotTypeOK == answer \in [CallIds -> SUBSET CallIds] /\ dropped \subseteq CallIds

TypeOK ==
  /\ TableTypeOK /\ PipeTypeOK /\ CallersTypeOK
  /\ ReaderTypeOK /\ ServerTypeOK /\ OneshotTypeOK

(* A call returns the response to its own request or an error: not a late   *)
(* answer to a request that timed out or was abandoned, and not a request   *)
(* of the server under the same number.                                     *)
OwnAnswerOnly == \A r \in returned : r.of \in {0, r.call}

(* Once the reader has stopped nobody waits on an oneshot that no one will  *)
(* ever touch again ("pending foreground requests cannot accumulate after   *)
(* process output ends", app_server.rs:1081).                               *)
NobodyStranded ==
  reader = "done" =>
    \A c \in Callers : pc[c] = "wait" =>
      job[c].call \in dropped \/ answer[job[c].call] # {}

(* It is so however a call's two inserts and its write interleave with the  *)
(* two clears, unless it was a line that is not UTF-8 that stopped the      *)
(* reader; such a line is still there, since nothing reads past it.         *)
CleanOutput == \A i \in DOMAIN stdout : stdout[i].type # "garbled"
StrandedOnlyByGarble == CleanOutput => NobodyStranded

(* At the end of the output and with no call in progress both maps are      *)
(* empty, wherever the calls stood when the reader cleared one map and then *)
(* the other.  (A session whose initialize was abandoned is thrown away.)   *)
NothingLeftBehind ==
  /\ CleanOutput /\ phase \notin {"kill", "failed"}
  /\ reader = "done" /\ \A c \in Callers : pc[c] = "idle"
  => DOMAIN pending = {} /\ request_context = {}

(* The calls of a dead process come back without waiting for any timer,     *)
(* when its output can be read to the end.                                  *)
DeadProcessFailsCalls ==
  \A c \in Callers : (~alive /\ CleanOutput /\ pc[c] # "idle") ~> pc[c] = "idle"
-----------------------------------------------------------------------------
(* Strengthenings: what the proofs need to be inductive, part by part.      *)

(* A request has a number, wherever it is; a plain message has none. *)
CallsOK ==
  /\ \A c \in Callers : pc[c] \notin {"idle", "lock", "write"} => job[c].call # 0
  /\ \A r \in got : r.call # 0
  /\ \A i \in DOMAIN stdout : stdout[i].type = "response" => stdout[i].of # 0
  /\ reader = "deliver" => held.of # 0

(* No two calls in progress have the same id. *)
IdsOK ==
  /\ \A c \in Callers : pc[c] = "idle" => job[c].call = 0
  /\ \A c \in Callers : job[c].id < next_id
  /\ \A c, d \in Callers :
       c # d /\ job[c].call # 0 /\ job[d].call # 0 => job[c].id # job[d].id

(* From its insertion on a call's oneshot is in the table, or spent. *)
Spent(c)     == job[c].call \in dropped \/ answer[job[c].call] # {}
InTable(c)   == job[c].id \in DOMAIN pending /\ pending[job[c].id] = job[c].call
OneshotOK ==
  \A c \in Callers :
    job[c].call # 0 /\ pc[c] \in {"context", "lock", "write", "wait"} => InTable(c) \/ Spent(c)
WaitOK ==
  \A c \in Callers : reader \in {"clear_context", "done"} /\ pc[c] = "wait" => Spent(c)

(* Unless a line was garbled the reader stops only for a dead process. *)
StopOK      == reader \in {"clear_pending", "clear_context", "done"} => ~alive

(* An entry made after its map was cleared belongs to a call that has yet   *)
(* to fail and take it away.                                                *)
Owned(i, labels) == \E c \in Callers : pc[c] \in labels /\ job[c].call # 0 /\ job[c].id = i
LatePendingOK ==
  phase \notin {"kill", "failed"} /\ reader \in {"clear_context", "done"} =>
    \A i \in DOMAIN pending : Owned(i, {"context", "lock", "write", "undo_pending"})
LateContextOK ==
  phase \notin {"kill", "failed"} /\ reader = "done" =>
    \A i \in request_context : Owned(i, {"lock", "write", "undo_pending", "undo_context"})
=============================================================================
