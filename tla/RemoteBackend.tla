--------------------------- MODULE RemoteBackend ---------------------------
(***************************************************************************)
(* The desktop app as a client of a remote daemon:                         *)
(* src-tauri/src/remote_backend.                                           *)
(*                                                                         *)
(* call_remote takes the cached connection or makes one, with the cache    *)
(* locked for the whole of it; registers an oneshot in the connection's    *)
(* `pending`, queues the line for the writer task and waits.  Writer and   *)
(* reader task of a connection each run mark_disconnected when they fail:  *)
(* first the flag, then the drain.  After a disconnect the cache is        *)
(* emptied and a call that may be repeated is made once more.              *)
(*                                                                         *)
(* A call is named by a number nobody in the code sees (0 is the auth      *)
(* call); methods are told apart by whether they may be repeated.  Events, *)
(* hosts and the shape of lines are left out.                              *)
(***************************************************************************)
EXTENDS Integers, Sequences

CONSTANTS
  Callers,
  Token,      (* is an auth token configured?                               *)
  Refusals,   (* may the daemon answer with an error?                       *)
  MaxCalls,   (* bound: calls of call_remote                                *)
  MaxConns,   (* bound: connections made                                    *)
  MaxResets,  (* bound: settings changes that reset the backend             *)
  QueueSize   (* OUTBOUND_QUEUE_CAPACITY                                    *)

ASSUME RemoteAssumption ==
  /\ Token \in BOOLEAN /\ Refusals \in BOOLEAN
  /\ MaxCalls \in Nat /\ MaxConns \in Nat /\ MaxResets \in Nat
  /\ QueueSize \in Nat \ {0}

VARIABLES
  cache, guard,               (* AppState.remote_backend and its lock       *)
  pc, job, calls,             (* callers                                    *)
  conns,                      (* connections made so far                    *)
  resets,                     (* settings changes so far                    *)
  connected, next_id, pending, out, (* RemoteBackendInner, by connection    *)
  writer, reader,             (* the two tasks of a connection              *)
  answers,                    (* what oneshots received                     *)
  link, got, replies,         (* the TCP connection and the daemon behind it *)
  executed,                   (* call -> times the daemon executed it       *)
  repeatable                  (* calls whose method may be repeated         *)

caching == <<cache, guard>>
callers == <<pc, job, calls, repeatable>>
table   == <<connected, next_id, pending, answers>>
tasks   == <<writer, reader>>
daemon  == <<link, got, replies, executed>>
vars    == <<caching, callers, conns, resets, table, out, tasks, daemon>>

CallIds == 1..MaxCalls
ConnIds == 1..MaxConns
Errors  == {"none", "disconnected", "timeout", "refused"}

Request == [conn : ConnIds, id : Nat, call : 0..MaxCalls]
Reply   == [conn : ConnIds, id : Nat, of : 0..MaxCalls, err : Errors]

(* "held" are the clients a call has a clone of; the first is kept through  *)
(* the retry.  "auth": the request in progress is ensure's own.             *)
Job   == [call : 0..MaxCalls, again : BOOLEAN, auth : BOOLEAN, conn : 0..MaxConns,
          held : SUBSET ConnIds, id : Nat, err : Errors]
NoJob == [call |-> 0, again |-> FALSE, auth |-> FALSE, conn |-> 0, held |-> {},
          id |-> 0, err |-> "none"]

Init ==
  /\ cache = 0 /\ guard = {}
  /\ pc = [c \in Callers |-> "idle"] /\ job = [c \in Callers |-> NoJob] /\ calls = 0
  /\ conns = 0 /\ resets = 0
  /\ connected = [n \in ConnIds |-> FALSE] /\ next_id = [n \in ConnIds |-> 1]
  /\ pending = {} /\ out = [n \in ConnIds |-> <<>>]
  /\ writer = [n \in ConnIds |-> "none"] /\ reader = [n \in ConnIds |-> "none"]
  /\ answers = {}
  /\ link = [n \in ConnIds |-> "none"] /\ got = {} /\ replies = {}
  /\ executed = [k \in CallIds |-> 0] /\ repeatable = {}

-----------------------------------------------------------------------------
(* call_remote and ensure_remote_backend.                                   *)
Goto(c, label) == pc' = [pc EXCEPT ![c] = label]

Begin(c, may_repeat) ==
  /\ pc[c] = "idle" /\ calls < MaxCalls
  /\ calls' = calls + 1
  /\ repeatable' = IF may_repeat THEN repeatable \cup {calls + 1} ELSE repeatable
  /\ job' = [job EXCEPT ![c].call = calls + 1]
  /\ Goto(c, "ensure")
  /\ UNCHANGED <<caching, conns, resets, table, out, tasks, daemon>>

EnsureCached(c) ==
  /\ pc[c] = "ensure" /\ guard = {} /\ cache # 0
  /\ job' = [job EXCEPT ![c].conn = cache, ![c].held = @ \cup {cache}]
  /\ Goto(c, "check")
  /\ UNCHANGED <<caching, calls, repeatable, conns, resets, table, out, tasks, daemon>>

(* Seeded fault: the lock is only held for the look at the cache. *)
LookAtCache(c) ==
  /\ pc[c] = "ensure" /\ guard = {} /\ cache = 0
  /\ Goto(c, "connect")
  /\ UNCHANGED <<caching, job, calls, repeatable, conns, resets, table, out, tasks, daemon>>

EnsureLock(c) ==
  /\ pc[c] = "ensure" /\ guard = {} /\ cache = 0
  /\ guard' = {c}
  /\ Goto(c, "connect")
  /\ UNCHANGED <<cache, job, calls, repeatable, conns, resets, table, out, tasks, daemon>>

(* The client is stored, and the lock released, once it is good for use. *)
Store(n) == cache' = n /\ guard' = {}

Connect(c) ==
  /\ pc[c] = "connect" /\ conns < MaxConns
  /\ LET n == conns + 1 IN
     /\ conns' = n
     /\ link' = [link EXCEPT ![n] = "up"]
     /\ connected' = [connected EXCEPT ![n] = TRUE]
     /\ writer' = [writer EXCEPT ![n] = "run"] /\ reader' = [reader EXCEPT ![n] = "run"]
     /\ job' = [job EXCEPT ![c].conn = n, ![c].held = @ \cup {n}, ![c].auth = Token]
     /\ IF Token THEN UNCHANGED caching ELSE Store(n)
  /\ Goto(c, "check")
  /\ UNCHANGED <<calls, repeatable, resets, next_id, pending, answers, out, got,
                 replies, executed>>

Return(c) == Goto(c, "idle") /\ job' = [job EXCEPT ![c] = NoJob]

ConnectFail(c) ==
  /\ pc[c] = "connect"
  /\ guard' = guard \ {c}
  /\ Return(c)
  /\ UNCHANGED <<cache, calls, repeatable, conns, resets, table, out, tasks, daemon>>

(* What an error of RemoteBackend::call leads to: out of ensure with the    *)
(* lock released, to the emptying of the cache, or straight to the caller.  *)
DropsClient(c, err) == job[c].again \/ err = "disconnected"

(* Seeded fault: a failed auth call leaves the cache locked. *)
FailInEnsureKeepingGuard(c, err) == Return(c) /\ UNCHANGED guard
FailInEnsure(c, err) == Return(c) /\ guard' = {}

Fail(c, err) ==
  \/ job[c].auth /\ FailInEnsure(c, err)
  \/ /\ ~job[c].auth /\ DropsClient(c, err)
     /\ Goto(c, "drop") /\ job' = [job EXCEPT ![c].err = err]
     /\ UNCHANGED guard
  \/ ~job[c].auth /\ ~DropsClient(c, err) /\ Return(c) /\ UNCHANGED guard

(* Seeded fault: every method is taken to be repeatable. *)
CanRetryAlways(k) == TRUE
CanRetry(k) == k \in repeatable

(* *state.remote_backend.lock().await = None, whoever is in it by now. *)
DropClient(c) ==
  /\ pc[c] = "drop" /\ guard = {}
  /\ cache' = 0
  /\ IF ~job[c].again /\ CanRetry(job[c].call)
     THEN /\ job' = [job EXCEPT ![c].again = TRUE, ![c].conn = 0, ![c].id = 0,
                                ![c].err = "none"]
          /\ Goto(c, "ensure")
     ELSE Return(c)
  /\ UNCHANGED <<guard, calls, repeatable, conns, resets, table, out, tasks, daemon>>

(* A settings change that calls for another backend empties the cache, too. *)
ResetBySettings ==
  /\ resets < MaxResets /\ guard = {}
  /\ resets' = resets + 1
  /\ cache' = 0
  /\ UNCHANGED <<guard, callers, conns, table, out, tasks, daemon>>

-----------------------------------------------------------------------------
(* RemoteBackend::call.                                                     *)
(* Seeded faults: ids are not drawn; the first id lies below zero. *)
IdOfFirst(n) == 1
IdBelow(n)   == next_id[n] - 2

NextId(n) == next_id[n]

Check(c) ==
  /\ pc[c] = "check"
  /\ LET n == job[c].conn IN
     IF connected[n]
     THEN /\ next_id' = [next_id EXCEPT ![n] = @ + 1]
          /\ job' = [job EXCEPT ![c].id = NextId(n)]
          /\ Goto(c, "insert") /\ UNCHANGED guard
     ELSE Fail(c, "disconnected") /\ UNCHANGED next_id
  /\ UNCHANGED <<cache, calls, repeatable, conns, resets, connected, pending, answers, out,
                 tasks, daemon>>

RequestOf(c) ==
  [conn |-> job[c].conn, id |-> job[c].id, call |-> IF job[c].auth THEN 0 ELSE job[c].call]
SameEntry(p, q) == p.conn = q.conn /\ p.id = q.id

Insert(c) ==
  /\ pc[c] = "insert"
  /\ pending' = {p \in pending : ~SameEntry(p, job[c])} \cup {RequestOf(c)}
  /\ Goto(c, "send")
  /\ UNCHANGED <<caching, job, calls, repeatable, conns, resets, connected, next_id,
                 answers, out, tasks, daemon>>

Send(c) ==
  /\ pc[c] = "send"
  /\ LET n == job[c].conn IN
     /\ writer[n] # "done" /\ Len(out[n]) < QueueSize
     /\ out' = [out EXCEPT ![n] = Append(@, RequestOf(c))]
  /\ Goto(c, "wait")
  /\ UNCHANGED <<caching, job, calls, repeatable, conns, resets, table, tasks, daemon>>

(* The queue is closed; or it stayed full for REMOTE_SEND_TIMEOUT. *)
SendFail(c) ==
  /\ pc[c] = "send"
  /\ LET n == job[c].conn IN
     \/ writer[n] = "done" /\ job' = [job EXCEPT ![c].err = "disconnected"]
     \/ /\ writer[n] # "done" /\ Len(out[n]) = QueueSize
        /\ job' = [job EXCEPT ![c].err = "timeout"]
  /\ Goto(c, "undo")
  /\ UNCHANGED <<caching, calls, repeatable, conns, resets, table, out, tasks, daemon>>

AnswersTo(c) == {a \in answers : SameEntry(a, job[c])}

(* The oneshot fires: with a result, an error of the daemon, or the drain's. *)
Receive(c) ==
  /\ pc[c] = "wait"
  /\ \E a \in AnswersTo(c) :
       /\ answers' = answers \ {a}
       /\ \/ a.err # "none" /\ Fail(c, a.err) /\ UNCHANGED cache
          \/ /\ a.err = "none" /\ job[c].auth
             /\ Store(job[c].conn)
             /\ job' = [job EXCEPT ![c].auth = FALSE, ![c].id = 0]
             /\ Goto(c, "check")
          \/ a.err = "none" /\ ~job[c].auth /\ Return(c) /\ UNCHANGED caching
  /\ UNCHANGED <<calls, repeatable, conns, resets, connected, next_id, pending, out, tasks,
                 daemon>>

(* REMOTE_REQUEST_TIMEOUT. *)
WaitTimeout(c) ==
  /\ pc[c] = "wait" /\ AnswersTo(c) = {}
  /\ job' = [job EXCEPT ![c].err = "timeout"]
  /\ Goto(c, "undo")
  /\ UNCHANGED <<caching, calls, repeatable, conns, resets, table, out, tasks, daemon>>

(* Seeded fault: a call that gave up stays in the table. *)
KeepEntry(c) == UNCHANGED pending
RemoveEntry(c) == pending' = {p \in pending : ~SameEntry(p, job[c])}

Undo(c) ==
  /\ pc[c] = "undo"
  /\ RemoveEntry(c)
  /\ Fail(c, job[c].err)
  /\ UNCHANGED <<cache, calls, repeatable, conns, resets, connected, next_id, answers, out,
                 tasks, daemon>>

Call(c) ==
  \/ EnsureCached(c) \/ EnsureLock(c) \/ Connect(c) \/ ConnectFail(c) \/ DropClient(c)
  \/ Check(c) \/ Insert(c) \/ Send(c) \/ SendFail(c) \/ Receive(c) \/ WaitTimeout(c)
  \/ Undo(c)

-----------------------------------------------------------------------------
(* The two tasks of a connection.                                           *)

(* A line the kernel took from the writer need not reach the daemon. *)
Write(n) ==
  /\ writer[n] = "run" /\ out[n] # <<>>
  /\ out' = [out EXCEPT ![n] = Tail(@)]
  /\ got' = IF link[n] = "up" THEN got \cup {Head(out[n])} ELSE got
  /\ UNCHANGED <<caching, callers, conns, resets, table, tasks, link, replies, executed>>

WriteError(n) ==
  /\ writer[n] = "run" /\ out[n] # <<>> /\ link[n] = "down"
  /\ out' = [out EXCEPT ![n] = Tail(@)]
  /\ writer' = [writer EXCEPT ![n] = "mark"]
  /\ UNCHANGED <<caching, callers, conns, resets, table, reader, daemon>>

(* All clones of the client are gone: the queue ends, and nothing is marked. *)
WriterIdle(n) ==
  /\ writer[n] = "run" /\ out[n] = <<>>
  /\ cache # n /\ \A c \in Callers : n \notin job[c].held
  /\ writer' = [writer EXCEPT ![n] = "done"]
  /\ UNCHANGED <<caching, callers, conns, resets, table, out, reader, daemon>>

ReadReply(n) ==
  /\ reader[n] = "run"
  /\ \E r \in replies :
       /\ r.conn = n
       /\ replies' = replies \ {r}
       /\ pending' = {p \in pending : ~SameEntry(p, r)}
       /\ answers' = answers \cup (IF \E p \in pending : SameEntry(p, r) THEN {r} ELSE {})
  /\ UNCHANGED <<caching, callers, conns, resets, connected, next_id, out, tasks, link, got,
                 executed>>

(* What has not been read by then is lost with the buffer. *)
ReadEnd(n) ==
  /\ reader[n] = "run" /\ link[n] = "down"
  /\ reader' = [reader EXCEPT ![n] = "mark"]
  /\ replies' = {r \in replies : r.conn # n}
  /\ UNCHANGED <<caching, callers, conns, resets, table, out, writer, link, got, executed>>

(* mark_disconnected: the flag, and, when its lock is free, the table. *)
MarkFlag(n) == connected' = [connected EXCEPT ![n] = FALSE]

Drain(n) ==
  /\ pending' = {p \in pending : p.conn # n}
  /\ answers' = answers \cup {[conn |-> n, id |-> p.id, of |-> p.call, err |-> "disconnected"] :
                                p \in {q \in pending : q.conn = n}}

(* Between the drain and the end of the writer the queue still takes messages, *)
(* which are dropped with it.                                               *)
WriterMark(n) ==
  /\ \/ /\ writer[n] = "mark" /\ MarkFlag(n)
        /\ writer' = [writer EXCEPT ![n] = "drain"]
        /\ UNCHANGED <<pending, answers, out>>
     \/ /\ writer[n] = "drain" /\ Drain(n)
        /\ writer' = [writer EXCEPT ![n] = "close"]
        /\ UNCHANGED <<connected, out>>
     \/ /\ writer[n] = "close"
        /\ writer' = [writer EXCEPT ![n] = "done"]
        /\ out' = [out EXCEPT ![n] = <<>>]
        /\ UNCHANGED <<connected, pending, answers>>
  /\ UNCHANGED <<caching, callers, conns, resets, next_id, reader, daemon>>

ReaderMark(n) ==
  /\ \/ /\ reader[n] = "mark" /\ MarkFlag(n)
        /\ reader' = [reader EXCEPT ![n] = "drain"]
        /\ UNCHANGED <<pending, answers>>
     \/ /\ reader[n] = "drain" /\ Drain(n)
        /\ reader' = [reader EXCEPT ![n] = "done"]
        /\ UNCHANGED connected
  /\ UNCHANGED <<caching, callers, conns, resets, next_id, out, writer, daemon>>

Tasks(n) ==
  \/ Write(n) \/ WriteError(n) \/ WriterIdle(n) \/ WriterMark(n)
  \/ ReadReply(n) \/ ReadEnd(n) \/ ReaderMark(n)

-----------------------------------------------------------------------------
(* The connection fails at any time; the daemon executes what it received,  *)
(* in any order, also when there is nobody left to answer.                  *)
LinkDown(n) ==
  /\ link[n] = "up"
  /\ link' = [link EXCEPT ![n] = "down"]
  /\ UNCHANGED <<caching, callers, conns, resets, table, out, tasks, got, replies, executed>>

Execute(r, err) ==
  /\ r \in got
  /\ got' = got \ {r}
  /\ executed' = [k \in CallIds |-> executed[k] + IF k = r.call THEN 1 ELSE 0]
  /\ replies' = IF link[r.conn] = "up"
                THEN replies \cup {[conn |-> r.conn, id |-> r.id, of |-> r.call, err |-> err]}
                ELSE replies
  /\ UNCHANGED <<caching, callers, conns, resets, table, out, tasks, link>>

Outcomes == IF Refusals THEN {"none", "refused"} ELSE {"none"}

Next ==
  \/ \E c \in Callers : Call(c) \/ \E b \in BOOLEAN : Begin(c, b)
  \/ ResetBySettings
  \/ \E n \in ConnIds : Tasks(n) \/ LinkDown(n)
  \/ \E r \in got, e \in Outcomes : Execute(r, e)

Spec == Init /\ [][Next]_vars

(* tokio runs what is ready, its mutex is handed over in order of arrival,  *)
(* and its timers fire; the daemon and the network owe us nothing.          *)
WaitsForGuard(c) == EnsureCached(c) \/ EnsureLock(c) \/ DropClient(c)
Fairness ==
  /\ \A c \in Callers : WF_vars(Call(c)) /\ SF_vars(WaitsForGuard(c))
  /\ \A n \in ConnIds : WF_vars(Tasks(n))
FairSpec == Spec /\ Fairness

-----------------------------------------------------------------------------
Labels == {"idle", "ensure", "connect", "check", "insert", "send", "wait", "undo", "drop"}

CallersTypeOK ==
  /\ cache \in 0..MaxConns /\ guard \subseteq Callers
  /\ pc \in [Callers -> Labels] /\ job \in [Callers -> Job]
  /\ calls \in 0..MaxCalls /\ repeatable \subseteq CallIds
ConnsTypeOK ==
  /\ conns \in 0..MaxConns /\ resets \in Nat
  /\ connected \in [ConnIds -> BOOLEAN] /\ next_id \in [ConnIds -> Nat]
  /\ pending \subseteq Request /\ out \in [ConnIds -> Seq(Request)]
  /\ writer \in [ConnIds -> {"none", "run", "mark", "drain", "close", "done"}]
  /\ reader \in [ConnIds -> {"none", "run", "mark", "drain", "done"}]
  /\ answers \subseteq Reply
DaemonTypeOK ==
  /\ link \in [ConnIds -> {"none", "up", "down"}]
  /\ got \subseteq Request /\ replies \subseteq Reply
  /\ executed \in [CallIds -> Nat]
TypeOK == CallersTypeOK /\ ConnsTypeOK /\ DaemonTypeOK

(* What a call receives is the daemon's answer to itself or an error,       *)
(* although ids start over with every connection and a retry leaves an      *)
(* older request behind.                                                    *)
OwnReplyOnly ==
  \A c \in Callers : pc[c] = "wait" => \A a \in AnswersTo(c) : a.of = RequestOf(c).call

(* A method that is not on the list of can_retry_after_disconnect (sending  *)
(* a message, committing, deleting) is executed at most once, wherever the  *)
(* connection breaks; one on the list at most twice.                        *)
AtMostOnce ==
  \A k \in CallIds : executed[k] <= IF k \in repeatable THEN 2 ELSE 1

(* Whoever waits has an entry that an answer, a drain or its own timer will *)
(* take, or has been answered: both tasks drain the table, each after       *)
(* taking a flag down that callers look at before they register.            *)
NoWaiterForgotten ==
  \A c \in Callers : pc[c] = "wait" =>
    \/ \E p \in pending : SameEntry(p, job[c])
    \/ AnswersTo(c) # {}

(* With no call in progress no connection has an entry left. *)
NothingLeftBehind == (\A c \in Callers : pc[c] = "idle") => pending = {}

(* "Hold lock across the entire connect+store sequence to prevent TOCTOU    *)
(* race where two callers both see None and connect twice" (mod.rs:186): a  *)
(* cached client is emptied out or kept, never replaced by another.         *)
NeverReplaced == [][cache # 0 => cache' \in {0, cache}]_vars

(* Every call comes back, by an answer, a drain or a timer, and a failure   *)
(* on any of its paths leaves the cache unlocked for the next one.          *)
CallReturns == \A c \in Callers : (pc[c] # "idle") ~> (pc[c] = "idle")

-----------------------------------------------------------------------------
(* Claims of the repository that the code does not keep.                    *)

(* mod.rs:138: "Non-disconnect errors (e.g. timeouts) do not invalidate the *)
(* connection": the cache is emptied after a disconnect only.               *)
OnlyDisconnectInvalidates ==
  [][\A c \in Callers : DropClient(c) => job[c].err = "disconnected"]_vars
=============================================================================
