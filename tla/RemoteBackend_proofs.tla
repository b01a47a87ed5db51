------------------------ MODULE RemoteBackend_proofs ------------------------
(***************************************************************************)
(* Theorems about RemoteBackend, for every set of callers, with and without *)
(* a token, and for every bound: types, the cache's lock, the requests and  *)
(* replies of a connection, the waiting calls, and how often a call is      *)
(* executed.                                                                *)
(***************************************************************************)
EXTENDS RemoteBackend, FiniteSetTheorems, TLAPS

-----------------------------------------------------------------------------
(* Types: a call that got past ensure has a connection.                     *)
Connected == {"check", "insert", "send", "wait", "undo"}
JobsOK == \A c \in Callers : pc[c] \in Connected => job[c].conn \in ConnIds
TypeInv == TypeOK /\ JobsOK

(* One caller moves to a label with another job. *)
Moves(c, l, j) == pc' = [pc EXCEPT ![c] = l] /\ job' = [job EXCEPT ![c] = j]

LEMMA NoJobType == NoJob \in Job
  BY RemoteAssumption DEF NoJob, Job, Errors

LEMMA TypeInvInit == Init => TypeInv
<1> SUFFICES ASSUME Init PROVE TypeInv
  OBVIOUS
<1>1. CallersTypeOK
  BY NoJobType, RemoteAssumption DEF Init, CallersTypeOK, Labels
<1>2. ConnsTypeOK
  BY RemoteAssumption DEF Init, ConnsTypeOK
<1>3. DaemonTypeOK
  BY DEF Init, DaemonTypeOK
<1>4. JobsOK
  BY DEF Init, JobsOK, Connected
<1>5. QED
  BY <1>1, <1>2, <1>3, <1>4 DEF TypeInv, TypeOK

LEMMA CallerMoves ==
  ASSUME TypeInv, NEW c \in Callers, NEW l \in Labels, NEW j \in Job, Moves(c, l, j),
         l \in Connected => j.conn \in ConnIds,
         cache' \in 0..MaxConns, guard' \subseteq Callers, UNCHANGED <<calls, repeatable>>
  PROVE  CallersTypeOK' /\ JobsOK'
<1>1. pc \in [Callers -> Labels] /\ job \in [Callers -> Job]
  BY DEF TypeInv, TypeOK, CallersTypeOK
<1>2. pc' \in [Callers -> Labels] /\ job' \in [Callers -> Job]
  BY <1>1 DEF Moves
<1>3. \A d \in Callers : pc'[d] \in Connected => job'[d].conn \in ConnIds
  BY <1>1 DEF Moves, TypeInv, JobsOK
<1>4. QED
  BY <1>2, <1>3 DEF TypeInv, TypeOK, CallersTypeOK, JobsOK

(* What becomes of a caller after an error. *)
LEMMA FailMoves ==
  ASSUME TypeInv, NEW c \in Callers, NEW err \in Errors, Fail(c, err)
  PROVE  \/ Moves(c, "idle", NoJob) /\ job[c].auth /\ guard' = {}
         \/ Moves(c, "idle", NoJob) /\ ~job[c].auth /\ guard' = guard
         \/ /\ Moves(c, "drop", [job[c] EXCEPT !.err = err])
            /\ ~job[c].auth /\ guard' = guard
  BY DEF Fail, FailInEnsure, Return, Goto, Moves

LEMMA FailKeepsTypes ==
  ASSUME TypeInv, NEW c \in Callers, NEW err \in Errors, Fail(c, err),
         cache' = cache, UNCHANGED <<calls, repeatable>>
  PROVE  CallersTypeOK' /\ JobsOK'
<1>1. job[c] \in Job /\ cache \in 0..MaxConns /\ guard \subseteq Callers
  BY DEF TypeInv, TypeOK, CallersTypeOK
<1>2. [job[c] EXCEPT !.err = err] \in Job
  BY <1>1 DEF Job
<1>3. guard' \subseteq Callers
  BY <1>1, FailMoves
<1>4. "idle" \in Labels /\ "drop" \in Labels /\ "idle" \notin Connected /\ "drop" \notin Connected
  BY DEF Labels, Connected
<1>5. QED
  BY <1>1, <1>2, <1>3, <1>4, FailMoves, NoJobType, CallerMoves

LEMMA CallKeepsTypes ==
  ASSUME TypeInv, NEW c \in Callers, Call(c)
  PROVE  TypeInv'
<1>0. /\ pc \in [Callers -> Labels] /\ job \in [Callers -> Job] /\ job[c] \in Job
      /\ cache \in 0..MaxConns /\ guard \subseteq Callers
      /\ ConnsTypeOK /\ DaemonTypeOK /\ JobsOK
  BY DEF TypeInv, TypeOK, CallersTypeOK
<1>1. /\ UNCHANGED <<conns, resets, table, out, tasks>> => ConnsTypeOK'
      /\ UNCHANGED daemon => DaemonTypeOK'
  BY <1>0 DEF table, tasks, daemon, ConnsTypeOK, DaemonTypeOK
<1>2. CASE EnsureCached(c)
  <2>1. cache \in ConnIds
    BY <1>2, <1>0, RemoteAssumption DEF EnsureCached, ConnIds
  <2>2. [job[c] EXCEPT !.conn = cache, !.held = @ \cup {cache}] \in Job
    BY <2>1, <1>0 DEF Job
  <2>3. Moves(c, "check", [job[c] EXCEPT !.conn = cache, !.held = @ \cup {cache}])
    BY <1>2 DEF EnsureCached, Goto, Moves
  <2>4. [job[c] EXCEPT !.conn = cache, !.held = @ \cup {cache}].conn \in ConnIds
    BY <2>1, <1>0 DEF Job
  <2>5. CallersTypeOK' /\ JobsOK'
    BY <2>2, <2>3, <2>4, <1>2, <1>0, CallerMoves DEF EnsureCached, caching, Labels
  <2>6. QED
    BY <2>5, <1>2, <1>1 DEF EnsureCached, TypeInv, TypeOK
<1>3. CASE EnsureLock(c)
  <2>1. Moves(c, "connect", job[c])
    BY <1>3, <1>0 DEF EnsureLock, Goto, Moves
  <2>2. CallersTypeOK' /\ JobsOK'
    BY <2>1, <1>3, <1>0, CallerMoves DEF EnsureLock, Labels, Connected
  <2>3. QED
    BY <2>2, <1>3, <1>1 DEF EnsureLock, TypeInv, TypeOK
<1>4. CASE Connect(c)
  <2> DEFINE n == conns + 1
             j == [job[c] EXCEPT !.conn = n, !.held = @ \cup {n}, !.auth = Token]
  <2>1. n \in ConnIds
    BY <1>4, <1>0, RemoteAssumption DEF Connect, ConnIds, ConnsTypeOK
  <2>2. j \in Job
    <3>1. n \in 0..MaxConns
      BY <2>1, RemoteAssumption DEF ConnIds
    <3>2. CASE Token = TRUE
      BY <3>1, <3>2, <2>1, <1>0 DEF Job
    <3>3. CASE Token = FALSE
      BY <3>1, <3>3, <2>1, <1>0 DEF Job
    <3>4. QED
      BY <3>2, <3>3, RemoteAssumption
  <2>3. Moves(c, "check", j)
    BY <1>4 DEF Connect, Goto, Moves
  <2>4. cache' \in 0..MaxConns /\ guard' \subseteq Callers /\ UNCHANGED <<calls, repeatable>>
    BY <2>1, <1>4, <1>0 DEF Connect, Store, caching, ConnIds
  <2>5. j.conn \in ConnIds
    BY <2>1, <1>0 DEF Job
  <2>6. CallersTypeOK' /\ JobsOK'
    BY <2>2, <2>3, <2>4, <2>5, CallerMoves DEF Labels
  <2>7. ConnsTypeOK'
    BY <2>1, <1>4, <1>0 DEF Connect, ConnsTypeOK, ConnIds
  <2>8. DaemonTypeOK'
    BY <2>1, <1>4, <1>0 DEF Connect, DaemonTypeOK
  <2>9. QED
    BY <2>6, <2>7, <2>8 DEF TypeInv, TypeOK
<1>5. CASE ConnectFail(c)
  <2>1. Moves(c, "idle", NoJob)
    BY <1>5 DEF ConnectFail, Return, Goto, Moves
  <2>2. CallersTypeOK' /\ JobsOK'
    BY <2>1, <1>5, <1>0, CallerMoves, NoJobType DEF ConnectFail, Labels, Connected
  <2>3. QED
    BY <2>2, <1>5, <1>1 DEF ConnectFail, TypeInv, TypeOK
<1>6. CASE DropClient(c)
  <2>1. cache' \in 0..MaxConns /\ UNCHANGED <<guard, calls, repeatable>>
    BY <1>6, RemoteAssumption DEF DropClient
  <2>2. PICK l \in {"ensure", "idle"}, j \in Job : Moves(c, l, j)
    <3>1. 0 \in 0..MaxConns /\ "none" \in Errors
      BY RemoteAssumption DEF Errors
    <3>2. [job[c] EXCEPT !.again = TRUE, !.conn = 0, !.id = 0, !.err = "none"] \in Job
      BY <3>1, <1>0 DEF Job
    <3>3. \/ /\ job' = [job EXCEPT ![c].again = TRUE, ![c].conn = 0, ![c].id = 0,
                                 ![c].err = "none"]
             /\ Goto(c, "ensure")
          \/ Return(c)
      BY <1>6, Zenon DEF DropClient
    <3>4. CASE Return(c)
      BY <3>4, NoJobType DEF Return, Goto, Moves
    <3>5. CASE /\ job' = [job EXCEPT ![c].again = TRUE, ![c].conn = 0, ![c].id = 0,
                                    ![c].err = "none"]
               /\ Goto(c, "ensure")
      BY <3>2, <3>5 DEF Goto, Moves
    <3>6. QED
      BY <3>3, <3>4, <3>5
  <2>3. CallersTypeOK' /\ JobsOK'
    BY <2>1, <2>2, <1>0, CallerMoves DEF Labels, Connected
  <2>4. QED
    BY <2>3, <1>6, <1>1 DEF DropClient, TypeInv, TypeOK
<1>7. CASE Check(c)
  <2>1. job[c].conn \in ConnIds
    BY <1>7, <1>0 DEF Check, JobsOK, Connected
  <2>2. CallersTypeOK' /\ JobsOK'
    <3>1. CASE connected[job[c].conn]
      <4>1. next_id[job[c].conn] \in Nat
        BY <2>1, <1>0 DEF ConnsTypeOK
      <4>2. [job[c] EXCEPT !.id = next_id[job[c].conn]] \in Job
        BY <4>1, <1>0 DEF Job
      <4>3. Moves(c, "insert", [job[c] EXCEPT !.id = next_id[job[c].conn]])
        BY <3>1, <1>7 DEF Check, NextId, Goto, Moves
      <4>4. [job[c] EXCEPT !.id = next_id[job[c].conn]].conn \in ConnIds
        BY <2>1, <1>0 DEF Job
      <4>5. QED
        BY <4>2, <4>3, <4>4, <3>1, <1>7, <1>0, CallerMoves DEF Check, Labels
    <3>2. CASE ~connected[job[c].conn]
      <4>1. Fail(c, "disconnected") /\ cache' = cache /\ UNCHANGED <<calls, repeatable>>
        BY <3>2, <1>7 DEF Check
      <4>2. QED
        BY <4>1, FailKeepsTypes DEF Errors
    <3>3. QED
      BY <3>1, <3>2
  <2>3. ConnsTypeOK'
    <3>1. next_id' = next_id \/ next_id' = [next_id EXCEPT ![job[c].conn] = @ + 1]
      BY <1>7 DEF Check
    <3>2. next_id \in [ConnIds -> Nat]
      BY <1>0 DEF ConnsTypeOK
    <3>3. next_id' \in [ConnIds -> Nat]
      BY <3>1, <3>2, <2>1
    <3>4. QED
      BY <3>3, <1>7, <1>0 DEF Check, ConnsTypeOK, tasks
  <2>4. QED
    BY <2>2, <2>3, <1>7, <1>1 DEF Check, TypeInv, TypeOK
<1>8. CASE Insert(c)
  <2>1. Moves(c, "send", job[c])
    BY <1>8, <1>0 DEF Insert, Goto, Moves
  <2>2. job[c].conn \in ConnIds
    BY <1>8, <1>0 DEF Insert, JobsOK, Connected
  <2>3. CallersTypeOK' /\ JobsOK'
    BY <2>1, <2>2, <1>8, <1>0, CallerMoves DEF Insert, caching, Labels
  <2>4. RequestOf(c) \in Request
    BY <2>2, <1>0, RemoteAssumption DEF RequestOf, Request, Job
  <2>5. ConnsTypeOK'
    BY <2>4, <1>8, <1>0 DEF Insert, ConnsTypeOK, tasks
  <2>6. QED
    BY <2>3, <2>5, <1>8, <1>1 DEF Insert, TypeInv, TypeOK
<1>9. CASE Send(c)
  <2>1. Moves(c, "wait", job[c])
    BY <1>9, <1>0 DEF Send, Goto, Moves
  <2>2. job[c].conn \in ConnIds
    BY <1>9, <1>0 DEF Send, JobsOK, Connected
  <2>3. CallersTypeOK' /\ JobsOK'
    BY <2>1, <2>2, <1>9, <1>0, CallerMoves DEF Send, caching, Labels
  <2>4. RequestOf(c) \in Request
    BY <2>2, <1>0, RemoteAssumption DEF RequestOf, Request, Job
  <2>5. out' = [out EXCEPT ![job[c].conn] = Append(@, RequestOf(c))]
    BY <1>9 DEF Send
  <2>6. out' \in [ConnIds -> Seq(Request)]
    BY <2>2, <2>4, <2>5, <1>0 DEF ConnsTypeOK
  <2>7. ConnsTypeOK'
    BY <2>6, <1>9, <1>0 DEF Send, ConnsTypeOK, tasks, table
  <2>8. QED
    BY <2>3, <2>7, <1>9, <1>1 DEF Send, TypeInv, TypeOK
<1>10. CASE SendFail(c) \/ WaitTimeout(c)
  <2>1. PICK e \in {"disconnected", "timeout"} : Moves(c, "undo", [job[c] EXCEPT !.err = e])
    BY <1>10 DEF SendFail, WaitTimeout, Goto, Moves
  <2>2. [job[c] EXCEPT !.err = e] \in Job
    BY <1>0 DEF Job, Errors
  <2>3. job[c].conn \in ConnIds
    BY <1>10, <1>0 DEF SendFail, WaitTimeout, JobsOK, Connected
  <2>4. [job[c] EXCEPT !.err = e].conn \in ConnIds
    BY <2>3, <1>0 DEF Job
  <2>5. CallersTypeOK' /\ JobsOK'
    BY <2>1, <2>2, <2>4, <1>10, <1>0, CallerMoves DEF SendFail, WaitTimeout, caching, Labels
  <2>6. QED
    BY <2>5, <1>10, <1>1 DEF SendFail, WaitTimeout, TypeInv, TypeOK
<1>11. CASE Receive(c)
  <2>1. UNCHANGED <<calls, repeatable, conns, resets, connected, next_id, pending, out,
                    tasks, daemon>>
    BY <1>11 DEF Receive
  <2>2. answers' \subseteq answers
    BY <1>11 DEF Receive
  <2>3. ConnsTypeOK'
    BY <2>1, <2>2, <1>0 DEF ConnsTypeOK, tasks
  <2>4. PICK a \in AnswersTo(c) :
          \/ a.err # "none" /\ Fail(c, a.err) /\ UNCHANGED cache
          \/ /\ a.err = "none" /\ job[c].auth
             /\ Store(job[c].conn)
             /\ job' = [job EXCEPT ![c].auth = FALSE, ![c].id = 0]
             /\ Goto(c, "check")
          \/ a.err = "none" /\ ~job[c].auth /\ Return(c) /\ UNCHANGED caching
    BY <1>11 DEF Receive
  <2>5. a.err \in Errors
    BY <1>0 DEF AnswersTo, ConnsTypeOK, Reply
  <2>6. CallersTypeOK' /\ JobsOK'
    <3>1. CASE Fail(c, a.err) /\ UNCHANGED cache
      BY <3>1, <2>1, <2>5, FailKeepsTypes
    <3>2. CASE Store(job[c].conn) /\ job' = [job EXCEPT ![c].auth = FALSE, ![c].id = 0] /\ Goto(c, "check")
      <4>1. Moves(c, "check", [job[c] EXCEPT !.auth = FALSE, !.id = 0])
        BY <3>2 DEF Goto, Moves
      <4>2. [job[c] EXCEPT !.auth = FALSE, !.id = 0] \in Job
        BY <1>0 DEF Job
      <4>3. job[c].conn \in ConnIds
        BY <1>11, <1>0 DEF Receive, JobsOK, Connected
      <4>4. [job[c] EXCEPT !.auth = FALSE, !.id = 0].conn \in ConnIds
        BY <4>3, <1>0 DEF Job
      <4>5. cache' \in 0..MaxConns /\ guard' \subseteq Callers
        BY <4>3, <3>2, RemoteAssumption DEF Store, ConnIds
      <4>6. QED
        BY <4>1, <4>2, <4>4, <4>5, <2>1, CallerMoves DEF Labels
    <3>3. CASE Return(c) /\ UNCHANGED caching
      <4>1. Moves(c, "idle", NoJob)
        BY <3>3 DEF Return, Goto, Moves
      <4>2. QED
        BY <4>1, <3>3, <2>1, <1>0, CallerMoves, NoJobType DEF caching, Labels, Connected
    <3>4. QED
      BY <2>4, <3>1, <3>2, <3>3
  <2>7. QED
    BY <2>1, <2>3, <2>6, <1>1 DEF TypeInv, TypeOK
<1>12. CASE Undo(c)
  <2>1. Fail(c, job[c].err) /\ cache' = cache /\ UNCHANGED <<calls, repeatable>>
    BY <1>12 DEF Undo
  <2>2. job[c].err \in Errors
    BY <1>0 DEF Job
  <2>3. CallersTypeOK' /\ JobsOK'
    BY <2>1, <2>2, FailKeepsTypes
  <2>4. ConnsTypeOK'
    BY <1>12, <1>0 DEF Undo, RemoveEntry, ConnsTypeOK, tasks
  <2>5. QED
    BY <2>3, <2>4, <1>12, <1>1 DEF Undo, TypeInv, TypeOK
<1>13. QED
  BY <1>2, <1>3, <1>4, <1>5, <1>6, <1>7, <1>8, <1>9, <1>10, <1>11, <1>12 DEF Call

LEMMA BeginKeepsTypes ==
  ASSUME TypeInv, NEW c \in Callers, NEW b \in BOOLEAN, Begin(c, b)
  PROVE  TypeInv'
<1>0. /\ pc \in [Callers -> Labels] /\ job \in [Callers -> Job] /\ job[c] \in Job
      /\ cache \in 0..MaxConns /\ guard \subseteq Callers
      /\ ConnsTypeOK /\ DaemonTypeOK /\ JobsOK
      /\ calls \in 0..MaxCalls /\ repeatable \subseteq CallIds
  BY DEF TypeInv, TypeOK, CallersTypeOK
<1>1. calls + 1 \in CallIds /\ calls + 1 \in 0..MaxCalls
  BY <1>0, RemoteAssumption DEF Begin, CallIds
<1>2. [job[c] EXCEPT !.call = calls + 1] \in Job
  BY <1>0, <1>1 DEF Job
<1>3. Moves(c, "ensure", [job[c] EXCEPT !.call = calls + 1])
  BY DEF Begin, Goto, Moves
<1>4. pc' \in [Callers -> Labels] /\ job' \in [Callers -> Job]
  BY <1>0, <1>2, <1>3 DEF Moves, Labels
<1>5. JobsOK'
  <2>1. \A d \in Callers : pc'[d] \in Connected => d # c /\ pc[d] \in Connected
    BY <1>0, <1>3 DEF Moves, Connected
  <2>2. \A d \in Callers : d # c => job'[d] = job[d]
    BY <1>0, <1>3 DEF Moves
  <2>3. QED
    BY <2>1, <2>2, <1>0 DEF JobsOK
<1>6. CallersTypeOK'
  BY <1>0, <1>1, <1>4 DEF Begin, CallersTypeOK, caching
<1>7. ConnsTypeOK' /\ DaemonTypeOK'
  BY <1>0 DEF Begin, table, tasks, daemon, ConnsTypeOK, DaemonTypeOK
<1>8. QED
  BY <1>5, <1>6, <1>7 DEF TypeInv, TypeOK

(* What both tasks of a connection do to the table when they fail. *)
LEMMA DrainTypes ==
  ASSUME TypeInv, NEW n \in ConnIds, Drain(n)
  PROVE  pending' \subseteq Request /\ answers' \subseteq Reply
<1>1. pending \subseteq Request /\ answers \subseteq Reply
  BY DEF TypeInv, TypeOK, ConnsTypeOK
<1>2. \A p \in pending : [conn |-> n, id |-> p.id, of |-> p.call, err |-> "disconnected"] \in Reply
  BY <1>1 DEF Request, Reply, Errors
<1>3. QED
  BY <1>1, <1>2 DEF Drain

LEMMA TasksKeepTypes ==
  ASSUME TypeInv, NEW n \in ConnIds, Tasks(n)
  PROVE  TypeInv'
<1>0. /\ ConnsTypeOK /\ DaemonTypeOK
      /\ out \in [ConnIds -> Seq(Request)] /\ connected \in [ConnIds -> BOOLEAN]
      /\ got \subseteq Request /\ replies \subseteq Reply
      /\ pending \subseteq Request /\ answers \subseteq Reply
      /\ writer \in [ConnIds -> {"none", "run", "mark", "drain", "close", "done"}]
      /\ reader \in [ConnIds -> {"none", "run", "mark", "drain", "done"}]
  BY DEF TypeInv, TypeOK, ConnsTypeOK, DaemonTypeOK
<1>1. UNCHANGED <<caching, callers>> => CallersTypeOK' /\ JobsOK'
  BY DEF TypeInv, TypeOK, CallersTypeOK, JobsOK, caching, callers
<1>2. UNCHANGED <<conns, resets, table, out, tasks>> => ConnsTypeOK'
  BY <1>0 DEF table, tasks, ConnsTypeOK
<1>3. UNCHANGED daemon => DaemonTypeOK'
  BY <1>0 DEF daemon, DaemonTypeOK
<1>4. out[n] \in Seq(Request)
  BY <1>0
<1>5. out[n] # <<>> => Tail(out[n]) \in Seq(Request) /\ Head(out[n]) \in Request
  BY <1>4
<1>6. CASE Write(n)
  <2>1. out' \in [ConnIds -> Seq(Request)]
    BY <1>6, <1>5, <1>0 DEF Write
  <2>2. got' \subseteq Request
    BY <1>6, <1>5, <1>0 DEF Write
  <2>3. ConnsTypeOK'
    BY <2>1, <1>6, <1>0 DEF Write, table, tasks, ConnsTypeOK
  <2>4. DaemonTypeOK'
    BY <2>2, <1>6, <1>0 DEF Write, DaemonTypeOK
  <2>5. QED
    BY <2>3, <2>4, <1>6, <1>1 DEF Write, TypeInv, TypeOK
<1>7. CASE WriteError(n)
  <2>1. out' \in [ConnIds -> Seq(Request)]
    BY <1>7, <1>5, <1>0 DEF WriteError
  <2>2. writer' \in [ConnIds -> {"none", "run", "mark", "drain", "close", "done"}]
    BY <1>7, <1>0 DEF WriteError
  <2>3. ConnsTypeOK'
    BY <2>1, <2>2, <1>7, <1>0 DEF WriteError, table, ConnsTypeOK
  <2>4. QED
    BY <2>3, <1>7, <1>1, <1>3 DEF WriteError, TypeInv, TypeOK
<1>8. CASE WriterIdle(n)
  <2>1. writer' \in [ConnIds -> {"none", "run", "mark", "drain", "close", "done"}]
    BY <1>8, <1>0 DEF WriterIdle
  <2>2. ConnsTypeOK'
    BY <2>1, <1>8, <1>0 DEF WriterIdle, table, ConnsTypeOK
  <2>3. QED
    BY <2>2, <1>8, <1>1, <1>3 DEF WriterIdle, TypeInv, TypeOK
<1>9. CASE WriterMark(n)
  <2>1. UNCHANGED <<caching, callers, conns, resets, next_id, reader, daemon>>
    BY <1>9 DEF WriterMark
  <2>2. connected' \in [ConnIds -> BOOLEAN]
    BY <1>9, <1>0 DEF WriterMark, MarkFlag
  <2>3. writer' \in [ConnIds -> {"none", "run", "mark", "drain", "close", "done"}]
    BY <1>9, <1>0 DEF WriterMark
  <2>4. out' \in [ConnIds -> Seq(Request)]
    <3>1. out' = out \/ out' = [out EXCEPT ![n] = <<>>]
      BY <1>9 DEF WriterMark
    <3>2. <<>> \in Seq(Request)
      OBVIOUS
    <3>3. QED
      BY <3>1, <3>2, <1>0
  <2>5. pending' \subseteq Request /\ answers' \subseteq Reply
    BY <1>9, <1>0, DrainTypes DEF WriterMark
  <2>6. ConnsTypeOK'
    BY <2>1, <2>2, <2>3, <2>4, <2>5, <1>0 DEF ConnsTypeOK
  <2>7. QED
    BY <2>1, <2>6, <1>1, <1>3 DEF TypeInv, TypeOK
<1>10. CASE ReadReply(n)
  <2>1. UNCHANGED <<caching, callers, conns, resets, connected, next_id, out, tasks>>
    BY <1>10 DEF ReadReply
  <2>2. replies' \subseteq replies /\ pending' \subseteq pending /\ answers' \subseteq answers \cup replies
    BY <1>10 DEF ReadReply
  <2>3. ConnsTypeOK'
    BY <2>1, <2>2, <1>0 DEF ConnsTypeOK, tasks
  <2>4. DaemonTypeOK'
    BY <2>2, <1>10, <1>0 DEF ReadReply, DaemonTypeOK
  <2>5. QED
    BY <2>1, <2>3, <2>4, <1>1 DEF TypeInv, TypeOK
<1>11. CASE ReadEnd(n)
  <2>1. reader' \in [ConnIds -> {"none", "run", "mark", "drain", "done"}]
    BY <1>11, <1>0 DEF ReadEnd
  <2>2. ConnsTypeOK'
    BY <2>1, <1>11, <1>0 DEF ReadEnd, table, ConnsTypeOK
  <2>3. replies' \subseteq replies
    BY <1>11 DEF ReadEnd
  <2>4. DaemonTypeOK'
    BY <2>3, <1>11, <1>0 DEF ReadEnd, DaemonTypeOK
  <2>5. QED
    BY <2>2, <2>4, <1>11, <1>1 DEF ReadEnd, TypeInv, TypeOK
<1>12. CASE ReaderMark(n)
  <2>1. UNCHANGED <<caching, callers, conns, resets, next_id, out, writer, daemon>>
    BY <1>12 DEF ReaderMark
  <2>2. connected' \in [ConnIds -> BOOLEAN]
    BY <1>12, <1>0 DEF ReaderMark, MarkFlag
  <2>3. reader' \in [ConnIds -> {"none", "run", "mark", "drain", "done"}]
    BY <1>12, <1>0 DEF ReaderMark
  <2>4. pending' \subseteq Request /\ answers' \subseteq Reply
    BY <1>12, <1>0, DrainTypes DEF ReaderMark
  <2>5. ConnsTypeOK'
    BY <2>1, <2>2, <2>3, <2>4, <1>0 DEF ConnsTypeOK
  <2>6. QED
    BY <2>1, <2>5, <1>1, <1>3 DEF TypeInv, TypeOK
<1>13. QED
  BY <1>6, <1>7, <1>8, <1>9, <1>10, <1>11, <1>12 DEF Tasks

LEMMA ExecuteKeepsTypes ==
  ASSUME TypeInv, NEW r \in got, NEW e \in Outcomes, Execute(r, e)
  PROVE  TypeInv'
<1>0. /\ got \subseteq Request /\ replies \subseteq Reply /\ executed \in [CallIds -> Nat]
      /\ link \in [ConnIds -> {"none", "up", "down"}]
  BY DEF TypeInv, TypeOK, DaemonTypeOK
<1>1. CallersTypeOK' /\ JobsOK'
  BY DEF TypeInv, TypeOK, CallersTypeOK, JobsOK, Execute, caching, callers
<1>2. ConnsTypeOK'
  BY DEF TypeInv, TypeOK, ConnsTypeOK, Execute, table, tasks
<1>3. executed' = [k \in CallIds |-> executed[k] + IF k = r.call THEN 1 ELSE 0]
  BY DEF Execute
<1>4. executed' \in [CallIds -> Nat]
  BY <1>3, <1>0
<1>5. e \in Errors
  BY DEF Outcomes, Errors
<1>6. [conn |-> r.conn, id |-> r.id, of |-> r.call, err |-> e] \in Reply
  BY <1>0, <1>5 DEF Request, Reply
<1>7. replies' \subseteq Reply
  BY <1>0, <1>6 DEF Execute
<1>8. DaemonTypeOK'
  BY <1>0, <1>4, <1>7 DEF Execute, DaemonTypeOK
<1>9. QED
  BY <1>1, <1>2, <1>8 DEF TypeInv, TypeOK

LEMMA TypeInvStep ==
  ASSUME TypeInv, [Next]_vars
  PROVE  TypeInv'
<1>1. CASE \E c \in Callers : Call(c)
  BY <1>1, CallKeepsTypes
<1>2. CASE \E c \in Callers, b \in BOOLEAN : Begin(c, b)
  BY <1>2, BeginKeepsTypes
<1>3. CASE ResetBySettings
  <2>1. CallersTypeOK' /\ JobsOK'
    <3>1. cache' \in 0..MaxConns
      BY <1>3, RemoteAssumption DEF ResetBySettings
    <3>2. UNCHANGED <<guard, callers>>
      BY <1>3 DEF ResetBySettings
    <3>3. QED
      BY <3>1, <3>2 DEF TypeInv, TypeOK, CallersTypeOK, JobsOK, callers
  <2>2. ConnsTypeOK'
    BY <1>3 DEF ResetBySettings, TypeInv, TypeOK, ConnsTypeOK, table, tasks
  <2>3. DaemonTypeOK'
    BY <1>3 DEF ResetBySettings, TypeInv, TypeOK, DaemonTypeOK, daemon
  <2>4. QED
    BY <2>1, <2>2, <2>3 DEF TypeInv, TypeOK
<1>4. CASE \E n \in ConnIds : Tasks(n)
  BY <1>4, TasksKeepTypes
<1>5. CASE \E n \in ConnIds : LinkDown(n)
  <2>1. CallersTypeOK' /\ JobsOK'
    BY <1>5 DEF LinkDown, TypeInv, TypeOK, CallersTypeOK, JobsOK, caching, callers
  <2>2. ConnsTypeOK'
    BY <1>5 DEF LinkDown, TypeInv, TypeOK, ConnsTypeOK, table, tasks
  <2>3. DaemonTypeOK'
    BY <1>5 DEF LinkDown, TypeInv, TypeOK, DaemonTypeOK
  <2>4. QED
    BY <2>1, <2>2, <2>3 DEF TypeInv, TypeOK
<1>6. CASE \E r \in got, e \in Outcomes : Execute(r, e)
  BY <1>6, ExecuteKeepsTypes
<1>7. CASE UNCHANGED vars
  <2>1. CallersTypeOK' /\ JobsOK'
    BY <1>7 DEF vars, TypeInv, TypeOK, CallersTypeOK, JobsOK, caching, callers
  <2>2. ConnsTypeOK'
    BY <1>7 DEF vars, TypeInv, TypeOK, ConnsTypeOK, table, tasks
  <2>3. DaemonTypeOK'
    BY <1>7 DEF vars, TypeInv, TypeOK, DaemonTypeOK, daemon
  <2>4. QED
    BY <2>1, <2>2, <2>3 DEF TypeInv, TypeOK
<1>8. QED
  BY <1>1, <1>2, <1>3, <1>4, <1>5, <1>6, <1>7 DEF Next

LEMMA TypeInvHolds == Spec => []TypeInv
<1>1. QED
  BY TypeInvInit, TypeInvStep, PTL DEF Spec

(* The cache, its lock, the callers, the tables and queues of every         *)
(* connection and what the daemon has keep their types (mod.rs:40, state.rs *)
(* :37): in particular a call that registers or waits has a connection.     *)
THEOREM RemoteTypeCorrect == Spec => []TypeOK
<1>1. TypeInv => TypeOK
  BY DEF TypeInv
<1>2. QED
  BY <1>1, TypeInvHolds, PTL

-----------------------------------------------------------------------------
(* The lock of the cache: whoever connects or authenticates holds it, and   *)
(* the cache is empty meanwhile.                                            *)
Connecting(c) == pc[c] = "connect" \/ job[c].auth
GuardOK == \A c \in Callers : Connecting(c) => guard = {c} /\ cache = 0

LEMMA GuardInit == Init => GuardOK
  BY DEF Init, GuardOK, Connecting, NoJob

(* A caller that moves without connecting, the rest as it was. *)
LEMMA GuardMoves ==
  ASSUME TypeInv, GuardOK, NEW c \in Callers, NEW l \in Labels, NEW j \in Job, Moves(c, l, j),
         l # "connect", ~j.auth,
         \/ UNCHANGED <<cache, guard>>
         \/ guard = {}
         \/ guard = {c}
  PROVE  GuardOK'
<1>1. \A d \in Callers : d # c => pc'[d] = pc[d] /\ job'[d] = job[d]
  BY DEF Moves, TypeInv, TypeOK, CallersTypeOK
<1>2. pc'[c] = l /\ job'[c] = j
  BY DEF Moves, TypeInv, TypeOK, CallersTypeOK
<1>3. ASSUME NEW d \in Callers, Connecting(d)'
      PROVE  guard' = {d} /\ cache' = 0
  <2>1. d # c
    BY <1>2, <1>3 DEF Connecting
  <2>2. Connecting(d)
    BY <2>1, <1>1, <1>3 DEF Connecting
  <2>3. guard = {d} /\ cache = 0
    BY <2>2 DEF GuardOK
  <2>4. UNCHANGED <<cache, guard>>
    BY <2>1, <2>3
  <2>5. QED
    BY <2>3, <2>4
<1>4. QED
  BY <1>3 DEF GuardOK

LEMMA GuardFail ==
  ASSUME TypeInv, GuardOK, NEW c \in Callers, NEW err \in Errors, Fail(c, err), cache' = cache
  PROVE  GuardOK'
<1>1. "idle" \in Labels /\ "drop" \in Labels
  BY DEF Labels
<1>2. NoJob \in Job /\ ~NoJob.auth
  BY NoJobType DEF NoJob
<1>3. CASE Moves(c, "idle", NoJob) /\ job[c].auth /\ guard' = {}
  <2>1. guard = {c}
    BY <1>3 DEF GuardOK, Connecting
  <2>2. QED
    BY <2>1, <1>1, <1>2, <1>3, GuardMoves
<1>4. CASE Moves(c, "idle", NoJob) /\ guard' = guard
  BY <1>1, <1>2, <1>4, GuardMoves
<1>5. CASE Moves(c, "drop", [job[c] EXCEPT !.err = err]) /\ ~job[c].auth /\ guard' = guard
  <2>1. job[c] \in Job
    BY DEF TypeInv, TypeOK, CallersTypeOK
  <2>2. [job[c] EXCEPT !.err = err] \in Job
    BY <2>1 DEF Job
  <2>3. [job[c] EXCEPT !.err = err].auth = job[c].auth
    BY <2>1 DEF Job
  <2>4. ~[job[c] EXCEPT !.err = err].auth
    BY <2>3, <1>5
  <2>5. QED
    BY <2>2, <2>4, <1>1, <1>5, GuardMoves
<1>6. QED
  BY <1>3, <1>4, <1>5, FailMoves

(* Nobody starts or stops to connect, and lock and cache stay. *)
LEMMA GuardFrame ==
  ASSUME GuardOK, UNCHANGED caching, \A c \in Callers : Connecting(c)' => Connecting(c)
  PROVE  GuardOK'
  BY DEF GuardOK, caching

LEMMA GuardStep ==
  ASSUME TypeInv, GuardOK, [Next]_vars
  PROVE  GuardOK'
<1>0. /\ pc \in [Callers -> Labels] /\ job \in [Callers -> Job]
      /\ \A c \in Callers : job[c] \in Job
  BY DEF TypeInv, TypeOK, CallersTypeOK
<1>1. UNCHANGED <<caching, callers>> => GuardOK'
  BY DEF GuardOK, Connecting, caching, callers
<1>2. ASSUME NEW c \in Callers, NEW b \in BOOLEAN, Begin(c, b)
      PROVE  GuardOK'
  <2>1. \A d \in Callers : Connecting(d)' => Connecting(d)
    BY <1>2, <1>0 DEF Begin, Goto, Connecting, Job
  <2>2. QED
    BY <2>1, <1>2, GuardFrame DEF Begin
<1>3. ASSUME NEW c \in Callers, EnsureCached(c)
      PROVE  GuardOK'
  <2>1. \A d \in Callers : Connecting(d)' => Connecting(d)
    BY <1>3, <1>0 DEF EnsureCached, Goto, Connecting, Job
  <2>2. QED
    BY <2>1, <1>3, GuardFrame DEF EnsureCached
<1>4. ASSUME NEW c \in Callers, EnsureLock(c)
      PROVE  GuardOK'
  <2>1. \A d \in Callers : ~Connecting(d)
    BY <1>4 DEF EnsureLock, GuardOK
  <2>2. \A d \in Callers : d # c => ~Connecting(d)'
    BY <2>1, <1>4, <1>0 DEF EnsureLock, Goto, Connecting
  <2>3. QED
    BY <2>2, <1>4 DEF EnsureLock, GuardOK
<1>5. ASSUME NEW c \in Callers, Connect(c)
      PROVE  GuardOK'
  <2>1. guard = {c} /\ cache = 0 /\ \A d \in Callers : d # c => ~Connecting(d)
    BY <1>5 DEF Connect, GuardOK, Connecting
  <2>2. \A d \in Callers : d # c => ~Connecting(d)'
    BY <2>1, <1>5, <1>0 DEF Connect, Goto, Connecting
  <2>3. CASE Token
    <3>1. UNCHANGED caching
      BY <2>3, <1>5 DEF Connect
    <3>2. QED
      BY <2>1, <2>2, <3>1 DEF GuardOK, caching
  <2>4. CASE ~Token
    <3>1. pc'[c] = "check"
      BY <1>5, <1>0 DEF Connect, Goto
    <3>2. job'[c].auth = Token
      BY <1>5, <1>0 DEF Connect, Job
    <3>3. ~Connecting(c)'
      BY <3>1, <3>2, <2>4 DEF Connecting
    <3>4. QED
      BY <3>3, <2>2 DEF GuardOK
  <2>5. QED
    BY <2>3, <2>4
<1>6. ASSUME NEW c \in Callers, ConnectFail(c)
      PROVE  GuardOK'
  <2>1. Moves(c, "idle", NoJob)
    BY <1>6 DEF ConnectFail, Return, Goto, Moves
  <2>2. guard = {c}
    BY <1>6 DEF ConnectFail, GuardOK, Connecting
  <2>3. QED
    BY <2>1, <2>2, NoJobType, GuardMoves DEF Labels, NoJob
<1>7. ASSUME NEW c \in Callers, DropClient(c)
      PROVE  GuardOK'
  <2>1. \A d \in Callers : ~Connecting(d)
    BY <1>7 DEF DropClient, GuardOK
  <2>2. \A d \in Callers : ~Connecting(d)'
    <3>1. \/ /\ job' = [job EXCEPT ![c].again = TRUE, ![c].conn = 0, ![c].id = 0,
                                 ![c].err = "none"]
             /\ Goto(c, "ensure")
          \/ Return(c)
      BY <1>7, Zenon DEF DropClient
    <3>2. CASE Return(c)
      BY <3>2, <2>1, <1>0 DEF Return, Goto, NoJob, Connecting
    <3>3. CASE /\ job' = [job EXCEPT ![c].again = TRUE, ![c].conn = 0, ![c].id = 0,
                                    ![c].err = "none"]
               /\ Goto(c, "ensure")
      BY <3>3, <2>1, <1>0 DEF Goto, Job, Connecting
    <3>4. QED
      BY <3>1, <3>2, <3>3
  <2>3. QED
    BY <2>2 DEF GuardOK
<1>8. ASSUME NEW c \in Callers, Check(c)
      PROVE  GuardOK'
  <2>1. CASE connected[job[c].conn]
    <3>1. UNCHANGED caching
      BY <2>1, <1>8 DEF Check, caching
    <3>2. \A d \in Callers : Connecting(d)' => Connecting(d)
      BY <2>1, <1>8, <1>0 DEF Check, Goto, Job, Connecting
    <3>3. QED
      BY <3>1, <3>2, GuardFrame
  <2>2. CASE ~connected[job[c].conn]
    BY <2>2, <1>8, GuardFail DEF Check, Errors
  <2>3. QED
    BY <2>1, <2>2
<1>9. ASSUME NEW c \in Callers, Insert(c) \/ Send(c) \/ SendFail(c) \/ WaitTimeout(c)
      PROVE  GuardOK'
  <2>1. UNCHANGED caching
    BY <1>9 DEF Insert, Send, SendFail, WaitTimeout
  <2>2. \A d \in Callers : Connecting(d)' => Connecting(d)
    <3>1. CASE Insert(c) \/ Send(c)
      BY <3>1, <1>0 DEF Insert, Send, Goto, Connecting
    <3>2. CASE SendFail(c) \/ WaitTimeout(c)
      <4>1. PICK e \in Errors : job' = [job EXCEPT ![c].err = e] /\ Goto(c, "undo")
        BY <3>2 DEF SendFail, WaitTimeout, Errors
      <4>2. QED
        BY <4>1, <1>0 DEF Goto, Job, Connecting
    <3>3. QED
      BY <3>1, <3>2, <1>9
  <2>3. QED
    BY <2>1, <2>2, GuardFrame
<1>10. ASSUME NEW c \in Callers, Receive(c)
       PROVE  GuardOK'
  <2>1. PICK a \in AnswersTo(c) :
          \/ a.err # "none" /\ Fail(c, a.err) /\ UNCHANGED cache
          \/ /\ a.err = "none" /\ job[c].auth
             /\ Store(job[c].conn)
             /\ job' = [job EXCEPT ![c].auth = FALSE, ![c].id = 0]
             /\ Goto(c, "check")
          \/ a.err = "none" /\ ~job[c].auth /\ Return(c) /\ UNCHANGED caching
    BY <1>10 DEF Receive
  <2>2. a.err \in Errors
    BY DEF TypeInv, TypeOK, AnswersTo, ConnsTypeOK, Reply
  <2>3. CASE Fail(c, a.err) /\ UNCHANGED cache
    BY <2>2, <2>3, GuardFail
  <2>4. CASE /\ job[c].auth /\ Store(job[c].conn) /\ Goto(c, "check")
             /\ job' = [job EXCEPT ![c].auth = FALSE, ![c].id = 0]
    <3>1. guard = {c} /\ \A d \in Callers : d # c => ~Connecting(d)
      BY <2>4 DEF GuardOK, Connecting
    <3>2. \A d \in Callers : d # c => ~Connecting(d)'
      BY <3>1, <2>4, <1>0 DEF Goto, Connecting
    <3>3. pc'[c] = "check" /\ ~job'[c].auth
      BY <2>4, <1>0 DEF Goto, Job
    <3>4. QED
      BY <3>2, <3>3 DEF GuardOK, Connecting
  <2>5. CASE Return(c) /\ UNCHANGED caching
    <3>1. Moves(c, "idle", NoJob) /\ ~NoJob.auth
      BY <2>5 DEF Return, Goto, Moves, NoJob
    <3>2. QED
      BY <3>1, <2>5, NoJobType, GuardMoves DEF Labels, caching
  <2>6. QED
    BY <2>1, <2>3, <2>4, <2>5
<1>11. ASSUME NEW c \in Callers, Undo(c)
       PROVE  GuardOK'
  <2>1. job[c].err \in Errors
    BY <1>0 DEF Job
  <2>2. QED
    BY <2>1, <1>11, GuardFail DEF Undo
<1>12. CASE ResetBySettings
  BY <1>12 DEF ResetBySettings, GuardOK, Connecting, callers
<1>13. ASSUME NEW n \in ConnIds, Tasks(n) \/ LinkDown(n)
       PROVE  UNCHANGED <<caching, callers>>
  BY <1>13 DEF Tasks, Write, WriteError, WriterIdle, WriterMark, ReadReply, ReadEnd, ReaderMark, LinkDown
<1>14. ASSUME NEW r \in got, NEW e \in Outcomes, Execute(r, e)
       PROVE  UNCHANGED <<caching, callers>>
  BY <1>14 DEF Execute
<1>15. CASE UNCHANGED vars
  BY <1>15, <1>1 DEF vars
<1>16. QED
  BY <1>1, <1>2, <1>3, <1>4, <1>5, <1>6, <1>7, <1>8, <1>9, <1>10, <1>11, <1>12, <1>13,
     <1>14, <1>15 DEF Next, Call

LEMMA GuardHolds == Spec => [](TypeInv /\ GuardOK)
<1>1. TypeInv /\ GuardOK /\ [Next]_vars => TypeInv' /\ GuardOK'
  BY TypeInvStep, GuardStep
<1>2. QED
  BY TypeInvInit, GuardInit, <1>1, PTL DEF Spec

(* The cache changes only under its lock. *)
LEMMA CacheStep ==
  ASSUME TypeInv, GuardOK, Next, cache # 0
  PROVE  cache' \in {0, cache}
<1>1. ASSUME NEW c \in Callers, Call(c)
      PROVE  cache' \in {0, cache}
  <2>1. ~Connecting(c)
    BY DEF GuardOK
  <2>2. pc[c] # "connect" /\ ~job[c].auth
    BY <2>1 DEF Connecting
  <2>3. CASE Receive(c)
    BY <2>2, <2>3 DEF Receive, caching
  <2>4. CASE EnsureCached(c) \/ EnsureLock(c) \/ ConnectFail(c) \/ Check(c) \/ Insert(c)
               \/ Send(c) \/ SendFail(c) \/ WaitTimeout(c) \/ Undo(c)
    BY <2>4 DEF EnsureCached, EnsureLock, ConnectFail, Check, Insert, Send, SendFail,
                WaitTimeout, Undo, caching
  <2>5. CASE Connect(c)
    BY <2>2, <2>5 DEF Connect
  <2>6. CASE DropClient(c)
    BY <2>6 DEF DropClient
  <2>7. QED
    BY <1>1, <2>3, <2>4, <2>5, <2>6 DEF Call
<1>2. ASSUME NEW c \in Callers, NEW b \in BOOLEAN, Begin(c, b)
      PROVE  cache' = cache
  BY <1>2 DEF Begin, caching
<1>3. CASE ResetBySettings
  BY <1>3 DEF ResetBySettings
<1>4. ASSUME NEW n \in ConnIds, Tasks(n) \/ LinkDown(n)
      PROVE  cache' = cache
  BY <1>4 DEF Tasks, Write, WriteError, WriterIdle, WriterMark, ReadReply, ReadEnd, ReaderMark,
              LinkDown, caching
<1>5. ASSUME NEW r \in got, NEW e \in Outcomes, Execute(r, e)
      PROVE  cache' = cache
  BY <1>5 DEF Execute, caching
<1>6. QED
  BY <1>1, <1>2, <1>3, <1>4, <1>5 DEF Next

(* Two callers never both connect: a cached client is emptied out or kept,  *)
(* never replaced by another (ensure_remote_backend, mod.rs:186).           *)
THEOREM ClientNeverReplaced == Spec => NeverReplaced
<1>1. TypeInv /\ GuardOK /\ [Next]_vars => [cache # 0 => cache' \in {0, cache}]_vars
  BY CacheStep
<1>2. QED
  BY <1>1, GuardHolds, PTL DEF Spec, NeverReplaced

-----------------------------------------------------------------------------
(* Where a request of some connection, id and call can be: with the call    *)
(* that draws it, in the table, the queue, the daemon, or as a reply.       *)
AskLabels == {"insert", "send", "wait", "undo"}
Asking(c) == pc[c] \in AskLabels
AsRequest(r) == [conn |-> r.conn, id |-> r.id, call |-> r.of]

Queued(t)   == \E n \in ConnIds : \E i \in DOMAIN out[n] : out[n][i] = t
Answered(t) == \E r \in replies \cup answers : AsRequest(r) = t
Asked(t)    == \E c \in Callers : Asking(c) /\ RequestOf(c) = t
Ticket(t)   == t \in pending \/ Queued(t) \/ t \in got \/ Answered(t) \/ Asked(t)

TicketsOK ==
  /\ \A t \in Request : Ticket(t) => t.id < next_id[t.conn]
  /\ \A t, u \in Request : Ticket(t) /\ Ticket(u) /\ SameEntry(t, u) => t = u
  /\ \A c, d \in Callers : Asking(c) /\ Asking(d) /\ SameEntry(job[c], job[d]) => c = d

LEMMA AskedType ==
  ASSUME TypeInv, NEW c \in Callers, pc[c] \in Connected
  PROVE  RequestOf(c) \in Request
<1>1. job[c] \in Job /\ job[c].conn \in ConnIds
  BY DEF TypeInv, TypeOK, CallersTypeOK, JobsOK
<1>2. 0 \in 0..MaxCalls
  BY RemoteAssumption
<1>3. QED
  BY <1>1, <1>2 DEF RequestOf, Request, Job

(* The step that makes a new request: Check on a connected client. *)
Draws(c) ==
  /\ pc[c] = "check"
  /\ Moves(c, "insert", [job[c] EXCEPT !.id = next_id[job[c].conn]])
  /\ next_id' = [next_id EXCEPT ![job[c].conn] = @ + 1]
  /\ UNCHANGED <<pending, out, got, replies, answers>>
  /\ UNCHANGED <<cache, guard, calls, repeatable, executed>>

LEMMA CheckDraws ==
  ASSUME NEW c \in Callers, Check(c)
  PROVE  \/ Draws(c)
         \/ Fail(c, "disconnected") /\ UNCHANGED next_id
<1>1. CASE connected[job[c].conn]
  <2>1. /\ next_id' = [next_id EXCEPT ![job[c].conn] = @ + 1]
        /\ job' = [job EXCEPT ![c].id = next_id[job[c].conn]]
        /\ pc' = [pc EXCEPT ![c] = "insert"] /\ pc[c] = "check" /\ UNCHANGED guard
    BY <1>1 DEF Check, NextId, Goto
  <2>2. UNCHANGED <<cache, calls, repeatable, pending, answers, out, daemon>>
    BY DEF Check
  <2>3. UNCHANGED <<got, replies, executed>>
    BY <2>2 DEF daemon
  <2>4. QED
    BY <2>1, <2>2, <2>3 DEF Moves, Draws
<1>2. CASE ~connected[job[c].conn]
  BY <1>2 DEF Check
<1>3. QED
  BY <1>1, <1>2

(* Every other step leaves the requests of the callers as they are. *)
Kept == \A d \in Callers : Asking(d)' => Asking(d) /\ RequestOf(d)' = RequestOf(d)

Advances(c, l, j) ==
  \/ l \notin AskLabels
  \/ /\ j.conn = job[c].conn /\ j.id = job[c].id
     /\ j.auth = job[c].auth /\ j.call = job[c].call /\ j.again = job[c].again
     /\ \/ pc[c] = "insert" /\ l = "send"
        \/ pc[c] = "send" /\ l \in {"wait", "undo"}
        \/ pc[c] = "wait" /\ l = "undo"

LEMMA KeptMoves ==
  ASSUME TypeInv, NEW c \in Callers, NEW l, NEW j, Moves(c, l, j), Advances(c, l, j)
  PROVE  Kept
<1>1. \A d \in Callers : d # c => pc'[d] = pc[d] /\ job'[d] = job[d]
  BY DEF Moves, TypeInv, TypeOK, CallersTypeOK
<1>2. pc'[c] = l /\ job'[c] = j
  BY DEF Moves, TypeInv, TypeOK, CallersTypeOK
<1>3. ASSUME NEW d \in Callers, Asking(d)'
      PROVE  Asking(d) /\ RequestOf(d)' = RequestOf(d)
  <2>1. CASE d # c
    BY <1>1, <1>3, <2>1 DEF Asking, RequestOf
  <2>2. CASE d = c
    <3>1. l \in AskLabels
      BY <1>2, <1>3, <2>2 DEF Asking
    <3>2. /\ j.conn = job[c].conn /\ j.id = job[c].id
          /\ j.auth = job[c].auth /\ j.call = job[c].call
          /\ pc[c] \in AskLabels
      BY <3>1 DEF Advances, AskLabels
    <3>3. QED
      BY <3>2, <1>2, <2>2 DEF Asking, RequestOf
  <2>3. QED
    BY <2>1, <2>2
<1>4. QED
  BY <1>3 DEF Kept

LEMMA Leaves ==
  ASSUME NEW c \in Callers, NEW l, NEW j, Moves(c, l, j), l \notin AskLabels
  PROVE  \E k, h : Moves(c, k, h) /\ Advances(c, k, h)
<1>1. Advances(c, l, j)
  BY DEF Advances
<1>2. QED
  BY <1>1

LEMMA FailLeaves ==
  ASSUME TypeInv, NEW c \in Callers, NEW err \in Errors, Fail(c, err)
  PROVE  \E l, j : Moves(c, l, j) /\ Advances(c, l, j)
<1>1. "idle" \notin AskLabels /\ "drop" \notin AskLabels
  BY DEF AskLabels
<1>2. \/ Moves(c, "idle", NoJob)
      \/ Moves(c, "drop", [job[c] EXCEPT !.err = err])
  BY FailMoves
<1>3. QED
  BY <1>1, <1>2, Leaves

LEMMA CallMoves ==
  ASSUME TypeInv, NEW c \in Callers, Call(c), ~Draws(c)
  PROVE  \E l, j : Moves(c, l, j) /\ Advances(c, l, j)
<1>0. pc \in [Callers -> Labels] /\ job \in [Callers -> Job] /\ job[c] \in Job
  BY DEF TypeInv, TypeOK, CallersTypeOK
<1>1. CASE EnsureCached(c)
  <2>1. Moves(c, "check", [job[c] EXCEPT !.conn = cache, !.held = @ \cup {cache}])
    BY <1>1 DEF EnsureCached, Goto, Moves
  <2>2. QED
    BY <2>1, Leaves DEF AskLabels
<1>2. CASE EnsureLock(c)
  <2>1. Moves(c, "connect", job[c])
    BY <1>2, <1>0 DEF EnsureLock, Goto, Moves
  <2>2. QED
    BY <2>1, Leaves DEF AskLabels
<1>3. CASE Connect(c)
  <2>1. PICK j : Moves(c, "check", j)
    <3>1. Moves(c, "check", [job[c] EXCEPT !.conn = conns + 1, !.held = @ \cup {conns + 1}, !.auth = Token])
      BY <1>3 DEF Connect, Goto, Moves
    <3>2. QED
      BY <3>1
  <2>2. QED
    BY <2>1, Leaves DEF AskLabels
<1>4. CASE ConnectFail(c)
  <2>1. Moves(c, "idle", NoJob)
    BY <1>4 DEF ConnectFail, Return, Goto, Moves
  <2>2. QED
    BY <2>1, Leaves DEF AskLabels
<1>5. CASE DropClient(c)
  <2>1. \/ /\ job' = [job EXCEPT ![c].again = TRUE, ![c].conn = 0, ![c].id = 0,
                                 ![c].err = "none"]
           /\ Goto(c, "ensure")
        \/ Return(c)
    BY <1>5, Zenon DEF DropClient
  <2>2. CASE Return(c)
    <3>1. Moves(c, "idle", NoJob)
      BY <2>2 DEF Return, Goto, Moves
    <3>2. QED
      BY <3>1, Leaves DEF AskLabels
  <2>3. CASE /\ job' = [job EXCEPT ![c].again = TRUE, ![c].conn = 0, ![c].id = 0,
                                  ![c].err = "none"]
             /\ Goto(c, "ensure")
    <3>1. Moves(c, "ensure", [job[c] EXCEPT !.again = TRUE, !.conn = 0, !.id = 0, !.err = "none"])
      BY <2>3 DEF Goto, Moves
    <3>2. QED
      BY <3>1, Leaves DEF AskLabels
  <2>4. QED
    BY <2>1, <2>2, <2>3
<1>6. CASE Check(c)
  BY <1>6, CheckDraws, FailLeaves DEF Errors
<1>7. CASE Insert(c)
  <2>1. Moves(c, "send", job[c]) /\ pc[c] = "insert"
    BY <1>7, <1>0 DEF Insert, Goto, Moves
  <2>2. Advances(c, "send", job[c])
    BY <2>1, Zenon DEF Advances
  <2>3. QED
    BY <2>1, <2>2
<1>8. CASE Send(c)
  <2>1. Moves(c, "wait", job[c]) /\ pc[c] = "send"
    BY <1>8, <1>0 DEF Send, Goto, Moves
  <2>2. Advances(c, "wait", job[c])
    BY <2>1, Zenon DEF Advances
  <2>3. QED
    BY <2>1, <2>2
<1>9. CASE SendFail(c) \/ WaitTimeout(c)
  <2>1. PICK e \in Errors : Moves(c, "undo", [job[c] EXCEPT !.err = e])
    BY <1>9 DEF SendFail, WaitTimeout, Goto, Moves, Errors
  <2>2. pc[c] = "send" \/ pc[c] = "wait"
    BY <1>9 DEF SendFail, WaitTimeout
  <2>3. /\ [job[c] EXCEPT !.err = e].conn = job[c].conn /\ [job[c] EXCEPT !.err = e].id = job[c].id
        /\ [job[c] EXCEPT !.err = e].auth = job[c].auth
        /\ [job[c] EXCEPT !.err = e].call = job[c].call
        /\ [job[c] EXCEPT !.err = e].again = job[c].again
    BY <1>0 DEF Job
  <2>4. Advances(c, "undo", [job[c] EXCEPT !.err = e])
    BY <2>2, <2>3, Zenon DEF Advances
  <2>5. QED
    BY <2>1, <2>4
<1>10. CASE Receive(c)
  <2>1. PICK a \in AnswersTo(c) :
          \/ a.err # "none" /\ Fail(c, a.err) /\ UNCHANGED cache
          \/ /\ a.err = "none" /\ job[c].auth
             /\ Store(job[c].conn)
             /\ job' = [job EXCEPT ![c].auth = FALSE, ![c].id = 0]
             /\ Goto(c, "check")
          \/ a.err = "none" /\ ~job[c].auth /\ Return(c) /\ UNCHANGED caching
    BY <1>10 DEF Receive
  <2>2. a.err \in Errors
    BY DEF TypeInv, TypeOK, AnswersTo, ConnsTypeOK, Reply
  <2>3. CASE Fail(c, a.err)
    BY <2>2, <2>3, FailLeaves
  <2>4. CASE job' = [job EXCEPT ![c].auth = FALSE, ![c].id = 0] /\ Goto(c, "check")
    <3>1. Moves(c, "check", [job[c] EXCEPT !.auth = FALSE, !.id = 0])
      BY <2>4 DEF Goto, Moves
    <3>2. QED
      BY <3>1, Leaves DEF AskLabels
  <2>5. CASE Return(c)
    <3>1. Moves(c, "idle", NoJob)
      BY <2>5 DEF Return, Goto, Moves
    <3>2. QED
      BY <3>1, Leaves DEF AskLabels
  <2>6. QED
    BY <2>1, <2>3, <2>4, <2>5
<1>11. CASE Undo(c)
  <2>1. job[c].err \in Errors
    BY <1>0 DEF Job
  <2>2. QED
    BY <2>1, <1>11, FailLeaves DEF Undo
<1>12. QED
  BY <1>1, <1>2, <1>3, <1>4, <1>5, <1>6, <1>7, <1>8, <1>9, <1>10, <1>11 DEF Call

LEMMA CallKept ==
  ASSUME TypeInv, NEW c \in Callers, Call(c), ~Draws(c)
  PROVE  Kept
  BY CallMoves, KeptMoves

LEMMA StepKept ==
  ASSUME TypeInv, [Next]_vars, \A c \in Callers : ~Draws(c)
  PROVE  Kept
<1>1. UNCHANGED callers => Kept
  BY DEF Kept, Asking, RequestOf, callers
<1>2. CASE \E c \in Callers : Call(c)
  BY <1>2, CallKept
<1>3. ASSUME NEW c \in Callers, NEW b \in BOOLEAN, Begin(c, b)
      PROVE  Kept
  <2>1. Moves(c, "ensure", [job[c] EXCEPT !.call = calls + 1])
    BY <1>3 DEF Begin, Goto, Moves
  <2>2. QED
    BY <2>1, KeptMoves DEF AskLabels, Advances
<1>4. ASSUME NEW n \in ConnIds, Tasks(n) \/ LinkDown(n)
      PROVE  UNCHANGED callers
  BY <1>4 DEF Tasks, Write, WriteError, WriterIdle, WriterMark, ReadReply, ReadEnd, ReaderMark, LinkDown
<1>5. ASSUME NEW r \in got, NEW e \in Outcomes, Execute(r, e)
      PROVE  UNCHANGED callers
  BY <1>5 DEF Execute
<1>6. CASE ResetBySettings \/ UNCHANGED vars
  BY <1>6, <1>1 DEF ResetBySettings, vars
<1>7. QED
  BY <1>1, <1>2, <1>3, <1>4, <1>5, <1>6 DEF Next

(* No step but Draws makes a request: it only goes from place to place. *)
Placed(t) == t \in pending \/ Queued(t) \/ t \in got \/ Answered(t)

LEMMA DrainPlaces ==
  ASSUME TypeInv, NEW n \in ConnIds, Drain(n), NEW t \in Request, t \in pending' \/ Answered(t)',
         replies' \subseteq replies
  PROVE  t \in pending \/ Answered(t)
<1>1. CASE t \in pending'
  BY <1>1 DEF Drain
<1>2. ASSUME NEW r \in replies' \cup answers', AsRequest(r) = t
      PROVE  t \in pending \/ Answered(t)
  <2>1. CASE r \in replies \cup answers
    BY <2>1, <1>2 DEF Answered
  <2>2. CASE r \notin replies \cup answers
    <3>1. PICK p \in pending : r = [conn |-> n, id |-> p.id, of |-> p.call, err |-> "disconnected"]
                               /\ p.conn = n
      BY <2>2, <1>2 DEF Drain
    <3>2. p \in Request
      BY DEF TypeInv, TypeOK, ConnsTypeOK
    <3>3. AsRequest(r) = p
      BY <3>1, <3>2 DEF AsRequest, Request
    <3>4. QED
      BY <3>3, <1>2
  <2>3. QED
    BY <2>1, <2>2
<1>3. QED
  BY <1>1, <1>2 DEF Answered, AsRequest

LEMMA CallPlaces ==
  ASSUME TypeInv, NEW c \in Callers, Call(c), ~Draws(c), NEW t \in Request, Placed(t)'
  PROVE  Ticket(t)
<1>1. CASE EnsureCached(c) \/ EnsureLock(c) \/ ConnectFail(c) \/ DropClient(c)
             \/ SendFail(c) \/ WaitTimeout(c)
  <2>1. UNCHANGED <<table, out, daemon>>
    BY <1>1 DEF EnsureCached, EnsureLock, ConnectFail, DropClient, SendFail, WaitTimeout
  <2>2. QED
    BY <2>1 DEF table, daemon, Placed, Queued, Answered, Ticket
<1>2. CASE Connect(c)
  BY <1>2 DEF Connect, Placed, Queued, Answered, Ticket
<1>3. CASE Check(c)
  <2>1. UNCHANGED <<next_id, pending, answers, out, daemon>>
    BY <1>3, CheckDraws DEF Check
  <2>2. QED
    BY <2>1 DEF daemon, Placed, Queued, Answered, Ticket
<1>4. CASE Insert(c)
  <2>1. /\ UNCHANGED <<next_id, answers, out, daemon>>
        /\ pending' \subseteq pending \cup {RequestOf(c)} /\ Asking(c)
    BY <1>4 DEF Insert, Asking, AskLabels
  <2>2. CASE t \in pending'
    BY <2>1, <2>2 DEF Ticket, Asked
  <2>3. CASE Queued(t)' \/ t \in got' \/ Answered(t)'
    BY <2>1, <2>3 DEF daemon, Ticket, Queued, Answered
  <2>4. QED
    BY <2>1, <2>2, <2>3 DEF Placed
<1>5. CASE Send(c)
  <2> DEFINE n == job[c].conn
  <2>1. /\ UNCHANGED <<table, daemon>> /\ Asking(c)
        /\ out' = [out EXCEPT ![n] = Append(@, RequestOf(c))]
    BY <1>5 DEF Send, Asking, AskLabels
  <2>2. /\ n \in ConnIds /\ RequestOf(c) \in Request
        /\ out \in [ConnIds -> Seq(Request)]
    BY <1>5, AskedType DEF Send, Connected, TypeInv, TypeOK, JobsOK, ConnsTypeOK
  <2>3. CASE Queued(t)'
    <3>1. PICK m \in ConnIds : \E i \in DOMAIN out'[m] : out'[m][i] = t
      BY <2>3 DEF Queued
    <3>2. PICK i \in DOMAIN out'[m] : out'[m][i] = t
      BY <3>1
    <3>3. CASE m # n
      <4>1. out'[m] = out[m]
        BY <3>3, <2>1, <2>2
      <4>2. QED
        BY <4>1, <3>2 DEF Ticket, Queued
    <3>4. CASE m = n
      <4>1. out'[m] = Append(out[m], RequestOf(c)) /\ out[m] \in Seq(Request)
        BY <3>4, <2>1, <2>2
      <4>2. i \in 1..(Len(out[m]) + 1) /\ DOMAIN out[m] = 1..Len(out[m])
        BY <4>1, <2>2
      <4>3. t = RequestOf(c) \/ (i \in DOMAIN out[m] /\ out[m][i] = t)
        BY <4>1, <4>2, <3>2, <2>2
      <4>4. QED
        BY <4>3, <2>1 DEF Ticket, Queued, Asked
    <3>5. QED
      BY <3>3, <3>4, <2>1 DEF table
  <2>4. CASE t \in pending' \/ t \in got' \/ Answered(t)'
    BY <2>1, <2>4 DEF table, daemon, Ticket, Answered
  <2>5. QED
    BY <2>1, <2>3, <2>4 DEF Placed, table
<1>6. CASE Receive(c) \/ Undo(c)
  <2>1. /\ UNCHANGED <<next_id, out, daemon>>
        /\ pending' \subseteq pending /\ answers' \subseteq answers
    BY <1>6 DEF Receive, Undo, RemoveEntry
  <2>2. QED
    BY <2>1 DEF daemon, Placed, Queued, Answered, Ticket
<1>7. QED
  BY <1>1, <1>2, <1>3, <1>4, <1>5, <1>6 DEF Call

LEMMA TaskPlaces ==
  ASSUME TypeInv, NEW n \in ConnIds, Tasks(n), NEW t \in Request, Placed(t)'
  PROVE  Placed(t)
<1>0. /\ out \in [ConnIds -> Seq(Request)] /\ out[n] \in Seq(Request)
      /\ pending \subseteq Request /\ replies \subseteq Reply
  BY DEF TypeInv, TypeOK, ConnsTypeOK, DaemonTypeOK
<1>1. ASSUME out' = [out EXCEPT ![n] = Tail(@)], out[n] # <<>>, Queued(t)'
      PROVE  Queued(t)
  <2>1. PICK m \in ConnIds : \E i \in DOMAIN out'[m] : out'[m][i] = t
    BY <1>1 DEF Queued
  <2>2. PICK i \in DOMAIN out'[m] : out'[m][i] = t
    BY <2>1
  <2>3. CASE m # n
    <3>1. out'[m] = out[m]
      BY <2>3, <1>1, <1>0
    <3>2. QED
      BY <3>1, <2>2 DEF Queued
  <2>4. CASE m = n
    <3>1. out'[n] = Tail(out[n])
      BY <1>1, <1>0
    <3>2. i \in 1..(Len(out[n]) - 1) /\ i + 1 \in DOMAIN out[n] /\ Tail(out[n])[i] = out[n][i + 1]
      BY <3>1, <2>2, <2>4, <1>0, <1>1
    <3>3. QED
      BY <3>1, <3>2, <2>2, <2>4 DEF Queued
  <2>5. QED
    BY <2>3, <2>4
<1>2. CASE Write(n)
  <2>1. UNCHANGED <<table, replies>> /\ out' = [out EXCEPT ![n] = Tail(@)] /\ out[n] # <<>>
    BY <1>2 DEF Write
  <2>2. 1 \in DOMAIN out[n] /\ Head(out[n]) = out[n][1]
    BY <2>1, <1>0
  <2>3. t \in got' => t \in got \/ Queued(t)
    BY <2>2, <1>2 DEF Write, Queued
  <2>4. QED
    BY <1>1, <2>1, <2>3 DEF table, Placed, Answered
<1>3. CASE WriteError(n)
  <2>1. UNCHANGED <<table, daemon>> /\ out' = [out EXCEPT ![n] = Tail(@)] /\ out[n] # <<>>
    BY <1>3 DEF WriteError
  <2>2. QED
    BY <1>1, <2>1 DEF table, daemon, Placed, Answered
<1>4. CASE WriterIdle(n)
  BY <1>4 DEF WriterIdle, table, daemon, Placed, Queued, Answered
<1>5. CASE WriterMark(n)
  <2>1. UNCHANGED <<next_id, daemon>>
    BY <1>5 DEF WriterMark
  <2>2. Queued(t)' => Queued(t)
    <3>1. CASE out' = out
      BY <3>1 DEF Queued
    <3>2. CASE out' = [out EXCEPT ![n] = <<>>]
      <4>1. \A m \in ConnIds : m # n => out'[m] = out[m]
        BY <3>2, <1>0
      <4>2. out'[n] = <<>> /\ DOMAIN <<>> = {}
        BY <3>2, <1>0
      <4>3. QED
        BY <4>1, <4>2 DEF Queued
    <3>3. QED
      BY <3>1, <3>2, <1>5 DEF WriterMark
  <2>3. UNCHANGED <<pending, answers>> \/ Drain(n)
    BY <1>5 DEF WriterMark
  <2>4. QED
    BY <2>1, <2>2, <2>3, DrainPlaces DEF daemon, Placed, Answered
<1>6. CASE ReadReply(n)
  <2>1. /\ UNCHANGED <<next_id, out, got>> /\ pending' \subseteq pending
        /\ replies' \subseteq replies /\ answers' \subseteq answers \cup replies
    BY <1>6 DEF ReadReply
  <2>2. QED
    BY <2>1 DEF Placed, Queued, Answered
<1>7. CASE ReadEnd(n)
  <2>1. UNCHANGED <<table, out, got>> /\ replies' \subseteq replies
    BY <1>7 DEF ReadEnd
  <2>2. QED
    BY <2>1 DEF table, Placed, Queued, Answered
<1>8. CASE ReaderMark(n)
  <2>1. UNCHANGED <<next_id, out, daemon>>
    BY <1>8 DEF ReaderMark
  <2>2. UNCHANGED <<pending, answers>> \/ Drain(n)
    BY <1>8 DEF ReaderMark
  <2>3. QED
    BY <2>1, <2>2, DrainPlaces DEF daemon, Placed, Queued, Answered
<1>9. QED
  BY <1>2, <1>3, <1>4, <1>5, <1>6, <1>7, <1>8 DEF Tasks

LEMMA StepPlaces ==
  ASSUME TypeInv, [Next]_vars, \A c \in Callers : ~Draws(c), NEW t \in Request, Ticket(t)'
  PROVE  Ticket(t)
<1>1. CASE Asked(t)'
  BY <1>1, StepKept DEF Asked, Kept, Ticket
<1>2. CASE Placed(t)'
  <2>1. CASE \E c \in Callers : Call(c)
    BY <2>1, <1>2, CallPlaces
  <2>2. CASE \E n \in ConnIds : Tasks(n)
    BY <2>2, <1>2, TaskPlaces DEF Placed, Ticket
  <2>3. ASSUME NEW r \in got, NEW e \in Outcomes, Execute(r, e)
        PROVE  Ticket(t)
    <3>1. /\ UNCHANGED <<table, out>> /\ got' \subseteq got
          /\ replies' \subseteq replies \cup {[conn |-> r.conn, id |-> r.id, of |-> r.call, err |-> e]}
      BY <2>3 DEF Execute
    <3>2. r \in Request
      BY DEF TypeInv, TypeOK, DaemonTypeOK
    <3>3. AsRequest([conn |-> r.conn, id |-> r.id, of |-> r.call, err |-> e]) = r
      BY <3>2 DEF AsRequest, Request
    <3>4. Answered(t)' => Answered(t) \/ t = r
      BY <3>1, <3>3 DEF Answered, table, AsRequest
    <3>5. QED
      BY <3>1, <3>4, <1>2 DEF Placed, Queued, table, Ticket
  <2>4. UNCHANGED <<table, out, daemon>> => Ticket(t)
    BY <1>2 DEF Placed, Queued, Answered, table, daemon, Ticket
  <2>5. CASE ResetBySettings \/ UNCHANGED vars
    BY <2>5, <2>4 DEF ResetBySettings, vars
  <2>6. CASE \E c \in Callers, b \in BOOLEAN : Begin(c, b)
    BY <2>6, <2>4 DEF Begin
  <2>7. ASSUME NEW n \in ConnIds, LinkDown(n)
        PROVE  Ticket(t)
    BY <2>7, <1>2 DEF LinkDown, Placed, Queued, Answered, table, Ticket
  <2>8. QED
    BY <2>1, <2>2, <2>3, <2>5, <2>6, <2>7 DEF Next
<1>3. QED
  BY <1>1, <1>2 DEF Ticket, Placed

LEMMA NextIdStep ==
  ASSUME TypeInv, [Next]_vars, \A c \in Callers : ~Draws(c)
  PROVE  next_id' = next_id
<1>1. CASE \E c \in Callers : Call(c)
  BY <1>1, CheckDraws DEF Call, EnsureCached, EnsureLock, Connect, ConnectFail, DropClient,
     Insert, Send, SendFail, Receive, WaitTimeout, Undo, table
<1>2. CASE \E c \in Callers, b \in BOOLEAN : Begin(c, b)
  BY <1>2 DEF Begin, table
<1>3. CASE \E n \in ConnIds : Tasks(n) \/ LinkDown(n)
  BY <1>3 DEF Tasks, Write, WriteError, WriterIdle, WriterMark, ReadReply, ReadEnd, ReaderMark,
     LinkDown, table
<1>4. CASE \E r \in got, e \in Outcomes : Execute(r, e)
  BY <1>4 DEF Execute, table
<1>5. CASE ResetBySettings \/ UNCHANGED vars
  BY <1>5 DEF ResetBySettings, vars, table
<1>6. QED
  BY <1>1, <1>2, <1>3, <1>4, <1>5 DEF Next

LEMMA TicketsInit == Init => TicketsOK
<1> SUFFICES ASSUME Init PROVE TicketsOK
  OBVIOUS
<1>1. \A t : ~Ticket(t)
  BY DEF Init, Ticket, Queued, Answered, Asked, Asking, AskLabels
<1>2. \A c \in Callers : ~Asking(c)
  BY DEF Init, Asking, AskLabels
<1>3. QED
  BY <1>1, <1>2 DEF TicketsOK

LEMMA DrawsFresh ==
  ASSUME TypeInv, NEW c \in Callers, Draws(c)
  PROVE  /\ RequestOf(c)' \in Request
         /\ RequestOf(c)'.conn = job[c].conn /\ RequestOf(c)'.id = next_id[job[c].conn]
         /\ job[c].conn \in ConnIds /\ next_id[job[c].conn] \in Nat
         /\ next_id'[job[c].conn] = next_id[job[c].conn] + 1
         /\ \A n \in ConnIds : n # job[c].conn => next_id'[n] = next_id[n]
         /\ \A d \in Callers : d # c => pc'[d] = pc[d] /\ job'[d] = job[d]
         /\ pc'[c] = "insert" /\ job'[c] = [job[c] EXCEPT !.id = next_id[job[c].conn]]
<1>0. /\ job[c] \in Job /\ job[c].conn \in ConnIds
      /\ pc \in [Callers -> Labels] /\ job \in [Callers -> Job] /\ next_id \in [ConnIds -> Nat]
  BY DEF TypeInv, TypeOK, CallersTypeOK, ConnsTypeOK, JobsOK, Draws, Connected
<1>1. next_id[job[c].conn] \in Nat
  BY <1>0
<1>2. /\ next_id'[job[c].conn] = next_id[job[c].conn] + 1
      /\ \A n \in ConnIds : n # job[c].conn => next_id'[n] = next_id[n]
  BY <1>0 DEF Draws
<1>3. /\ \A d \in Callers : d # c => pc'[d] = pc[d] /\ job'[d] = job[d]
      /\ pc'[c] = "insert" /\ job'[c] = [job[c] EXCEPT !.id = next_id[job[c].conn]]
  BY <1>0 DEF Draws, Moves
<1>4. job'[c].conn = job[c].conn /\ job'[c].id = next_id[job[c].conn] /\ job'[c].call \in 0..MaxCalls
  BY <1>0, <1>3 DEF Job
<1>5. /\ RequestOf(c)'.conn = job[c].conn /\ RequestOf(c)'.id = next_id[job[c].conn]
      /\ RequestOf(c)' = [conn |-> job[c].conn, id |-> next_id[job[c].conn],
                          call |-> IF job'[c].auth THEN 0 ELSE job'[c].call]
  BY <1>4 DEF RequestOf
<1>6. (IF job'[c].auth THEN 0 ELSE job'[c].call) \in 0..MaxCalls
  BY <1>4, RemoteAssumption
<1>7. RequestOf(c)' \in Request
  BY <1>0, <1>1, <1>5, <1>6 DEF Request
<1>8. QED
  BY <1>0, <1>1, <1>2, <1>3, <1>5, <1>7

LEMMA AskerIsTicket ==
  ASSUME TypeInv, NEW c \in Callers, Asking(c)
  PROVE  /\ RequestOf(c) \in Request /\ Ticket(RequestOf(c))
         /\ RequestOf(c).conn = job[c].conn /\ RequestOf(c).id = job[c].id
  BY AskedType DEF Asking, AskLabels, Connected, Ticket, Asked, RequestOf

LEMMA TicketsStep ==
  ASSUME TypeInv, TicketsOK, [Next]_vars
  PROVE  TicketsOK'
<1>1. CASE \A c \in Callers : ~Draws(c)
  <2>1. next_id' = next_id /\ \A t \in Request : Ticket(t)' => Ticket(t)
    BY <1>1, NextIdStep, StepPlaces
  <2>2. \A t \in Request : Ticket(t)' => t.id < next_id'[t.conn]
    BY <2>1 DEF TicketsOK
  <2>3. \A t, u \in Request : Ticket(t)' /\ Ticket(u)' /\ SameEntry(t, u) => t = u
    BY <2>1 DEF TicketsOK
  <2>4. ASSUME NEW c \in Callers, NEW d \in Callers, Asking(c)', Asking(d)',
               SameEntry(job'[c], job'[d])
        PROVE  c = d
    <3>1. /\ Asking(c) /\ RequestOf(c)' = RequestOf(c)
          /\ Asking(d) /\ RequestOf(d)' = RequestOf(d)
      BY <1>1, <2>4, StepKept DEF Kept
    <3>2. /\ job'[c].conn = job[c].conn /\ job'[c].id = job[c].id
          /\ job'[d].conn = job[d].conn /\ job'[d].id = job[d].id
      BY <3>1 DEF RequestOf
    <3>3. QED
      BY <2>4, <3>1, <3>2 DEF TicketsOK, SameEntry
  <2>5. QED
    BY <2>2, <2>3, <2>4 DEF TicketsOK
<1>2. ASSUME NEW c \in Callers, Draws(c)
      PROVE  TicketsOK'
  <2> DEFINE n == job[c].conn
             i == next_id[job[c].conn]
  <2>0. /\ n \in ConnIds /\ i \in Nat /\ next_id'[n] = i + 1
        /\ \A m \in ConnIds : m # n => next_id'[m] = next_id[m]
        /\ RequestOf(c)' \in Request /\ RequestOf(c)'.conn = n /\ RequestOf(c)'.id = i
        /\ \A d \in Callers : d # c => pc'[d] = pc[d] /\ job'[d] = job[d]
    BY <1>2, DrawsFresh
  <2>1. ASSUME NEW t \in Request, Ticket(t)'
        PROVE  Ticket(t) \/ t = RequestOf(c)'
    <3>1. CASE Asked(t)'
      <4>1. PICK d \in Callers : Asking(d)' /\ RequestOf(d)' = t
        BY <3>1 DEF Asked
      <4>2. CASE d = c
        BY <4>1, <4>2
      <4>3. CASE d # c
        BY <4>1, <4>3, <2>0 DEF Asking, RequestOf, Asked, Ticket
      <4>4. QED
        BY <4>2, <4>3
    <3>2. CASE ~Asked(t)'
      BY <2>1, <3>2, <1>2 DEF Draws, Ticket, Queued, Answered
    <3>3. QED
      BY <3>1, <3>2
  <2>2. \A t \in Request : Ticket(t) => ~(t.conn = n /\ t.id = i)
    BY <2>0 DEF TicketsOK
  <2>3. ASSUME NEW t \in Request, Ticket(t)'
        PROVE  t.id < next_id'[t.conn]
    <3>1. CASE t = RequestOf(c)'
      BY <3>1, <2>0
    <3>2. CASE Ticket(t)
      <4>1. t.conn \in ConnIds /\ t.id \in Nat /\ t.id < next_id[t.conn]
        BY <3>2 DEF TicketsOK, Request
      <4>2. next_id'[t.conn] = next_id[t.conn] \/ (t.conn = n /\ next_id'[n] = next_id[n] + 1)
        BY <4>1, <2>0
      <4>3. next_id[t.conn] \in Nat
        BY <4>1 DEF TypeInv, TypeOK, ConnsTypeOK
      <4>4. QED
        BY <4>1, <4>2, <4>3
    <3>3. QED
      BY <2>1, <2>3, <3>1, <3>2
  <2>4. ASSUME NEW t \in Request, NEW u \in Request, Ticket(t)', Ticket(u)', SameEntry(t, u)
        PROVE  t = u
    <3>1. t.conn = u.conn /\ t.id = u.id
      BY <2>4 DEF SameEntry
    <3>2. (Ticket(t) \/ t = RequestOf(c)') /\ (Ticket(u) \/ u = RequestOf(c)')
      BY <2>1, <2>4
    <3>3. CASE Ticket(t) /\ Ticket(u)
      BY <2>4, <3>3 DEF TicketsOK
    <3>4. QED
      BY <3>1, <3>2, <3>3, <2>0, <2>2
  <2>5. \A d \in Callers : d # c /\ Asking(d)' => ~(job'[d].conn = n /\ job'[d].id = i)
    <3>1. ASSUME NEW d \in Callers, d # c, Asking(d)'
          PROVE  ~(job'[d].conn = n /\ job'[d].id = i)
      <4>1. Asking(d) /\ job'[d] = job[d]
        BY <3>1, <2>0 DEF Asking
      <4>2. QED
        BY <4>1, <2>2, AskerIsTicket
    <3>2. QED
      BY <3>1
  <2>6. job'[c].conn = n /\ job'[c].id = i
    BY <2>0 DEF RequestOf
  <2>7. ASSUME NEW d \in Callers, NEW e \in Callers, Asking(d)', Asking(e)',
               SameEntry(job'[d], job'[e])
        PROVE  d = e
    <3>1. job'[d].conn = job'[e].conn /\ job'[d].id = job'[e].id
      BY <2>7 DEF SameEntry
    <3>2. CASE d = c \/ e = c
      BY <3>1, <3>2, <2>5, <2>6, <2>7
    <3>3. CASE d # c /\ e # c
      <4>1. Asking(d) /\ Asking(e) /\ SameEntry(job[d], job[e])
        BY <3>3, <2>0, <2>7 DEF Asking
      <4>2. QED
        BY <4>1 DEF TicketsOK
    <3>4. QED
      BY <3>2, <3>3
  <2>8. QED
    BY <2>3, <2>4, <2>7 DEF TicketsOK
<1>3. QED
  BY <1>1, <1>2

LEMMA TicketsHold == Spec => [](TypeInv /\ TicketsOK)
<1>1. TypeInv /\ TicketsOK /\ [Next]_vars => TypeInv' /\ TicketsOK'
  BY TypeInvStep, TicketsStep
<1>2. QED
  BY TypeInvInit, TicketsInit, <1>1, PTL DEF Spec

(* What a waiting call receives is the answer to its own request: ids start *)
(* over with every connection, but no two requests of one connection share  *)
(* an id, whoever made them (RemoteBackend::call, mod.rs:71).               *)
THEOREM OwnReply == Spec => []OwnReplyOnly
<1>1. ASSUME TypeInv, TicketsOK PROVE OwnReplyOnly
  <2>1. ASSUME NEW c \in Callers, pc[c] = "wait", NEW a \in AnswersTo(c)
        PROVE  a.of = RequestOf(c).call
    <3>1. Asking(c)
      BY <2>1 DEF Asking, AskLabels
    <3>2. a \in answers /\ a \in Reply /\ a.conn = job[c].conn /\ a.id = job[c].id
      BY <1>1 DEF AnswersTo, SameEntry, TypeInv, TypeOK, ConnsTypeOK
    <3>3. AsRequest(a) \in Request /\ Ticket(AsRequest(a))
      BY <3>2 DEF AsRequest, Reply, Request, Ticket, Answered
    <3>4. SameEntry(AsRequest(a), RequestOf(c))
      BY <3>1, <3>2, <1>1, AskerIsTicket DEF SameEntry, AsRequest
    <3>5. AsRequest(a) = RequestOf(c)
      BY <3>1, <3>3, <3>4, <1>1, AskerIsTicket DEF TicketsOK
    <3>6. QED
      BY <3>5 DEF AsRequest
  <2>2. QED
    BY <2>1 DEF OwnReplyOnly
<1>2. QED
  BY <1>1, TicketsHold, PTL

-----------------------------------------------------------------------------
(* The table: who is about to wait has an entry or an answer, an entry has  *)
(* a call that will take it out again, and nothing has both.                *)
HasEntry(c) == \E p \in pending : SameEntry(p, job[c])
Owning == {"send", "wait", "undo"}

WaitersOK == \A c \in Callers : pc[c] \in {"send", "wait"} => HasEntry(c) \/ AnswersTo(c) # {}
OwnedOK   == \A p \in pending : \E c \in Callers : pc[c] \in Owning /\ SameEntry(p, job[c])
NotBoth   == \A p \in pending : \A a \in answers : ~SameEntry(p, a)
FreshOK   == \A c \in Callers : pc[c] = "insert" => \A a \in answers : ~SameEntry(a, job[c])
EntriesOK == WaitersOK /\ OwnedOK /\ NotBoth /\ FreshOK

LEMMA EntriesInit == Init => EntriesOK
  BY DEF Init, EntriesOK, WaitersOK, OwnedOK, NotBoth, FreshOK

(* A step of one caller leaves the others alone. *)
LEMMA OneMoves ==
  ASSUME TypeInv, NEW c \in Callers, Call(c)
  PROVE  \A d \in Callers : d # c => pc'[d] = pc[d] /\ job'[d] = job[d]
<1>1. ASSUME NEW l, NEW j, Moves(c, l, j)
      PROVE  \A d \in Callers : d # c => pc'[d] = pc[d] /\ job'[d] = job[d]
  BY <1>1 DEF Moves, TypeInv, TypeOK, CallersTypeOK
<1>2. QED
  BY <1>1, CallMoves DEF Draws

(* A caller is registered by Insert only, keeps its entry while it sends    *)
(* and gives up, and leaves by Receive or Undo only.                        *)
LEMMA OwnMoves ==
  ASSUME TypeInv, NEW c \in Callers, Call(c)
  PROVE  /\ pc'[c] \in {"send", "wait"} =>
              \/ Insert(c)
              \/ /\ pc[c] = "send" /\ job'[c].conn = job[c].conn /\ job'[c].id = job[c].id
         /\ pc[c] \in Owning =>
              \/ Receive(c) \/ Undo(c)
              \/ /\ pc'[c] \in Owning /\ job'[c].conn = job[c].conn /\ job'[c].id = job[c].id
         /\ pc'[c] = "insert" => Draws(c)
<1>0. /\ pc \in [Callers -> Labels] /\ job \in [Callers -> Job] /\ job[c] \in Job
  BY DEF TypeInv, TypeOK, CallersTypeOK
<1>1. ASSUME ~Draws(c)
      PROVE  /\ pc'[c] \in {"send", "wait"} =>
                  \/ pc[c] = "insert"
                  \/ /\ pc[c] = "send" /\ job'[c].conn = job[c].conn /\ job'[c].id = job[c].id
             /\ pc'[c] # "insert"
  <2>1. PICK l, j : Moves(c, l, j) /\ Advances(c, l, j)
    BY <1>1, CallMoves
  <2>2. pc'[c] = l /\ job'[c] = j
    BY <2>1, <1>0 DEF Moves
  <2>3. QED
    BY <2>1, <2>2 DEF Advances, AskLabels
<1>2. ASSUME Draws(c)
      PROVE  pc'[c] = "insert" /\ pc[c] = "check"
  BY <1>2, <1>0 DEF Draws, Moves
<1>3. pc[c] = "insert" => Insert(c)
  BY DEF Call, EnsureCached, EnsureLock, Connect, ConnectFail, DropClient, Check, Send, SendFail,
         Receive, WaitTimeout, Undo
<1>4. CASE Send(c)
  <2>1. pc'[c] = "wait" /\ job' = job
    BY <1>4, <1>0 DEF Send, Goto
  <2>2. QED
    BY <2>1, <1>1, <1>2, <1>3, <1>4 DEF Owning, Send
<1>5. CASE SendFail(c) \/ WaitTimeout(c)
  <2>1. PICK e \in Errors : job' = [job EXCEPT ![c].err = e] /\ Goto(c, "undo")
    BY <1>5 DEF SendFail, WaitTimeout, Errors
  <2>2. pc'[c] = "undo" /\ job'[c].conn = job[c].conn /\ job'[c].id = job[c].id
    BY <2>1, <1>0 DEF Goto, Job
  <2>3. QED
    BY <2>2, <1>1, <1>2, <1>3 DEF Owning
<1>6. CASE pc[c] \in Owning /\ ~Send(c) /\ ~SendFail(c) /\ ~WaitTimeout(c)
  <2>1. Receive(c) \/ Undo(c)
    BY <1>6 DEF Call, EnsureCached, EnsureLock, Connect, ConnectFail, DropClient, Check, Insert, Owning
  <2>2. QED
    BY <2>1, <1>1, <1>2, <1>3
<1>7. CASE pc[c] \notin Owning
  BY <1>7, <1>1, <1>2, <1>3
<1>8. QED
  BY <1>4, <1>5, <1>6, <1>7

(* Steps that leave table and answers alone. *)
LEMMA EntriesFrame ==
  ASSUME EntriesOK, UNCHANGED <<pending, answers, pc, job>>
  PROVE  EntriesOK'
  BY DEF EntriesOK, WaitersOK, OwnedOK, NotBoth, FreshOK, HasEntry, AnswersTo

LEMMA EntriesQuiet ==
  ASSUME TypeInv, TicketsOK, EntriesOK, NEW c \in Callers, Call(c),
         ~Insert(c), ~Receive(c), ~Undo(c), UNCHANGED <<pending, answers>>
  PROVE  EntriesOK'
<1>0. \A d \in Callers : d # c => pc'[d] = pc[d] /\ job'[d] = job[d]
  BY OneMoves
<1>1. ASSUME NEW d \in Callers, pc'[d] \in {"send", "wait"}
      PROVE  HasEntry(d)' \/ AnswersTo(d)' # {}
  <2>1. pc[d] \in {"send", "wait"} /\ job'[d].conn = job[d].conn /\ job'[d].id = job[d].id
    BY <1>0, <1>1, OwnMoves
  <2>2. HasEntry(d) \/ AnswersTo(d) # {}
    BY <2>1 DEF EntriesOK, WaitersOK
  <2>3. QED
    BY <2>1, <2>2 DEF HasEntry, AnswersTo, SameEntry
<1>2. ASSUME NEW p \in pending'
      PROVE  \E d \in Callers : pc'[d] \in Owning /\ SameEntry(p, job'[d])
  <2>1. PICK d \in Callers : pc[d] \in Owning /\ SameEntry(p, job[d])
    BY <1>2 DEF EntriesOK, OwnedOK
  <2>2. pc'[d] \in Owning /\ job'[d].conn = job[d].conn /\ job'[d].id = job[d].id
    BY <2>1, <1>0, OwnMoves
  <2>3. QED
    BY <2>1, <2>2 DEF SameEntry
<1>3. ASSUME NEW d \in Callers, pc'[d] = "insert", NEW a \in answers'
      PROVE  ~SameEntry(a, job'[d])
  <2>1. CASE d # c
    BY <2>1, <1>0, <1>3 DEF EntriesOK, FreshOK
  <2>2. CASE d = c
    <3>1. Draws(c)
      BY <2>2, <1>3, OwnMoves
    <3>2. /\ RequestOf(c)'.conn = job[c].conn /\ RequestOf(c)'.id = next_id[job[c].conn]
          /\ next_id[job[c].conn] \in Nat
      BY <3>1, DrawsFresh
    <3>3. a \in answers /\ AsRequest(a) \in Request
      BY <1>3 DEF TypeInv, TypeOK, ConnsTypeOK, AsRequest, Reply, Request
    <3>4. Ticket(AsRequest(a))
      BY <3>3 DEF Ticket, Answered
    <3>5. AsRequest(a).id < next_id[AsRequest(a).conn]
      BY <3>3, <3>4 DEF TicketsOK
    <3>6. a.id < next_id[a.conn] /\ a.id \in Nat
      BY <3>3, <3>5 DEF AsRequest, Request
    <3>7. job'[c].conn = job[c].conn /\ job'[c].id = next_id[job[c].conn]
      BY <3>2 DEF RequestOf
    <3>8. ~(a.conn = job'[c].conn /\ a.id = job'[c].id)
      BY <3>2, <3>6, <3>7
    <3>9. QED
      BY <3>8, <2>2 DEF SameEntry
  <2>3. QED
    BY <2>1, <2>2
<1>4. QED
  BY <1>1, <1>2, <1>3 DEF EntriesOK, WaitersOK, OwnedOK, NotBoth, FreshOK

LEMMA EntriesInsert ==
  ASSUME TypeInv, TicketsOK, EntriesOK, NEW c \in Callers, Insert(c)
  PROVE  EntriesOK'
<1>0. /\ pc[c] = "insert" /\ pc'[c] = "send" /\ job' = job /\ answers' = answers
      /\ pending' = {p \in pending : ~SameEntry(p, job[c])} \cup {RequestOf(c)}
      /\ \A d \in Callers : d # c => pc'[d] = pc[d]
  BY DEF Insert, Goto, TypeInv, TypeOK, CallersTypeOK
<1>1. SameEntry(RequestOf(c), job[c])
  BY DEF RequestOf, SameEntry
<1>2. ASSUME NEW d \in Callers, pc'[d] \in {"send", "wait"}
      PROVE  HasEntry(d)' \/ AnswersTo(d)' # {}
  <2>1. CASE d = c
    BY <2>1, <1>0, <1>1 DEF HasEntry
  <2>2. CASE d # c
    <3>1. pc[d] \in {"send", "wait"}
      BY <2>2, <1>0, <1>2
    <3>2. HasEntry(d) \/ AnswersTo(d) # {}
      BY <3>1 DEF EntriesOK, WaitersOK
    <3>3. ~SameEntry(job[d], job[c])
      BY <2>2, <3>1, <1>0 DEF TicketsOK, Asking, AskLabels
    <3>4. HasEntry(d) => HasEntry(d)'
      BY <3>3, <1>0 DEF HasEntry, SameEntry
    <3>5. QED
      BY <3>2, <3>4, <1>0 DEF AnswersTo
  <2>3. QED
    BY <2>1, <2>2
<1>3. ASSUME NEW p \in pending'
      PROVE  \E d \in Callers : pc'[d] \in Owning /\ SameEntry(p, job'[d])
  <2>1. CASE p = RequestOf(c)
    BY <2>1, <1>0, <1>1 DEF Owning
  <2>2. CASE p \in pending
    <3>1. PICK d \in Callers : pc[d] \in Owning /\ SameEntry(p, job[d])
      BY <2>2 DEF EntriesOK, OwnedOK
    <3>2. d # c
      BY <3>1, <1>0 DEF Owning
    <3>3. QED
      BY <3>1, <3>2, <1>0
  <2>3. QED
    BY <2>1, <2>2, <1>0, <1>3
<1>4. ASSUME NEW p \in pending', NEW a \in answers'
      PROVE  ~SameEntry(p, a)
  <2>1. CASE p = RequestOf(c)
    <3>1. ~SameEntry(a, job[c])
      BY <1>0, <1>4 DEF EntriesOK, FreshOK
    <3>2. QED
      BY <3>1, <2>1 DEF RequestOf, SameEntry
  <2>2. CASE p \in pending
    BY <2>2, <1>0, <1>4 DEF EntriesOK, NotBoth
  <2>3. QED
    BY <2>1, <2>2, <1>0, <1>4
<1>5. FreshOK'
  BY <1>0 DEF EntriesOK, FreshOK
<1>6. QED
  BY <1>2, <1>3, <1>4, <1>5 DEF EntriesOK, WaitersOK, OwnedOK, NotBoth

LEMMA EntriesLeave ==
  ASSUME TypeInv, TicketsOK, EntriesOK, NEW c \in Callers, Receive(c) \/ Undo(c)
  PROVE  EntriesOK'
<1>0. \A d \in Callers : d # c => pc'[d] = pc[d] /\ job'[d] = job[d]
  BY OneMoves DEF Call
<1>1. pc[c] \in {"wait", "undo"} /\ pc'[c] \notin {"send", "wait"} /\ pc'[c] # "insert"
  <2>1. pc[c] \in {"wait", "undo"}
    BY DEF Receive, Undo
  <2>2. ~Insert(c) /\ ~Draws(c)
    BY <2>1 DEF Insert, Draws
  <2>3. QED
    BY <2>1, <2>2, OwnMoves DEF Call
<1>2. /\ pending' \subseteq pending /\ answers' \subseteq answers
      /\ \A p \in pending : p \in pending' \/ SameEntry(p, job[c])
      /\ \A a \in answers : a \in answers' \/ SameEntry(a, job[c])
  BY DEF Receive, Undo, RemoveEntry, AnswersTo
<1>3. ASSUME NEW p \in pending'
      PROVE  ~SameEntry(p, job[c])
  <2>1. CASE Undo(c)
    BY <1>3, <2>1 DEF Undo, RemoveEntry
  <2>2. CASE Receive(c)
    <3>1. PICK a \in answers : SameEntry(a, job[c])
      BY <2>2 DEF Receive, AnswersTo
    <3>2. ~SameEntry(p, a)
      BY <3>1, <1>2, <1>3 DEF EntriesOK, NotBoth
    <3>3. QED
      BY <3>1, <3>2 DEF SameEntry
  <2>3. QED
    BY <2>1, <2>2
<1>4. ASSUME NEW d \in Callers, pc'[d] \in {"send", "wait"}
      PROVE  HasEntry(d)' \/ AnswersTo(d)' # {}
  <2>1. d # c /\ pc[d] \in {"send", "wait"} /\ job'[d] = job[d]
    BY <1>0, <1>1, <1>4
  <2>2. ~SameEntry(job[d], job[c])
    BY <2>1, <1>1 DEF TicketsOK, Asking, AskLabels
  <2>3. \A x : SameEntry(x, job[d]) => ~SameEntry(x, job[c])
    BY <2>2 DEF SameEntry
  <2>4. HasEntry(d) \/ AnswersTo(d) # {}
    BY <2>1 DEF EntriesOK, WaitersOK
  <2>5. HasEntry(d) => HasEntry(d)'
    BY <2>1, <2>3, <1>2 DEF HasEntry
  <2>6. AnswersTo(d) # {} => AnswersTo(d)' # {}
    BY <2>1, <2>3, <1>2 DEF AnswersTo
  <2>7. QED
    BY <2>4, <2>5, <2>6
<1>5. ASSUME NEW p \in pending'
      PROVE  \E d \in Callers : pc'[d] \in Owning /\ SameEntry(p, job'[d])
  <2>1. PICK d \in Callers : pc[d] \in Owning /\ SameEntry(p, job[d])
    BY <1>2, <1>5 DEF EntriesOK, OwnedOK
  <2>2. d # c
    BY <2>1, <1>3, <1>5
  <2>3. QED
    BY <2>1, <2>2, <1>0
<1>6. NotBoth'
  BY <1>2 DEF EntriesOK, NotBoth
<1>7. FreshOK'
  BY <1>0, <1>1, <1>2 DEF EntriesOK, FreshOK
<1>8. QED
  BY <1>4, <1>5, <1>6, <1>7 DEF EntriesOK, WaitersOK, OwnedOK

(* A task turns entries into answers: each goes, and its answer comes.      *)
LEMMA EntriesAnswered ==
  ASSUME TypeInv, TicketsOK, EntriesOK, UNCHANGED <<pc, job>>,
         pending' \subseteq pending, answers \subseteq answers',
         \A p \in pending : p \in pending' \/ \E a \in answers' : SameEntry(p, a),
         \A a \in answers' : \/ a \in answers
                             \/ /\ \E p \in pending : SameEntry(p, a)
                                /\ \A p \in pending' : ~SameEntry(p, a)
  PROVE  EntriesOK'
<1>1. ASSUME NEW d \in Callers, pc'[d] \in {"send", "wait"}
      PROVE  HasEntry(d)' \/ AnswersTo(d)' # {}
  <2>1. HasEntry(d) \/ AnswersTo(d) # {}
    BY <1>1 DEF EntriesOK, WaitersOK
  <2>2. CASE AnswersTo(d) # {}
    BY <2>2 DEF AnswersTo
  <2>3. CASE HasEntry(d)
    <3>1. PICK p \in pending : SameEntry(p, job[d])
      BY <2>3 DEF HasEntry
    <3>2. CASE p \in pending'
      BY <3>1, <3>2 DEF HasEntry
    <3>3. CASE \E a \in answers' : SameEntry(p, a)
      BY <3>1, <3>3 DEF AnswersTo, SameEntry
    <3>4. QED
      BY <3>2, <3>3
  <2>4. QED
    BY <2>1, <2>2, <2>3
<1>2. OwnedOK'
  BY DEF EntriesOK, OwnedOK
<1>3. NotBoth'
  BY DEF EntriesOK, NotBoth
<1>4. ASSUME NEW d \in Callers, pc[d] = "insert", NEW a \in answers'
      PROVE  ~SameEntry(a, job[d])
  <2>1. CASE a \in answers
    BY <2>1, <1>4 DEF EntriesOK, FreshOK
  <2>2. CASE a \notin answers
    <3>1. PICK p \in pending : SameEntry(p, a)
      BY <2>2, <1>4
    <3>2. PICK e \in Callers : pc[e] \in Owning /\ SameEntry(p, job[e])
      BY <3>1 DEF EntriesOK, OwnedOK
    <3>3. SameEntry(a, job[e]) /\ e # d
      BY <3>1, <3>2, <1>4 DEF SameEntry, Owning
    <3>4. ~SameEntry(job[e], job[d])
      BY <3>2, <3>3, <1>4 DEF TicketsOK, Asking, AskLabels, Owning
    <3>5. QED
      BY <3>3, <3>4 DEF SameEntry
  <2>3. QED
    BY <2>1, <2>2
<1>5. QED
  BY <1>1, <1>2, <1>3, <1>4 DEF EntriesOK, WaitersOK, FreshOK

LEMMA EntriesDrain ==
  ASSUME TypeInv, TicketsOK, EntriesOK, NEW n \in ConnIds, Drain(n), UNCHANGED <<pc, job>>
  PROVE  EntriesOK'
<1>1. \A p \in pending : p.conn # n => p \in pending'
  BY DEF Drain
<1>2. ASSUME NEW p \in pending, p.conn = n
      PROVE  \E a \in answers' : SameEntry(p, a)
  <2>1. [conn |-> n, id |-> p.id, of |-> p.call, err |-> "disconnected"] \in answers'
    BY <1>2 DEF Drain
  <2>2. SameEntry(p, [conn |-> n, id |-> p.id, of |-> p.call, err |-> "disconnected"])
    BY <1>2 DEF SameEntry
  <2>3. QED
    BY <2>1, <2>2
<1>3. ASSUME NEW a \in answers', a \notin answers
      PROVE  /\ \E p \in pending : SameEntry(p, a)
             /\ \A p \in pending' : ~SameEntry(p, a)
  <2>1. PICK p \in pending : /\ p.conn = n
                             /\ a = [conn |-> n, id |-> p.id, of |-> p.call, err |-> "disconnected"]
    BY <1>3 DEF Drain
  <2>2. a.conn = n /\ SameEntry(p, a)
    BY <2>1 DEF SameEntry
  <2>3. \A q \in pending' : q.conn # n
    BY DEF Drain
  <2>4. QED
    BY <2>2, <2>3 DEF SameEntry
<1>4. pending' \subseteq pending /\ answers \subseteq answers'
  BY DEF Drain
<1>5. QED
  BY <1>1, <1>2, <1>3, <1>4, EntriesAnswered

LEMMA EntriesStep ==
  ASSUME TypeInv, TicketsOK, EntriesOK, [Next]_vars
  PROVE  EntriesOK'
<1>1. ASSUME NEW c \in Callers, Call(c)
      PROVE  EntriesOK'
  <2>1. CASE Insert(c)
    BY <2>1, EntriesInsert
  <2>2. CASE Receive(c) \/ Undo(c)
    BY <2>2, EntriesLeave
  <2>3. CASE ~Insert(c) /\ ~Receive(c) /\ ~Undo(c)
    <3>1. UNCHANGED <<pending, answers>>
      BY <1>1, <2>3 DEF Call, EnsureCached, EnsureLock, Connect, ConnectFail, DropClient, Check,
                        Send, SendFail, WaitTimeout, table
    <3>2. QED
      BY <1>1, <2>3, <3>1, EntriesQuiet
  <2>4. QED
    BY <2>1, <2>2, <2>3
<1>2. ASSUME NEW c \in Callers, NEW b \in BOOLEAN, Begin(c, b)
      PROVE  EntriesOK'
  <2>1. /\ UNCHANGED <<pending, answers>> /\ pc[c] = "idle" /\ pc'[c] = "ensure"
        /\ \A d \in Callers : d # c => pc'[d] = pc[d] /\ job'[d] = job[d]
    BY <1>2 DEF Begin, Goto, table, TypeInv, TypeOK, CallersTypeOK
  <2>2. WaitersOK'
    BY <2>1 DEF EntriesOK, WaitersOK, HasEntry, AnswersTo
  <2>3. OwnedOK'
    <3>1. \A d \in Callers : pc[d] \in Owning => d # c
      BY <2>1 DEF Owning
    <3>2. QED
      BY <2>1, <3>1 DEF EntriesOK, OwnedOK
  <2>4. NotBoth' /\ FreshOK'
    BY <2>1 DEF EntriesOK, NotBoth, FreshOK
  <2>5. QED
    BY <2>2, <2>3, <2>4 DEF EntriesOK
<1>3. ASSUME NEW n \in ConnIds, Tasks(n)
      PROVE  EntriesOK'
  <2>1. UNCHANGED <<pc, job>>
    BY <1>3 DEF Tasks, Write, WriteError, WriterIdle, WriterMark, ReadReply, ReadEnd, ReaderMark, callers
  <2>2. CASE ReadReply(n)
    <3>1. PICK r \in replies :
            /\ pending' = {p \in pending : ~SameEntry(p, r)}
            /\ answers' = answers \cup (IF \E p \in pending : SameEntry(p, r) THEN {r} ELSE {})
      BY <2>2 DEF ReadReply
    <3>2. CASE \E p \in pending : SameEntry(p, r)
      <4>1. answers' = answers \cup {r}
        BY <3>1, <3>2
      <4>2. QED
        BY <2>1, <3>1, <3>2, <4>1, EntriesAnswered
    <3>3. CASE ~\E p \in pending : SameEntry(p, r)
      <4>1. answers' = answers /\ pending' = pending
        BY <3>1, <3>3
      <4>2. QED
        BY <2>1, <4>1, EntriesFrame
    <3>4. QED
      BY <3>2, <3>3
  <2>3. CASE WriterMark(n) \/ ReaderMark(n)
    <3>1. UNCHANGED <<pending, answers>> \/ Drain(n)
      BY <2>3 DEF WriterMark, ReaderMark
    <3>2. QED
      BY <2>1, <3>1, EntriesFrame, EntriesDrain
  <2>4. CASE Write(n) \/ WriteError(n) \/ WriterIdle(n) \/ ReadEnd(n)
    BY <2>1, <2>4, EntriesFrame DEF Write, WriteError, WriterIdle, ReadEnd, table
  <2>5. QED
    BY <1>3, <2>2, <2>3, <2>4 DEF Tasks
<1>4. CASE ResetBySettings \/ UNCHANGED vars
  BY <1>4, EntriesFrame DEF ResetBySettings, vars, callers, table
<1>5. ASSUME NEW n \in ConnIds, LinkDown(n)
      PROVE  EntriesOK'
  BY <1>5, EntriesFrame DEF LinkDown, callers, table
<1>6. ASSUME NEW r \in got, NEW e \in Outcomes, Execute(r, e)
      PROVE  EntriesOK'
  BY <1>6, EntriesFrame DEF Execute, callers, table
<1>7. QED
  BY <1>1, <1>2, <1>3, <1>4, <1>5, <1>6 DEF Next

LEMMA EntriesHold == Spec => [](TypeInv /\ TicketsOK /\ EntriesOK)
<1>1. TypeInv /\ TicketsOK /\ EntriesOK /\ [Next]_vars => TypeInv' /\ TicketsOK' /\ EntriesOK'
  BY TypeInvStep, TicketsStep, EntriesStep
<1>2. QED
  BY TypeInvInit, TicketsInit, EntriesInit, <1>1, PTL DEF Spec

(* Whoever waits has an entry in the table or an answer: neither drain nor  *)
(* the reader takes an entry without answering it, and no call takes        *)
(* another's (transport.rs, mark_disconnected).                             *)
THEOREM WaiterNotForgotten == Spec => []NoWaiterForgotten
<1>1. EntriesOK => NoWaiterForgotten
  BY DEF EntriesOK, WaitersOK, HasEntry, NoWaiterForgotten
<1>2. QED
  BY <1>1, EntriesHold, PTL

(* A call takes its entry out before it returns, by any way (mod.rs:71).    *)
THEOREM TableEmptyAtRest == Spec => []NothingLeftBehind
<1>1. EntriesOK => NothingLeftBehind
  BY DEF EntriesOK, OwnedOK, Owning, NothingLeftBehind
<1>2. QED
  BY <1>1, EntriesHold, PTL

-----------------------------------------------------------------------------
(* Executions.  A line is in one place: once in one queue or with the       *)
(* daemon; and a request that is still to be sent is no line yet.           *)
Line(t) == t \in got \/ Queued(t)

QueuesOK ==
  \A n \in ConnIds : \A i \in DOMAIN out[n] :
    /\ out[n][i].conn = n /\ out[n][i] \notin got
    /\ \A j \in DOMAIN out[n] : out[n][i] = out[n][j] => i = j
UnsentOK == \A c \in Callers : pc[c] \in {"insert", "send"} => ~Line(RequestOf(c))
LinesOK == QueuesOK /\ UnsentOK

LEMMA LinesInit == Init => LinesOK
  BY DEF Init, LinesOK, QueuesOK, UnsentOK

(* What the writer took is gone from the queue, the rest moved up. *)
LEMMA TailAt ==
  ASSUME TypeInv, NEW n \in ConnIds, out[n] # <<>>, out' = [out EXCEPT ![n] = Tail(@)]
  PROVE  /\ \A m \in ConnIds : m # n => out'[m] = out[m]
         /\ 1 \in DOMAIN out[n] /\ Head(out[n]) = out[n][1] /\ Head(out[n]) \in Request
         /\ \A i \in DOMAIN out'[n] :
              i + 1 \in DOMAIN out[n] /\ i + 1 # 1 /\ out'[n][i] = out[n][i + 1] /\ i \in Nat
<1>1. out \in [ConnIds -> Seq(Request)] /\ out[n] \in Seq(Request)
  BY DEF TypeInv, TypeOK, ConnsTypeOK
<1>2. out'[n] = Tail(out[n]) /\ \A m \in ConnIds : m # n => out'[m] = out[m]
  BY <1>1
<1>3. \A i \in DOMAIN Tail(out[n]) :
        i + 1 \in DOMAIN out[n] /\ i + 1 # 1 /\ Tail(out[n])[i] = out[n][i + 1] /\ i \in Nat
  BY <1>1
<1>4. 1 \in DOMAIN out[n] /\ Head(out[n]) = out[n][1] /\ Head(out[n]) \in Request
  BY <1>1
<1>5. QED
  BY <1>2, <1>3, <1>4

(* Lines become fewer, and each stays where it was or moves on. *)
LEMMA TaskLines ==
  ASSUME TypeInv, LinesOK, NEW n \in ConnIds, Tasks(n)
  PROVE  QueuesOK' /\ \A t \in Request : Line(t)' => Line(t)
<1>0. /\ out \in [ConnIds -> Seq(Request)]
      /\ QueuesOK
  BY DEF TypeInv, TypeOK, ConnsTypeOK, LinesOK
<1>1. CASE Write(n) \/ WriteError(n)
  <2>1. out[n] # <<>> /\ out' = [out EXCEPT ![n] = Tail(@)]
    BY <1>1 DEF Write, WriteError
  <2>2. got' = got \/ got' = got \cup {Head(out[n])}
    BY <1>1 DEF Write, WriteError, daemon
  <2>3. ASSUME NEW m \in ConnIds, NEW i \in DOMAIN out'[m]
        PROVE  \E k \in DOMAIN out[m] : /\ out'[m][i] = out[m][k] /\ (m = n => k # 1)
                                        /\ k = IF m = n THEN i + 1 ELSE i
    BY <2>1, <2>3, TailAt
  <2>4. ASSUME NEW m \in ConnIds, NEW i \in DOMAIN out'[m]
        PROVE  /\ out'[m][i].conn = m /\ out'[m][i] \notin got'
               /\ \A j \in DOMAIN out'[m] : out'[m][i] = out'[m][j] => i = j
    <3>1. PICK k \in DOMAIN out[m] : /\ out'[m][i] = out[m][k] /\ (m = n => k # 1)
                                     /\ k = IF m = n THEN i + 1 ELSE i
      BY <2>3, <2>4
    <3>2. out'[m][i].conn = m /\ out'[m][i] \notin got
      BY <3>1, <1>0 DEF QueuesOK
    <3>3. out'[m][i] # Head(out[n])
      <4>1. Head(out[n]) = out[n][1] /\ 1 \in DOMAIN out[n]
        BY <2>1, TailAt
      <4>2. CASE m = n
        BY <4>1, <4>2, <3>1, <1>0 DEF QueuesOK
      <4>3. CASE m # n
        <5>1. out[n][1].conn = n
          BY <4>1, <1>0 DEF QueuesOK
        <5>2. QED
          BY <4>1, <4>3, <5>1, <3>2
      <4>4. QED
        BY <4>2, <4>3
    <3>4. ASSUME NEW j \in DOMAIN out'[m], out'[m][i] = out'[m][j]
          PROVE  i = j
      <4>1. PICK h \in DOMAIN out[m] : out'[m][j] = out[m][h] /\ h = IF m = n THEN j + 1 ELSE j
        BY <2>3, <3>4
      <4>2. k = h
        BY <3>1, <3>4, <4>1, <1>0 DEF QueuesOK
      <4>3. CASE m # n
        BY <3>1, <4>1, <4>2, <4>3
      <4>4. CASE m = n
        <5>1. i \in Nat /\ j \in Nat
          BY <2>1, <2>4, <3>4, <4>4, TailAt
        <5>2. QED
          BY <3>1, <4>1, <4>2, <4>4, <5>1
      <4>5. QED
        BY <4>3, <4>4
    <3>5. QED
      BY <3>2, <3>3, <3>4, <2>2
  <2>5. QueuesOK'
    BY <2>4 DEF QueuesOK
  <2>6. ASSUME NEW t \in Request, Line(t)'
        PROVE  Line(t)
    <3>1. CASE Queued(t)'
      BY <3>1, <2>3 DEF Line, Queued
    <3>2. CASE t \in got'
      <4>1. Head(out[n]) = out[n][1] /\ 1 \in DOMAIN out[n]
        BY <2>1, TailAt
      <4>2. Queued(Head(out[n]))
        BY <4>1 DEF Queued
      <4>3. t \in got \/ t = Head(out[n])
        BY <3>2, <2>2
      <4>4. QED
        BY <4>2, <4>3 DEF Line
    <3>3. QED
      BY <3>1, <3>2, <2>6 DEF Line
  <2>7. QED
    BY <2>5, <2>6
<1>2. CASE WriterMark(n)
  <2>1. got' = got
    BY <1>2 DEF WriterMark, daemon
  <2>2. CASE out' = out
    BY <2>1, <2>2, <1>0 DEF QueuesOK, Line, Queued
  <2>3. CASE out' = [out EXCEPT ![n] = <<>>]
    <3>1. \A m \in ConnIds : m # n => out'[m] = out[m]
      BY <2>3, <1>0
    <3>2. out'[n] = <<>> /\ DOMAIN <<>> = {}
      BY <2>3, <1>0
    <3>3. QueuesOK'
      BY <2>1, <3>1, <3>2, <1>0 DEF QueuesOK
    <3>4. \A t : Queued(t)' => Queued(t)
      BY <3>1, <3>2 DEF Queued
    <3>5. QED
      BY <2>1, <3>3, <3>4 DEF Line
  <2>4. QED
    BY <1>2, <2>2, <2>3 DEF WriterMark
<1>3. CASE WriterIdle(n) \/ ReadReply(n) \/ ReadEnd(n) \/ ReaderMark(n)
  <2>1. UNCHANGED <<out, got>>
    BY <1>3 DEF WriterIdle, ReadReply, ReadEnd, ReaderMark, daemon
  <2>2. QED
    BY <2>1, <1>0 DEF QueuesOK, Line, Queued
<1>4. QED
  BY <1>1, <1>2, <1>3 DEF Tasks

(* Only Send makes a line, and it is a new one. *)
LEMMA SendLine ==
  ASSUME TypeInv, TicketsOK, LinesOK, NEW c \in Callers, Send(c)
  PROVE  /\ LinesOK' /\ RequestOf(c) \in Request /\ executed' = executed
         /\ \A t \in Request : Line(t)' => Line(t) \/ t = RequestOf(c)
<1> DEFINE n == job[c].conn
           r == RequestOf(c)
<1>0. /\ out \in [ConnIds -> Seq(Request)] /\ n \in ConnIds /\ r \in Request /\ r.conn = n
      /\ pc[c] = "send" /\ got' = got /\ executed' = executed /\ job' = job
      /\ out' = [out EXCEPT ![n] = Append(@, r)]
      /\ QueuesOK /\ ~Line(r)
  <2>1. pc[c] = "send" /\ pc[c] \in Connected /\ Asking(c)
    BY DEF Send, Connected, Asking, AskLabels
  <2>2. n \in ConnIds /\ r \in Request /\ r.conn = n
    BY <2>1, AskerIsTicket DEF TypeInv, JobsOK
  <2>3. ~Line(r) /\ QueuesOK
    BY <2>1 DEF LinesOK, UnsentOK
  <2>4. out' = [out EXCEPT ![n] = Append(@, r)] /\ got' = got /\ executed' = executed /\ job' = job
    BY DEF Send, daemon
  <2>5. QED
    BY <2>1, <2>2, <2>3, <2>4 DEF TypeInv, TypeOK, ConnsTypeOK
<1>1. \A m \in ConnIds : m # n => out'[m] = out[m]
  BY <1>0
<1>2. out'[n] = Append(out[n], r) /\ out[n] \in Seq(Request)
  BY <1>0
<1>3. \A i \in DOMAIN out'[n] : \/ i \in DOMAIN out[n] /\ out'[n][i] = out[n][i]
                                \/ i = Len(out[n]) + 1 /\ out'[n][i] = r
  BY <1>0, <1>2
<1>4. \A i \in DOMAIN out[n] : out[n][i] # r
  BY <1>0 DEF Line, Queued
<1>5. ASSUME NEW m \in ConnIds, NEW i \in DOMAIN out'[m]
      PROVE  /\ out'[m][i].conn = m /\ out'[m][i] \notin got'
             /\ \A j \in DOMAIN out'[m] : out'[m][i] = out'[m][j] => i = j
  <2>1. CASE m # n
    BY <2>1, <1>0, <1>1 DEF QueuesOK
  <2>2. CASE m = n
    <3>1. r.conn = n /\ r \notin got
      BY <1>0 DEF Line
    <3>2. QED
      BY <2>2, <3>1, <1>0, <1>3, <1>4 DEF QueuesOK
  <2>3. QED
    BY <2>1, <2>2
<1>6. \A t \in Request : Line(t)' => Line(t) \/ t = r
  BY <1>0, <1>1, <1>3 DEF Line, Queued
<1>7. ASSUME NEW d \in Callers, pc'[d] \in {"insert", "send"}
      PROVE  ~Line(RequestOf(d))'
  <2>1. d # c /\ pc[d] = pc'[d] /\ pc'[c] = "wait"
    BY <1>0, <1>7 DEF Send, Goto, TypeInv, TypeOK, CallersTypeOK
  <2>2. Asking(d) /\ Asking(c)
    BY <2>1, <1>0, <1>7 DEF Asking, AskLabels
  <2>3. RequestOf(d) \in Request /\ RequestOf(d) # r
    BY <2>1, <2>2, AskerIsTicket DEF TicketsOK, SameEntry
  <2>4. ~Line(RequestOf(d)) /\ RequestOf(d)' = RequestOf(d)
    BY <2>1, <1>0, <1>7 DEF LinesOK, UnsentOK, RequestOf
  <2>5. \A t \in Request : ~Line(t) /\ t # r => ~Line(t)'
    BY <1>6
  <2>6. QED
    BY <2>3, <2>4, <2>5 DEF Line, Queued
<1>8. QED
  BY <1>0, <1>5, <1>6, <1>7 DEF LinesOK, QueuesOK, UnsentOK

(* Execute takes one line away; everything else but Send makes none.        *)
LEMMA ExecuteLine ==
  ASSUME TypeInv, LinesOK, NEW r \in got, NEW e \in Outcomes, Execute(r, e)
  PROVE  /\ QueuesOK' /\ r \in Request /\ Line(r)
         /\ \A t \in Request : Line(t)' => Line(t) /\ t # r
<1>1. r \in Request /\ Line(r)
  BY DEF TypeInv, TypeOK, DaemonTypeOK, Line
<1>2. UNCHANGED out /\ got' = got \ {r}
  BY DEF Execute
<1>3. \A n \in ConnIds : \A i \in DOMAIN out[n] : out[n][i] # r
  BY DEF LinesOK, QueuesOK
<1>4. QueuesOK'
  BY <1>2 DEF LinesOK, QueuesOK
<1>5. QED
  BY <1>1, <1>2, <1>3, <1>4 DEF Line, Queued

LEMMA QuietLines ==
  ASSUME TypeInv, LinesOK, [Next]_vars, \A c \in Callers : ~Send(c),
         \A r \in got, e \in Outcomes : ~Execute(r, e)
  PROVE  /\ QueuesOK' /\ executed' = executed
         /\ \A t \in Request : Line(t)' => Line(t)
<1>1. UNCHANGED <<out, got, executed>> =>
        /\ QueuesOK' /\ executed' = executed
        /\ \A t \in Request : Line(t)' => Line(t)
  BY DEF LinesOK, QueuesOK, Line, Queued
<1>2. ASSUME NEW c \in Callers, Call(c)
      PROVE  UNCHANGED <<out, got, executed>>
  BY <1>2 DEF Call, EnsureCached, EnsureLock, Connect, ConnectFail, DropClient, Check, Insert,
     SendFail, Receive, WaitTimeout, Undo, daemon
<1>3. ASSUME NEW c \in Callers, NEW b \in BOOLEAN, Begin(c, b)
      PROVE  UNCHANGED <<out, got, executed>>
  BY <1>3 DEF Begin, daemon
<1>4. ASSUME NEW n \in ConnIds, LinkDown(n)
      PROVE  UNCHANGED <<out, got, executed>>
  BY <1>4 DEF LinkDown
<1>5. CASE ResetBySettings \/ UNCHANGED vars
  BY <1>5, <1>1 DEF ResetBySettings, vars, daemon
<1>6. ASSUME NEW n \in ConnIds, Tasks(n)
      PROVE  executed' = executed
  BY <1>6 DEF Tasks, Write, WriteError, WriterIdle, WriterMark, ReadReply, ReadEnd, ReaderMark, daemon
<1>7. QED
  BY <1>1, <1>2, <1>3, <1>4, <1>5, <1>6, TaskLines DEF Next

LEMMA UnsentKept ==
  ASSUME TypeInv, [Next]_vars, NEW d \in Callers, pc'[d] \in {"insert", "send"}
  PROVE  \/ Draws(d)
         \/ pc[d] \in {"insert", "send"} /\ RequestOf(d)' = RequestOf(d)
<1>1. UNCHANGED callers => pc[d] \in {"insert", "send"} /\ RequestOf(d)' = RequestOf(d)
  BY DEF callers, RequestOf
<1>2. ASSUME NEW c \in Callers, Call(c)
      PROVE  \/ Draws(d)
             \/ pc[d] \in {"insert", "send"} /\ RequestOf(d)' = RequestOf(d)
  <2>1. CASE d # c
    <3>1. pc'[d] = pc[d] /\ job'[d] = job[d]
      BY <1>2, <2>1, OneMoves
    <3>2. QED
      BY <3>1 DEF RequestOf
  <2>2. CASE d = c /\ ~Draws(c)
    <3>1. PICK l, j : Moves(c, l, j) /\ Advances(c, l, j)
      BY <1>2, <2>2, CallMoves
    <3>2. pc'[c] = l /\ job'[c] = j
      BY <3>1 DEF Moves, TypeInv, TypeOK, CallersTypeOK
    <3>3. /\ pc[c] = "insert" /\ j.conn = job[c].conn /\ j.id = job[c].id
          /\ j.auth = job[c].auth /\ j.call = job[c].call
      BY <2>2, <3>1, <3>2 DEF Advances, AskLabels
    <3>4. QED
      BY <2>2, <3>2, <3>3 DEF RequestOf
  <2>3. QED
    BY <2>1, <2>2
<1>3. ASSUME NEW c \in Callers, NEW b \in BOOLEAN, Begin(c, b)
      PROVE  pc[d] \in {"insert", "send"} /\ RequestOf(d)' = RequestOf(d)
  <2>1. /\ pc'[c] = "ensure"
        /\ d # c => pc'[d] = pc[d] /\ job'[d] = job[d]
    BY <1>3 DEF Begin, Goto, TypeInv, TypeOK, CallersTypeOK
  <2>2. QED
    BY <2>1 DEF RequestOf
<1>4. ASSUME NEW n \in ConnIds, Tasks(n) \/ LinkDown(n)
      PROVE  UNCHANGED callers
  BY <1>4 DEF Tasks, Write, WriteError, WriterIdle, WriterMark, ReadReply, ReadEnd, ReaderMark, LinkDown
<1>5. ASSUME NEW r \in got, NEW e \in Outcomes, Execute(r, e)
      PROVE  UNCHANGED callers
  BY <1>5 DEF Execute
<1>6. CASE ResetBySettings \/ UNCHANGED vars
  BY <1>6, <1>1 DEF ResetBySettings, vars
<1>7. QED
  BY <1>1, <1>2, <1>3, <1>4, <1>5, <1>6 DEF Next

LEMMA LinesStep ==
  ASSUME TypeInv, TicketsOK, LinesOK, [Next]_vars
  PROVE  LinesOK'
<1>1. CASE \E c \in Callers : Send(c)
  BY <1>1, SendLine
<1>2. CASE \A c \in Callers : ~Send(c)
  <2>1. QueuesOK' /\ \A t \in Request : Line(t)' => Line(t)
    BY <1>2, QuietLines, ExecuteLine
  <2>2. ASSUME NEW d \in Callers, pc'[d] \in {"insert", "send"}
        PROVE  ~Line(RequestOf(d))'
    <3>1. CASE Draws(d)
      <4>1. /\ RequestOf(d)' \in Request /\ next_id[RequestOf(d)'.conn] \in Nat
            /\ RequestOf(d)'.id = next_id[RequestOf(d)'.conn]
        BY <3>1, DrawsFresh
      <4>2. ~Ticket(RequestOf(d)')
        BY <4>1 DEF TicketsOK
      <4>3. UNCHANGED <<out, got>>
        BY <3>1 DEF Draws
      <4>4. QED
        BY <4>2, <4>3 DEF Ticket, Line, Queued
    <3>2. CASE pc[d] \in {"insert", "send"} /\ RequestOf(d)' = RequestOf(d)
      <4>1. RequestOf(d) \in Request
        BY <3>2, AskedType DEF Connected
      <4>2. ~Line(RequestOf(d))
        BY <3>2 DEF LinesOK, UnsentOK
      <4>3. \A t \in Request : ~Line(t) => ~Line(t)'
        BY <2>1
      <4>4. QED
        BY <4>1, <4>2, <4>3, <3>2 DEF Line, Queued
    <3>3. QED
      BY <2>2, <3>1, <3>2, UnsentKept
  <2>3. QED
    BY <2>1, <2>2 DEF LinesOK, UnsentOK
<1>3. QED
  BY <1>1, <1>2

(* How often a call has been executed or may still be, and what its caller  *)
(* has spent on it: one for the first attempt once it is sent, one more for *)
(* the second.                                                              *)
Lines(k)  == {t \in Request : t.call = k /\ Line(t)}
Weight(k) == executed[k] + Cardinality(Lines(k))
Tried(c)  == IF pc[c] \in {"wait", "undo", "drop"} /\ ~job[c].auth THEN 1 ELSE 0
Spent(c)  == (IF job[c].again THEN 1 ELSE 0) + Tried(c)
Bound(k)  == IF k \in repeatable THEN 2 ELSE 1

OwnersOK ==
  /\ \A c \in Callers : job[c].call <= calls
  /\ \A c, d \in Callers : job[c].call # 0 /\ job[c].call = job[d].call => c = d
  /\ \A c \in Callers : job[c].again /\ job[c].call # 0 => job[c].call \in repeatable
  /\ \A c \in Callers : pc[c] = "idle" => ~job[c].again
BegunOK ==
  /\ \A t \in Request : Line(t) => t.call <= calls
  /\ \A k \in CallIds : k > calls => executed[k] = 0
CountOK ==
  /\ \A k \in CallIds : IsFiniteSet(Lines(k)) /\ Weight(k) <= Bound(k)
  /\ \A c \in Callers : job[c].call # 0 => Weight(job[c].call) <= Spent(c)

(* What one step does to the weight of a call. *)
LEMMA WeightFewer ==
  ASSUME TypeInv, NEW k \in CallIds, IsFiniteSet(Lines(k)), executed' = executed,
         \A t \in Request : t.call = k /\ Line(t)' => Line(t)
  PROVE  /\ IsFiniteSet(Lines(k)') /\ Weight(k)' <= Weight(k)
         /\ Weight(k) \in Nat /\ Weight(k)' \in Nat
<1>1. Lines(k)' \subseteq Lines(k)
  BY DEF Lines
<1>2. IsFiniteSet(Lines(k)') /\ Cardinality(Lines(k)') <= Cardinality(Lines(k))
  BY <1>1, FS_Subset
<1>3. Cardinality(Lines(k)) \in Nat /\ Cardinality(Lines(k)') \in Nat
  BY <1>2, FS_CardinalityType
<1>4. executed[k] \in Nat
  BY DEF TypeInv, TypeOK, DaemonTypeOK
<1>5. QED
  BY <1>2, <1>3, <1>4 DEF Weight

LEMMA WeightMore ==
  ASSUME TypeInv, NEW k \in CallIds, IsFiniteSet(Lines(k)), executed' = executed, NEW r,
         \A t \in Request : t.call = k /\ Line(t)' => Line(t) \/ t = r
  PROVE  /\ IsFiniteSet(Lines(k)') /\ Weight(k)' <= Weight(k) + 1
         /\ Weight(k) \in Nat /\ Weight(k)' \in Nat
<1>1. Lines(k)' \subseteq Lines(k) \cup {r}
  BY DEF Lines
<1>2. IsFiniteSet(Lines(k) \cup {r}) /\ Cardinality(Lines(k) \cup {r}) <= Cardinality(Lines(k)) + 1
  BY FS_AddElement, FS_CardinalityType
<1>3. IsFiniteSet(Lines(k)') /\ Cardinality(Lines(k)') <= Cardinality(Lines(k) \cup {r})
  BY <1>1, <1>2, FS_Subset
<1>4. /\ Cardinality(Lines(k)) \in Nat /\ Cardinality(Lines(k)') \in Nat
      /\ Cardinality(Lines(k) \cup {r}) \in Nat
  BY <1>2, <1>3, FS_CardinalityType
<1>5. executed[k] \in Nat
  BY DEF TypeInv, TypeOK, DaemonTypeOK
<1>6. QED
  BY <1>2, <1>3, <1>4, <1>5 DEF Weight

LEMMA WeightExecuted ==
  ASSUME TypeInv, LinesOK, NEW k \in CallIds, IsFiniteSet(Lines(k)),
         NEW r \in got, NEW e \in Outcomes, Execute(r, e)
  PROVE  /\ IsFiniteSet(Lines(k)') /\ Weight(k)' <= Weight(k)
         /\ Weight(k) \in Nat /\ Weight(k)' \in Nat
<1>1. r \in Request /\ Line(r) /\ \A t \in Request : Line(t)' => Line(t) /\ t # r
  BY ExecuteLine
<1>2. executed' = [i \in CallIds |-> executed[i] + IF i = r.call THEN 1 ELSE 0]
  BY DEF Execute
<1>3. executed[k] \in Nat /\ executed'[k] = executed[k] + IF k = r.call THEN 1 ELSE 0
  BY <1>2 DEF TypeInv, TypeOK, DaemonTypeOK
<1>4. Lines(k)' \subseteq Lines(k) \ {r}
  BY <1>1 DEF Lines
<1>5. /\ IsFiniteSet(Lines(k) \ {r})
      /\ Cardinality(Lines(k) \ {r}) = IF r \in Lines(k) THEN Cardinality(Lines(k)) - 1
                                                         ELSE Cardinality(Lines(k))
  BY FS_RemoveElement
<1>6. IsFiniteSet(Lines(k)') /\ Cardinality(Lines(k)') <= Cardinality(Lines(k) \ {r})
  BY <1>4, <1>5, FS_Subset
<1>7. /\ Cardinality(Lines(k)) \in Nat /\ Cardinality(Lines(k)') \in Nat
      /\ Cardinality(Lines(k) \ {r}) \in Nat
  BY <1>5, <1>6, FS_CardinalityType
<1>8. k = r.call => r \in Lines(k)
  BY <1>1 DEF Lines
<1>9. CASE k = r.call
  <2>1. executed'[k] = executed[k] + 1
    BY <1>3, <1>9
  <2>2. Cardinality(Lines(k) \ {r}) = Cardinality(Lines(k)) - 1
    BY <1>5, <1>8, <1>9
  <2>3. QED
    BY <2>1, <2>2, <1>3, <1>6, <1>7 DEF Weight
<1>10. CASE k # r.call
  <2>1. executed'[k] = executed[k]
    BY <1>3, <1>10
  <2>2. Cardinality(Lines(k) \ {r}) <= Cardinality(Lines(k))
    BY <1>5, <1>7
  <2>3. QED
    BY <2>1, <2>2, <1>3, <1>6, <1>7 DEF Weight
<1>11. QED
  BY <1>9, <1>10

Sent(c) == pc[c] \in {"wait", "undo", "drop"} /\ ~job[c].auth

LEMMA SpentGrows ==
  ASSUME NEW c, job[c].again => job'[c].again, Sent(c) => Sent(c)'
  PROVE  Spent(c)' >= Spent(c) /\ Spent(c) \in Nat /\ Spent(c)' \in Nat
<1>1. Tried(c) \in {0, 1} /\ Tried(c)' \in {0, 1} /\ (Tried(c) = 1 => Tried(c)' = 1)
  BY DEF Tried, Sent
<1>2. (IF job[c].again THEN 1 ELSE 0) <= (IF job'[c].again THEN 1 ELSE 0)
  OBVIOUS
<1>3. QED
  BY <1>1, <1>2 DEF Spent

LEMMA SpentSent ==
  ASSUME NEW c, job[c].again => job'[c].again, ~Sent(c), Sent(c)'
  PROVE  Spent(c)' >= Spent(c) + 1 /\ Spent(c) \in Nat /\ Spent(c)' \in Nat
<1>1. Tried(c) = 0 /\ Tried(c)' = 1
  BY DEF Tried, Sent
<1>2. (IF job[c].again THEN 1 ELSE 0) <= (IF job'[c].again THEN 1 ELSE 0)
  OBVIOUS
<1>3. QED
  BY <1>1, <1>2 DEF Spent

LEMMA SpentAgain ==
  ASSUME NEW c, ~job[c].again, job'[c].again
  PROVE  Spent(c)' >= Spent(c) /\ Spent(c) \in Nat /\ Spent(c)' \in Nat
<1>1. Tried(c) \in {0, 1} /\ Tried(c)' \in {0, 1}
  BY DEF Tried
<1>2. (IF job[c].again THEN 1 ELSE 0) = 0 /\ (IF job'[c].again THEN 1 ELSE 0) = 1
  OBVIOUS
<1>3. QED
  BY <1>1, <1>2 DEF Spent

(* A call goes on with its number, or is done. *)
GoesOn(c) ==
  /\ job'[c].call = job[c].call
  /\ job'[c].again => job[c].again \/ job[c].call \in repeatable
  /\ Spent(c)' >= Spent(c)
  /\ Send(c) /\ ~job[c].auth => Spent(c)' >= Spent(c) + 1

LEMMA GoesOnOrEnds ==
  ASSUME TypeInv, NEW c \in Callers, Call(c)
  PROVE  (job'[c] = NoJob \/ GoesOn(c)) /\ UNCHANGED <<calls, repeatable>>
<1>0. /\ pc \in [Callers -> Labels] /\ job \in [Callers -> Job] /\ job[c] \in Job
  BY DEF TypeInv, TypeOK, CallersTypeOK
<1>a. UNCHANGED <<calls, repeatable>>
  BY DEF Call, EnsureCached, EnsureLock, Connect, ConnectFail, DropClient, Check, Insert, Send,
         SendFail, Receive, WaitTimeout, Undo
<1>b. ASSUME ~Send(c), job'[c].call = job[c].call, job'[c].again <=> job[c].again,
             Sent(c) => Sent(c)'
      PROVE  GoesOn(c)
  BY <1>b, SpentGrows DEF GoesOn
<1>c. ASSUME NEW err \in Errors, Fail(c, err), ~Send(c)
      PROVE  job'[c] = NoJob \/ GoesOn(c)
  <2>1. CASE Moves(c, "idle", NoJob)
    BY <2>1, <1>0 DEF Moves
  <2>2. CASE Moves(c, "drop", [job[c] EXCEPT !.err = err]) /\ ~job[c].auth
    <3>1. /\ pc'[c] = "drop" /\ job'[c].call = job[c].call
          /\ job'[c].again = job[c].again /\ job'[c].auth = job[c].auth
      BY <2>2, <1>0 DEF Moves, Job
    <3>2. Sent(c)'
      BY <2>2, <3>1 DEF Sent
    <3>3. QED
      BY <3>1, <3>2, <1>b, <1>c
  <2>3. QED
    BY <1>c, <2>1, <2>2, FailMoves
<1>d. pc[c] # "send" => ~Send(c)
  BY DEF Send
<1>1. CASE EnsureCached(c) \/ EnsureLock(c) \/ Connect(c) \/ Insert(c)
  <2>1. pc[c] \in {"ensure", "connect", "insert"}
    BY <1>1 DEF EnsureCached, EnsureLock, Connect, Insert
  <2>2. job'[c].call = job[c].call /\ job'[c].again = job[c].again
    <3>1. CASE EnsureCached(c)
      BY <3>1, <1>0 DEF EnsureCached, Job
    <3>2. CASE EnsureLock(c) \/ Insert(c)
      BY <3>2 DEF EnsureLock, Insert
    <3>3. CASE Connect(c)
      BY <3>3, <1>0 DEF Connect, Job
    <3>4. QED
      BY <3>1, <3>2, <3>3, <1>1
  <2>3. ~Sent(c) /\ ~Send(c)
    BY <2>1, <1>d DEF Sent
  <2>4. QED
    BY <2>2, <2>3, <1>a, <1>b
<1>2. CASE ConnectFail(c)
  BY <1>2, <1>0, <1>a DEF ConnectFail, Return
<1>3. CASE DropClient(c)
  <2>1. \/ /\ job' = [job EXCEPT ![c].again = TRUE, ![c].conn = 0, ![c].id = 0,
                                 ![c].err = "none"]
           /\ ~job[c].again /\ job[c].call \in repeatable
        \/ Return(c)
    BY <1>3, Zenon DEF DropClient, CanRetry
  <2>2. CASE Return(c)
    BY <2>2, <1>0, <1>a DEF Return
  <2>3. CASE /\ job' = [job EXCEPT ![c].again = TRUE, ![c].conn = 0, ![c].id = 0,
                                  ![c].err = "none"]
             /\ ~job[c].again /\ job[c].call \in repeatable
    <3>1. job'[c].call = job[c].call /\ job'[c].again = TRUE
      BY <2>3, <1>0 DEF Job
    <3>2. ~Send(c)
      BY <1>3, <1>d DEF DropClient
    <3>3. Spent(c)' >= Spent(c)
      BY <2>3, <3>1, SpentAgain
    <3>4. QED
      BY <2>3, <3>1, <3>2, <3>3, <1>a DEF GoesOn
  <2>4. QED
    BY <2>1, <2>2, <2>3
<1>4. CASE Check(c)
  <2>1. ~Send(c) /\ ~Sent(c)
    BY <1>4, <1>d DEF Check, Sent
  <2>2. CASE Draws(c)
    <3>1. job'[c].call = job[c].call /\ job'[c].again = job[c].again
      BY <2>2, <1>0 DEF Draws, Moves, Job
    <3>2. QED
      BY <2>1, <3>1, <1>a, <1>b
  <2>3. QED
    BY <1>4, <2>1, <2>2, <1>a, <1>c, CheckDraws DEF Errors
<1>5. CASE Send(c)
  <2>1. pc[c] = "send" /\ pc'[c] = "wait" /\ job' = job
    BY <1>5, <1>0 DEF Send, Goto
  <2>2. CASE job[c].auth
    <3>1. ~Sent(c)
      BY <2>1 DEF Sent
    <3>2. Spent(c)' >= Spent(c)
      BY <2>1, <3>1, SpentGrows
    <3>3. QED
      BY <2>1, <2>2, <3>2, <1>a DEF GoesOn
  <2>3. CASE ~job[c].auth
    <3>1. ~Sent(c) /\ Sent(c)'
      BY <2>1, <2>3 DEF Sent
    <3>2. Spent(c)' >= Spent(c) + 1 /\ Spent(c) \in Nat /\ Spent(c)' \in Nat
      BY <2>1, <3>1, SpentSent
    <3>3. Spent(c)' >= Spent(c)
      BY <3>2
    <3>4. QED
      BY <2>1, <3>2, <3>3, <1>a DEF GoesOn
  <2>4. QED
    BY <2>2, <2>3
<1>6. CASE SendFail(c) \/ WaitTimeout(c)
  <2>1. PICK e \in Errors : job' = [job EXCEPT ![c].err = e] /\ Goto(c, "undo")
    BY <1>6 DEF SendFail, WaitTimeout, Errors
  <2>2. /\ pc'[c] = "undo" /\ job'[c].call = job[c].call
        /\ job'[c].again = job[c].again /\ job'[c].auth = job[c].auth
    BY <2>1, <1>0 DEF Goto, Job
  <2>3. Sent(c) => Sent(c)'
    BY <2>2 DEF Sent
  <2>4. CASE ~Send(c)
    BY <2>2, <2>3, <2>4, <1>a, <1>b
  <2>5. CASE Send(c)
    BY <2>5, <1>5
  <2>6. QED
    BY <2>4, <2>5
<1>7. CASE Receive(c)
  <2>0. ~Send(c)
    BY <1>7, <1>d DEF Receive
  <2>1. PICK a \in AnswersTo(c) :
          \/ a.err # "none" /\ Fail(c, a.err) /\ UNCHANGED cache
          \/ /\ a.err = "none" /\ job[c].auth
             /\ Store(job[c].conn)
             /\ job' = [job EXCEPT ![c].auth = FALSE, ![c].id = 0]
             /\ Goto(c, "check")
          \/ a.err = "none" /\ ~job[c].auth /\ Return(c) /\ UNCHANGED caching
    BY <1>7 DEF Receive
  <2>2. a.err \in Errors
    BY DEF TypeInv, TypeOK, AnswersTo, ConnsTypeOK, Reply
  <2>3. CASE Fail(c, a.err)
    BY <2>0, <2>2, <2>3, <1>a, <1>c
  <2>4. CASE job' = [job EXCEPT ![c].auth = FALSE, ![c].id = 0] /\ job[c].auth
    <3>1. job'[c].call = job[c].call /\ job'[c].again = job[c].again
      BY <2>4, <1>0 DEF Job
    <3>2. ~Sent(c)
      BY <2>4 DEF Sent
    <3>3. QED
      BY <2>0, <3>1, <3>2, <1>a, <1>b
  <2>5. CASE Return(c)
    BY <2>5, <1>0, <1>a DEF Return
  <2>6. QED
    BY <2>1, <2>3, <2>4, <2>5
<1>8. CASE Undo(c)
  <2>1. ~Send(c) /\ job[c].err \in Errors /\ Fail(c, job[c].err)
    BY <1>8, <1>0, <1>d DEF Undo, Job
  <2>2. QED
    BY <2>1, <1>a, <1>c
<1>9. QED
  BY <1>1, <1>2, <1>3, <1>4, <1>5, <1>6, <1>7, <1>8 DEF Call

LEMMA EndsIdle ==
  ASSUME TypeInv, NEW c \in Callers, Call(c), pc'[c] = "idle"
  PROVE  job'[c] = NoJob
<1>0. /\ pc \in [Callers -> Labels] /\ job \in [Callers -> Job] /\ job[c] \in Job
  BY DEF TypeInv, TypeOK, CallersTypeOK
<1>a. ASSUME NEW err \in Errors, Fail(c, err)
      PROVE  job'[c] = NoJob
  BY <1>a, <1>0, FailMoves DEF Moves
<1>b. Return(c) => job'[c] = NoJob
  BY <1>0 DEF Return
<1>c. ASSUME NEW l, Goto(c, l)
      PROVE  l = "idle"
  BY <1>c, <1>0 DEF Goto
<1>1. CASE \/ EnsureCached(c) \/ EnsureLock(c) \/ Connect(c) \/ Insert(c) \/ Send(c)
           \/ SendFail(c) \/ WaitTimeout(c)
  <2>1. \E l \in Labels \ {"idle"} : Goto(c, l)
    BY <1>1 DEF EnsureCached, EnsureLock, Connect, Insert, Send, SendFail, WaitTimeout, Labels
  <2>2. QED
    BY <2>1, <1>c
<1>2. CASE ConnectFail(c)
  BY <1>2, <1>b DEF ConnectFail
<1>3. CASE DropClient(c)
  <2>1. Goto(c, "ensure") \/ Return(c)
    BY <1>3, Zenon DEF DropClient
  <2>2. QED
    BY <2>1, <1>b, <1>c
<1>4. CASE Check(c)
  <2>1. CASE Draws(c)
    BY <2>1, <1>0 DEF Draws, Moves
  <2>2. QED
    BY <1>4, <2>1, <1>a, CheckDraws DEF Errors
<1>5. CASE Receive(c)
  <2>1. PICK a \in AnswersTo(c) : Fail(c, a.err) \/ Goto(c, "check") \/ Return(c)
    BY <1>5 DEF Receive
  <2>2. a.err \in Errors
    BY DEF TypeInv, TypeOK, AnswersTo, ConnsTypeOK, Reply
  <2>3. QED
    BY <2>1, <2>2, <1>a, <1>b, <1>c
<1>6. CASE Undo(c)
  BY <1>6, <1>0, <1>a DEF Undo, Job
<1>7. QED
  BY <1>1, <1>2, <1>3, <1>4, <1>5, <1>6 DEF Call

(* The three ways a caller can be touched by a step. *)
LEMMA CallersStep ==
  ASSUME [Next]_vars
  PROVE  \/ UNCHANGED callers
         \/ \E c \in Callers : Call(c)
         \/ \E c \in Callers, b \in BOOLEAN : Begin(c, b)
<1>1. ASSUME NEW n \in ConnIds, Tasks(n) \/ LinkDown(n)
      PROVE  UNCHANGED callers
  BY <1>1 DEF Tasks, Write, WriteError, WriterIdle, WriterMark, ReadReply, ReadEnd, ReaderMark, LinkDown
<1>2. ASSUME NEW r \in got, NEW e \in Outcomes, Execute(r, e)
      PROVE  UNCHANGED callers
  BY <1>2 DEF Execute
<1>3. CASE ResetBySettings \/ UNCHANGED vars
  BY <1>3 DEF ResetBySettings, vars
<1>4. QED
  BY <1>1, <1>2, <1>3 DEF Next

LEMMA SpentType ==
  ASSUME NEW c
  PROVE  /\ Spent(c) \in 0..2 /\ Spent(c)' \in 0..2
         /\ ~job'[c].again => Spent(c)' <= 1
         /\ pc'[c] = pc[c] /\ job'[c] = job[c] => Spent(c)' = Spent(c)
  BY DEF Spent, Tried

Starts(c) ==
  /\ job'[c].call = calls + 1 /\ calls' = calls + 1 /\ pc[c] = "idle"
  /\ job'[c].again = job[c].again
  /\ \A d \in Callers : d # c => job'[d] = job[d]
Continues(c) ==
  /\ job'[c].call = job[c].call
  /\ job'[c].again => job[c].again \/ job[c].call \in repeatable
  /\ Spent(c)' >= Spent(c)

LEMMA JobStep ==
  ASSUME TypeInv, [Next]_vars, NEW c \in Callers
  PROVE  /\ job'[c].call = 0 \/ Continues(c) \/ Starts(c)
         /\ pc'[c] = "idle" => job'[c] = NoJob \/ (pc[c] = "idle" /\ job'[c] = job[c])
         /\ repeatable \subseteq repeatable' /\ calls' \in Nat /\ calls' >= calls
<1>0. /\ pc \in [Callers -> Labels] /\ job \in [Callers -> Job] /\ calls \in Nat
  BY RemoteAssumption DEF TypeInv, TypeOK, CallersTypeOK
<1>1. pc'[c] = pc[c] /\ job'[c] = job[c] => Continues(c)
  BY SpentType DEF Continues
<1>2. CASE UNCHANGED callers
  BY <1>0, <1>1, <1>2 DEF callers
<1>3. ASSUME NEW d \in Callers, Call(d)
      PROVE  /\ job'[c].call = 0 \/ Continues(c)
             /\ pc'[c] = "idle" => job'[c] = NoJob \/ (pc[c] = "idle" /\ job'[c] = job[c])
             /\ UNCHANGED <<calls, repeatable>>
  <2>1. UNCHANGED <<calls, repeatable>>
    BY <1>3, GoesOnOrEnds
  <2>2. CASE d = c
    <3>1. job'[c] = NoJob \/ GoesOn(c)
      BY <1>3, <2>2, GoesOnOrEnds
    <3>2. job'[c].call = 0 \/ Continues(c)
      BY <3>1 DEF NoJob, GoesOn, Continues
    <3>3. QED
      BY <2>1, <2>2, <3>2, <1>3, EndsIdle
  <2>3. CASE d # c
    <3>1. pc'[c] = pc[c] /\ job'[c] = job[c]
      BY <1>3, <2>3, OneMoves
    <3>2. QED
      BY <2>1, <3>1, <1>1
  <2>4. QED
    BY <2>2, <2>3
<1>4. ASSUME NEW d \in Callers, NEW b \in BOOLEAN, Begin(d, b)
      PROVE  /\ Continues(c) \/ Starts(c)
             /\ pc'[c] = "idle" => pc[c] = "idle" /\ job'[c] = job[c]
             /\ repeatable \subseteq repeatable' /\ calls' = calls + 1
  <2>1. /\ pc[d] = "idle" /\ pc' = [pc EXCEPT ![d] = "ensure"] /\ calls' = calls + 1
        /\ job' = [job EXCEPT ![d].call = calls + 1] /\ repeatable \subseteq repeatable'
    BY <1>4 DEF Begin, Goto
  <2>2. CASE d = c
    <3>1. job[c] \in Job
      BY <1>0
    <3>2. job'[c].call = calls + 1 /\ job'[c].again = job[c].again
      BY <2>1, <2>2, <3>1, <1>0 DEF Job
    <3>3. \A e \in Callers : e # c => job'[e] = job[e]
      BY <2>1, <2>2, <1>0
    <3>4. pc'[c] = "ensure"
      BY <2>1, <2>2, <1>0
    <3>5. QED
      BY <2>1, <2>2, <3>2, <3>3, <3>4 DEF Starts
  <2>3. CASE d # c
    <3>1. pc'[c] = pc[c] /\ job'[c] = job[c]
      BY <2>1, <2>3, <1>0
    <3>2. QED
      BY <2>1, <3>1, <1>1
  <2>4. QED
    BY <2>2, <2>3
<1>5. QED
  BY <1>0, <1>2, <1>3, <1>4, CallersStep

LEMMA OwnersStep ==
  ASSUME TypeInv, OwnersOK, [Next]_vars
  PROVE  OwnersOK'
<1>0. \A c \in Callers : job[c].call \in Nat /\ calls \in Nat /\ job[c].call <= calls
  BY RemoteAssumption DEF TypeInv, TypeOK, CallersTypeOK, Job, OwnersOK
<1>1. \A c \in Callers : job'[c].call <= calls'
  BY <1>0, JobStep DEF Continues, Starts
<1>2. ASSUME NEW c \in Callers, NEW d \in Callers, job'[c].call # 0, job'[c].call = job'[d].call
      PROVE  c = d
  <2>1. (Continues(c) \/ Starts(c)) /\ (Continues(d) \/ Starts(d))
    BY <1>2, JobStep
  <2>2. CASE Continues(c) /\ Continues(d)
    BY <1>2, <2>2 DEF Continues, OwnersOK
  <2>3. CASE Starts(c)
    <3>1. d # c => job'[d] = job[d] /\ job'[d].call = calls + 1
      BY <1>2, <2>3 DEF Starts
    <3>2. QED
      BY <3>1, <1>0
  <2>4. CASE Starts(d)
    <3>1. d # c => job'[c] = job[c] /\ job'[c].call = calls + 1
      BY <1>2, <2>4 DEF Starts
    <3>2. QED
      BY <3>1, <1>0
  <2>5. QED
    BY <2>1, <2>2, <2>3, <2>4
<1>3. ASSUME NEW c \in Callers, job'[c].again, job'[c].call # 0
      PROVE  job'[c].call \in repeatable'
  <2>1. repeatable \subseteq repeatable'
    BY JobStep
  <2>2. CASE Continues(c)
    <3>1. job'[c].call = job[c].call /\ (job[c].again \/ job[c].call \in repeatable)
      BY <1>3, <2>2 DEF Continues
    <3>2. QED
      BY <1>3, <2>1, <3>1 DEF OwnersOK
  <2>3. CASE Starts(c)
    BY <1>3, <2>3 DEF Starts, OwnersOK
  <2>4. QED
    BY <1>3, <2>2, <2>3, JobStep
<1>4. \A c \in Callers : pc'[c] = "idle" => ~job'[c].again
  BY JobStep DEF NoJob, OwnersOK
<1>5. QED
  BY <1>1, <1>2, <1>3, <1>4 DEF OwnersOK

(* No call has lines or executions before it began. *)
LEMMA BegunStep ==
  ASSUME TypeInv, TicketsOK, LinesOK, OwnersOK, BegunOK, [Next]_vars
  PROVE  BegunOK'
<1>0. calls \in Nat /\ calls' \in Nat /\ calls' >= calls
  <2>1. calls \in Nat
    BY RemoteAssumption DEF TypeInv, TypeOK, CallersTypeOK
  <2>2. CASE UNCHANGED callers
    BY <2>1, <2>2 DEF callers
  <2>3. ASSUME NEW c \in Callers
        PROVE  calls' \in Nat /\ calls' >= calls
    BY JobStep
  <2>4. QED
    BY <2>1, <2>2, <2>3, CallersStep
<1>1. \A t \in Request : t.call \in Int
  BY RemoteAssumption DEF Request
<1>2. CASE \E c \in Callers : Send(c)
  <2>1. PICK c \in Callers : Send(c)
    BY <1>2
  <2>2. /\ executed' = executed
        /\ \A t \in Request : Line(t)' => Line(t) \/ t = RequestOf(c)
    BY <2>1, SendLine
  <2>3. RequestOf(c).call <= calls
    BY <1>0 DEF RequestOf, OwnersOK
  <2>4. \A t \in Request : Line(t)' => t.call <= calls
    BY <2>2, <2>3 DEF BegunOK
  <2>5. QED
    BY <1>0, <1>1, <2>2, <2>4 DEF BegunOK, CallIds
<1>3. CASE \E r \in got, e \in Outcomes : Execute(r, e)
  <2>1. PICK r \in got, e \in Outcomes : Execute(r, e)
    BY <1>3
  <2>2. r \in Request /\ Line(r) /\ \A t \in Request : Line(t)' => Line(t)
    BY <2>1, ExecuteLine
  <2>3. r.call <= calls
    BY <2>2 DEF BegunOK
  <2>4. \A t \in Request : Line(t)' => t.call <= calls'
    BY <1>0, <1>1, <2>2 DEF BegunOK
  <2>5. ASSUME NEW k \in CallIds, k > calls'
        PROVE  executed'[k] = 0
    <3>1. k \in Nat /\ k > calls /\ k # r.call
      BY <1>0, <1>1, <2>2, <2>3, <2>5 DEF CallIds
    <3>2. executed' = [i \in CallIds |-> executed[i] + IF i = r.call THEN 1 ELSE 0]
      BY <2>1 DEF Execute
    <3>3. executed'[k] = executed[k] + 0
      BY <3>1, <3>2
    <3>4. QED
      BY <3>1, <3>3 DEF BegunOK
  <2>6. QED
    BY <2>4, <2>5 DEF BegunOK
<1>4. CASE /\ \A c \in Callers : ~Send(c)
           /\ \A r \in got, e \in Outcomes : ~Execute(r, e)
  <2>1. executed' = executed /\ \A t \in Request : Line(t)' => Line(t)
    BY <1>4, QuietLines
  <2>2. QED
    BY <1>0, <1>1, <2>1 DEF BegunOK, CallIds
<1>5. QED
  BY <1>2, <1>3, <1>4

(* Any step but the sending of a line leaves no call heavier than it was. *)
LEMMA WeightStep ==
  ASSUME TypeInv, TicketsOK, LinesOK, [Next]_vars, \A c \in Callers : ~Send(c),
         NEW k \in CallIds, IsFiniteSet(Lines(k))
  PROVE  /\ IsFiniteSet(Lines(k)') /\ Weight(k)' <= Weight(k)
         /\ Weight(k) \in Nat /\ Weight(k)' \in Nat
<1>1. CASE \E r \in got, e \in Outcomes : Execute(r, e)
  BY <1>1, WeightExecuted
<1>2. CASE \A r \in got, e \in Outcomes : ~Execute(r, e)
  <2>1. executed' = executed /\ \A t \in Request : Line(t)' => Line(t)
    BY <1>2, QuietLines
  <2>2. QED
    BY <2>1, WeightFewer
<1>3. QED
  BY <1>1, <1>2

LEMMA BoundType ==
  ASSUME NEW k
  PROVE  /\ Bound(k) \in {1, 2} /\ Bound(k)' \in {1, 2}
         /\ repeatable \subseteq repeatable' => Bound(k) <= Bound(k)'
  BY DEF Bound

(* What its caller has spent on a call is within its bound. *)
LEMMA SpentBound ==
  ASSUME OwnersOK', NEW c \in Callers, NEW k, k # 0, job'[c].call = k
  PROVE  Spent(c)' <= Bound(k)'
<1>1. CASE job'[c].again
  <2>1. k \in repeatable'
    BY <1>1 DEF OwnersOK
  <2>2. Bound(k)' = 2
    BY <2>1 DEF Bound
  <2>3. QED
    BY <2>2, SpentType
<1>2. CASE ~job'[c].again
  BY <1>2, SpentType, BoundType
<1>3. QED
  BY <1>1, <1>2

LEMMA CountStep ==
  ASSUME TypeInv, TicketsOK, LinesOK, OwnersOK, BegunOK, CountOK, [Next]_vars
  PROVE  CountOK'
<1>0. OwnersOK' /\ BegunOK'
  BY OwnersStep, BegunStep
<1>a. /\ \A c \in Callers : job[c].call \in 0..MaxCalls /\ job'[c].call \in 0..MaxCalls
      /\ calls \in 0..MaxCalls
  BY TypeInvStep DEF TypeInv, TypeOK, CallersTypeOK, Job
<1>b. \A k \in 0..MaxCalls : k # 0 => k \in CallIds
  BY RemoteAssumption DEF CallIds
<1>1. ASSUME NEW c \in Callers, Send(c), NEW k \in CallIds
      PROVE  /\ IsFiniteSet(Lines(k)') /\ Weight(k)' <= Bound(k)'
             /\ \A d \in Callers : job'[d].call = k => Weight(k)' <= Spent(d)'
  <2>0. /\ pc[c] = "send" /\ job' = job /\ UNCHANGED <<calls, repeatable>>
        /\ Bound(k)' = Bound(k) /\ k # 0
    BY <1>1, RemoteAssumption DEF Send, Bound, CallIds
  <2>1. IsFiniteSet(Lines(k)) /\ Weight(k) <= Bound(k)
    BY DEF CountOK
  <2>2. /\ executed' = executed
        /\ \A t \in Request : Line(t)' => Line(t) \/ t = RequestOf(c)
    BY <1>1, SendLine
  <2>3. Call(c)
    BY <1>1 DEF Call
  <2>4. \A d \in Callers : d # c => Spent(d)' = Spent(d)
    BY <2>3, OneMoves, SpentType
  <2>5. CASE RequestOf(c).call = k
    <3>1. job[c].call = k /\ ~job[c].auth
      BY <2>0, <2>5 DEF RequestOf
    <3>2. /\ IsFiniteSet(Lines(k)') /\ Weight(k)' <= Weight(k) + 1
          /\ Weight(k) \in Nat /\ Weight(k)' \in Nat
      BY <2>1, <2>2, WeightMore
    <3>3. Weight(k) <= Spent(c)
      BY <2>0, <3>1 DEF CountOK
    <3>4. Spent(c)' >= Spent(c) + 1
      <4>1. job'[c] # NoJob
        BY <2>0, <3>1 DEF NoJob
      <4>2. GoesOn(c)
        BY <2>3, <4>1, GoesOnOrEnds
      <4>3. QED
        BY <1>1, <3>1, <4>2 DEF GoesOn
    <3>5. Weight(k)' <= Spent(c)'
      BY <3>2, <3>3, <3>4, SpentType
    <3>6. Spent(c)' <= Bound(k)'
      BY <1>0, <2>0, <3>1, SpentBound
    <3>7. Weight(k)' <= Bound(k)'
      BY <3>2, <3>5, <3>6, SpentType, BoundType
    <3>8. \A d \in Callers : job'[d].call = k => d = c
      BY <2>0, <3>1 DEF OwnersOK
    <3>9. QED
      BY <3>2, <3>5, <3>7, <3>8
  <2>6. CASE RequestOf(c).call # k
    <3>1. /\ IsFiniteSet(Lines(k)') /\ Weight(k)' <= Weight(k)
          /\ Weight(k) \in Nat /\ Weight(k)' \in Nat
      BY <2>1, <2>2, <2>6, WeightFewer
    <3>2. Weight(k)' <= Bound(k)'
      BY <2>0, <2>1, <3>1, BoundType
    <3>3. ASSUME NEW d \in Callers, job'[d].call = k
          PROVE  Weight(k)' <= Spent(d)'
      <4>1. Continues(d)
        BY <2>0, <3>3, <1>a, JobStep DEF Starts
      <4>2. Spent(d)' >= Spent(d) /\ Weight(k) <= Spent(d)
        BY <2>0, <3>3, <4>1 DEF Continues, CountOK
      <4>3. QED
        BY <3>1, <4>2, SpentType
    <3>4. QED
      BY <3>1, <3>2, <3>3
  <2>7. QED
    BY <2>5, <2>6
<1>2. ASSUME \A c \in Callers : ~Send(c), NEW k \in CallIds
      PROVE  /\ IsFiniteSet(Lines(k)') /\ Weight(k)' <= Bound(k)'
             /\ \A d \in Callers : job'[d].call = k => Weight(k)' <= Spent(d)'
  <2>0. k # 0
    BY RemoteAssumption DEF CallIds
  <2>1. IsFiniteSet(Lines(k)) /\ Weight(k) <= Bound(k)
    BY DEF CountOK
  <2>2. /\ IsFiniteSet(Lines(k)') /\ Weight(k)' <= Weight(k)
        /\ Weight(k) \in Nat /\ Weight(k)' \in Nat
    BY <1>2, <2>1, WeightStep
  <2>3. Bound(k) <= Bound(k)'
    <3>1. repeatable \subseteq repeatable'
      <4>1. CASE UNCHANGED callers
        BY <4>1 DEF callers
      <4>2. ASSUME NEW c \in Callers
            PROVE  repeatable \subseteq repeatable'
        BY JobStep
      <4>3. QED
        BY <4>1, <4>2, CallersStep
    <3>2. QED
      BY <3>1, BoundType
  <2>4. Weight(k)' <= Bound(k)'
    BY <2>1, <2>2, <2>3, BoundType
  <2>5. ASSUME NEW d \in Callers, job'[d].call = k
        PROVE  Weight(k)' <= Spent(d)'
    <3>1. CASE Continues(d)
      <4>1. Spent(d)' >= Spent(d) /\ Weight(k) <= Spent(d)
        BY <2>0, <2>5, <3>1 DEF Continues, CountOK
      <4>2. QED
        BY <2>2, <4>1, SpentType
    <3>2. CASE Starts(d)
      <4>1. k = calls + 1 /\ k > calls
        BY <2>5, <3>2, <1>a DEF Starts
      <4>2. executed[k] = 0
        BY <4>1 DEF BegunOK
      <4>3. \A t \in Request : ~(t.call = k /\ Line(t))
        BY <4>1, <1>a DEF BegunOK
      <4>4. Lines(k) = {}
        BY <4>3 DEF Lines
      <4>5. Cardinality(Lines(k)) = 0
        BY <4>4, FS_EmptySet
      <4>6. Weight(k) = 0
        BY <4>2, <4>5 DEF Weight
      <4>7. QED
        BY <2>2, <4>6, SpentType
    <3>3. QED
      BY <2>0, <2>5, <3>1, <3>2, JobStep
  <2>6. QED
    BY <2>2, <2>4, <2>5
<1>3. \A k \in CallIds :
        /\ IsFiniteSet(Lines(k)') /\ Weight(k)' <= Bound(k)'
        /\ \A d \in Callers : job'[d].call = k => Weight(k)' <= Spent(d)'
  BY <1>1, <1>2
<1>4. QED
  BY <1>3, <1>a, <1>b DEF CountOK

LEMMA CountInit == Init => OwnersOK /\ BegunOK /\ CountOK
<1> SUFFICES ASSUME Init PROVE OwnersOK /\ BegunOK /\ CountOK
  OBVIOUS
<1>1. \A c \in Callers : job[c] = NoJob
  BY DEF Init
<1>2. OwnersOK
  BY <1>1 DEF OwnersOK, NoJob, Init
<1>3. \A t \in Request : ~Line(t)
  BY DEF Init, Line, Queued
<1>4. BegunOK
  BY <1>3 DEF BegunOK, Init
<1>5. ASSUME NEW k \in CallIds
      PROVE  IsFiniteSet(Lines(k)) /\ Weight(k) = 0
  <2>1. Lines(k) = {}
    BY <1>3 DEF Lines
  <2>2. IsFiniteSet(Lines(k)) /\ Cardinality(Lines(k)) = 0
    BY <2>1, FS_EmptySet
  <2>3. executed[k] = 0
    BY DEF Init
  <2>4. QED
    BY <2>2, <2>3 DEF Weight
<1>6. \A c \in Callers : job[c].call = 0
  <2>1. NoJob.call = 0
    BY DEF NoJob
  <2>2. QED
    BY <1>1, <2>1
<1>7. \A k \in CallIds : IsFiniteSet(Lines(k)) /\ Weight(k) <= Bound(k)
  <2>1. ASSUME NEW k \in CallIds
        PROVE  IsFiniteSet(Lines(k)) /\ Weight(k) <= Bound(k)
    <3>1. Bound(k) \in {1, 2}
      BY BoundType
    <3>2. QED
      BY <1>5, <3>1
  <2>2. QED
    BY <2>1
<1>8. CountOK
  BY <1>6, <1>7 DEF CountOK
<1>9. QED
  BY <1>2, <1>4, <1>8

CountInv == LinesOK /\ OwnersOK /\ BegunOK /\ CountOK

LEMMA CountHolds == Spec => [](TypeInv /\ TicketsOK /\ CountInv)
<1>1. Init => CountInv
  BY LinesInit, CountInit DEF CountInv
<1>2. TypeInv /\ TicketsOK /\ CountInv /\ [Next]_vars => CountInv'
  BY LinesStep, OwnersStep, BegunStep, CountStep DEF CountInv
<1>3. QED
  BY <1>1, <1>2, TicketsHold, PTL DEF Spec

(* can_retry_after_disconnect and call_remote's one retry: a call that may  *)
(* not be repeated is executed at most once, any other at most twice,       *)
(* however the connections fail.                                            *)
THEOREM ExecutedAtMostOnce == Spec => []AtMostOnce
<1>1. ASSUME TypeInv, CountInv PROVE AtMostOnce
  <2>1. ASSUME NEW k \in CallIds
        PROVE  executed[k] <= Bound(k)
    <3>1. executed[k] \in Nat
      BY <1>1 DEF TypeInv, TypeOK, DaemonTypeOK
    <3>2. IsFiniteSet(Lines(k)) /\ Weight(k) <= Bound(k)
      BY <1>1 DEF CountInv, CountOK
    <3>3. Cardinality(Lines(k)) \in Nat
      BY <3>2, FS_CardinalityType
    <3>4. QED
      BY <3>1, <3>2, <3>3, BoundType DEF Weight
  <2>2. QED
    BY <2>1 DEF AtMostOnce, Bound
<1>2. QED
  BY <1>1, CountHolds, PTL

=============================================================================
