---------------------- MODULE AppServerSession_proofs ----------------------
(***************************************************************************)
(* Theorems about backend/app_server.rs.  AppServerSession, for every set   *)
(* of callers and every bound: types, then what becomes of the calls when   *)
(* the output ends.  ThreadRouting, behind them: where the threads' events  *)
(* go.                                                                     *)
(***************************************************************************)
EXTENDS AppServerSession, TLAPS

TypeInv == TypeOK /\ CallsOK

LEMMA TypeInvInit == Init => TypeInv
<1> SUFFICES ASSUME Init PROVE TypeInv
  OBVIOUS
<1>1. TableTypeOK
  BY DEF Init, TableTypeOK
<1>2. PipeTypeOK
  BY DEF Init, PipeTypeOK
<1>3. CallersTypeOK
  BY TableBoundsAssumption DEF Init, CallersTypeOK, Job, NoJob, Labels
<1>4. ReaderTypeOK
  BY DEF Init, ReaderTypeOK, Line, NoLine
<1>5. ServerTypeOK
  BY DEF Init, ServerTypeOK
<1>6. OneshotTypeOK
  BY DEF Init, OneshotTypeOK
<1>7. CallsOK
  BY DEF Init, CallsOK
<1>8. QED
  BY <1>1, <1>2, <1>3, <1>4, <1>5, <1>6, <1>7 DEF TypeInv, TypeOK

(* What spawn_workspace_session makes of a result is a phase again, and a   *)
(* session that was given up stays so.                                      *)
LEMMA ProceedStep ==
  ASSUME NEW c, NEW ok, Proceed(c, ok), CallersTypeOK
  PROVE  /\ phase' \in {"spawn", "notify", "ready", "kill", "failed"}
         /\ phase \in {"kill", "failed"} => phase' = phase
  BY DEF Proceed, CallersTypeOK

(* One step of a caller keeps the callers' types and what they carry. *)
LEMMA CallerMove ==
  ASSUME TypeInv, NEW c \in Callers, NEW l \in Labels, Goto(c, l),
         l \in {"idle", "lock", "write"} \/ job[c].call # 0,
         UNCHANGED <<job, calls, notes, returned>>,
         phase' \in {"spawn", "notify", "ready", "kill", "failed"}
  PROVE  /\ CallersTypeOK'
         /\ \A d \in Callers : pc'[d] \notin {"idle", "lock", "write"} => job'[d].call # 0
BY DEF TypeInv, TypeOK, CallersTypeOK, Goto, CallsOK

LEMMA CallerReturns ==
  ASSUME TypeInv, NEW c \in Callers, NEW of \in 0..MaxCalls, Return(c, of),
         UNCHANGED <<calls, notes>>
  PROVE  /\ CallersTypeOK'
         /\ \A d \in Callers : pc'[d] \notin {"idle", "lock", "write"} => job'[d].call # 0
BY TableBoundsAssumption, ProceedStep DEF TypeInv, TypeOK, CallersTypeOK, Goto, Return,
   Labels, NoJob, Job, CallsOK

CarriedOK == \A c \in Callers : pc[c] \notin {"idle", "lock", "write"} => job[c].call # 0
ServerInv == ServerTypeOK /\ (\A r \in got : r.call # 0)
               /\ \A i \in DOMAIN stdout : stdout[i].type = "response" => stdout[i].of # 0
ReaderInv == ReaderTypeOK /\ (reader = "deliver" => held.of # 0)

(* A part of the state that is left alone keeps its invariant. *)
LEMMA Frame ==
  /\ UNCHANGED table /\ TableTypeOK => TableTypeOK'
  /\ UNCHANGED pipe /\ PipeTypeOK => PipeTypeOK'
  /\ UNCHANGED <<phase, callers>> /\ CallersTypeOK /\ CarriedOK => CallersTypeOK' /\ CarriedOK'
  /\ UNCHANGED <<stdout, server>> /\ ServerInv => ServerInv'
  /\ UNCHANGED reading /\ ReaderInv => ReaderInv'
  /\ UNCHANGED oneshot /\ OneshotTypeOK => OneshotTypeOK'
<1>1. UNCHANGED table /\ TableTypeOK => TableTypeOK'
  BY DEF table, TableTypeOK
<1>2. UNCHANGED pipe /\ PipeTypeOK => PipeTypeOK'
  BY DEF pipe, PipeTypeOK
<1>3. UNCHANGED <<phase, callers>> /\ CallersTypeOK /\ CarriedOK => CallersTypeOK' /\ CarriedOK'
  BY DEF callers, CallersTypeOK, CarriedOK
<1>4. UNCHANGED <<stdout, server>> /\ ServerInv => ServerInv'
  BY DEF server, ServerInv, ServerTypeOK
<1>5. UNCHANGED reading /\ ReaderInv => ReaderInv'
  BY DEF reading, ReaderInv, ReaderTypeOK
<1>6. UNCHANGED oneshot /\ OneshotTypeOK => OneshotTypeOK'
  BY DEF oneshot, OneshotTypeOK
<1>7. QED
  BY <1>1, <1>2, <1>3, <1>4, <1>5, <1>6

LEMMA TypeInvParts ==
  /\ TypeInv <=> /\ TableTypeOK /\ PipeTypeOK /\ CallersTypeOK /\ CarriedOK
                 /\ ReaderInv /\ ServerInv /\ OneshotTypeOK
  /\ TypeInv' <=> /\ TableTypeOK' /\ PipeTypeOK' /\ CallersTypeOK' /\ CarriedOK'
                  /\ ReaderInv' /\ ServerInv' /\ OneshotTypeOK'
  BY DEF TypeInv, TypeOK, CallsOK, CarriedOK, ReaderInv, ServerInv

LEMMA TypeInvCallers ==
  ASSUME TypeInv, NEW c \in Callers, Begin(c) \/ BeginNote(c) \/ Call(c) \/ TimeOut(c)
  PROVE  TypeInv'
<1> USE TypeInvParts
<1>0. /\ TableTypeOK /\ PipeTypeOK /\ CallersTypeOK /\ CarriedOK
      /\ ReaderInv /\ ServerInv /\ OneshotTypeOK
  OBVIOUS
<1>1. job[c] \in Job /\ pc[c] \in Labels
  BY DEF CallersTypeOK
<1>2. CASE Begin(c)
  BY <1>2, <1>0, TableBoundsAssumption, Frame DEF Begin, Goto, NextId, TableTypeOK,
     CallersTypeOK, Job, Labels, CarriedOK
<1>3. CASE Register(c)
  BY <1>3, <1>0, <1>1, TableBoundsAssumption, CallerMove, Frame DEF Register, CarriedOK, Job,
     CallIds, TableTypeOK, With, Labels, CallersTypeOK
<1>4. CASE AddContext(c)
  BY <1>4, <1>0, <1>1, CallerMove, Frame DEF AddContext, TableTypeOK, Job, Labels,
     CallersTypeOK, CarriedOK
<1>5. CASE BeginNote(c)
  BY <1>5, <1>0, Frame DEF BeginNote, CallersTypeOK, Labels, Goto, CarriedOK
<1>6. CASE LockStdin(c)
  BY <1>6, <1>0, CallerMove, Frame DEF LockStdin, PipeTypeOK, Labels, CallersTypeOK, CarriedOK
<1>7. CASE Write(c)
  <2>1. /\ UNCHANGED <<table, reading, stdout, server, oneshot>>
        /\ UNCHANGED <<job, calls, notes, returned>>
        /\ stdin' = Append(stdin, job[c]) /\ stdin_owner' = {}
    BY <1>7 DEF Write
  <2>2. PipeTypeOK'
    BY <2>1, <1>0, <1>1 DEF PipeTypeOK
  <2>3. CASE job[c].call # 0
    BY <2>3, <1>7, <2>1, <1>0, CallerMove, <2>2, Frame DEF Write, Labels, CallersTypeOK,
       CarriedOK
  <2>4. CASE job[c].call = 0
    BY <2>4, <1>7, <2>1, <1>0, CallerMove, ProceedStep, <2>2, Frame DEF Write, Labels, CarriedOK
  <2>5. QED
    BY <2>3, <2>4
<1>8. CASE WriteError(c)
  BY <1>8, <1>0, CallerMove, Frame, ProceedStep DEF WriteError, PipeTypeOK, Labels,
     CallersTypeOK, CarriedOK
<1>9. CASE ReceiveValue(c)
  BY <1>9, <1>0, <1>1, TableBoundsAssumption, CallerReturns, Frame DEF ReceiveValue, CarriedOK,
     Job, CallIds, OneshotTypeOK
<1>10. CASE ReceiveCanceled(c)
  BY <1>10, CallerReturns, TableBoundsAssumption, <1>0, Frame DEF ReceiveCanceled, CarriedOK
<1>11. CASE UndoPending(c)
  BY <1>11, <1>0, CallerMove, Frame DEF UndoPending, TableTypeOK, Without, Labels,
     CallersTypeOK, CarriedOK
<1>12. CASE UndoContext(c)
  <2>1. /\ UNCHANGED <<pipe, reading, stdout, server, oneshot>>
        /\ UNCHANGED <<calls, notes, next_id, pending>> /\ Return(c, 0)
        /\ request_context' = request_context \ {job[c].id}
    BY <1>12 DEF UndoContext
  <2>2. TableTypeOK'
    BY <2>1, <1>0 DEF TableTypeOK
  <2>3. CallersTypeOK' /\ CarriedOK'
    BY <2>1, CallerReturns, TableBoundsAssumption DEF CarriedOK
  <2>4. QED
    BY <2>1, <2>2, <2>3, <1>0, Frame
<1>13. CASE TimeOut(c)
  BY <1>13, <1>0, CallerMove, Frame DEF TimeOut, Labels, CallersTypeOK, CarriedOK
<1>14. QED
  BY <1>2, <1>3, <1>4, <1>5, <1>6, <1>7, <1>8, <1>9, <1>10, <1>11, <1>12, <1>13 DEF Call

LEMMA TypeInvSpawn ==
  ASSUME TypeInv, AbandonInitialize \/ KillChild
  PROVE  TypeInv'
<1> USE TypeInvParts
<1>0. /\ TableTypeOK /\ PipeTypeOK /\ CallersTypeOK /\ CarriedOK
      /\ ReaderInv /\ ServerInv /\ OneshotTypeOK
  OBVIOUS
<1>1. CASE AbandonInitialize
  <2>1. /\ UNCHANGED <<table, reading, stdout, server, oneshot>>
        /\ UNCHANGED <<stdin, calls, notes, returned>>
        /\ phase' = "kill" /\ stdin_owner' = stdin_owner \ {Spawner}
        /\ pc' = [pc EXCEPT ![Spawner] = "idle"] /\ job' = [job EXCEPT ![Spawner] = NoJob]
    BY <1>1 DEF AbandonInitialize, Goto
  <2>2. PipeTypeOK'
    BY <2>1, <1>0 DEF PipeTypeOK
  <2>3. "idle" \in Labels /\ NoJob \in Job
    BY TableBoundsAssumption DEF Labels, NoJob, Job
  <2>4. pc' \in [Callers -> Labels] /\ job' \in [Callers -> Job]
    BY <2>1, <2>3, <1>0 DEF CallersTypeOK
  <2>5. CallersTypeOK'
    BY <2>1, <2>4, <1>0 DEF CallersTypeOK
  <2>6. CarriedOK'
    BY <2>1, <1>0 DEF CallersTypeOK, CarriedOK
  <2>7. QED
    BY <2>1, <2>2, <2>5, <2>6, <1>0, Frame
<1>2. CASE KillChild
  BY <1>2, <1>0, Frame DEF KillChild, callers, CallersTypeOK, CarriedOK, ServerInv, ServerTypeOK
<1>3. QED
  BY <1>1, <1>2

LEMMA TailKeeps ==
  ASSUME ServerInv, stdout # <<>>, stdout' = Tail(stdout), UNCHANGED server
  PROVE  ServerInv'
BY DEF ServerInv, ServerTypeOK, server

LEMMA TypeInvReader ==
  ASSUME TypeInv, Reader
  PROVE  TypeInv'
<1> USE TypeInvParts
<1>0. /\ TableTypeOK /\ PipeTypeOK /\ CallersTypeOK /\ CarriedOK
      /\ ReaderInv /\ ServerInv /\ OneshotTypeOK
  OBVIOUS
<1>1. CASE ReadLine
  <2>1. /\ UNCHANGED <<phase, next_id, pending, pipe, callers, server, oneshot>>
        /\ stdout # <<>> /\ stdout' = Tail(stdout)
    BY <1>1 DEF ReadLine
  <2>2. /\ stdout \in Seq(Line)
        /\ \A i \in DOMAIN stdout : stdout[i].type = "response" => stdout[i].of # 0
    BY <1>0 DEF ServerInv, ServerTypeOK
  <2>3. /\ Head(stdout) \in Line
        /\ Head(stdout).type = "response" => Head(stdout).of # 0
    BY <2>1, <2>2
  <2>4. ServerInv'
    BY <2>1, <1>0, TailKeeps
  <2>5. CASE Correlates(Head(stdout))
    BY <2>5, <1>1, <2>3, <2>1, <1>0, <2>4, Frame DEF ReadLine, ReaderInv, ReaderTypeOK,
       Correlates, TableTypeOK
  <2>6. CASE ~Correlates(Head(stdout))
    BY <2>6, <2>1, <1>1, <2>4, <1>0, Frame DEF ReadLine, table
  <2>7. QED
    BY <2>5, <2>6
<1>2. CASE Deliver
  <2>1. /\ UNCHANGED <<phase, next_id, request_context, pipe, callers, stdout, server, dropped>>
        /\ reader = "deliver" /\ reader' = "read" /\ held' = NoLine
    BY <1>2 DEF Deliver
  <2>2. ReaderInv'
    BY <2>1 DEF ReaderInv, ReaderTypeOK, NoLine, Line
  <2>3. held.of \in CallIds
    BY <2>1, <1>0, TableBoundsAssumption DEF ReaderInv, ReaderTypeOK, Line, CallIds
  <2>4. CASE held.id \in DOMAIN pending
    BY <2>4, <1>2, <2>1, <2>3, <1>0, <2>2, Frame DEF Deliver, OneshotTypeOK, TableTypeOK,
       Without
  <2>5. CASE held.id \notin DOMAIN pending
    BY <2>5, <2>1, <1>2, <2>2, <1>0, Frame DEF Deliver, table, oneshot
  <2>6. QED
    BY <2>4, <2>5
<1>3. CASE EndOfOutput
  BY <1>3, <1>0, Frame DEF EndOfOutput, ReaderInv, ReaderTypeOK
<1>4. CASE ClearPending
  BY <1>4, <1>0, Frame DEF ClearPending, ReaderInv, ReaderTypeOK, OneshotTypeOK, TableTypeOK
<1>5. CASE ClearContext
  BY <1>5, <1>0, Frame DEF ClearContext, ReaderInv, ReaderTypeOK, TableTypeOK
<1>6. QED
  BY <1>1, <1>2, <1>3, <1>4, <1>5 DEF Reader

LEMMA PrintKeeps ==
  ASSUME ServerInv, NEW line \in Line, line.type = "response" => line.of # 0,
         ServerPrint(line), alive' = alive, got' \subseteq got, asks' \in Nat
  PROVE  ServerInv'
BY DEF ServerInv, ServerTypeOK, ServerPrint

LEMMA TypeInvServer ==
  ASSUME TypeInv, Server
  PROVE  TypeInv'
<1> USE TypeInvParts
<1>0. /\ TableTypeOK /\ PipeTypeOK /\ CallersTypeOK /\ CarriedOK
      /\ ReaderInv /\ ServerInv /\ OneshotTypeOK
  OBVIOUS
<1>1. CASE ServerRead
  BY <1>1, <1>0, Frame DEF ServerRead, PipeTypeOK, ServerInv, ServerTypeOK
<1>2. ASSUME NEW r \in got, ServerAnswer(r) PROVE TypeInv'
  BY <1>2, <1>0, PrintKeeps, Frame DEF ServerAnswer, ServerInv, ServerTypeOK, Job, Line
<1>3. ASSUME NEW id \in CallIds, ServerAsk(id) PROVE TypeInv'
  BY <1>3, <1>0, TableBoundsAssumption, PrintKeeps, Frame DEF ServerAsk, ServerInv,
     ServerTypeOK, CallIds, Line
<1>4. CASE ServerGarble
  BY <1>4, <1>0, PrintKeeps, Frame DEF ServerGarble, ServerInv, ServerTypeOK, Line, NoLine
<1>5. CASE ServerExit
  BY <1>5, <1>0, Frame DEF ServerExit, ServerInv, ServerTypeOK
<1>6. QED
  BY <1>1, <1>2, <1>3, <1>4, <1>5 DEF Server

LEMMA TypeInvStutter == TypeInv /\ UNCHANGED vars => TypeInv'
  BY Frame, TypeInvParts DEF vars

LEMMA TypeInvNext == TypeInv /\ [Next]_vars => TypeInv'
BY TypeInvCallers, TypeInvSpawn, TypeInvReader, TypeInvServer, TypeInvStutter DEF Next

LEMMA TypeInvAlways == Spec => []TypeInv
  BY TypeInvInit, TypeInvNext, PTL DEF Spec

(* Every variable of the session keeps its type; in particular whatever the *)
(* reader puts into a oneshot is a response to a request somebody made.     *)
THEOREM TableTypeCorrect == Spec => []TypeOK
<1>1. TypeInv => TypeOK
  BY DEF TypeInv
<1>2. QED
  BY <1>1, TypeInvAlways, PTL

-----------------------------------------------------------------------------
(* What the end of the output does to the calls.                            *)

CallerStep(c) == Begin(c) \/ BeginNote(c) \/ Call(c) \/ TimeOut(c)

(* About calls at any time, and about the end of an output without garbled  *)
(* lines.                                                                   *)
CallInv == IdsOK /\ OneshotOK

EndInv ==
  /\ IdsOK /\ OneshotOK /\ WaitOK
  /\ CleanOutput /\ StopOK /\ LatePendingOK /\ LateContextOK

IInv == TypeInv /\ CallInv /\ (CleanOutput => EndInv)

LEMMA EndInvInit == Init => EndInv
BY DEF Init, IdsOK, NoJob, OneshotOK, WaitOK, CleanOutput, StopOK, LatePendingOK,
   LateContextOK, EndInv

(* A caller begins a call, returns from it, or moves on within it. *)
LEMMA CallerKinds ==
  ASSUME TypeInv, NEW c \in Callers, CallerStep(c)
  PROVE  \/ Begin(c)
         \/ next_id' = next_id /\ \E of : Return(c, of)
         \/ /\ UNCHANGED <<next_id, job>>
            /\ \E l \in Labels : Goto(c, l) /\ (l = "idle" => job[c].call = 0)
<1>1. "idle" \in Labels /\ "context" \in Labels /\ "lock" \in Labels /\ "write" \in Labels
      /\ "wait" \in Labels /\ "undo_pending" \in Labels /\ "undo_context" \in Labels
  BY DEF Labels
<1>2. CASE Register(c) \/ AddContext(c) \/ BeginNote(c) \/ LockStdin(c)
  BY <1>1, <1>2 DEF Register, AddContext, BeginNote, LockStdin, table
<1>3. CASE Write(c)
  BY <1>1, <1>3 DEF Write, table
<1>4. CASE WriteError(c)
  BY <1>1, <1>4 DEF WriteError, table
<1>5. CASE UndoPending(c) \/ TimeOut(c)
  BY <1>1, <1>5 DEF UndoPending, TimeOut, table
<1>6. CASE ReceiveValue(c) \/ ReceiveCanceled(c) \/ UndoContext(c)
  BY <1>6 DEF ReceiveValue, ReceiveCanceled, UndoContext, table
<1>7. QED
  BY <1>2, <1>3, <1>4, <1>5, <1>6 DEF CallerStep, Call

LEMMA OthersUntouched ==
  ASSUME TypeInv, NEW c \in Callers, CallerStep(c), NEW d \in Callers, d # c
  PROVE  pc'[d] = pc[d] /\ job'[d] = job[d]
BY CallerKinds DEF TypeInv, TypeOK, CallersTypeOK, Begin, Goto, Return

(* What a caller's step may do to the tables, the oneshots and the rest. *)
LEMMA CallerTable ==
  ASSUME NEW c \in Callers, CallerStep(c)
  PROVE  /\ UNCHANGED <<reading, stdout, server, oneshot>>
         /\ pending' = pending \/ Register(c) \/ UndoPending(c)
         /\ request_context' = request_context \/ AddContext(c) \/ UndoContext(c)
<1>1. CASE Begin(c) \/ BeginNote(c) \/ Register(c) \/ AddContext(c)
  BY <1>1 DEF Begin, BeginNote, Register, AddContext, table
<1>2. CASE LockStdin(c) \/ Write(c) \/ WriteError(c)
  BY <1>2 DEF LockStdin, Write, WriteError, table
<1>3. CASE ReceiveValue(c) \/ ReceiveCanceled(c) \/ TimeOut(c)
  BY <1>3 DEF ReceiveValue, ReceiveCanceled, TimeOut, table
<1>4. CASE UndoPending(c) \/ UndoContext(c)
  BY <1>4 DEF UndoPending, UndoContext, table
<1>5. QED
  BY <1>1, <1>2, <1>3, <1>4 DEF CallerStep, Call

(* Everything else leaves the callers alone, but for the abandoned spawner. *)
LEMMA TasksLeaveCallers ==
  ASSUME Reader \/ Server \/ KillChild \/ UNCHANGED vars
  PROVE  UNCHANGED <<pc, job>>
<1>1. CASE Reader
  BY <1>1 DEF Reader, ReadLine, Deliver, EndOfOutput, ClearPending, ClearContext, callers
<1>2. CASE Server
  BY <1>2 DEF Server, ServerRead, ServerAnswer, ServerAsk, ServerGarble, ServerExit, callers
<1>3. CASE KillChild \/ UNCHANGED vars
  BY <1>3 DEF KillChild, vars, callers
<1>4. QED
  BY <1>1, <1>2, <1>3

LEMMA IdsNext == TypeInv /\ CallInv /\ [Next]_vars => IdsOK'
<1> SUFFICES ASSUME TypeInv, CallInv, [Next]_vars PROVE IdsOK'
  OBVIOUS
<1>0. /\ pc \in [Callers -> Labels] /\ job \in [Callers -> Job] /\ next_id \in Nat
      /\ \A c \in Callers : job[c].id \in Nat /\ job[c].call \in 0..MaxCalls
  BY DEF TypeInv, TypeOK, CallersTypeOK, TableTypeOK, Job
<1>1. /\ \A c \in Callers : pc[c] = "idle" => job[c].call = 0
      /\ \A c \in Callers : job[c].id < next_id
      /\ \A c, d \in Callers :
           c # d /\ job[c].call # 0 /\ job[d].call # 0 => job[c].id # job[d].id
  BY DEF CallInv, IdsOK
<1>2. ASSUME NEW c \in Callers, CallerStep(c) PROVE IdsOK'
  BY <1>0, <1>1, <1>2, CallerKinds DEF Begin, Goto, NextId, IdsOK, Return, NoJob
<1>3. CASE AbandonInitialize
  BY <1>3, <1>0, SpawnerAssumption, <1>1 DEF AbandonInitialize, Goto, table, NoJob, IdsOK
<1>4. CASE Reader \/ Server \/ KillChild \/ UNCHANGED vars
  <2>1. UNCHANGED <<pc, job>>
    BY <1>4, TasksLeaveCallers
  <2>2. next_id' = next_id
    BY <1>4 DEF Reader, ReadLine, Deliver, EndOfOutput, ClearPending, ClearContext, Server,
       ServerRead, ServerAnswer, ServerAsk, ServerGarble, ServerExit, KillChild, vars, table
  <2>3. QED
    BY <2>1, <2>2, <1>1 DEF IdsOK
<1>5. QED
  BY <1>2, <1>3, <1>4 DEF Next, CallerStep

(* A spent oneshot stays spent, and only the reader touches oneshots. *)
LEMMA OneshotSteps ==
  ASSUME TypeInv, Reader, NEW k \in CallIds
  PROVE  /\ dropped \subseteq dropped'
         /\ answer[k] \subseteq answer'[k]
BY DEF TypeInv, TypeOK, OneshotTypeOK, Deliver, ReadLine, EndOfOutput, ClearPending,
   ClearContext, oneshot, Reader

LEMMA OneshotNext == TypeInv /\ CallInv /\ [Next]_vars => OneshotOK'
<1> SUFFICES ASSUME TypeInv, CallInv, [Next]_vars,
                    NEW d \in Callers, job'[d].call # 0,
                    pc'[d] \in {"context", "lock", "write", "wait"}
             PROVE  InTable(d)' \/ Spent(d)'
  BY DEF OneshotOK
<1>0. /\ pc \in [Callers -> Labels] /\ job \in [Callers -> Job]
      /\ answer \in [CallIds -> SUBSET CallIds] /\ dropped \subseteq CallIds
  BY DEF TypeInv, TypeOK, CallersTypeOK, OneshotTypeOK
<1>1. \A c \in Callers : job[c].call # 0 /\ pc[c] \in {"context", "lock", "write", "wait"}
        => InTable(c) \/ Spent(c)
  BY DEF CallInv, OneshotOK
<1>2. ASSUME NEW c \in Callers, CallerStep(c) PROVE InTable(d)' \/ Spent(d)'
  <2>0. UNCHANGED <<answer, dropped>>
    BY <1>2, CallerTable DEF oneshot
  <2>1. CASE d # c
    <3>1. pc'[d] = pc[d] /\ job'[d] = job[d]
      BY <1>2, <2>1, OthersUntouched
    <3>2. CASE Spent(d)
      BY <3>1, <3>2, <2>0 DEF Spent
    <3>3. CASE InTable(d) /\ pending' = pending
      BY <3>1, <3>3 DEF InTable
    <3>4. CASE InTable(d) /\ (Register(c) \/ UndoPending(c))
      BY <3>4, <3>1, <2>1 DEF Register, UndoPending, TypeInv, CallsOK, CallInv, IdsOK, InTable,
         With, Without
    <3>5. QED
      BY <1>1, <1>2, <3>1, <3>2, <3>3, <3>4, CallerTable
  <2>2. CASE d = c
    <3>1. CASE Begin(c)
      BY <3>1, <2>2, <1>0 DEF Begin, Goto
    <3>2. CASE Register(c)
      BY <3>2, <2>2 DEF Register, InTable, With
    <3>3. CASE AddContext(c) \/ LockStdin(c)
      BY <3>3, <2>2, <2>0, <1>1 DEF AddContext, LockStdin, table, InTable, Spent
    <3>4. CASE Write(c)
      BY <3>4, <2>2, <2>0, <1>1 DEF Write, table, InTable, Spent
    <3>5. CASE BeginNote(c)
      BY <3>5, <2>2 DEF BeginNote, CallInv, IdsOK
    <3>6. CASE WriteError(c)
      BY <3>6, <2>2, <1>0 DEF WriteError, Goto
    <3>7. CASE UndoPending(c) \/ TimeOut(c)
      BY <3>7, <2>2, <1>0 DEF UndoPending, TimeOut, Goto
    <3>8. CASE ReceiveValue(c) \/ ReceiveCanceled(c) \/ UndoContext(c)
      BY <3>8, <2>2, <1>0 DEF ReceiveValue, ReceiveCanceled, UndoContext, Return, Goto
    <3>9. QED
      BY <1>2, <3>1, <3>2, <3>3, <3>4, <3>5, <3>6, <3>7, <3>8 DEF CallerStep, Call
  <2>3. QED
    BY <2>1, <2>2
<1>3. CASE AbandonInitialize
  BY <1>3, <1>0, SpawnerAssumption, <1>1 DEF AbandonInitialize, Goto, table, oneshot, InTable,
     Spent
<1>4. CASE Reader
  <2>1. UNCHANGED <<pc, job>>
    BY <1>4, TasksLeaveCallers
  <2>2. job[d].call \in CallIds
    BY <2>1, <1>0, TableBoundsAssumption DEF Job, CallIds
  <2>3. CASE Spent(d)
    BY <2>1, <2>2, <2>3, <1>4, OneshotSteps DEF Spent
  <2>4. CASE InTable(d) /\ Deliver
    BY <2>4, <2>1, <2>2, <1>0 DEF InTable, Deliver, Spent, Without
  <2>5. CASE InTable(d) /\ ClearPending
    BY <2>5, <2>1 DEF InTable, Spent, ClearPending
  <2>6. CASE InTable(d) /\ (ReadLine \/ EndOfOutput \/ ClearContext)
    BY <2>6, <2>1 DEF InTable, ReadLine, EndOfOutput, ClearContext, table
  <2>7. QED
    BY <1>1, <1>4, <2>1, <2>3, <2>4, <2>5, <2>6 DEF Reader
<1>5. CASE Server \/ KillChild \/ UNCHANGED vars
  <2>1. UNCHANGED <<pc, job>>
    BY <1>5, TasksLeaveCallers
  <2>2. UNCHANGED <<pending, answer, dropped>>
    BY <1>5 DEF Server, ServerRead, ServerAnswer, ServerAsk, ServerGarble, ServerExit,
       KillChild, vars, table, oneshot
  <2>3. QED
    BY <2>1, <2>2, <1>1 DEF InTable, Spent
<1>6. QED
  BY <1>2, <1>3, <1>4, <1>5 DEF Next, CallerStep

(* What the reader has come to, and whether the process lives, by step. *)
LEMMA StopNext == TypeInv /\ EndInv /\ [Next]_vars => StopOK'
<1> SUFFICES ASSUME TypeInv, EndInv, [Next]_vars PROVE StopOK'
  OBVIOUS
<1>1. CleanOutput /\ StopOK
  BY DEF EndInv
<1>2. ASSUME NEW c \in Callers, CallerStep(c) PROVE StopOK'
  BY <1>1, <1>2, CallerTable DEF StopOK, reading, server
<1>3. CASE AbandonInitialize \/ Server \/ KillChild \/ UNCHANGED vars
  <2>1. reader' = reader /\ (alive' = alive \/ alive' = FALSE)
    BY <1>3 DEF AbandonInitialize, Server, ServerRead, ServerAnswer, ServerAsk, ServerGarble,
       ServerExit, KillChild, vars, reading, server
  <2>2. QED
    BY <2>1, <1>1 DEF StopOK
<1>4. CASE EndOfOutput
  BY <1>1, <1>4 DEF TypeInv, TypeOK, ServerTypeOK, CleanOutput, EndOfOutput, server, StopOK
<1>5. CASE ReadLine \/ Deliver
  BY <1>5, <1>1 DEF ReadLine, Deliver, StopOK, server, reading
<1>6. CASE ClearPending \/ ClearContext
  BY <1>6, <1>1 DEF ClearPending, ClearContext, StopOK, server
<1>7. QED
  BY <1>2, <1>3, <1>4, <1>5, <1>6 DEF Next, Reader, CallerStep

(* A garbled line is never read, so an output that has none had none before. *)
LEMMA CleanBefore == TypeInv /\ [Next]_vars /\ CleanOutput' => CleanOutput
<1> SUFFICES ASSUME TypeInv, [Next]_vars, CleanOutput' PROVE CleanOutput
  OBVIOUS
<1>1. stdout \in Seq(Line)
  BY DEF TypeInv, TypeOK, ServerTypeOK
<1>2. CASE stdout' = stdout
  BY <1>2 DEF CleanOutput
<1>3. CASE ReadLine
  <2>1. stdout # <<>> /\ stdout' = Tail(stdout) /\ stdout[1].type # "garbled"
    BY <1>3, <1>1 DEF ReadLine
  <2>2. ASSUME NEW i \in DOMAIN stdout PROVE stdout[i].type # "garbled"
    <3>1. CASE i = 1
      BY <3>1, <2>1
    <3>2. CASE i # 1
      <4>1. i - 1 \in DOMAIN Tail(stdout) /\ Tail(stdout)[i - 1] = stdout[i]
        BY <3>2, <2>1, <1>1
      <4>2. QED
        BY <4>1, <2>1 DEF CleanOutput
    <3>3. QED
      BY <3>1, <3>2
  <2>3. QED
    BY <2>2 DEF CleanOutput
<1>4. CASE \E line : ServerPrint(line)
  BY <1>4, <1>1 DEF ServerPrint, CleanOutput
<1>5. CASE Server
  BY <1>2, <1>4, <1>5 DEF Server, ServerRead, ServerAnswer, ServerAsk, ServerGarble, ServerExit
<1>6. ASSUME NEW c \in Callers, CallerStep(c) PROVE CleanOutput
  BY <1>2, <1>6, CallerTable
<1>7. CASE Deliver \/ EndOfOutput \/ ClearPending \/ ClearContext
  BY <1>2, <1>7 DEF Deliver, EndOfOutput, ClearPending, ClearContext
<1>8. CASE AbandonInitialize \/ KillChild \/ UNCHANGED vars
  BY <1>2, <1>8 DEF AbandonInitialize, KillChild, vars
<1>9. QED
  BY <1>3, <1>5, <1>6, <1>7, <1>8 DEF Next, Reader, CallerStep

LEMMA WaitNext == TypeInv /\ EndInv /\ [Next]_vars => WaitOK'
<1> SUFFICES ASSUME TypeInv, EndInv, [Next]_vars,
                    NEW d \in Callers, reader' \in {"clear_context", "done"}, pc'[d] = "wait"
             PROVE  Spent(d)'
  BY DEF WaitOK
<1>0. /\ pc \in [Callers -> Labels] /\ job \in [Callers -> Job]
      /\ reader \in {"clear_context", "done"} /\ pc[d] = "wait" => Spent(d)
      /\ reader \in {"clear_context", "done"} => ~alive
  BY DEF TypeInv, TypeOK, CallersTypeOK, EndInv, WaitOK, StopOK
<1>1. ASSUME NEW c \in Callers, CallerStep(c) PROVE Spent(d)'
  <2>1. UNCHANGED <<answer, dropped, reader, alive>>
    BY <1>1, CallerTable DEF oneshot, reading, server
  <2>2. CASE d # c
    BY <2>1, <2>2, <1>0, <1>1, OthersUntouched DEF Spent
  <2>3. CASE d = c
    <3>1. ~Write(c)
      BY <2>1, <1>0 DEF Write
    <3>2. CASE Begin(c) \/ BeginNote(c) \/ Register(c) \/ AddContext(c) \/ LockStdin(c)
      BY <3>2, <2>3, <1>0 DEF Begin, BeginNote, Register, AddContext, LockStdin, Goto
    <3>3. CASE UndoPending(c) \/ TimeOut(c)
      BY <3>3, <2>3, <1>0 DEF UndoPending, TimeOut, Goto
    <3>4. CASE WriteError(c)
      BY <3>4, <2>3, <1>0 DEF WriteError, Goto
    <3>5. CASE ReceiveValue(c) \/ ReceiveCanceled(c) \/ UndoContext(c)
      BY <3>5, <2>3, <1>0 DEF ReceiveValue, ReceiveCanceled, UndoContext, Return, Goto
    <3>6. QED
      BY <1>1, <3>1, <3>2, <3>3, <3>4, <3>5 DEF CallerStep, Call
  <2>4. QED
    BY <2>2, <2>3
<1>2. CASE AbandonInitialize
  BY <1>2, <1>0, SpawnerAssumption DEF AbandonInitialize, Goto, reading, oneshot, Spent
<1>3. CASE ReadLine \/ Deliver \/ EndOfOutput
  BY <1>3 DEF ReadLine, Deliver, EndOfOutput, reading
<1>4. CASE ClearPending
  BY <1>4, TasksLeaveCallers DEF Reader, TypeInv, CallsOK, EndInv, OneshotOK, InTable, Spent,
     ClearPending
<1>5. CASE ClearContext
  BY <1>5, TasksLeaveCallers, <1>0 DEF Reader, Spent, ClearContext, oneshot
<1>6. CASE Server \/ KillChild \/ UNCHANGED vars
  <2>1. UNCHANGED <<pc, job>>
    BY <1>6, TasksLeaveCallers
  <2>2. UNCHANGED <<reader, answer, dropped>>
    BY <1>6 DEF Server, ServerRead, ServerAnswer, ServerAsk, ServerGarble, ServerExit,
       KillChild, vars, reading, oneshot
  <2>3. QED
    BY <2>1, <2>2, <1>0 DEF Spent
<1>7. QED
  BY <1>1, <1>2, <1>3, <1>4, <1>5, <1>6 DEF Next, Reader, CallerStep

(* A session is not un-failed. *)
LEMMA PhaseSteps ==
  ASSUME TypeInv, [Next]_vars, phase \in {"kill", "failed"}
  PROVE  phase' \in {"kill", "failed"}
<1>0. CallersTypeOK
  BY DEF TypeInv, TypeOK
<1>1. ASSUME NEW c \in Callers, CallerStep(c) PROVE phase' \in {"kill", "failed"}
  <2>1. CASE phase' = phase
    BY <2>1
  <2>2. CASE \E ok : Proceed(c, ok)
    BY <2>2, <1>0, ProceedStep
  <2>3. CASE Begin(c) \/ BeginNote(c) \/ Register(c) \/ AddContext(c) \/ LockStdin(c)
    BY <2>3, <2>1 DEF Begin, BeginNote, Register, AddContext, LockStdin
  <2>4. CASE UndoPending(c) \/ TimeOut(c)
    BY <2>4, <2>1 DEF UndoPending, TimeOut
  <2>5. CASE Write(c) \/ WriteError(c)
    BY <2>5, <2>1, <2>2 DEF Write, WriteError
  <2>6. CASE ReceiveValue(c) \/ ReceiveCanceled(c) \/ UndoContext(c)
    BY <2>6, <2>2 DEF ReceiveValue, ReceiveCanceled, UndoContext, Return
  <2>7. QED
    BY <1>1, <2>3, <2>4, <2>5, <2>6 DEF CallerStep, Call
<1>2. CASE AbandonInitialize \/ KillChild
  BY <1>2 DEF AbandonInitialize, KillChild
<1>3. CASE Reader
  BY <1>3 DEF Reader, ReadLine, Deliver, EndOfOutput, ClearPending, ClearContext
<1>4. CASE Server \/ UNCHANGED vars
  BY <1>4 DEF Server, ServerRead, ServerAnswer, ServerAsk, ServerGarble, ServerExit, vars
<1>5. QED
  BY <1>1, <1>2, <1>3, <1>4 DEF Next, CallerStep

(* With the process dead, a caller that is to fail stays on the way to its  *)
(* failure, whichever caller moves.                                         *)
LEMMA OwnedStep ==
  ASSUME TypeInv, EndInv, ~alive, NEW c \in Callers, CallerStep(c), NEW i,
         NEW labels \in SUBSET {"context", "lock", "write", "undo_pending", "undo_context"},
         Owned(i, labels),
         "context" \in labels => "lock" \in labels,
         "lock" \in labels => "write" \in labels,
         "write" \in labels => "undo_pending" \in labels,
         UndoPending(c) /\ job[c].id = i => "undo_context" \in labels,
         ~(UndoContext(c) /\ job[c].id = i)
  PROVE  Owned(i, labels)'
<1>0. pc \in [Callers -> Labels] /\ job \in [Callers -> Job]
  BY DEF TypeInv, TypeOK, CallersTypeOK
<1>1. PICK d \in Callers : pc[d] \in labels /\ job[d].call # 0 /\ job[d].id = i
  BY DEF Owned
<1>2. CASE d # c
  BY <1>1, <1>2, OthersUntouched DEF Owned
<1>3. CASE d = c
  <2>1. pc[c] \notin {"idle", "register", "wait"}
    BY <1>1, <1>3
  <2>2. ~(Begin(c) \/ BeginNote(c) \/ Register(c) \/ ReceiveValue(c) \/ ReceiveCanceled(c)
          \/ TimeOut(c) \/ Write(c))
    BY <2>1 DEF Begin, BeginNote, Register, ReceiveValue, ReceiveCanceled, TimeOut, Write
  <2>3. CASE AddContext(c)
    BY <2>3, <1>0, <1>1, <1>3 DEF AddContext, Goto, Owned
  <2>4. CASE LockStdin(c)
    BY <2>4, <1>0, <1>1, <1>3 DEF LockStdin, Goto, Owned
  <2>5. CASE WriteError(c)
    BY <2>5, <1>1, <1>3, <1>0 DEF WriteError, Goto, Owned
  <2>6. CASE UndoPending(c)
    BY <2>6, <1>0, <1>1, <1>3 DEF UndoPending, Goto, Owned
  <2>7. QED
    BY <1>1, <1>3, <2>2, <2>3, <2>4, <2>5, <2>6 DEF CallerStep, Call
<1>4. QED
  BY <1>2, <1>3

LEMMA LatePendingNext == TypeInv /\ EndInv /\ [Next]_vars => LatePendingOK'
<1> DEFINE S == {"context", "lock", "write", "undo_pending"}
<1> SUFFICES ASSUME TypeInv, EndInv, [Next]_vars,
                    phase' \notin {"kill", "failed"}, reader' \in {"clear_context", "done"},
                    NEW i \in DOMAIN pending'
             PROVE  Owned(i, S)'
  BY DEF LatePendingOK
<1>0. /\ phase \notin {"kill", "failed"}
      /\ reader \in {"clear_context", "done"} => ~alive
      /\ reader \in {"clear_context", "done"} => \A j \in DOMAIN pending : Owned(j, S)
  BY PhaseSteps DEF EndInv, StopOK, LatePendingOK
<1>1. ASSUME NEW c \in Callers, CallerStep(c) PROVE Owned(i, S)'
  <2>1. reader' = reader /\ ~alive
    BY <1>0, <1>1, CallerTable DEF reading
  <2>2. CASE Register(c) /\ i \notin DOMAIN pending
    BY <2>2 DEF Register, Goto, With, TypeInv, CallsOK, TypeOK, CallersTypeOK, Owned
  <2>3. CASE i \in DOMAIN pending
    <3>1. Owned(i, S)
      BY <2>1, <2>3, <1>0
    <3>2. ~(UndoPending(c) /\ job[c].id = i)
      BY DEF UndoPending, Without
    <3>3. CASE ~UndoContext(c)
      BY <3>1, <3>2, <3>3, <2>1, <1>1, OwnedStep
    <3>4. CASE UndoContext(c)
      BY <3>1, <3>4, <1>1, OthersUntouched DEF Owned, UndoContext
    <3>5. QED
      BY <3>3, <3>4
  <2>4. QED
    BY <2>3, <2>2, <1>1, CallerTable DEF UndoPending, Without
<1>2. CASE AbandonInitialize
  BY <1>2 DEF AbandonInitialize
<1>3. CASE ReadLine \/ Deliver \/ EndOfOutput
  BY <1>3 DEF ReadLine, Deliver, EndOfOutput, reading
<1>4. CASE ClearPending
  BY <1>4 DEF ClearPending
<1>5. CASE ClearContext \/ Server \/ KillChild \/ UNCHANGED vars
  <2>1. UNCHANGED <<pc, job>>
    BY <1>5, TasksLeaveCallers DEF Reader
  <2>2. /\ pending' = pending
        /\ reader' = reader \/ reader = "clear_context"
    BY <1>5 DEF ClearContext, Server, ServerRead, ServerAnswer, ServerAsk, ServerGarble,
       ServerExit, KillChild, vars, reading, table
  <2>3. QED
    BY <2>1, <2>2, <1>0 DEF Owned
<1>6. QED
  BY <1>1, <1>2, <1>3, <1>4, <1>5 DEF Next, Reader, CallerStep

LEMMA LateContextNext == TypeInv /\ EndInv /\ [Next]_vars => LateContextOK'
<1> DEFINE S == {"lock", "write", "undo_pending", "undo_context"}
<1> SUFFICES ASSUME TypeInv, EndInv, [Next]_vars,
                    phase' \notin {"kill", "failed"}, reader' = "done",
                    NEW i \in request_context'
             PROVE  Owned(i, S)'
  BY DEF LateContextOK
<1>0. /\ phase \notin {"kill", "failed"}
      /\ reader = "done" => ~alive
      /\ reader = "done" => \A j \in request_context : Owned(j, S)
  BY PhaseSteps DEF EndInv, StopOK, LateContextOK
<1>1. ASSUME NEW c \in Callers, CallerStep(c) PROVE Owned(i, S)'
  <2>1. reader' = reader /\ ~alive
    BY <1>0, <1>1, CallerTable DEF reading
  <2>2. CASE AddContext(c) /\ i \notin request_context
    BY <2>2 DEF AddContext, Goto, TypeInv, CallsOK, TypeOK, CallersTypeOK, Owned
  <2>3. CASE i \in request_context
    BY <2>1, <2>3, <1>0, <1>1, OwnedStep DEF UndoContext
  <2>4. QED
    BY <2>3, <2>2, <1>1, CallerTable DEF UndoContext
<1>2. CASE AbandonInitialize
  BY <1>2 DEF AbandonInitialize
<1>3. CASE ReadLine \/ Deliver \/ EndOfOutput \/ ClearPending
  BY <1>3 DEF ReadLine, Deliver, EndOfOutput, ClearPending, reading
<1>4. CASE ClearContext
  BY <1>4 DEF ClearContext
<1>5. CASE Server \/ KillChild \/ UNCHANGED vars
  <2>1. UNCHANGED <<pc, job>>
    BY <1>5, TasksLeaveCallers
  <2>2. UNCHANGED <<request_context, reader>>
    BY <1>5 DEF Server, ServerRead, ServerAnswer, ServerAsk, ServerGarble, ServerExit,
       KillChild, vars, reading, table
  <2>3. QED
    BY <2>1, <2>2, <1>0 DEF Owned
<1>6. QED
  BY <1>1, <1>2, <1>3, <1>4, <1>5 DEF Next, Reader, CallerStep

LEMMA IInvNext == IInv /\ [Next]_vars => IInv'
BY TypeInvNext, IdsNext, OneshotNext, CleanBefore, WaitNext, StopNext, LatePendingNext,
   LateContextNext DEF IInv, EndInv, CallInv

LEMMA IInvAlways == Spec => []IInv
<1>1. Init => IInv
  BY TypeInvInit, EndInvInit DEF IInv, EndInv, CallInv
<1>2. QED
  BY <1>1, IInvNext, PTL DEF Spec

(* Unless the process prints what the reader cannot decode, no call is left *)
(* to wait once the reader has cleared the table: the clear of pending at   *)
(* the end of spawn_workspace_session's reader catches every call that got  *)
(* its request into the pipe, and the write fails for every other.          *)
THEOREM StoppedReaderStrandsNobody == Spec => []StrandedOnlyByGarble
<1>1. IInv => StrandedOnlyByGarble
  BY DEF IInv, EndInv, WaitOK, StrandedOnlyByGarble, NobodyStranded, Spent
<1>2. QED
  BY <1>1, IInvAlways, PTL

(* And what was inserted behind the reader's two clears is withdrawn by the *)
(* call that inserted it: neither map keeps an entry nobody will remove.    *)
THEOREM TablesEmptiedAtTheEnd == Spec => []NothingLeftBehind
<1>1. IInv => NothingLeftBehind
  BY DEF NothingLeftBehind, IInv, Owned, EndInv, LatePendingOK, LateContextOK
<1>2. QED
  BY <1>1, IInvAlways, PTL

-----------------------------------------------------------------------------
(* Whose answer it is.  send_request alone draws ids, one for each call, so *)
(* the id tells the call wherever it goes: through the table, the pipe, the *)
(* server and back.                                                         *)
DrawnOK == next_id = calls + 1 /\ \A c \in Callers : job[c].id = job[c].call
EntriesOK == \A i \in DOMAIN pending : pending[i] = i
RequestsOK ==
  /\ \A i \in DOMAIN stdin : stdin[i].id = stdin[i].call
  /\ \A r \in got : r.id = r.call
ResponsesOK ==
  /\ \A i \in DOMAIN stdout : stdout[i].type = "response" => stdout[i].id = stdout[i].of
  /\ held.id = held.of
AnswersOK ==
  /\ \A k \in CallIds : answer[k] \subseteq {k}
  /\ OwnAnswerOnly
NumbersOK == DrawnOK /\ EntriesOK /\ RequestsOK /\ ResponsesOK /\ AnswersOK

LEMMA NumbersInit == Init => NumbersOK
  BY DEF Init, NumbersOK, DrawnOK, EntriesOK, RequestsOK, ResponsesOK, AnswersOK, OwnAnswerOnly,
         NoJob, NoLine

LEMMA DrawnNext == TypeInv /\ DrawnOK /\ [Next]_vars => DrawnOK'
<1> SUFFICES ASSUME TypeInv, DrawnOK, [Next]_vars PROVE DrawnOK'
  OBVIOUS
<1>0. pc \in [Callers -> Labels] /\ job \in [Callers -> Job] /\ calls \in Nat
  BY TableBoundsAssumption DEF TypeInv, TypeOK, CallersTypeOK
<1>1. ASSUME NEW c \in Callers, CallerStep(c)
      PROVE  DrawnOK'
  <2>1. \A d \in Callers : d # c => job'[d] = job[d]
    BY <1>1, OthersUntouched
  <2>2. CASE Begin(c)
    BY <2>2, <1>0, <2>1 DEF Begin, NextId, DrawnOK
  <2>3. CASE next_id' = next_id /\ \E of : Return(c, of)
    <3>1. job'[c] = NoJob
      BY <2>3, <1>0 DEF Return
    <3>2. calls' = calls \/ Begin(c)
      BY <1>1 DEF CallerStep, BeginNote, Call, Register, AddContext, LockStdin, Write, WriteError,
                  ReceiveValue, ReceiveCanceled, TimeOut, UndoPending, UndoContext
    <3>3. job'[c].id = job'[c].call
      BY <3>1 DEF NoJob
    <3>4. CASE calls' = calls
      BY <2>1, <2>3, <3>3, <3>4 DEF DrawnOK
    <3>5. QED
      BY <2>2, <3>2, <3>4
  <2>4. CASE UNCHANGED <<next_id, job>>
    <3>1. calls' = calls \/ Begin(c)
      BY <1>1 DEF CallerStep, BeginNote, Call, Register, AddContext, LockStdin, Write, WriteError,
                  ReceiveValue, ReceiveCanceled, TimeOut, UndoPending, UndoContext
    <3>2. CASE calls' = calls
      BY <2>4, <3>2 DEF DrawnOK
    <3>3. QED
      BY <2>2, <3>1, <3>2
  <2>5. QED
    BY <1>1, <2>2, <2>3, <2>4, CallerKinds
<1>2. CASE AbandonInitialize
  BY <1>2, <1>0, SpawnerAssumption DEF AbandonInitialize, table, NoJob, DrawnOK
<1>3. CASE Reader \/ Server \/ KillChild \/ UNCHANGED vars
  <2>1. UNCHANGED <<calls, next_id, job>>
    BY <1>3 DEF Reader, ReadLine, Deliver, EndOfOutput, ClearPending, ClearContext,
                Server, ServerRead, ServerAnswer, ServerAsk, ServerGarble, ServerExit,
                KillChild, vars, callers, table
  <2>2. QED
    BY <2>1 DEF DrawnOK
<1>4. QED
  BY <1>1, <1>2, <1>3 DEF Next, CallerStep

(* A request's entry is made under its id, and entries are only taken away. *)
LEMMA EntriesNext == TypeInv /\ DrawnOK /\ EntriesOK /\ [Next]_vars => EntriesOK'
<1> SUFFICES ASSUME TypeInv, DrawnOK, EntriesOK, [Next]_vars PROVE EntriesOK'
  OBVIOUS
<1>1. UNCHANGED pending => EntriesOK'
  BY DEF EntriesOK
<1>2. \A i : pending' = Without(pending, i) => EntriesOK'
  BY DEF EntriesOK, Without
<1>3. ASSUME NEW c \in Callers, CallerStep(c)
      PROVE  EntriesOK'
  <2>1. CASE Register(c)
    BY <2>1 DEF Register, With, EntriesOK, DrawnOK
  <2>2. CASE UndoPending(c)
    BY <2>2, <1>2 DEF UndoPending
  <2>3. QED
    BY <1>1, <1>3, <2>1, <2>2, CallerTable
<1>4. CASE Reader
  BY <1>1, <1>2, <1>4 DEF Deliver, ClearPending, EntriesOK, ReadLine, EndOfOutput, ClearContext,
     table, Reader
<1>5. CASE AbandonInitialize \/ KillChild \/ Server \/ UNCHANGED vars
  BY <1>5, <1>1 DEF AbandonInitialize, KillChild, Server, ServerRead, ServerAnswer, ServerAsk,
                    ServerGarble, ServerExit, vars, table
<1>6. QED
  BY <1>3, <1>4, <1>5 DEF Next, CallerStep

(* What is written carries the id of its call, and the server reads it so. *)
LEMMA RequestsNext == TypeInv /\ DrawnOK /\ RequestsOK /\ [Next]_vars => RequestsOK'
<1> SUFFICES ASSUME TypeInv, DrawnOK, RequestsOK, [Next]_vars PROVE RequestsOK'
  OBVIOUS
<1>0. stdin \in Seq(Job)
  BY DEF TypeInv, TypeOK, PipeTypeOK
<1>1. UNCHANGED stdin /\ got' \subseteq got => RequestsOK'
  BY DEF RequestsOK
<1>2. ASSUME NEW c \in Callers, CallerStep(c)
      PROVE  RequestsOK'
  <2>1. CASE Write(c)
    BY <2>1, <1>0 DEF Write, server, TypeInv, TypeOK, CallersTypeOK, RequestsOK, DrawnOK
  <2>2. CASE ~Write(c)
    <3>1. UNCHANGED stdin /\ got' = got
      BY <1>2, <2>2 DEF CallerStep, Begin, BeginNote, Call, Register, AddContext, LockStdin,
                  WriteError, ReceiveValue, ReceiveCanceled, TimeOut, UndoPending, UndoContext,
                  pipe, server
    <3>2. QED
      BY <3>1, <1>1
  <2>3. QED
    BY <2>1, <2>2
<1>3. CASE ServerRead
  BY <1>3, <1>0 DEF ServerRead, RequestsOK
<1>4. CASE \/ ServerGarble \/ ServerExit \/ (\E r \in got : ServerAnswer(r))
           \/ \E id \in CallIds : ServerAsk(id)
  BY <1>4, <1>1 DEF ServerAnswer, ServerAsk, ServerGarble, ServerExit, pipe
<1>5. CASE AbandonInitialize \/ KillChild \/ Reader \/ UNCHANGED vars
  BY <1>5, <1>1 DEF AbandonInitialize, KillChild, Reader, ReadLine, Deliver, EndOfOutput,
                    ClearPending, ClearContext, vars, pipe, server
<1>6. QED
  BY <1>2, <1>3, <1>4, <1>5 DEF Next, Server, CallerStep

(* And answers so; what the server asks under the same numbers is told      *)
(* apart by its method.                                                     *)
LEMMA ResponsesNext == TypeInv /\ RequestsOK /\ ResponsesOK /\ [Next]_vars => ResponsesOK'
<1> SUFFICES ASSUME TypeInv, RequestsOK, ResponsesOK, [Next]_vars PROVE ResponsesOK'
  OBVIOUS
<1>0. stdout \in Seq(Line)
  BY DEF TypeInv, TypeOK, ServerTypeOK
<1>1. UNCHANGED <<stdout, held>> => ResponsesOK'
  BY DEF ResponsesOK
<1>2. ASSUME NEW line \in Line, ServerPrint(line), held' = held,
             line.type = "response" => line.id = line.of
      PROVE  ResponsesOK'
  BY <1>2, <1>0 DEF ServerPrint, ResponsesOK
<1>3. ASSUME NEW r \in got, ServerAnswer(r)
      PROVE  ResponsesOK'
  BY <1>3, <1>2 DEF TypeInv, TypeOK, ServerTypeOK, RequestsOK, Job, Line, ServerAnswer, reading
<1>4. ASSUME NEW id \in CallIds, ServerAsk(id)
      PROVE  ResponsesOK'
  BY TableBoundsAssumption, <1>4, <1>2 DEF Line, CallIds, ServerAsk, reading
<1>5. CASE ServerGarble
  BY <1>5, <1>2 DEF NoLine, Line, ServerGarble, reading
<1>6. CASE ReadLine
  BY <1>6, <1>0 DEF ReadLine, Correlates, reading, ResponsesOK
<1>7. CASE Deliver
  BY <1>7 DEF Deliver, ResponsesOK, NoLine
<1>8. CASE \/ ServerRead \/ ServerExit \/ EndOfOutput \/ ClearPending \/ ClearContext
           \/ AbandonInitialize \/ KillChild \/ UNCHANGED vars
  BY <1>8, <1>1 DEF ServerRead, ServerExit, EndOfOutput, ClearPending, ClearContext,
                    AbandonInitialize, KillChild, vars, reading
<1>9. ASSUME NEW c \in Callers, CallerStep(c)
      PROVE  ResponsesOK'
  BY <1>1, <1>9, CallerTable DEF reading
<1>10. QED
  BY <1>3, <1>4, <1>5, <1>6, <1>7, <1>8, <1>9 DEF Next, Server, Reader, CallerStep

LEMMA AnswersNext ==
  TypeInv /\ EntriesOK /\ ResponsesOK /\ AnswersOK /\ [Next]_vars => AnswersOK'
<1> SUFFICES ASSUME TypeInv, EntriesOK, ResponsesOK, AnswersOK, [Next]_vars PROVE AnswersOK'
  OBVIOUS
<1>0. /\ answer \in [CallIds -> SUBSET CallIds]
      /\ job \in [Callers -> Job]
      /\ \A i \in DOMAIN pending : pending[i] \in CallIds
  BY DEF TypeInv, TypeOK, OneshotTypeOK, TableTypeOK, CallersTypeOK
<1>1. UNCHANGED <<answer, returned>> => AnswersOK'
  BY DEF AnswersOK, OwnAnswerOnly
<1>2. CASE Deliver
  BY <1>2, <1>0, <1>1 DEF Deliver, callers, EntriesOK, ResponsesOK, AnswersOK, OwnAnswerOnly
<1>3. ASSUME NEW c \in Callers, CallerStep(c)
      PROVE  AnswersOK'
  <2>1. answer' = answer
    BY <1>3, CallerTable DEF oneshot
  <2>2. ASSUME NEW of, Return(c, of), of \in {0, job[c].call}
        PROVE  AnswersOK'
    BY <2>2, <2>1 DEF Return, AnswersOK, OwnAnswerOnly
  <2>3. CASE ReceiveValue(c)
    BY <2>3, <1>0, TableBoundsAssumption, <2>2 DEF ReceiveValue, TypeInv, CallsOK, Job, CallIds,
       AnswersOK
  <2>4. CASE ReceiveCanceled(c) \/ UndoContext(c)
    BY <2>2, <2>4 DEF ReceiveCanceled, UndoContext
  <2>5. CASE \/ Begin(c) \/ BeginNote(c) \/ Register(c) \/ AddContext(c) \/ LockStdin(c)
             \/ Write(c) \/ WriteError(c) \/ TimeOut(c) \/ UndoPending(c)
    BY <1>1, <2>1, <2>5 DEF Begin, BeginNote, Register, AddContext, LockStdin, Write, WriteError,
                            TimeOut, UndoPending
  <2>6. QED
    BY <1>3, <2>3, <2>4, <2>5 DEF CallerStep, Call
<1>4. CASE \/ ReadLine \/ EndOfOutput \/ ClearPending \/ ClearContext
           \/ AbandonInitialize \/ KillChild \/ Server \/ UNCHANGED vars
  BY <1>4, <1>1 DEF ReadLine, EndOfOutput, ClearPending, ClearContext, AbandonInitialize,
                    KillChild, Server, ServerRead, ServerAnswer, ServerAsk, ServerGarble,
                    ServerExit, vars, callers, oneshot
<1>5. QED
  BY <1>2, <1>3, <1>4 DEF Next, Reader, CallerStep

(* A call returns its own response or an error: an answer that comes after  *)
(* its call's timeout finds no entry, and no entry is found under the id of *)
(* another call.                                                            *)
THEOREM CallsReturnOwnAnswers == Spec => []OwnAnswerOnly
<1>1. TypeInv /\ NumbersOK /\ [Next]_vars => NumbersOK'
  BY DrawnNext, EntriesNext, RequestsNext, ResponsesNext, AnswersNext DEF NumbersOK
<1>2. NumbersOK => OwnAnswerOnly
  BY DEF NumbersOK, AnswersOK
<1>3. QED
  BY <1>1, <1>2, NumbersInit, TypeInvAlways, PTL DEF Spec

----------------------------------------------------------------------------
(* Where the events of the threads go (ThreadRouting), for any workspaces,  *)
(* calls, threads and faults.  What is under way between the server and the *)
(* window is one queue: the line in the reader's hand and those it has not  *)
(* read.                                                                   *)
CONSTANTS Workspaces, Owner, Root, None, Scenes, MaxThreads, MaxSaid

VARIABLES
    scene, thread_workspace, hidden_thread_ids, background_thread_callbacks,
    senders, input, out, hand, codex, shown, concealed, blame

Routing == INSTANCE ThreadRouting
               WITH calls <- senders, stdin <- input, reader <- hand, server <- codex

(* There is a thread, the session is that of a workspace, the calls of a    *)
(* scene are made in workspaces, and no two of these have the same folder:  *)
(* useWorkspaceCrud skips a folder that was added already.                  *)
RoutingBasis ==
    /\ MaxThreads \in Nat \ {0} /\ MaxSaid \in Nat
    /\ Owner \in Workspaces /\ None \notin Workspaces
    /\ Root \in [Workspaces -> Seq(STRING)]
    /\ \A v, w \in Workspaces : Root[v] = Root[w] => v = w
    /\ \A s \in Scenes : s.calls \in Seq([kind : Routing!Kinds, ws : Workspaces])

(* The types; what an inbox holds and a text measures does not matter.      *)
SenderOf(texts) ==
    [step : {"none", "writing", "waiting", "answered", "hidden", "collect", "done"},
     method : Routing!Methods, thread : Routing!Threads \cup {0}, ok : BOOLEAN,
     inbox : texts, text : texts]
Hand == [busy : BOOLEAN, line : Routing!Line, to : Workspaces, asked : BOOLEAN]
ThreadServer ==
    [ws : [Routing!Threads -> Workspaces \cup {None}], memory : SUBSET Routing!Threads,
     live : SUBSET Routing!Threads, running : SUBSET Routing!Threads,
     over : SUBSET Routing!Threads, said : [Routing!Threads -> Nat]]
MapTypes ==
    /\ thread_workspace \in [Routing!Threads -> Workspaces \cup {None}]
    /\ hidden_thread_ids \subseteq Routing!Threads
    /\ background_thread_callbacks \in [Routing!Threads -> Routing!Calls \cup {0}]
SenderTypes == \E texts : senders \in [Routing!Calls -> SenderOf(texts)]
WireTypes == input \in Seq(Routing!Request) /\ out \in Seq(Routing!Line) /\ hand \in Hand
WindowTypes ==
    /\ shown \in [Workspaces -> SUBSET (Routing!Threads \cup {0})]
    /\ concealed \in [Workspaces -> SUBSET (Routing!Threads \cup {0})]
RoutingTypes ==
    /\ scene \in Scenes /\ MapTypes /\ SenderTypes /\ WireTypes /\ codex \in ThreadServer /\ WindowTypes

(* A thread is not of the server's own and works for w.                     *)
HomedAt(t, w) == t \notin codex.memory /\ codex.ws[t] = w
OnTheWay == IF hand.busy THEN <<hand.line>> \o out ELSE out
IsNotice(l) == l.kind \in Routing!Told
Announces(l, t) == l.kind = "started" /\ l.thread = t
Removes(l, t) == l.kind = "archived" /\ l.thread = t
Introduces(l, t) == (l.kind = "thread/start" /\ l.thread = t) \/ (l.kind = "item" /\ t \in l.names)

(* The server's threads, and what the maps and the window say of them.      *)
ThreadsOK ==
    /\ \A t \in codex.live \cup codex.memory : codex.ws[t] # None
    /\ codex.running \subseteq codex.live
    /\ codex.ws[1] # None /\ 1 \notin codex.memory
HomesOK ==
    /\ \A t \in Routing!Threads : thread_workspace[t] # None => thread_workspace[t] = codex.ws[t]
    /\ \A w \in Workspaces : \A t \in shown[w] : HomedAt(t, w) /\ t \notin concealed[w]
    /\ hidden_thread_ids \subseteq codex.memory

(* The thread of a call is of its workspace; that of a background prompt is *)
(* concealed once its start has been answered.                             *)
SenderOK(c) ==
    LET r == senders[c] IN
    /\ r.thread # 0 => HomedAt(r.thread, Routing!Of(c))
    /\ r.step = "none" => r.thread = 0
    /\ r.step \in {"hidden", "collect"} => Routing!Kind(c) = "prompt"
    /\ Routing!Kind(c) = "prompt" =>
         /\ r.method \in {"thread/start", "turn/start", "thread/archive"}
         /\ r.method = "thread/start" /\ r.step \in {"writing", "waiting"} => r.thread = 0
         /\ r.method = "thread/start" /\ r.step = "answered" /\ ~r.ok => r.thread = 0
         /\ r.thread # 0 => \/ r.step = "answered" /\ r.method = "thread/start"
                            \/ r.thread \in concealed[Routing!Of(c)]
SendersOK == \A c \in Routing!Calls : SenderOK(c)

RequestOK(r) == r.of \in Routing!Calls /\ (r.thread # 0 => HomedAt(r.thread, Routing!Of(r.of)))
LineOK(l) ==
    /\ \A t \in l.names : codex.ws[t] # None
    /\ Routing!IsAnswer(l) =>
         /\ l.of \in Routing!Calls
         /\ l.thread # 0 => /\ l.ok /\ l.kind \in {"thread/start", "thread/resume"}
                            /\ HomedAt(l.thread, Routing!Of(l.of))
    /\ IsNotice(l) =>
         /\ l.thread # 0 /\ codex.ws[l.thread] # None
         /\ l.kind = "archived" => l.thread \notin codex.memory
         /\ l.kind = "item" => \A t \in l.names \cup {l.thread} : HomedAt(t, codex.ws[l.thread])
LinesOK ==
    /\ \A i \in 1..Len(input) : RequestOK(input[i])
    /\ \A i \in 1..Len(OnTheWay) : LineOK(OnTheWay[i])

(* A start is asked for, or answered, once, and its call waits meanwhile.   *)
WaitsForStart(c) == senders[c].step = "waiting" /\ senders[c].method = "thread/start"
StartsAsked ==
    /\ \A i \in 1..Len(input) : input[i].method = "thread/start" => WaitsForStart(input[i].of)
    /\ \A i, j \in 1..Len(input) :
          input[i].method = "thread/start" /\ input[j].method = "thread/start" /\ input[i].of = input[j].of
            => i = j
SameStart(i, j) ==
    /\ OnTheWay[i].kind = "thread/start" /\ OnTheWay[j].kind = "thread/start"
    /\ OnTheWay[i].of = OnTheWay[j].of
StartsAnswered ==
    /\ \A i \in 1..Len(OnTheWay) : OnTheWay[i].kind = "thread/start" => WaitsForStart(OnTheWay[i].of)
    /\ \A i, j \in 1..Len(OnTheWay) : SameStart(i, j) => i = j
    /\ \A i \in 1..Len(input), j \in 1..Len(OnTheWay) :
          input[i].method = "thread/start" /\ OnTheWay[j].kind = "thread/start"
            => input[i].of # OnTheWay[j].of

(* A thread with a turn or an event under way has its workspace in the map, *)
(* or a line before the event will bring it there.                         *)
Placed(t, n) == thread_workspace[t] # None \/ \E j \in 1..n : Introduces(OnTheWay[j], t)
EventsPlaced ==
    /\ \A i \in 1..Len(OnTheWay) :
          IsNotice(OnTheWay[i]) /\ OnTheWay[i].thread \notin codex.memory
            => Placed(OnTheWay[i].thread, i - 1)
    /\ \A t \in codex.running \ codex.memory : Placed(t, Len(OnTheWay))
RequestsPlaced ==
    /\ \A i \in 1..Len(input) :
          input[i].thread \in codex.live => thread_workspace[input[i].thread] # None
    /\ \A c \in Routing!Calls :
          senders[c].step = "writing" /\ senders[c].thread \in codex.live
            => thread_workspace[senders[c].thread] # None
InHandPlaced ==
    hand.busy =>
      /\ IsNotice(hand.line) /\ hand.line.thread \notin codex.memory
           => hand.to = codex.ws[hand.line.thread]
      /\ hand.line.kind = "thread/start" /\ hand.line.thread # 0
           => thread_workspace[hand.line.thread] # None

(* The window is told to hide a thread of the server's own before it hears  *)
(* anything else of it.                                                    *)
Hushed(t, n) == t \in hidden_thread_ids \/ \E j \in 1..n : Announces(OnTheWay[j], t)
OwnHushed ==
    /\ \A i \in 1..Len(OnTheWay) :
          IsNotice(OnTheWay[i]) /\ OnTheWay[i].thread \in codex.memory
            => OnTheWay[i].kind = "started" \/ Hushed(OnTheWay[i].thread, i - 1)
    /\ \A t \in codex.memory : Hushed(t, Len(OnTheWay))

(* That a thread is archived is told last of it, and what is listed lives   *)
(* or is still to be told archived.                                        *)
RemovedLast ==
    \A i \in 1..Len(OnTheWay) : OnTheWay[i].kind = "archived" =>
      /\ OnTheWay[i].thread \notin codex.live
      /\ \A j \in (i + 1)..Len(OnTheWay) :
            ~(IsNotice(OnTheWay[j]) /\ OnTheWay[j].thread = OnTheWay[i].thread)
Lives(t, n) == t \in codex.live \/ \E j \in n..Len(OnTheWay) : Removes(OnTheWay[j], t)
ListedLive ==
    /\ \A i \in 1..Len(OnTheWay) :
          IsNotice(OnTheWay[i]) /\ OnTheWay[i].kind # "archived" => Lives(OnTheWay[i].thread, i)
    /\ \A w \in Workspaces : \A t \in shown[w] : Lives(t, 1)

(* A thread that lives is listed, concealed or still to be told of; what is *)
(* concealed, or listened to, is a background prompt's or the server's own. *)
LiveListed ==
    \A t \in codex.live \ codex.memory : t # 1 =>
      \/ t \in shown[codex.ws[t]] \cup concealed[codex.ws[t]]
      \/ \E j \in 1..Len(OnTheWay) : Announces(OnTheWay[j], t)
PromptOf(c, t) == Routing!Kind(c) = "prompt" /\ senders[c].thread = t
ConcealedOK ==
    /\ \A w \in Workspaces : \A t \in concealed[w] \ {0} :
          t \in codex.memory \/ \E c \in Routing!Calls : PromptOf(c, t)
    /\ \A t \in Routing!Threads : \A c \in Routing!Calls :
          background_thread_callbacks[t] = c => PromptOf(c, t) /\ t \in concealed[Routing!Of(c)]

RoutedOK ==
    /\ ThreadsOK /\ HomesOK /\ SendersOK /\ LinesOK
    /\ StartsAsked /\ StartsAnswered
    /\ EventsPlaced /\ RequestsPlaced /\ InHandPlaced
    /\ OwnHushed /\ RemovedLast /\ ListedLive /\ LiveListed /\ ConcealedOK

(* Once the server told of a thread too early, or a start was answered too  *)
(* late, nothing is claimed.                                               *)
RoutingInv == blame = {} => RoutingTypes /\ RoutedOK

(* Calls are counted from one, and each has a kind and a workspace.         *)
LEMMA RoutingFacts ==
  ASSUME RoutingBasis, scene \in Scenes
  PROVE  /\ Routing!Calls \subseteq Nat \ {0}
         /\ \A c \in Routing!Calls : Routing!Of(c) \in Workspaces /\ Routing!Kind(c) \in Routing!Kinds
         /\ Routing!Threads \subseteq Nat \ {0} /\ 1 \in Routing!Threads
<1>1. scene.calls \in Seq([kind : Routing!Kinds, ws : Workspaces])
  BY DEF RoutingBasis
<1>2. DOMAIN scene.calls = 1..Len(scene.calls) /\ Len(scene.calls) \in Nat
  BY <1>1
<1>3. \A c \in 1..Len(scene.calls) : scene.calls[c] \in [kind : Routing!Kinds, ws : Workspaces]
  <2>1. \A S : scene.calls \in Seq(S) => \A c \in 1..Len(scene.calls) : scene.calls[c] \in S
    OBVIOUS
  <2>2. QED
    BY <1>1, <2>1
<1>4. \A c \in Routing!Calls : Routing!Of(c) \in Workspaces /\ Routing!Kind(c) \in Routing!Kinds
  BY <1>2, <1>3 DEF Routing!Calls, Routing!Of, Routing!Kind
<1>5. QED
  BY <1>2, <1>4 DEF Routing!Calls, Routing!Threads, RoutingBasis

(* A thread's own folder is resolved to its workspace.                      *)
LEMMA FolderResolves ==
  ASSUME RoutingBasis, NEW w \in Workspaces
  PROVE  Routing!Resolve(Root[w]) = w
<1> DEFINE Around(v) == /\ Routing!IsPrefix(Root[v], Root[w])
                        /\ \A u \in Workspaces :
                              Routing!IsPrefix(Root[u], Root[w]) => Len(Root[u]) <= Len(Root[v])
<1>1. ASSUME NEW v \in Workspaces
      PROVE  /\ Len(Root[v]) \in Nat /\ SubSeq(Root[v], 1, Len(Root[v])) = Root[v]
             /\ Root[v] \in Seq(STRING)
  BY DEF RoutingBasis
<1>2. Around(w)
  BY <1>1 DEF Routing!IsPrefix
<1>3. ASSUME NEW v \in Workspaces, Around(v) PROVE v = w
  BY <1>1, <1>2, <1>3 DEF Routing!IsPrefix, RoutingBasis
<1>4. Routing!Resolve(Root[w]) = CHOOSE v \in Workspaces : Around(v)
  BY DEF Routing!Resolve
<1>5. QED
  BY <1>2, <1>3, <1>4

----------------------------------------------------------------------------
(* The lines on their way.  To read one leaves them as they are; a          *)
(* delivery takes the first; the server appends.                           *)
LEMMA WayTypes ==
  ASSUME WireTypes
  PROVE  /\ OnTheWay \in Seq(Routing!Line) /\ Len(OnTheWay) \in Nat
         /\ \A i \in 1..Len(OnTheWay) : OnTheWay[i] \in Routing!Line
         /\ hand.busy => Len(OnTheWay) >= 1 /\ OnTheWay[1] = hand.line
BY DEF WireTypes, Hand, OnTheWay

LEMMA WayStays == ASSUME UNCHANGED <<out, hand>> PROVE OnTheWay' = OnTheWay
  BY DEF OnTheWay

LEMMA WayRead ==
  ASSUME WireTypes, ~hand.busy, out # <<>>, hand'.busy, hand'.line = Head(out), out' = Tail(out)
  PROVE  OnTheWay' = OnTheWay /\ Len(OnTheWay) >= 1 /\ OnTheWay[1] = hand'.line
BY DEF WireTypes, OnTheWay

(* The lines after a delivery, or after the server wrote some, one by one.  *)
WayShortened ==
    /\ Len(OnTheWay)' = Len(OnTheWay) - 1
    /\ \A i \in 1..Len(OnTheWay) - 1 : OnTheWay'[i] = OnTheWay[i + 1]
WayExtended(lines) ==
    /\ Len(OnTheWay)' = Len(OnTheWay) + Len(lines)
    /\ \A i \in 1..Len(OnTheWay) : OnTheWay'[i] = OnTheWay[i]
    /\ \A i \in 1..Len(lines) : OnTheWay'[Len(OnTheWay) + i] = lines[i]

LEMMA WayDelivered ==
  ASSUME WireTypes, hand.busy, ~hand'.busy, out' = out
  PROVE  WayShortened
BY DEF WireTypes, OnTheWay, WayShortened

LEMMA WayWritten ==
  ASSUME WireTypes, NEW lines \in Seq(Routing!Line), hand' = hand, out' = out \o lines
  PROVE  WayExtended(lines) /\ out' \in Seq(Routing!Line)
BY DEF WireTypes, Hand, OnTheWay, WayExtended

----------------------------------------------------------------------------
(* What the steps do to the calls.                                         *)
OthersStay(c) == \A d \in Routing!Calls \ {c} : senders'[d] = senders[d]
Becomes(c, step, method, thread, ok) ==
    /\ senders'[c].step = step /\ senders'[c].method = method
    /\ senders'[c].thread = thread /\ senders'[c].ok = ok
    /\ OthersStay(c)

LEMMA SenderSet ==
  ASSUME NEW texts, senders \in [Routing!Calls -> SenderOf(texts)], NEW c \in Routing!Calls,
         NEW more, NEW r \in SenderOf(more), senders' = [senders EXCEPT ![c] = r], scene' = scene
  PROVE  SenderTypes' /\ senders'[c] = r /\ OthersStay(c)
<1>1. Routing!Calls' = Routing!Calls
  BY DEF Routing!Calls
<1>2. \A x \in SenderOf(texts) : x \in SenderOf(texts \cup more)
  BY DEF SenderOf
<1>3. r \in SenderOf(texts \cup more)
  BY DEF SenderOf
<1>4. senders' \in [Routing!Calls -> SenderOf(texts \cup more)]
  BY <1>2, <1>3
<1>5. QED
  BY <1>1, <1>4 DEF SenderTypes, OthersStay

(* A step, a request, an answer, an event for the listener, an end of it.   *)
LEMMA SenderSteps ==
  ASSUME SenderTypes, NEW c \in Routing!Calls, scene' = scene,
         NEW step \in {"none", "writing", "waiting", "answered", "hidden", "collect", "done"},
         senders' = [senders EXCEPT ![c].step = step]
  PROVE  /\ SenderTypes'
         /\ Becomes(c, step, senders[c].method, senders[c].thread, senders[c].ok)
BY SenderSet DEF SenderTypes, SenderOf, Becomes

LEMMA SenderAsks ==
  ASSUME SenderTypes, NEW c \in Routing!Calls, scene' = scene,
         NEW method \in Routing!Methods, NEW t \in Routing!Threads \cup {0},
         Routing!Ask(c, method, t)
  PROVE  SenderTypes' /\ Becomes(c, "writing", method, t, senders[c].ok)
<1>1. PICK texts : senders \in [Routing!Calls -> SenderOf(texts)]
  BY DEF SenderTypes
<1> DEFINE r == [senders[c] EXCEPT !.step = "writing", !.method = method, !.thread = t]
<1>2. r \in SenderOf(texts)
  BY <1>1 DEF SenderOf
<1>3. senders' = [senders EXCEPT ![c] = r]
  BY <1>1 DEF Routing!Ask
<1>4. SenderTypes' /\ senders'[c] = r /\ OthersStay(c)
  BY <1>1, <1>2, <1>3, SenderSet
<1>5. QED
  BY <1>1, <1>4 DEF Becomes, SenderOf

LEMMA SenderLeaves ==
  ASSUME SenderTypes, NEW c \in Routing!Calls, scene' = scene, NEW text, Routing!Leave(c, text)
  PROVE  SenderTypes' /\ Becomes(c, "writing", "thread/archive", senders[c].thread, senders[c].ok)
<1>1. PICK texts : senders \in [Routing!Calls -> SenderOf(texts)]
  BY DEF SenderTypes
<1> DEFINE r == [senders[c] EXCEPT !.step = "writing", !.method = "thread/archive",
                                   !.text = text, !.inbox = <<>>]
<1>2. r \in SenderOf(texts \cup {text, <<>>})
  BY <1>1 DEF SenderOf, Routing!Methods
<1>3. senders' = [senders EXCEPT ![c] = r]
  BY <1>1 DEF Routing!Leave
<1>4. SenderTypes' /\ senders'[c] = r /\ OthersStay(c)
  BY <1>1, <1>2, <1>3, SenderSet
<1>5. QED
  BY <1>1, <1>4 DEF Becomes, SenderOf

LEMMA SenderAnswered ==
  ASSUME SenderTypes, NEW l \in Routing!Line, l.of \in Routing!Calls, scene' = scene,
         senders' = [senders EXCEPT ![l.of].step = "answered", ![l.of].ok = l.ok,
                                    ![l.of].thread = IF l.thread = 0 THEN @ ELSE l.thread]
  PROVE  /\ SenderTypes'
         /\ Becomes(l.of, "answered", senders[l.of].method,
                    IF l.thread = 0 THEN senders[l.of].thread ELSE l.thread, l.ok)
<1>1. PICK texts : senders \in [Routing!Calls -> SenderOf(texts)]
  BY DEF SenderTypes
<1> DEFINE t == IF l.thread = 0 THEN senders[l.of].thread ELSE l.thread
           r == [senders[l.of] EXCEPT !.step = "answered", !.ok = l.ok, !.thread = t]
<1>2. t \in Routing!Threads \cup {0} /\ l.ok \in BOOLEAN
  BY <1>1 DEF SenderOf, Routing!Line, Routing!NoThread
<1>3. r \in SenderOf(texts)
  <2>1. senders[l.of] \in SenderOf(texts)
    BY <1>1
  <2>2. QED
    BY <1>2, <2>1 DEF SenderOf
<1>4. senders' = [senders EXCEPT ![l.of] = r]
  BY <1>1
<1>5. SenderTypes' /\ senders'[l.of] = r /\ OthersStay(l.of)
  BY <1>1, <1>3, <1>4, SenderSet
<1>6. QED
  BY <1>1, <1>5 DEF Becomes, SenderOf

LEMMA SenderHears ==
  ASSUME SenderTypes, NEW c \in Routing!Calls, scene' = scene, NEW event,
         senders' = [senders EXCEPT ![c].inbox = Append(@, event)]
  PROVE  /\ SenderTypes'
         /\ Becomes(c, senders[c].step, senders[c].method, senders[c].thread, senders[c].ok)
<1>1. PICK texts : senders \in [Routing!Calls -> SenderOf(texts)]
  BY DEF SenderTypes
<1> DEFINE heard == Append(senders[c].inbox, event)
           r == [senders[c] EXCEPT !.inbox = heard]
<1>2. r \in SenderOf(texts \cup {heard})
  BY <1>1 DEF SenderOf
<1>3. senders' = [senders EXCEPT ![c] = r]
  BY <1>1
<1>4. SenderTypes' /\ senders'[c] = r /\ OthersStay(c)
  BY <1>1, <1>2, <1>3, SenderSet
<1>5. QED
  BY <1>1, <1>4 DEF Becomes, SenderOf

----------------------------------------------------------------------------
(* What a step of a caller does: it leaves the other calls, the server and  *)
(* the lines alone; a request brings its thread's workspace into the map;   *)
(* no call whose start is awaited moves on by itself, unless it is late.    *)
Written(c) == [of |-> c, method |-> senders[c].method, thread |-> senders[c].thread]
Hides(c) ==
    /\ Routing!Kind(c) = "prompt" /\ senders'[c].thread = senders[c].thread
    /\ concealed' = [concealed EXCEPT ![Routing!Of(c)] = @ \cup {senders[c].thread}]
    /\ shown' = [shown EXCEPT ![Routing!Of(c)] = @ \ {senders[c].thread}]
Lists(c) ==
    /\ senders[c].thread \in codex.live /\ concealed' = concealed
    /\ shown' = Routing!Listed(Routing!Of(c), senders[c].thread)
SenderStep(c) ==
    /\ UNCHANGED <<scene, codex, hidden_thread_ids, hand, OnTheWay>> /\ blame = {}
    /\ OthersStay(c) /\ ~WaitsForStart(c) /\ SenderOK(c)'
    /\ senders[c].step # "none" => senders'[c].thread = senders[c].thread
    /\ \A t \in Routing!Threads :
          thread_workspace'[t] = IF senders'[c].step = "writing" /\ t = senders'[c].thread
                                 THEN Routing!Of(c) ELSE thread_workspace[t]
    /\ \/ input' = input /\ senders'[c].step # "waiting"
       \/ /\ input' = Append(input, Written(c)) /\ senders[c].step = "writing"
          /\ senders'[c].step = "waiting" /\ senders'[c].method = senders[c].method
    /\ UNCHANGED <<shown, concealed>> \/ Hides(c) \/ Lists(c)
    /\ \A t \in Routing!Threads :
          \/ background_thread_callbacks'[t] \in {0, background_thread_callbacks[t]}
          \/ /\ background_thread_callbacks'[t] = c /\ t = senders'[c].thread
             /\ t \in concealed'[Routing!Of(c)] /\ Routing!Kind(c) = "prompt"

(* Asking for a thread of the own workspace, or for none.                   *)
LEMMA AskingMaps ==
  ASSUME RoutingTypes, RoutingBasis, NEW c \in Routing!Calls, NEW method,
         NEW t \in Routing!Threads \cup {0}, Routing!Ask(c, method, t)
  PROVE  \A u \in Routing!Threads :
            thread_workspace'[u] = IF u = t THEN Routing!Of(c) ELSE thread_workspace[u]
BY RoutingFacts DEF RoutingTypes, MapTypes, Routing!Ask, Routing!Mapped, Routing!NoThread

LEMMA LeavingMaps ==
  ASSUME RoutingTypes, RoutingBasis, NEW c \in Routing!Calls, NEW text, Routing!Leave(c, text)
  PROVE  /\ \A u \in Routing!Threads :
              thread_workspace'[u] = IF u = senders[c].thread THEN Routing!Of(c) ELSE thread_workspace[u]
         /\ \A u \in Routing!Threads :
              background_thread_callbacks'[u] \in {0, background_thread_callbacks[u]}
BY RoutingFacts DEF RoutingTypes, MapTypes, Routing!Leave, Routing!Mapped, Routing!NoThread,
   Routing!Unheard

LEMMA CallerBegins ==
  ASSUME RoutingBasis, RoutingTypes, blame = {}, RoutedOK, NEW c \in Routing!Calls, Routing!Begin(c)
  PROVE  SenderStep(c)
<1>1. /\ senders[c].step = "none" /\ scene' = scene /\ OnTheWay' = OnTheWay
      /\ UNCHANGED <<codex, hidden_thread_ids, hand, input, shown, concealed,
                     background_thread_callbacks>>
  BY WayStays DEF Routing!Begin, Routing!window
<1>2. /\ Routing!Of(c) \in Workspaces /\ Routing!Of(c)' = Routing!Of(c)
      /\ Routing!Kind(c)' = Routing!Kind(c) /\ 1 \in Routing!Threads
  BY <1>1, RoutingFacts DEF RoutingTypes, Routing!Of, Routing!Kind
<1>3. PICK method \in Routing!Methods, t \in Routing!Threads \cup {0} :
         /\ Routing!Ask(c, method, t)
         /\ t # 0 => HomedAt(t, Routing!Of(c))
         /\ Routing!Kind(c) = "prompt" => method = "thread/start" /\ t = 0
  BY <1>2 DEF RoutingTypes, WindowTypes, RoutedOK, HomesOK, ThreadsOK, HomedAt, Routing!Begin,
     Routing!Methods, Routing!NoThread
<1>4. Becomes(c, "writing", method, t, senders[c].ok)
  BY <1>1, <1>3, SenderAsks DEF RoutingTypes
<1>5. SenderOK(c)'
  BY <1>1, <1>2, <1>3, <1>4 DEF SenderOK, Becomes, HomedAt, Routing!Methods
<1>6. QED
  BY <1>1, <1>3, <1>4, <1>5, AskingMaps DEF SenderStep, Becomes, WaitsForStart

(* A call that goes on with nothing sent.                                   *)
LEMMA CallerPasses ==
  ASSUME RoutingBasis, RoutingTypes, blame = {}, RoutedOK, NEW c \in Routing!Calls,
         UNCHANGED <<scene, codex, hidden_thread_ids, hand, out, input, thread_workspace,
                     background_thread_callbacks>>,
         NEW step \in {"hidden", "collect", "done"}, senders' = [senders EXCEPT ![c].step = step],
         ~WaitsForStart(c), senders[c].step # "none",
         step \in {"hidden", "collect"} => Routing!Kind(c) = "prompt",
         \/ UNCHANGED <<shown, concealed>>
         \/ Routing!HideThread(Routing!Of(c), senders[c].thread) /\ Routing!Kind(c) = "prompt"
         \/ Lists(c),
         Routing!Kind(c) = "prompt" /\ senders[c].step = "answered" /\ senders[c].method = "thread/start"
           /\ senders[c].ok => Routing!HideThread(Routing!Of(c), senders[c].thread)
  PROVE  SenderStep(c)
<1>1. Becomes(c, step, senders[c].method, senders[c].thread, senders[c].ok)
  BY SenderSteps DEF RoutingTypes
<1>2. /\ Routing!Of(c) \in Workspaces /\ Routing!Of(c)' = Routing!Of(c)
      /\ Routing!Kind(c)' = Routing!Kind(c) /\ OnTheWay' = OnTheWay
  BY RoutingFacts, WayStays DEF RoutingTypes, Routing!Of, Routing!Kind
<1>3. UNCHANGED <<shown, concealed>> \/ Hides(c) \/ Lists(c)
  BY <1>1 DEF Routing!HideThread, Hides, Becomes
<1>4. concealed[Routing!Of(c)] \subseteq concealed'[Routing!Of(c)]
  BY <1>2, <1>3 DEF Hides, Lists, RoutingTypes, WindowTypes
<1>5. Routing!HideThread(Routing!Of(c), senders[c].thread)
        => senders[c].thread \in concealed'[Routing!Of(c)]
  BY <1>2 DEF Routing!HideThread, RoutingTypes, WindowTypes
<1>6. SenderOK(c)'
  BY <1>1, <1>2, <1>4, <1>5 DEF RoutedOK, SendersOK, RoutingTypes, SenderTypes, SenderOf,
     SenderOK, Becomes, HomedAt
<1>7. QED
  BY <1>1, <1>2, <1>3, <1>6 DEF SenderStep, Becomes

LEMMA CallerWrites ==
  ASSUME RoutingBasis, RoutingTypes, blame = {}, RoutedOK, NEW c \in Routing!Calls, Routing!Write(c)
  PROVE  SenderStep(c)
<1>1. /\ senders[c].step = "writing" /\ scene' = scene /\ OnTheWay' = OnTheWay
      /\ UNCHANGED <<codex, hidden_thread_ids, hand, shown, concealed, thread_workspace,
                     background_thread_callbacks>>
      /\ input' = Append(input, Written(c))
  BY WayStays DEF Routing!Write, Routing!window, Routing!maps, Written
<1>2. Becomes(c, "waiting", senders[c].method, senders[c].thread, senders[c].ok)
  BY <1>1, SenderSteps DEF RoutingTypes, Routing!Write
<1>3. SenderOK(c)'
  BY <1>1, <1>2 DEF RoutedOK, SendersOK, Routing!Of, Routing!Kind, SenderOK, Becomes, HomedAt
<1>4. QED
  BY <1>1, <1>2, <1>3 DEF SenderStep, Becomes, WaitsForStart

LEMMA CallerLeaves ==
  ASSUME RoutingBasis, RoutingTypes, blame = {}, RoutedOK, NEW c \in Routing!Calls,
         NEW text, Routing!Leave(c, text), ~WaitsForStart(c), senders[c].step # "none",
         ~(senders[c].step = "answered" /\ senders[c].method = "thread/start"),
         UNCHANGED <<scene, hidden_thread_ids, input, out, hand, codex, Routing!window>>
  PROVE  SenderStep(c)
BY SenderLeaves, WayStays, LeavingMaps DEF RoutingTypes, Routing!window, RoutedOK, SendersOK,
   Routing!Of, Routing!Kind, SenderOK, Becomes, HomedAt, SenderStep

LEMMA CallerListens ==
  ASSUME RoutingBasis, RoutingTypes, blame = {}, RoutedOK, NEW c \in Routing!Calls,
         Routing!PromptListens(c)
  PROVE  SenderStep(c)
<1>1. /\ senders[c].step = "hidden" /\ scene' = scene /\ OnTheWay' = OnTheWay
      /\ UNCHANGED <<codex, hidden_thread_ids, hand, input, shown, concealed>>
      /\ background_thread_callbacks' = [background_thread_callbacks EXCEPT ![senders[c].thread] = c]
      /\ Routing!Ask(c, "turn/start", senders[c].thread)
  BY WayStays DEF Routing!PromptListens, Routing!window, Routing!Listener
<1>2. /\ senders[c].thread \in Routing!Threads \cup {0} /\ "turn/start" \in Routing!Methods
      /\ background_thread_callbacks \in [Routing!Threads -> Routing!Calls \cup {0}]
      /\ 0 \notin Routing!Threads
  BY RoutingFacts DEF RoutingTypes, SenderTypes, SenderOf, Routing!Methods, MapTypes
<1>3. Becomes(c, "writing", "turn/start", senders[c].thread, senders[c].ok)
  BY <1>1, <1>2, SenderAsks DEF RoutingTypes
<1>4. SenderOK(c)
  BY DEF RoutedOK, SendersOK
<1>5. SenderOK(c)'
  BY <1>1, <1>3, <1>4 DEF Routing!Of, Routing!Kind, SenderOK, Becomes, HomedAt
<1>6. \A t \in Routing!Threads :
         \/ background_thread_callbacks'[t] \in {0, background_thread_callbacks[t]}
         \/ /\ background_thread_callbacks'[t] = c /\ t = senders'[c].thread
            /\ t \in concealed'[Routing!Of(c)] /\ Routing!Kind(c) = "prompt"
  BY <1>1, <1>2, <1>3, <1>4 DEF SenderOK, Becomes
<1>7. QED
  BY <1>1, <1>2, <1>3, <1>5, <1>6, AskingMaps DEF SenderStep, Becomes, WaitsForStart

LEMMA CallerMoves ==
  ASSUME RoutingBasis, RoutingTypes, blame' = {}, RoutedOK, NEW c \in Routing!Calls,
         Routing!Caller(c)
  PROVE  SenderStep(c)
<1>0. blame = {}
  BY DEF Routing!Caller, Routing!Begin, Routing!Write, Routing!Returned, Routing!TimeOut,
         Routing!PromptHides, Routing!PromptListens, Routing!PromptStarted,
         Routing!PromptCollects, Routing!PromptGivesUp, Routing!PromptEnds
<1>1. CASE Routing!Begin(c)
  BY <1>0, <1>1, CallerBegins
<1>2. CASE Routing!Write(c)
  BY <1>0, <1>2, CallerWrites
<1>3. CASE Routing!Returned(c)
  BY <1>3, <1>0, CallerPasses DEF Routing!Returned, Lists, Routing!Finished, WaitsForStart
<1>4. CASE Routing!TimeOut(c)
  BY <1>4, <1>0, CallerLeaves, CallerPasses DEF Routing!TimeOut, WaitsForStart,
     Routing!Finished, Routing!window
<1>5. CASE Routing!PromptHides(c)
  BY <1>0, <1>5, CallerPasses DEF Routing!PromptHides, Routing!window, Routing!maps, WaitsForStart
<1>6. CASE Routing!PromptListens(c)
  BY <1>0, <1>6, CallerListens
<1>7. CASE Routing!PromptStarted(c)
  BY <1>0, <1>7, CallerPasses, CallerLeaves DEF Routing!PromptStarted, Routing!window,
     WaitsForStart
<1>8. CASE Routing!PromptCollects(c)
  BY <1>8, <1>0, CallerLeaves DEF Routing!PromptCollects, WaitsForStart
<1>9. CASE Routing!PromptGivesUp(c)
  BY <1>9, <1>0, CallerLeaves DEF Routing!PromptGivesUp, WaitsForStart
<1>10. CASE Routing!PromptEnds(c)
  BY <1>0, <1>10, CallerPasses DEF Routing!PromptEnds, Routing!Finished, WaitsForStart, Routing!window
<1>11. QED
  BY <1>1, <1>2, <1>3, <1>4, <1>5, <1>6, <1>7, <1>8, <1>9, <1>10 DEF Routing!Caller

----------------------------------------------------------------------------
(* A step of a caller keeps each part of the invariant.                     *)
SameScene ==
    /\ Routing!Calls' = Routing!Calls
    /\ \A c \in Routing!Calls : Routing!Of(c)' = Routing!Of(c) /\ Routing!Kind(c)' = Routing!Kind(c)
LEMMA SceneStays == ASSUME scene' = scene PROVE SameScene
  BY DEF SameScene, Routing!Calls, Routing!Of, Routing!Kind

(* What a call's step leaves of the window and the map.                     *)
LEMMA CallerFrame ==
  ASSUME RoutingBasis, RoutingTypes, NEW c \in Routing!Calls, SenderStep(c)
  PROVE  /\ SameScene /\ Routing!Of(c) \in Workspaces
         /\ \A w \in Workspaces : concealed[w] \subseteq concealed'[w]
         /\ \A w \in Workspaces : \A t \in shown'[w] :
               \/ t \in shown[w] /\ ~(Hides(c) /\ w = Routing!Of(c) /\ t = senders[c].thread)
               \/ /\ Lists(c) /\ w = Routing!Of(c) /\ t = senders[c].thread /\ t \in codex.live
                  /\ t \notin concealed[w] /\ concealed' = concealed
         /\ \A w \in Workspaces : \A t \in shown[w] : t \in shown'[w] \cup concealed'[w]
         /\ \A w \in Workspaces : \A t \in concealed'[w] :
               t \in concealed[w] \/ (Hides(c) /\ w = Routing!Of(c) /\ t = senders[c].thread)
         /\ \A t \in Routing!Threads :
               thread_workspace[t] # None => thread_workspace'[t] # None
<1>1. SameScene
  BY SceneStays DEF SenderStep
<1>2. Routing!Of(c) \in Workspaces /\ None \notin Workspaces
  BY RoutingFacts DEF RoutingTypes, RoutingBasis
<1>3. \A t \in Routing!Threads : thread_workspace[t] # None => thread_workspace'[t] # None
  BY <1>2 DEF SenderStep
<1>4. DOMAIN shown = Workspaces /\ DOMAIN concealed = Workspaces
  BY DEF RoutingTypes, WindowTypes
<1>5. CASE UNCHANGED <<shown, concealed>>
  BY <1>1, <1>2, <1>3, <1>4, <1>5 DEF Hides
<1>6. CASE Hides(c)
  BY <1>1, <1>2, <1>3, <1>4, <1>6 DEF Hides
<1>7. CASE Lists(c)
  BY <1>1, <1>2, <1>3, <1>4, <1>7 DEF Lists, Hides, Routing!Listed
<1>8. QED
  BY <1>5, <1>6, <1>7 DEF SenderStep

LEMMA CallerKeepsHomes ==
  ASSUME RoutingBasis, RoutingTypes, RoutedOK, NEW c \in Routing!Calls, SenderStep(c)
  PROVE  ThreadsOK' /\ HomesOK'
<1>1. ThreadsOK'
  BY DEF SenderStep, RoutedOK, ThreadsOK
<1>2. ASSUME NEW t \in Routing!Threads, thread_workspace'[t] # None
      PROVE  thread_workspace'[t] = codex'.ws[t]
  BY RoutingFacts, CallerFrame, <1>2 DEF SenderStep, RoutingTypes, SenderOK, HomedAt, SameScene,
     RoutedOK, HomesOK
<1>3. ASSUME NEW w \in Workspaces, NEW t \in shown'[w]
      PROVE  HomedAt(t, w)' /\ t \notin concealed'[w]
  <2>1. CASE t \in shown[w] /\ ~(Hides(c) /\ w = Routing!Of(c) /\ t = senders[c].thread)
    BY <2>1, CallerFrame DEF SenderStep, RoutedOK, HomesOK, HomedAt
  <2>2. CASE /\ Lists(c) /\ w = Routing!Of(c) /\ t = senders[c].thread /\ t \in codex.live
             /\ t \notin concealed[w] /\ concealed' = concealed
    BY <2>2, RoutingFacts DEF RoutingTypes, ThreadServer, RoutedOK, SendersOK, SenderOK,
       SenderStep, HomedAt
  <2>3. QED
    BY <2>1, <2>2, CallerFrame
<1>4. hidden_thread_ids' \subseteq codex'.memory
  BY DEF SenderStep, RoutedOK, HomesOK
<1>5. QED
  BY <1>1, <1>2, <1>3, <1>4 DEF HomesOK

LEMMA CallerKeepsSenders ==
  ASSUME RoutingBasis, RoutingTypes, RoutedOK, NEW c \in Routing!Calls, SenderStep(c)
  PROVE  SendersOK' /\ LinesOK'
<1>1. ASSUME NEW d \in Routing!Calls PROVE SenderOK(d)'
  BY RoutingFacts, CallerFrame DEF SenderStep, OthersStay, RoutingTypes, RoutedOK, SendersOK,
     SenderOK, HomedAt, SameScene
<1>2. ASSUME NEW r, RequestOK(r) PROVE RequestOK(r)'
  BY <1>2, CallerFrame DEF RequestOK, HomedAt, SameScene, SenderStep
<1>3. RequestOK(Written(c))
  BY DEF RequestOK, Written, RoutedOK, SendersOK, SenderOK
<1>4. \A i \in 1..Len(input)' : RequestOK(input[i])'
  BY <1>2, <1>3 DEF RoutingTypes, WireTypes, RoutedOK, LinesOK, SenderStep
<1>5. \A i \in 1..Len(OnTheWay)' : LineOK(OnTheWay[i])'
  BY CallerFrame DEF LineOK, HomedAt, SameScene, SenderStep, IsNotice, Routing!IsAnswer,
     RoutedOK, LinesOK
<1>6. QED
  BY <1>1, <1>4, <1>5, CallerFrame DEF SendersOK, LinesOK, SameScene

LEMMA CallerKeepsStarts ==
  ASSUME RoutingBasis, RoutingTypes, RoutedOK, NEW c \in Routing!Calls, SenderStep(c)
  PROVE  StartsAsked' /\ StartsAnswered'
<1>1. \A d : d \in Routing!Calls /\ WaitsForStart(d) => d # c /\ WaitsForStart(d)'
  BY DEF SenderStep, OthersStay, WaitsForStart
<1>2. \A i \in 1..Len(input) : input[i].of \in Routing!Calls
  BY DEF RoutedOK, LinesOK, RequestOK
<1>3. \A i \in 1..Len(OnTheWay) : OnTheWay[i].kind = "thread/start" => OnTheWay[i].of \in Routing!Calls
  BY DEF RoutedOK, LinesOK, LineOK, Routing!IsAnswer, Routing!Methods
<1>4. input \in Seq(Routing!Request) /\ Len(input) \in Nat
  BY DEF RoutingTypes, WireTypes
<1>5. CASE input' = input
  BY <1>1, <1>2, <1>3, <1>5 DEF RoutedOK, StartsAsked, StartsAnswered, SameStart, SenderStep
<1>6. CASE /\ input' = Append(input, Written(c)) /\ senders[c].step = "writing"
           /\ senders'[c].step = "waiting" /\ senders'[c].method = senders[c].method
  BY <1>4, <1>6, <1>1, <1>2, <1>3 DEF Written, WaitsForStart, RoutedOK, StartsAsked,
     StartsAnswered, SameStart, SenderStep
<1>7. QED
  BY <1>5, <1>6 DEF SenderStep

LEMMA CallerKeepsPlaces ==
  ASSUME RoutingBasis, RoutingTypes, RoutedOK, NEW c \in Routing!Calls, SenderStep(c)
  PROVE  EventsPlaced' /\ RequestsPlaced' /\ InHandPlaced'
<1>1. \A t \in Routing!Threads : thread_workspace[t] # None => thread_workspace'[t] # None
  BY CallerFrame
<1>2. \A i \in 1..Len(OnTheWay) : OnTheWay[i] \in Routing!Line
  BY WayTypes DEF RoutingTypes
<1>3. /\ codex \in ThreadServer /\ input \in Seq(Routing!Request) /\ Len(input) \in Nat
      /\ \A i \in 1..Len(input) : input[i] \in Routing!Request
      /\ hand \in Hand
  BY DEF RoutingTypes, WireTypes
<1>4. \A i \in 1..Len(OnTheWay) : IsNotice(OnTheWay[i]) => OnTheWay[i].thread \in Routing!Threads
  BY <1>2 DEF RoutedOK, LinesOK, LineOK, Routing!Line, Routing!NoThread
<1>5. EventsPlaced'
  BY <1>1, <1>3, <1>4 DEF Placed, SenderStep, ThreadServer, IsNotice, RoutedOK, EventsPlaced
<1>6. RequestsPlaced'
  <2>1. ASSUME NEW d \in Routing!Calls, senders'[d].step = "writing", senders'[d].thread \in codex.live
        PROVE  thread_workspace'[senders'[d].thread] # None
    <3>1. codex.live \subseteq Routing!Threads
      BY <1>3 DEF ThreadServer
    <3>2. CASE d = c
      <4>1. senders'[c].thread \in Routing!Threads /\ senders'[c].step = "writing"
        BY <2>1, <3>1, <3>2
      <4>2. thread_workspace'[senders'[c].thread] = Routing!Of(c)
        BY <4>1 DEF SenderStep
      <4>3. Routing!Of(c) # None
        <5>1. Routing!Of(c) \in Workspaces
          BY CallerFrame
        <5>2. QED
          BY <5>1 DEF RoutingBasis
      <4>4. QED
        BY <3>2, <4>2, <4>3
    <3>3. CASE d # c
      BY <1>1, <2>1, <3>1, <3>3 DEF SenderStep, OthersStay, RoutedOK, RequestsPlaced
    <3>4. QED
      BY <3>2, <3>3
  <2>2. ASSUME NEW i \in 1..Len(input), input[i].thread \in codex.live
        PROVE  thread_workspace'[input[i].thread] # None
    BY <1>1, <1>3, <2>2 DEF RoutedOK, RequestsPlaced, ThreadServer
  <2>3. CASE input' = input
    BY <2>1, <2>2, <2>3, CallerFrame DEF RequestsPlaced, SenderStep, SameScene
  <2>4. CASE input' = Append(input, Written(c)) /\ senders[c].step = "writing"
    <3>1. ASSUME senders[c].thread \in codex.live PROVE thread_workspace'[senders[c].thread] # None
      BY <1>1, <1>3, <2>4, <3>1 DEF RoutedOK, RequestsPlaced, ThreadServer
    <3>2. /\ Len(input') = Len(input) + 1 /\ input'[Len(input) + 1].thread = senders[c].thread
          /\ \A i \in 1..Len(input) : input'[i] = input[i]
          /\ \A i \in 1..Len(input) + 1 : i \in 1..Len(input) \/ i = Len(input) + 1
      BY <1>3, <2>4 DEF Written
    <3>3. QED
      BY <2>1, <2>2, <3>1, <3>2, CallerFrame DEF RequestsPlaced, SenderStep, SameScene
  <2>5. QED
    BY <2>3, <2>4 DEF SenderStep
<1>7. InHandPlaced'
  BY <1>3, <1>1 DEF Hand, Routing!Line, Routing!NoThread, InHandPlaced, RoutedOK, SenderStep,
     IsNotice
<1>8. QED
  BY <1>5, <1>6, <1>7

LEMMA CallerKeepsWindow ==
  ASSUME RoutingBasis, RoutingTypes, RoutedOK, NEW c \in Routing!Calls, SenderStep(c)
  PROVE  OwnHushed' /\ RemovedLast' /\ ListedLive' /\ LiveListed' /\ ConcealedOK'
<1>1. UNCHANGED <<codex, hidden_thread_ids, OnTheWay>>
  BY DEF SenderStep
<1>2. OwnHushed' /\ RemovedLast'
  BY <1>1 DEF RoutedOK, OwnHushed, RemovedLast, Hushed, Announces, IsNotice
<1>3. ListedLive'
  BY <1>1, CallerFrame DEF Lives, Removes, RoutedOK, ListedLive, IsNotice
<1>4. LiveListed'
  BY <1>1, CallerFrame DEF RoutingTypes, ThreadServer, RoutedOK, ThreadsOK, LiveListed,
     Announces
<1>5. ConcealedOK'
  BY CallerFrame, RoutingFacts, <1>1 DEF SenderStep, OthersStay, PromptOf, SameScene, RoutedOK,
     SendersOK, SenderOK, ConcealedOK, Hides, RoutingTypes
<1>6. QED
  BY <1>2, <1>3, <1>4, <1>5

----------------------------------------------------------------------------
(* The reader takes a line: what it learns is right, and where it sends a   *)
(* notice is where the thread works.                                       *)
ReadStep ==
    /\ UNCHANGED <<scene, background_thread_callbacks, senders, input, codex, shown, concealed>>
    /\ OnTheWay' = OnTheWay /\ Len(OnTheWay) >= 1 /\ hand'.busy /\ hand'.line = OnTheWay[1]
    /\ ~hand.busy /\ out' = Tail(out) /\ hand' \in Hand
    /\ thread_workspace' \in [Routing!Threads -> Workspaces \cup {None}]
    /\ \A t \in Routing!Threads :
          /\ thread_workspace'[t] \in {None, codex.ws[t]}
          /\ t \notin codex.memory /\ thread_workspace[t] # None => thread_workspace'[t] # None
    /\ hidden_thread_ids \subseteq hidden_thread_ids' /\ hidden_thread_ids' \subseteq codex.memory
    /\ InHandPlaced'

LEMMA ReadLearns ==
  ASSUME RoutingBasis, RoutingTypes, RoutedOK, NEW l \in Routing!Line, LineOK(l)
  PROVE  /\ Routing!Learned(l) \in [Routing!Threads -> Workspaces \cup {None}]
         /\ \A t \in Routing!Threads :
              /\ Routing!Learned(l)[t] \in {None, codex.ws[t]}
              /\ t \notin codex.memory /\ thread_workspace[t] # None => Routing!Learned(l)[t] # None
         /\ ~Routing!Asked(l) => Routing!Learned(l) = thread_workspace
         /\ Routing!Asked(l) /\ l.kind = "thread/start" /\ l.thread # 0
              => Routing!Learned(l)[l.thread] # None
<1>1. /\ thread_workspace \in [Routing!Threads -> Workspaces \cup {None}] /\ None \notin Workspaces
      /\ codex.ws \in [Routing!Threads -> Workspaces \cup {None}]
      /\ \A t \in Routing!Threads : thread_workspace[t] \in {None, codex.ws[t]}
      /\ l.thread \in Routing!Threads \cup {0} /\ 0 \notin Routing!Threads
      /\ l.names \subseteq Routing!Threads
  BY RoutingFacts DEF RoutingTypes, MapTypes, ThreadServer, RoutedOK, HomesOK, Routing!Line,
     Routing!NoThread, RoutingBasis
<1>2. ASSUME NEW t \in l.names
      PROVE  Routing!Resolve(Routing!Cwd(t)) = codex.ws[t] /\ codex.ws[t] \in Workspaces
  BY <1>1, <1>2, FolderResolves DEF LineOK, Routing!Cwd
<1>3. CASE ~Routing!Asked(l)
  BY <1>1, <1>3 DEF Routing!Learned
<1>4. CASE Routing!Asked(l) /\ l.kind = "thread/list"
  BY <1>4, <1>2, <1>1 DEF Routing!Learned
<1>5. CASE Routing!Asked(l) /\ l.kind # "thread/list"
  BY <1>5, RoutingFacts, <1>1 DEF Routing!Learned, Routing!Mapped, Routing!NoThread, LineOK,
     Routing!Asked, RoutingTypes, HomedAt
<1>6. QED
  BY <1>3, <1>4, <1>5

LEMMA ReadMoves ==
  ASSUME RoutingBasis, RoutingTypes, blame = {}, RoutedOK, Routing!ReadLine
  PROVE  ReadStep
<1> DEFINE l == Head(out)
<1>1. /\ ~hand.busy /\ out # <<>> /\ out' = Tail(out)
      /\ thread_workspace' = Routing!Learned(l)
      /\ hidden_thread_ids' = hidden_thread_ids \cup
            (IF Routing!Asked(l) /\ l.kind = "thread/list" THEN l.names \cap codex.memory ELSE {})
      /\ hand' = [busy |-> TRUE, line |-> l, to |-> Routing!Routed(l, thread_workspace'),
                  asked |-> Routing!Asked(l)]
      /\ UNCHANGED <<scene, background_thread_callbacks, senders, input, codex, shown, concealed>>
  BY DEF Routing!ReadLine, Routing!window
<1>2. OnTheWay' = OnTheWay /\ Len(OnTheWay) >= 1 /\ OnTheWay[1] = l
  BY <1>1, WayRead DEF RoutingTypes
<1>3. Len(OnTheWay) \in Nat /\ l \in Routing!Line
  BY <1>2, WayTypes DEF RoutingTypes
<1>4. LineOK(l)
  BY <1>2, <1>3 DEF RoutedOK, LinesOK
<1> HIDE DEF l
<1>5. /\ thread_workspace' \in [Routing!Threads -> Workspaces \cup {None}]
      /\ \A t \in Routing!Threads :
            /\ thread_workspace'[t] \in {None, codex.ws[t]}
            /\ t \notin codex.memory /\ thread_workspace[t] # None => thread_workspace'[t] # None
      /\ ~Routing!Asked(l) => thread_workspace' = thread_workspace
      /\ Routing!Asked(l) /\ l.kind = "thread/start" /\ l.thread # 0
           => thread_workspace'[l.thread] # None
  BY <1>1, <1>3, <1>4, ReadLearns
<1>6. Routing!IsAnswer(l) => Routing!Of(l.of) \in Workspaces
  BY <1>4, RoutingFacts DEF LineOK, RoutingTypes
<1>7. l.thread \in Routing!Threads \cup {0} /\ Owner \in Workspaces /\ Routing!Asked(l) \in BOOLEAN
  BY <1>3 DEF Routing!Line, Routing!NoThread, RoutingBasis, Routing!Asked
<1>8. Routing!Routed(l, thread_workspace') \in Workspaces
  BY <1>5, <1>6, <1>7 DEF Routing!Routed, Routing!NoThread, Routing!Asked
<1>9. hand' \in Hand
  BY <1>1, <1>3, <1>7, <1>8 DEF Hand
<1>10. hidden_thread_ids \subseteq hidden_thread_ids' /\ hidden_thread_ids' \subseteq codex.memory
  BY <1>1 DEF RoutedOK, HomesOK
<1>11. InHandPlaced'
  <2>1. hand'.line = l /\ hand'.to = Routing!Routed(l, thread_workspace')
    BY <1>1
  <2>2. ASSUME IsNotice(l), l.thread \notin codex.memory
        PROVE  Routing!Routed(l, thread_workspace') = codex.ws[l.thread]
    BY <1>4, <1>7, <2>2, <1>2, <1>3, <1>5, RoutingFacts DEF LineOK, RoutedOK, EventsPlaced,
       Placed, Routing!Routed, Routing!NoThread, RoutingTypes
  <2>3. ASSUME l.kind = "thread/start", l.thread # 0 PROVE thread_workspace'[l.thread] # None
    BY <1>2, <1>3, <2>3, <1>5 DEF RoutedOK, StartsAnswered, Routing!Asked, Routing!IsAnswer,
       Routing!Methods, WaitsForStart
  <2>4. QED
    BY <1>1, <2>1, <2>2, <2>3 DEF InHandPlaced, IsNotice
<1>12. QED
  BY <1>1, <1>2, <1>5, <1>9, <1>10, <1>11 DEF ReadStep

LEMMA ReadKeeps ==
  ASSUME RoutingBasis, RoutingTypes, RoutedOK, ReadStep
  PROVE  RoutingTypes' /\ RoutedOK'
<1>1. /\ UNCHANGED <<scene, background_thread_callbacks, senders, input, codex, shown, concealed, OnTheWay>>
      /\ SameScene
  BY SceneStays DEF ReadStep
<1>2. \A i \in 1..Len(OnTheWay) : OnTheWay[i] \in Routing!Line
  BY WayTypes DEF RoutingTypes
<1>3. \A i \in 1..Len(OnTheWay) : IsNotice(OnTheWay[i]) => OnTheWay[i].thread \in Routing!Threads
  BY <1>2 DEF RoutedOK, LinesOK, LineOK, Routing!Line, Routing!NoThread
<1>4. RoutingTypes'
  <2>1. out' \in Seq(Routing!Line)
    BY DEF ReadStep, RoutingTypes, WireTypes, OnTheWay
  <2>2. WireTypes'
    BY <1>1, <2>1 DEF ReadStep, RoutingTypes, WireTypes
  <2>3. MapTypes'
    BY <1>1 DEF ReadStep, RoutingTypes, MapTypes, ThreadServer, SameScene
  <2>4. QED
    BY <1>1, <2>2, <2>3 DEF RoutingTypes, SenderTypes, WindowTypes, SameScene
<1>5. ThreadsOK' /\ HomesOK'
  BY <1>1 DEF ReadStep, RoutedOK, ThreadsOK, HomesOK, HomedAt
<1>6. SendersOK' /\ LinesOK'
  BY <1>1 DEF RoutedOK, SendersOK, SenderOK, HomedAt, SameScene, RequestOK, LineOK, IsNotice,
     Routing!IsAnswer, LinesOK
<1>7. StartsAsked' /\ StartsAnswered'
  BY <1>1 DEF RoutedOK, StartsAsked, StartsAnswered, SameStart, WaitsForStart
<1>8. \A t \in Routing!Threads \ codex.memory :
         thread_workspace[t] # None => thread_workspace'[t] # None
  BY DEF ReadStep
<1>9. EventsPlaced'
  BY <1>1, <1>8, <1>3 DEF Placed, RoutingTypes, ThreadServer, RoutedOK, EventsPlaced, IsNotice
<1>10. RequestsPlaced'
  BY RoutingFacts, <1>1, <1>8 DEF RoutedOK, LinesOK, RequestOK, HomedAt, SendersOK, SenderOK,
     RoutingTypes, ThreadServer, RequestsPlaced, SameScene
<1>11. OwnHushed'
  BY <1>1 DEF Hushed, Announces, ReadStep, RoutedOK, OwnHushed, IsNotice
<1>12. RemovedLast' /\ ListedLive' /\ LiveListed'
  BY <1>1 DEF RoutedOK, RemovedLast, ListedLive, LiveListed, Lives, Removes, Announces, IsNotice
<1>13. ConcealedOK'
  BY <1>1 DEF RoutedOK, ConcealedOK, PromptOf, SameScene
<1>14. QED
  BY <1>4, <1>5, <1>6, <1>7, <1>9, <1>10, <1>11, <1>12, <1>13 DEF ReadStep, RoutedOK

----------------------------------------------------------------------------
(* The line in hand is delivered: an answer to its call, a notice to the    *)
(* window, or to the background prompt that listens.                        *)
SameSender(c) ==
    /\ senders'[c].step = senders[c].step /\ senders'[c].method = senders[c].method
    /\ senders'[c].thread = senders[c].thread /\ senders'[c].ok = senders[c].ok
DeliveredCalls(l) ==
    /\ SenderTypes'
    /\ \A c \in Routing!Calls :
         /\ SameSender(c)
            \/ (c = l.of /\ Routing!Asked(l) /\ senders'[c].step = "answered")
         /\ Routing!Kind(c) = "prompt" /\ senders[c].thread # 0 => senders'[c].thread = senders[c].thread
DeliveredMaps(l) ==
    /\ thread_workspace' \in [Routing!Threads -> Workspaces \cup {None}]
    /\ \A t \in Routing!Threads :
         /\ thread_workspace'[t] \in {None, codex.ws[t]}
         /\ thread_workspace[t] # None => thread_workspace'[t] # None \/ Removes(l, t)
         /\ Introduces(l, t) => thread_workspace'[t] # None
    /\ hidden_thread_ids \subseteq hidden_thread_ids' /\ hidden_thread_ids' \subseteq codex.memory
    /\ Announces(l, l.thread) /\ l.thread \in codex.memory => l.thread \in hidden_thread_ids'
DeliveredWindow(l) ==
    /\ WindowTypes'
    /\ \A w \in Workspaces :
         /\ concealed[w] \subseteq concealed'[w]
         /\ \A t \in concealed'[w] : t \in concealed[w] \cup codex.memory
         /\ \A t \in shown'[w] :
              /\ t \notin concealed'[w] /\ ~Removes(l, t)
              /\ \/ t \in shown[w]
                 \/ HomedAt(t, w) /\ t = l.thread /\ IsNotice(l) /\ l.kind # "archived"
         /\ \A t \in shown[w] : t \in shown'[w] \cup concealed'[w] \/ Removes(l, t)
    /\ Announces(l, l.thread) /\ l.thread \notin codex.memory
         => l.thread \in shown'[codex.ws[l.thread]] \cup concealed'[codex.ws[l.thread]]
DeliverStep(l) ==
    /\ UNCHANGED <<scene, input, codex, background_thread_callbacks>>
    /\ WayShortened /\ Len(OnTheWay) >= 1 /\ OnTheWay[1] = l
    /\ ~hand'.busy /\ out' = out /\ hand' \in Hand
    /\ DeliveredCalls(l) /\ DeliveredMaps(l) /\ DeliveredWindow(l) /\ SendersOK'

(* What is known of the line in hand.                                      *)
LEMMA HandFacts ==
  ASSUME RoutingBasis, RoutingTypes, RoutedOK, hand.busy
  PROVE  /\ hand.line \in Routing!Line /\ LineOK(hand.line) /\ hand.to \in Workspaces
         /\ Len(OnTheWay) \in Nat /\ Len(OnTheWay) >= 1 /\ OnTheWay[1] = hand.line
         /\ hand.line.thread \in Routing!Threads \cup {0}
         /\ hand.line.names \subseteq Routing!Threads
         /\ IsNotice(hand.line) => hand.line.thread \in Routing!Threads
         /\ \A t \in Routing!Threads : thread_workspace[t] \in {None, codex.ws[t]}
         /\ thread_workspace \in [Routing!Threads -> Workspaces \cup {None}]
         /\ None \notin Workspaces
<1>1. Len(OnTheWay) \in Nat /\ Len(OnTheWay) >= 1 /\ OnTheWay[1] = hand.line
  BY WayTypes DEF RoutingTypes
<1>2. LineOK(hand.line)
  BY <1>1 DEF RoutedOK, LinesOK
<1>3. hand.line \in Routing!Line /\ hand.to \in Workspaces
  BY DEF RoutingTypes, WireTypes, Hand
<1>4. /\ hand.line.thread \in Routing!Threads \cup {0}
      /\ hand.line.names \subseteq Routing!Threads
  BY <1>3 DEF Routing!Line, Routing!NoThread
<1>5. IsNotice(hand.line) => hand.line.thread \in Routing!Threads
  BY <1>2, <1>4 DEF LineOK
<1>6. /\ \A t \in Routing!Threads : thread_workspace[t] \in {None, codex.ws[t]}
      /\ thread_workspace \in [Routing!Threads -> Workspaces \cup {None}] /\ None \notin Workspaces
  BY DEF RoutingTypes, MapTypes, RoutedOK, HomesOK, RoutingBasis
<1>7. QED
  BY <1>1, <1>2, <1>3, <1>4, <1>5, <1>6

LEMMA CallsUntouched ==
  ASSUME RoutingTypes, RoutedOK, UNCHANGED <<scene, codex, senders>>, NEW l,
         \A w \in Workspaces : concealed[w] \subseteq concealed'[w], RoutingBasis
  PROVE  DeliveredCalls(l) /\ SendersOK'
BY SceneStays, RoutingFacts DEF RoutingTypes, SenderTypes, SameScene, RoutedOK, SendersOK,
   SenderOK, HomedAt, DeliveredCalls, SameSender

LEMMA AnswerDelivered ==
  ASSUME RoutingBasis, RoutingTypes, RoutedOK, hand.busy, UNCHANGED <<scene, codex>>,
         Routing!DeliverAnswer(hand.line)
  PROVE  /\ DeliveredCalls(hand.line) /\ DeliveredMaps(hand.line) /\ DeliveredWindow(hand.line)
         /\ SendersOK'
<1> DEFINE l == hand.line
<1>1. /\ Routing!IsAnswer(l) /\ UNCHANGED <<thread_workspace, hidden_thread_ids, shown, concealed>>
  BY DEF Routing!DeliverAnswer, Routing!window
<1>2. ~IsNotice(l) /\ l.kind \notin {"item", "archived", "started"}
  BY <1>1 DEF IsNotice, Routing!IsAnswer, Routing!Methods, Routing!Told
<1>3. DeliveredMaps(l)
  BY <1>2, RoutingFacts, <1>1, HandFacts DEF Introduces, RoutedOK, InHandPlaced, RoutingTypes,
     DeliveredMaps, Announces, HomesOK
<1>4. DeliveredWindow(l)
  BY <1>1, <1>2 DEF DeliveredWindow, Announces, Removes, RoutingTypes, WindowTypes, RoutedOK, HomesOK
<1>5. CASE UNCHANGED senders
  BY <1>1, <1>3, <1>4, <1>5, CallsUntouched
<1>6. CASE /\ Routing!Asked(l)
           /\ senders' = [senders EXCEPT ![l.of].step = "answered", ![l.of].ok = l.ok,
                               ![l.of].thread = IF l.thread = 0 THEN @ ELSE l.thread]
  <2>1. l \in Routing!Line /\ LineOK(l) /\ l.of \in Routing!Calls
    BY <1>1, HandFacts DEF LineOK
  <2> DEFINE t == IF l.thread = 0 THEN senders[l.of].thread ELSE l.thread
  <2>2. SenderTypes' /\ Becomes(l.of, "answered", senders[l.of].method, t, l.ok)
    BY <1>6, <2>1, SenderAnswered DEF RoutingTypes
  <2>3. SameScene /\ Routing!Of(l.of) \in Workspaces /\ SenderOK(l.of)
    BY <2>1, SceneStays, RoutingFacts DEF RoutingTypes, RoutedOK, SendersOK
  <2>4. senders[l.of].step = "waiting" /\ senders[l.of].method = l.kind
    BY <1>6 DEF Routing!Asked
  <2>5. l.thread # 0 => /\ l.ok /\ l.kind \in {"thread/start", "thread/resume"}
                        /\ HomedAt(l.thread, Routing!Of(l.of))
    BY <1>1, <2>1 DEF LineOK
  <2>6. Routing!Kind(l.of) = "prompt" /\ senders[l.of].thread # 0 => l.thread = 0
    BY <2>3, <2>4, <2>5 DEF SenderOK
  <2>7. ASSUME NEW c \in Routing!Calls, c = l.of PROVE SenderOK(c)'
    BY <1>1, <2>1, <2>2, <2>3, <2>4, <2>5, <2>7 DEF SenderOK, Becomes, SameScene, HomedAt
  <2>8. ASSUME NEW c \in Routing!Calls PROVE SenderOK(c)'
    BY <2>7, <1>1, <2>2, <2>3 DEF Becomes, OthersStay, RoutedOK, SendersOK, SenderOK, HomedAt,
       SameScene
  <2>9. DeliveredCalls(l)
    BY <1>6, <2>2, <2>6 DEF DeliveredCalls, Becomes, OthersStay, SameSender
  <2>10. QED
    BY <1>3, <1>4, <2>3, <2>8, <2>9 DEF SendersOK, SameScene
<1>7. QED
  BY <1>1, <1>5, <1>6 DEF Routing!DeliverAnswer, Routing!NoThread

LEMMA HiddenDelivered ==
  ASSUME RoutingBasis, RoutingTypes, RoutedOK, hand.busy, UNCHANGED <<scene, codex>>,
         Routing!DeliverHidden(hand.line), UNCHANGED senders
  PROVE  /\ DeliveredCalls(hand.line) /\ DeliveredMaps(hand.line) /\ DeliveredWindow(hand.line)
         /\ SendersOK'
<1> DEFINE l == hand.line
<1>1. /\ l.kind = "started" /\ l.thread \in codex.memory /\ thread_workspace' = thread_workspace
      /\ hidden_thread_ids' = hidden_thread_ids \cup {l.thread}
      /\ concealed' = [concealed EXCEPT ![hand.to] = @ \cup {l.thread}]
      /\ shown' = [shown EXCEPT ![hand.to] = @ \ {l.thread}]
  BY DEF Routing!DeliverHidden, Routing!HideThread
<1>2. hand.to \in Workspaces /\ l.thread \in Routing!Threads \cup {0}
  BY HandFacts
<1>3. DeliveredMaps(l)
  BY <1>1, HandFacts DEF DeliveredMaps, Introduces, RoutedOK, HomesOK
<1>4. /\ shown \in [Workspaces -> SUBSET (Routing!Threads \cup {0})]
      /\ concealed \in [Workspaces -> SUBSET (Routing!Threads \cup {0})]
  BY DEF RoutingTypes, WindowTypes
<1>5. WindowTypes'
  BY <1>1, <1>4, <1>2 DEF WindowTypes, Routing!Threads
<1>6. DeliveredWindow(l)
  BY <1>1, <1>2, <1>4, <1>5 DEF RoutedOK, HomesOK, Removes, DeliveredWindow
<1>7. QED
  BY <1>3, <1>6, CallsUntouched DEF DeliveredWindow

LEMMA NoticeDelivered ==
  ASSUME RoutingBasis, RoutingTypes, RoutedOK, hand.busy,
         UNCHANGED <<scene, codex, background_thread_callbacks>>, Routing!DeliverNotice(hand.line)
  PROVE  /\ DeliveredCalls(hand.line) /\ DeliveredMaps(hand.line) /\ DeliveredWindow(hand.line)
         /\ SendersOK'
<1> DEFINE l == hand.line
           c == background_thread_callbacks[l.thread]
<1>1. /\ IsNotice(l) /\ l.thread \in Routing!Threads /\ LineOK(l) /\ hand.to \in Workspaces
      /\ None \notin Workspaces
  BY HandFacts DEF Routing!Line, Routing!DeliverNotice, Routing!IsAnswer, IsNotice
<1>2. ~(l.kind = "started" /\ l.thread \in codex.memory)
  BY DEF Routing!DeliverNotice
<1>3. /\ shown \in [Workspaces -> SUBSET (Routing!Threads \cup {0})]
      /\ concealed \in [Workspaces -> SUBSET (Routing!Threads \cup {0})]
  BY DEF RoutingTypes, WindowTypes
<1>4. \A w \in Workspaces : \A t \in shown[w] : t \notin concealed[w] /\ HomedAt(t, w)
  BY DEF RoutedOK, HomesOK
<1>5. CASE Routing!Suppressed(l)
  <2>1. UNCHANGED <<thread_workspace, hidden_thread_ids, senders, shown, concealed>>
    BY <1>5 DEF Routing!DeliverNotice, Routing!window
  <2>2. l.thread \in codex.memory /\ l.kind # "archived"
    BY <1>5 DEF Routing!Suppressed, RoutedOK, HomesOK
  <2>3. l.kind # "item" /\ l.kind # "thread/start" /\ l.kind # "started"
    BY <1>1, <1>2, <2>2 DEF LineOK, HomedAt, IsNotice, Routing!Told
  <2>4. DeliveredMaps(l)
    BY <2>1, <2>2, <2>3, HandFacts DEF DeliveredMaps, Introduces, Removes, Announces, RoutedOK, HomesOK
  <2>5. DeliveredWindow(l)
    BY <1>4, <2>1, <2>2, <2>3 DEF DeliveredWindow, Announces, Removes, RoutingTypes, WindowTypes
  <2>6. QED
    BY <2>1, <2>4, <2>5, CallsUntouched
<1>6. CASE ~Routing!Suppressed(l)
  <2>1. l.thread \notin codex.memory
    BY <1>1, <1>2, HandFacts, <1>6 DEF LineOK, RoutedOK, OwnHushed, Hushed, Routing!Suppressed
  <2>2. hand.to = codex.ws[l.thread]
    BY <1>1, <2>1 DEF RoutedOK, InHandPlaced
  <2>3. thread_workspace' = [t \in Routing!Threads |->
                IF l.kind = "item" /\ t \in l.names \cup {l.thread} /\ thread_workspace[t] = None
                THEN hand.to
                ELSE IF l.kind = "archived" /\ t = l.thread THEN None ELSE thread_workspace[t]]
    BY <1>6 DEF Routing!DeliverNotice
  <2>4. hidden_thread_ids' = hidden_thread_ids
    BY <1>6, <2>1 DEF Routing!DeliverNotice, RoutedOK, HomesOK
  <2>5. DeliveredMaps(l)
    BY <1>1, <2>3, HandFacts, <2>2, <2>1, <2>4 DEF LineOK, HomedAt, IsNotice, Routing!Told,
       Removes, Introduces, DeliveredMaps, RoutedOK, HomesOK
  <2>6. CASE c # 0
    <3>1. c \in Routing!Calls
      BY <1>1, <2>6 DEF RoutingTypes, MapTypes
    <3>2. PromptOf(c, l.thread) /\ l.thread \in concealed[Routing!Of(c)]
      BY <1>1, <3>1 DEF RoutedOK, ConcealedOK
    <3>3. codex.ws[l.thread] = Routing!Of(c) /\ Routing!Of(c) \in Workspaces
      BY <1>1, <3>1, <3>2, RoutingFacts
         DEF PromptOf, RoutedOK, SendersOK, SenderOK, HomedAt, RoutingTypes
    <3>4. /\ senders' = [senders EXCEPT ![c].inbox = Append(@, l.kind)]
          /\ UNCHANGED <<shown, concealed>>
      BY <1>6, <2>6 DEF Routing!DeliverNotice, Routing!window
    <3>5. /\ SenderTypes'
          /\ Becomes(c, senders[c].step, senders[c].method, senders[c].thread, senders[c].ok)
      BY <3>1, <3>4, SenderHears DEF RoutingTypes
    <3>6. \A d \in Routing!Calls : SameSender(d)
      BY <3>5 DEF Becomes, OthersStay, SameSender
    <3>7. DeliveredCalls(l)
      BY <3>5, <3>6 DEF DeliveredCalls, SameSender
    <3>8. SendersOK'
      BY <3>4, <3>6, SceneStays DEF RoutedOK, SendersOK, SenderOK, SameSender, HomedAt, SameScene
    <3>9. DeliveredWindow(l)
      BY <1>4, <3>2, <3>3, <3>4
         DEF DeliveredWindow, Removes, Announces, RoutingTypes, WindowTypes, HomedAt
    <3>10. QED
      BY <2>5, <3>7, <3>8, <3>9
  <2>7. CASE c = 0
    <3>1. Routing!Emit(hand.to, l) /\ UNCHANGED senders
      BY <1>6, <2>7 DEF Routing!DeliverNotice
    <3>2. CASE l.kind = "archived"
      <4>1. shown' = [shown EXCEPT ![hand.to] = @ \ {l.thread}] /\ concealed' = concealed
        BY <3>1, <3>2 DEF Routing!Emit
      <4>2. WindowTypes'
        BY <1>3, <4>1 DEF WindowTypes, Routing!Threads
      <4>3. \A w \in Workspaces : shown'[w] = IF w = hand.to THEN shown[w] \ {l.thread} ELSE shown[w]
        BY <1>3, <4>1
      <4>4. DeliveredWindow(l)
        BY <1>4, <2>2, <3>2, <4>1, <4>2, <4>3 DEF DeliveredWindow, Removes, Announces, HomedAt
      <4>5. QED
        BY <2>5, <3>1, <4>1, <4>4, CallsUntouched
    <3>3. CASE l.kind # "archived"
      <4>1. shown' = Routing!Listed(hand.to, l.thread) /\ concealed' = concealed
        BY <3>1, <3>3 DEF Routing!Emit
      <4>2. \A w \in Workspaces :
               shown'[w] = IF w = hand.to /\ l.thread \notin concealed[hand.to]
                           THEN shown[w] \cup {l.thread} ELSE shown[w]
        BY <1>3, <4>1 DEF Routing!Listed
      <4>3. WindowTypes'
        BY <1>1, <1>3, <4>1 DEF WindowTypes, Routing!Threads, Routing!Listed
      <4>4. HomedAt(l.thread, hand.to) /\ \A t : ~Removes(l, t)
        BY <2>1, <2>2, <3>3 DEF HomedAt, Removes
      <4>5. DeliveredWindow(l)
        <5>1. ASSUME NEW w \in Workspaces
              PROVE  /\ \A t \in shown'[w] :
                          /\ t \notin concealed'[w]
                          /\ \/ t \in shown[w]
                             \/ HomedAt(t, w) /\ t = l.thread /\ IsNotice(l) /\ l.kind # "archived"
                     /\ \A t \in shown[w] : t \in shown'[w]
          <6>1. CASE w = hand.to /\ l.thread \notin concealed[hand.to]
            <7>1. shown'[w] = shown[w] \cup {l.thread} /\ concealed'[w] = concealed[w]
              BY <4>1, <4>2, <6>1
            <7>2. HomedAt(l.thread, w) /\ l.thread \notin concealed[w]
              BY <4>4, <6>1
            <7>3. QED
              BY <1>1, <1>4, <3>3, <7>1, <7>2
          <6>2. CASE ~(w = hand.to /\ l.thread \notin concealed[hand.to])
            BY <4>1, <4>2, <6>2, <1>4
          <6>3. QED
            BY <6>1, <6>2
        <5>2. l.thread \in shown'[hand.to] \cup concealed'[hand.to]
          BY <1>1, <4>1, <4>2
        <5>3. QED
          BY <2>2, <4>1, <4>3, <4>4, <5>1, <5>2 DEF DeliveredWindow
      <4>6. QED
        BY <2>5, <3>1, <4>1, <4>5, CallsUntouched
    <3>4. QED
      BY <3>2, <3>3
  <2>8. QED
    BY <2>6, <2>7
<1>7. QED
  BY <1>5, <1>6

LEMMA DeliverMoves ==
  ASSUME RoutingBasis, RoutingTypes, RoutedOK, Routing!Deliver
  PROVE  DeliverStep(hand.line)
<1>1. /\ hand.busy /\ hand' = Routing!Idle /\ out' = out
      /\ UNCHANGED <<scene, background_thread_callbacks, input, codex>>
  BY DEF Routing!Deliver
<1>2. ~hand'.busy
  BY <1>1 DEF Routing!Idle
<1>3. hand' \in Hand
  BY <1>1 DEF Routing!NoLine, Routing!Notice, Routing!Line, Routing!Told, Routing!NoThread,
     Routing!Idle, Hand, RoutingBasis
<1>4. WayShortened
  BY <1>1, <1>2, WayDelivered DEF RoutingTypes
<1>5. /\ DeliveredCalls(hand.line) /\ DeliveredMaps(hand.line) /\ DeliveredWindow(hand.line)
      /\ SendersOK'
  BY <1>1, HiddenDelivered, AnswerDelivered, NoticeDelivered DEF Routing!DeliverHidden,
     Routing!Deliver
<1>6. QED
  BY <1>1, <1>2, <1>3, <1>4, <1>5, HandFacts DEF DeliverStep

(* A delivery keeps each part of the invariant: what the line brought is in *)
(* the maps and the window, and the lines behind it move up.                *)
LEMMA WayMovesUp ==
  ASSUME WayShortened, Len(OnTheWay) \in Nat, Len(OnTheWay) >= 1
  PROVE  /\ Len(OnTheWay)' = Len(OnTheWay) - 1 /\ Len(OnTheWay)' \in Nat
         /\ \A i \in 1..Len(OnTheWay)' : i + 1 \in 1..Len(OnTheWay) /\ OnTheWay'[i] = OnTheWay[i + 1]
         /\ \A j \in 1..Len(OnTheWay) :
               j = 1 \/ (j - 1 \in 1..Len(OnTheWay)' /\ OnTheWay'[j - 1] = OnTheWay[j])
BY DEF WayShortened

LEMMA DeliverFacts ==
  ASSUME RoutingBasis, RoutingTypes, RoutedOK, NEW l, DeliverStep(l)
  PROVE  /\ SameScene /\ Len(OnTheWay) \in Nat /\ 1 \in 1..Len(OnTheWay) /\ OnTheWay[1] = l
         /\ \A t : Removes(l, t) => /\ t \notin codex.live
                                    /\ \A j \in 2..Len(OnTheWay) :
                                         ~(IsNotice(OnTheWay[j]) /\ OnTheWay[j].thread = t)
         /\ \A i \in 1..Len(OnTheWay) : IsNotice(OnTheWay[i]) => OnTheWay[i].thread \in Routing!Threads
BY SceneStays, WayTypes DEF DeliverStep, RoutingTypes, RoutedOK, RemovedLast, Removes,
   LinesOK, LineOK, Routing!Line, Routing!NoThread

LEMMA DeliverKeepsTypes ==
  ASSUME RoutingBasis, RoutingTypes, RoutedOK, NEW l, DeliverStep(l)
  PROVE  RoutingTypes' /\ ThreadsOK' /\ HomesOK' /\ LinesOK'
<1>1. SameScene /\ UNCHANGED <<scene, input, codex, background_thread_callbacks, out>>
  BY DeliverFacts DEF DeliverStep
<1>2. MapTypes'
  BY <1>1 DEF DeliverStep, DeliveredMaps, RoutingTypes, MapTypes, ThreadServer, SameScene
<1>3. WireTypes'
  BY <1>1 DEF DeliverStep, RoutingTypes, WireTypes
<1>4. RoutingTypes'
  BY <1>1, <1>2, <1>3 DEF DeliverStep, DeliveredCalls, DeliveredWindow, RoutingTypes
<1>5. ThreadsOK'
  BY <1>1 DEF RoutedOK, ThreadsOK
<1>6. HomesOK'
  BY <1>1 DEF DeliverStep, DeliveredMaps, DeliveredWindow, RoutedOK, HomesOK, HomedAt
<1>7. LinesOK'
  <2>1. \A r : RequestOK(r) => RequestOK(r)'
    BY <1>1 DEF RequestOK, HomedAt, SameScene
  <2>2. \A x : LineOK(x) => LineOK(x)'
    BY <1>1 DEF LineOK, HomedAt, SameScene, IsNotice, Routing!IsAnswer
  <2>3. \A i \in 1..Len(OnTheWay)' : LineOK(OnTheWay'[i])
    BY DeliverFacts, WayMovesUp DEF DeliverStep, RoutedOK, LinesOK
  <2>4. QED
    BY <1>1, <2>1, <2>2, <2>3 DEF RoutedOK, LinesOK
<1>8. QED
  BY <1>4, <1>5, <1>6, <1>7

LEMMA DeliverKeepsStarts ==
  ASSUME RoutingBasis, RoutingTypes, RoutedOK, NEW l, DeliverStep(l)
  PROVE  StartsAsked' /\ StartsAnswered'
<1>1. input' = input /\ Len(input) \in Nat
  BY DEF DeliverStep, RoutingTypes, WireTypes
<1>2. \A c \in Routing!Calls : WaitsForStart(c) => WaitsForStart(c)' \/ (c = l.of /\ l.kind = "thread/start")
  BY DEF DeliverStep, DeliveredCalls, SameSender, WaitsForStart, Routing!Asked
<1>3. /\ \A i \in 1..Len(input) : input[i].of \in Routing!Calls
      /\ \A i \in 1..Len(OnTheWay) : OnTheWay[i].kind = "thread/start" => OnTheWay[i].of \in Routing!Calls
  BY DEF RoutedOK, LinesOK, RequestOK, LineOK, Routing!IsAnswer, Routing!Methods
<1>4. StartsAsked'
  BY DeliverFacts, <1>3, <1>2, <1>1 DEF RoutedOK, StartsAsked, StartsAnswered, WaitsForStart
<1>5. StartsAnswered'
  <2>1. ASSUME NEW i \in 1..Len(OnTheWay)', OnTheWay'[i].kind = "thread/start"
        PROVE  WaitsForStart(OnTheWay[i].of)'
    <3>1. i + 1 \in 1..Len(OnTheWay) /\ OnTheWay'[i] = OnTheWay[i + 1] /\ i + 1 # 1
      BY DeliverFacts, WayMovesUp DEF DeliverStep
    <3>2. PICK d \in Routing!Calls : d = OnTheWay[i + 1].of
      BY <1>3, <2>1, <3>1
    <3>3. WaitsForStart(d) /\ ~(d = l.of /\ l.kind = "thread/start")
      BY <2>1, <3>1, <3>2, DeliverFacts DEF RoutedOK, StartsAnswered, SameStart
    <3>4. WaitsForStart(d)'
      BY <1>2, <3>3
    <3>5. QED
      BY <3>1, <3>2, <3>4 DEF WaitsForStart
  <2>2. ASSUME NEW i \in 1..Len(OnTheWay)', NEW j \in 1..Len(OnTheWay)',
               SameStart(i, j)'
        PROVE  i = j
    <3>1. /\ i + 1 \in 1..Len(OnTheWay) /\ OnTheWay'[i] = OnTheWay[i + 1]
          /\ j + 1 \in 1..Len(OnTheWay) /\ OnTheWay'[j] = OnTheWay[j + 1] /\ i \in Nat /\ j \in Nat
      BY DeliverFacts, WayMovesUp DEF DeliverStep
    <3>2. i + 1 = j + 1
      BY <2>2, <3>1 DEF RoutedOK, StartsAnswered, SameStart
    <3>3. QED
      BY <3>1, <3>2
  <2>3. \A i \in 1..Len(input), j \in 1..Len(OnTheWay)' :
          input[i].method = "thread/start" /\ OnTheWay'[j].kind = "thread/start"
            => input[i].of # OnTheWay'[j].of
    <3>1. \A j \in 1..Len(OnTheWay)' : j + 1 \in 1..Len(OnTheWay) /\ OnTheWay'[j] = OnTheWay[j + 1]
      BY DeliverFacts, WayMovesUp DEF DeliverStep
    <3>2. QED
      BY <3>1 DEF RoutedOK, StartsAnswered
  <2>4. (\A i \in 1..Len(OnTheWay) : OnTheWay[i].kind = "thread/start" => WaitsForStart(OnTheWay[i].of))'
    BY <2>1
  <2>5. QED
    BY <1>1, <2>2, <2>3, <2>4 DEF StartsAnswered
<1>6. QED
  BY <1>4, <1>5

LEMMA DeliverKeepsPlaces ==
  ASSUME RoutingBasis, RoutingTypes, RoutedOK, NEW l, DeliverStep(l)
  PROVE  EventsPlaced' /\ RequestsPlaced' /\ InHandPlaced' /\ OwnHushed'
<1>1. SameScene /\ UNCHANGED <<input, codex>> /\ ~hand'.busy
  BY DeliverFacts DEF DeliverStep
<1>2. /\ codex.live \subseteq Routing!Threads /\ codex.running \subseteq codex.live
      /\ codex.memory \subseteq Routing!Threads
  BY DEF RoutingTypes, ThreadServer, RoutedOK, ThreadsOK
<1>3. \A t \in Routing!Threads :
         thread_workspace[t] # None => thread_workspace'[t] # None \/ Removes(l, t)
  BY DEF DeliverStep, DeliveredMaps
<1>4. ASSUME NEW t \in Routing!Threads, NEW n \in 0..Len(OnTheWay)', Placed(t, n + 1), ~Removes(l, t)
      PROVE  Placed(t, n)'
  <2>1. CASE thread_workspace[t] # None
    BY <1>3, <1>4, <2>1 DEF Placed
  <2>2. CASE \E j \in 1..(n + 1) : Introduces(OnTheWay[j], t)
    <3>1. PICK j \in 1..(n + 1) : Introduces(OnTheWay[j], t)
      BY <2>2
    <3>2. CASE j = 1
      BY <3>1, <3>2, DeliverFacts DEF DeliverStep, DeliveredMaps, Placed
    <3>3. CASE j # 1
      <4>1. j - 1 \in 1..n /\ j \in 1..Len(OnTheWay)
        BY <3>3, DeliverFacts, WayMovesUp DEF DeliverStep
      <4>2. OnTheWay'[j - 1] = OnTheWay[j]
        BY <3>3, <4>1, DeliverFacts, WayMovesUp DEF DeliverStep
      <4>3. QED
        BY <3>1, <4>1, <4>2 DEF Placed, Introduces
    <3>4. QED
      BY <3>2, <3>3
  <2>3. QED
    BY <1>4, <2>1, <2>2 DEF Placed
<1>5. EventsPlaced'
  <2>1. ASSUME NEW i \in 1..Len(OnTheWay)', IsNotice(OnTheWay'[i]),
               OnTheWay'[i].thread \notin codex.memory
        PROVE  Placed(OnTheWay[i].thread, i - 1)'
    <3>1. /\ i + 1 \in 1..Len(OnTheWay) /\ OnTheWay'[i] = OnTheWay[i + 1] /\ i + 1 \in 2..Len(OnTheWay)
          /\ i - 1 \in 0..Len(OnTheWay)' /\ (i - 1) + 1 = i /\ (i + 1) - 1 = i
      BY DeliverFacts, WayMovesUp DEF DeliverStep
    <3>2. PICK t \in Routing!Threads : t = OnTheWay[i + 1].thread
      BY <2>1, <3>1, DeliverFacts
    <3>3. Placed(t, i) /\ ~Removes(l, t)
      BY <2>1, <3>1, <3>2, DeliverFacts DEF RoutedOK, EventsPlaced
    <3>4. Placed(t, i - 1)'
      BY <1>4, <3>1, <3>3
    <3>5. QED
      BY <3>1, <3>2, <3>4 DEF Placed
  <2>2. ASSUME NEW t \in codex.running \ codex.memory PROVE Placed(t, Len(OnTheWay))'
    <3>1. t \in Routing!Threads /\ Placed(t, Len(OnTheWay)) /\ ~Removes(l, t)
      BY <1>2, DeliverFacts DEF RoutedOK, EventsPlaced
    <3>2. PICK n \in 0..Len(OnTheWay)' : n = Len(OnTheWay)' /\ n + 1 = Len(OnTheWay)
      BY DeliverFacts, WayMovesUp DEF DeliverStep
    <3>3. Placed(t, n)'
      BY <1>4, <3>1, <3>2
    <3>4. QED
      BY <3>2, <3>3 DEF Placed
  <2>3. QED
    BY <1>1, <2>1, <2>2 DEF EventsPlaced, IsNotice
<1>6. RequestsPlaced'
  BY <1>2, <1>3, DeliverFacts, <1>1 DEF DeliverStep, DeliveredCalls, SameSender, RoutedOK,
     RequestsPlaced, SameScene
<1>7. InHandPlaced'
  BY <1>1 DEF InHandPlaced
<1>8. ASSUME NEW t \in codex.memory, NEW n \in 0..Len(OnTheWay)', Hushed(t, n + 1)
      PROVE  Hushed(t, n)'
  <2>1. CASE t \in hidden_thread_ids
    BY <2>1 DEF DeliverStep, DeliveredMaps, Hushed
  <2>2. CASE \E j \in 1..(n + 1) : Announces(OnTheWay[j], t)
    <3>1. PICK j \in 1..(n + 1) : Announces(OnTheWay[j], t)
      BY <2>2
    <3>2. CASE j = 1
      BY <3>1, <3>2, DeliverFacts DEF DeliverStep, DeliveredMaps, Hushed, Announces
    <3>3. CASE j # 1
      <4>1. j - 1 \in 1..n /\ j \in 1..Len(OnTheWay)
        BY <3>3, DeliverFacts, WayMovesUp DEF DeliverStep
      <4>2. OnTheWay'[j - 1] = OnTheWay[j]
        BY <3>3, <4>1, DeliverFacts, WayMovesUp DEF DeliverStep
      <4>3. QED
        BY <3>1, <4>1, <4>2 DEF Hushed, Announces
    <3>4. QED
      BY <3>2, <3>3
  <2>3. QED
    BY <1>8, <2>1, <2>2 DEF Hushed
<1>9. OwnHushed'
  <2>1. ASSUME NEW i \in 1..Len(OnTheWay)', IsNotice(OnTheWay'[i]),
               OnTheWay'[i].thread \in codex.memory, OnTheWay'[i].kind # "started"
        PROVE  Hushed(OnTheWay[i].thread, i - 1)'
    <3>1. /\ i + 1 \in 1..Len(OnTheWay) /\ OnTheWay'[i] = OnTheWay[i + 1]
          /\ i - 1 \in 0..Len(OnTheWay)' /\ (i - 1) + 1 = i /\ (i + 1) - 1 = i
      BY DeliverFacts, WayMovesUp DEF DeliverStep
    <3>2. PICK t \in codex.memory : t = OnTheWay[i + 1].thread
      BY <2>1, <3>1
    <3>3. Hushed(t, i)
      BY <2>1, <3>1, <3>2 DEF RoutedOK, OwnHushed
    <3>4. Hushed(t, i - 1)'
      BY <1>8, <3>1, <3>3
    <3>5. QED
      BY <3>1, <3>2, <3>4 DEF Hushed
  <2>2. ASSUME NEW t \in codex.memory PROVE Hushed(t, Len(OnTheWay))'
    <3>1. Hushed(t, Len(OnTheWay))
      BY DEF RoutedOK, OwnHushed
    <3>2. PICK n \in 0..Len(OnTheWay)' : n = Len(OnTheWay)' /\ n + 1 = Len(OnTheWay)
      BY DeliverFacts, WayMovesUp DEF DeliverStep
    <3>3. Hushed(t, n)'
      BY <1>8, <3>1, <3>2
    <3>4. QED
      BY <3>2, <3>3 DEF Hushed
  <2>3. QED
    BY <1>1, <2>1, <2>2 DEF OwnHushed, IsNotice
<1>10. QED
  BY <1>5, <1>6, <1>7, <1>9

LEMMA DeliverKeepsWindow ==
  ASSUME RoutingBasis, RoutingTypes, RoutedOK, NEW l, DeliverStep(l)
  PROVE  RemovedLast' /\ ListedLive' /\ LiveListed' /\ ConcealedOK'
<1>1. SameScene /\ UNCHANGED <<codex, background_thread_callbacks>>
  BY DeliverFacts DEF DeliverStep
<1>2. /\ Len(OnTheWay)' = Len(OnTheWay) - 1 /\ Len(OnTheWay)' \in Nat /\ Len(OnTheWay) \in Nat
      /\ \A i \in 1..Len(OnTheWay)' : i + 1 \in 1..Len(OnTheWay) /\ OnTheWay'[i] = OnTheWay[i + 1]
      /\ \A j \in 1..Len(OnTheWay) :
            j = 1 \/ (j - 1 \in 1..Len(OnTheWay)' /\ OnTheWay'[j - 1] = OnTheWay[j])
      /\ OnTheWay[1] = l
  BY DeliverFacts, WayMovesUp DEF DeliverStep
<1>3. RemovedLast'
  <2>1. ASSUME NEW i \in 1..Len(OnTheWay)', OnTheWay'[i].kind = "archived"
        PROVE  /\ OnTheWay'[i].thread \notin codex.live
               /\ \A j \in (i + 1)..Len(OnTheWay)' :
                     ~(IsNotice(OnTheWay'[j]) /\ OnTheWay'[j].thread = OnTheWay'[i].thread)
    <3>1. /\ OnTheWay[i + 1].thread \notin codex.live
          /\ \A j \in (i + 1 + 1)..Len(OnTheWay) :
                ~(IsNotice(OnTheWay[j]) /\ OnTheWay[j].thread = OnTheWay[i + 1].thread)
      BY <1>2, <2>1 DEF RoutedOK, RemovedLast
    <3>2. ASSUME NEW j \in (i + 1)..Len(OnTheWay)'
          PROVE  j + 1 \in (i + 1 + 1)..Len(OnTheWay) /\ OnTheWay'[j] = OnTheWay[j + 1]
      BY <1>2, <3>2
    <3>3. QED
      BY <1>2, <3>1, <3>2
  <2>2. QED
    BY <1>1, <2>1 DEF RemovedLast, IsNotice
<1>4. ASSUME NEW t, NEW n \in Nat, n >= 1, Lives(t, n + 1) PROVE Lives(t, n)'
  BY <1>1, <1>2, <1>4 DEF Lives, Removes
<1>5. ASSUME NEW t, Lives(t, 1), ~Removes(l, t) PROVE Lives(t, 1)'
  <2>1. Lives(t, 2)
    BY <1>2, <1>5 DEF Lives
  <2>2. QED
    BY <1>4, <2>1
<1>6. ListedLive'
  <2>1. ASSUME NEW i \in 1..Len(OnTheWay)', IsNotice(OnTheWay'[i]), OnTheWay'[i].kind # "archived"
        PROVE  Lives(OnTheWay[i].thread, i)'
    <3>1. PICK t : t = OnTheWay'[i].thread
      OBVIOUS
    <3>2. Lives(t, i + 1) /\ i \in Nat /\ i >= 1
      BY <1>2, <2>1, <3>1 DEF RoutedOK, ListedLive
    <3>3. Lives(t, i)'
      BY <1>4, <3>2
    <3>4. QED
      BY <3>1, <3>3 DEF Lives
  <2>2. ASSUME NEW w \in Workspaces, NEW t \in shown'[w] PROVE Lives(t, 1)'
    BY DeliverFacts, <1>5 DEF DeliverStep, DeliveredWindow, RoutedOK, ListedLive
  <2>3. QED
    BY <2>1, <2>2 DEF ListedLive, IsNotice
<1>7. LiveListed'
  <2>1. ASSUME NEW t \in codex.live \ codex.memory, t # 1
        PROVE  \/ t \in shown'[codex.ws[t]] \cup concealed'[codex.ws[t]]
               \/ \E j \in 1..Len(OnTheWay)' : Announces(OnTheWay'[j], t)
    <3>1. codex.ws[t] \in Workspaces /\ ~Removes(l, t)
      BY DeliverFacts DEF RoutingTypes, ThreadServer, RoutedOK, ThreadsOK
    <3>2. CASE t \in shown[codex.ws[t]] \cup concealed[codex.ws[t]]
      BY <3>1, <3>2 DEF DeliverStep, DeliveredWindow
    <3>3. CASE Announces(l, t)
      BY <2>1, <3>3 DEF DeliverStep, DeliveredWindow, Announces
    <3>4. CASE \E j \in 1..Len(OnTheWay) : j # 1 /\ Announces(OnTheWay[j], t)
      BY <1>2, <3>4
    <3>5. QED
      BY <1>2, <2>1, <3>2, <3>3, <3>4 DEF RoutedOK, LiveListed
  <2>2. QED
    BY <1>1, <2>1 DEF LiveListed, Announces
<1>8. ConcealedOK'
  BY <1>1, RoutingFacts DEF DeliverStep, DeliveredCalls, PromptOf, SameScene, RoutingTypes,
     RoutedOK, ConcealedOK, DeliveredWindow
<1>9. QED
  BY <1>3, <1>6, <1>7, <1>8


LEMMA DeliverKeeps ==
  ASSUME RoutingBasis, RoutingTypes, RoutedOK, NEW l, DeliverStep(l)
  PROVE  RoutingTypes' /\ RoutedOK'
BY DeliverKeepsTypes, DeliverKeepsStarts, DeliverKeepsPlaces, DeliverKeepsWindow DEF
   DeliverStep, RoutedOK

----------------------------------------------------------------------------
(* What a step of the server does: it writes lines behind those on their    *)
(* way and leaves the window, the maps and the calls alone.  A thread keeps  *)
(* its workspace and whether it is the server's own; a new one is announced, *)
(* behind the line that brings its workspace into the map.                  *)
NewsOf(lines, i) ==
    /\ lines[i].thread \in Routing!Threads
    /\ lines[i].kind = "started" => codex.ws[lines[i].thread] = None
    /\ lines[i].kind # "started" => lines[i].thread \in codex.live
    /\ lines[i].kind # "archived" => lines[i].thread \in codex'.live
    /\ lines[i].kind = "archived" => lines[i].thread \notin codex'.live /\ i = Len(lines)
    /\ lines[i].thread \notin codex'.memory =>
         \/ Placed(lines[i].thread, Len(OnTheWay))
         \/ \E j \in 1..(i - 1) : Introduces(lines[j], lines[i].thread)
LineWritten(lines, i) ==
    /\ LineOK(lines[i])'
    /\ IsNotice(lines[i]) => NewsOf(lines, i)
    /\ lines[i].kind = "thread/start" =>
         /\ i = 1 /\ input # <<>> /\ input' = Tail(input)
         /\ input[1].method = "thread/start" /\ input[1].of = lines[i].of
ThreadsGrow(lines) ==
    /\ ThreadsOK'
    /\ \A t \in Routing!Threads : codex.ws[t] # None =>
          /\ codex'.ws[t] = codex.ws[t] /\ (t \in codex'.memory <=> t \in codex.memory)
          /\ t \in codex'.live => t \in codex.live
          /\ t \in codex.live \ codex'.live => \E i \in 1..Len(lines) : Removes(lines[i], t)
    /\ \A t \in codex'.live \cup codex'.memory :
          codex.ws[t] = None => \E i \in 1..Len(lines) : Announces(lines[i], t)
    /\ \A t \in codex'.running \ codex'.memory :
          Placed(t, Len(OnTheWay)) \/ \E j \in 1..Len(lines) : Introduces(lines[j], t)
Wrote(lines) ==
    /\ UNCHANGED <<scene, thread_workspace, hidden_thread_ids, background_thread_callbacks,
                   senders, hand, shown, concealed>>
    /\ input' = input \/ (input # <<>> /\ input' = Tail(input))
    /\ lines \in Seq(Routing!Line) /\ WayExtended(lines) /\ RoutingTypes'
ServerStep(lines) ==
    /\ Wrote(lines) /\ ThreadsGrow(lines)
    /\ \A i \in 1..Len(lines) : LineWritten(lines, i)

LEMMA ServerFacts ==
  ASSUME RoutingBasis, RoutingTypes, RoutedOK, NEW lines, ServerStep(lines)
  PROVE  /\ SameScene /\ Len(OnTheWay) \in Nat /\ Len(lines) \in Nat
         /\ Len(OnTheWay)' = Len(OnTheWay) + Len(lines)
         /\ \A i \in 1..Len(OnTheWay)' :
               \/ i \in 1..Len(OnTheWay) /\ OnTheWay'[i] = OnTheWay[i]
               \/ \E k \in 1..Len(lines) : i = Len(OnTheWay) + k /\ OnTheWay'[i] = lines[k]
         /\ \A i \in 1..Len(OnTheWay) : i \in 1..Len(OnTheWay)' /\ OnTheWay'[i] = OnTheWay[i]
         /\ \A k \in 1..Len(lines) :
               /\ Len(OnTheWay) + k \in 1..Len(OnTheWay)' /\ OnTheWay'[Len(OnTheWay) + k] = lines[k]
               /\ k \in Nat \ {0}
<1>1. SameScene
  BY SceneStays DEF ServerStep, Wrote
<1>2. Len(OnTheWay) \in Nat /\ Len(lines) \in Nat
  BY WayTypes DEF ServerStep, RoutingTypes
<1>3. Len(OnTheWay)' = Len(OnTheWay) + Len(lines)
  BY DEF ServerStep, Wrote, WayExtended
<1>4. \A i \in 1..Len(OnTheWay) : i \in 1..Len(OnTheWay)' /\ OnTheWay'[i] = OnTheWay[i]
  BY <1>2, <1>3 DEF ServerStep, Wrote, WayExtended
<1>5. \A k \in 1..Len(lines) :
         /\ Len(OnTheWay) + k \in 1..Len(OnTheWay)' /\ OnTheWay'[Len(OnTheWay) + k] = lines[k]
         /\ k \in Nat \ {0}
  BY <1>2, <1>3 DEF ServerStep, Wrote, WayExtended
<1>6. ASSUME NEW i \in 1..Len(OnTheWay)', i \notin 1..Len(OnTheWay)
      PROVE  \E k \in 1..Len(lines) : i = Len(OnTheWay) + k /\ OnTheWay'[i] = lines[k]
  <2>1. i - Len(OnTheWay) \in 1..Len(lines) /\ i = Len(OnTheWay) + (i - Len(OnTheWay))
    BY <1>2, <1>3, <1>6
  <2>2. QED
    BY <1>5, <2>1
<1>7. QED
  BY <1>1, <1>2, <1>3, <1>4, <1>5, <1>6

(* What is known of the threads the window, the calls and the lines name.   *)
LEMMA ServerKeepsThreads ==
  ASSUME RoutingBasis, RoutingTypes, RoutedOK, NEW lines, ServerStep(lines)
  PROVE  /\ \A t \in Routing!Threads, w \in Workspaces : HomedAt(t, w) => HomedAt(t, w)'
         /\ \A t \in Routing!Threads, n \in 0..Len(OnTheWay) : Placed(t, n) => Placed(t, n)'
         /\ \A t, n : n \in 0..Len(OnTheWay) /\ Hushed(t, n) => Hushed(t, n)'
         /\ \A t \in Routing!Threads, n \in 1..Len(OnTheWay) + 1 :
               codex.ws[t] # None /\ Lives(t, n) => Lives(t, n)'
         /\ \A i \in 1..Len(OnTheWay) : IsNotice(OnTheWay[i]) =>
               OnTheWay[i].thread \in Routing!Threads /\ codex.ws[OnTheWay[i].thread] # None
         /\ \A w \in Workspaces : shown[w] \subseteq Routing!Threads
         /\ codex.live \cup codex.memory \cup codex.running \subseteq Routing!Threads
<1>1. \A t \in Routing!Threads, w \in Workspaces : HomedAt(t, w) => HomedAt(t, w)'
  BY DEF RoutingBasis, ServerStep, ThreadsGrow, HomedAt
<1>2. \A t \in Routing!Threads, n \in 0..Len(OnTheWay) : Placed(t, n) => Placed(t, n)'
  <2>1. \A n \in 0..Len(OnTheWay) : \A j \in 1..n : OnTheWay'[j] = OnTheWay[j]
    BY ServerFacts
  <2>2. QED
    BY <2>1 DEF Placed, ServerStep, Wrote, Introduces
<1>3. \A t, n : n \in 0..Len(OnTheWay) /\ Hushed(t, n) => Hushed(t, n)'
  BY ServerFacts DEF Hushed, ServerStep, Wrote, Announces
<1>4. ASSUME NEW t \in Routing!Threads, NEW n \in 1..Len(OnTheWay) + 1,
             codex.ws[t] # None, Lives(t, n)
      PROVE  Lives(t, n)'
  <2>1. CASE t \in codex'.live
    BY <2>1 DEF Lives
  <2>2. CASE t \in codex.live \ codex'.live
    <3>1. PICK k \in 1..Len(lines) : Removes(lines[k], t)
      BY <1>4, <2>2 DEF ServerStep, ThreadsGrow
    <3>2. Len(OnTheWay) + k \in n..Len(OnTheWay)' /\ OnTheWay'[Len(OnTheWay) + k] = lines[k]
      BY ServerFacts
    <3>3. QED
      BY <3>1, <3>2 DEF Lives, Removes
  <2>3. CASE \E j \in n..Len(OnTheWay) : Removes(OnTheWay[j], t)
    BY <2>3, ServerFacts DEF Lives, Removes
  <2>4. QED
    BY <1>4, <2>1, <2>2, <2>3 DEF Lives
<1>5. ASSUME NEW i \in 1..Len(OnTheWay), IsNotice(OnTheWay[i])
      PROVE  OnTheWay[i].thread \in Routing!Threads /\ codex.ws[OnTheWay[i].thread] # None
  BY WayTypes, <1>5 DEF RoutingTypes, RoutedOK, LinesOK, LineOK, Routing!Line, Routing!NoThread
<1>6. codex.live \cup codex.memory \cup codex.running \subseteq Routing!Threads
  BY DEF RoutingTypes, ThreadServer
<1>7. ASSUME NEW w \in Workspaces, NEW t \in shown[w] PROVE t \in Routing!Threads
  BY <1>6, <1>5 DEF RoutedOK, ListedLive, Removes, IsNotice, Routing!Told, Lives
<1>8. QED
  BY <1>1, <1>2, <1>3, <1>4, <1>5, <1>6, <1>7

LEMMA ServerKeepsHomes ==
  ASSUME RoutingBasis, RoutingTypes, RoutedOK, NEW lines, ServerStep(lines)
  PROVE  HomesOK' /\ SendersOK' /\ LinesOK'
<1>1. UNCHANGED <<thread_workspace, hidden_thread_ids, senders, shown, concealed, hand>>
      /\ SameScene
  BY ServerFacts DEF ServerStep, Wrote
<1>2. \A c \in Routing!Calls : Routing!Of(c) \in Workspaces
  BY RoutingFacts DEF RoutingTypes
<1>3. HomesOK'
  BY ServerKeepsThreads, <1>1 DEF RoutedOK, HomesOK, ServerStep, ThreadsGrow, ThreadsOK
<1>4. SendersOK'
  BY <1>2, ServerKeepsThreads, <1>1 DEF RoutedOK, SendersOK, RoutingTypes, SenderTypes,
     SenderOf, SenderOK, HomedAt, SameScene
<1>5. LinesOK'
  <2>1. ASSUME NEW r \in Routing!Request, RequestOK(r) PROVE RequestOK(r)'
    BY <1>1, <1>2, <2>1, ServerKeepsThreads
       DEF RequestOK, HomedAt, SameScene, Routing!Request, Routing!NoThread
  <2>2. ASSUME NEW l \in Routing!Line, LineOK(l) PROVE LineOK(l)'
    <3>1. \A t \in l.names : codex'.ws[t] # None
      BY <2>2 DEF LineOK, Routing!Line, ServerStep, ThreadsGrow
    <3>2. Routing!IsAnswer(l) =>
            /\ l.of \in Routing!Calls
            /\ l.thread # 0 => /\ l.ok /\ l.kind \in {"thread/start", "thread/resume"}
                               /\ HomedAt(l.thread, Routing!Of(l.of))'
      BY <1>2, <2>2, ServerKeepsThreads, <1>1 DEF LineOK, Routing!Line, Routing!NoThread,
         HomedAt, SameScene
    <3>3. PICK w : w = codex.ws[l.thread]
      OBVIOUS
    <3>4. ASSUME IsNotice(l)
          PROVE  /\ l.thread # 0 /\ codex'.ws[l.thread] = w /\ w # None
                 /\ l.kind = "archived" => l.thread \notin codex'.memory
                 /\ l.kind = "item" => \A t \in l.names \cup {l.thread} : HomedAt(t, w)'
      BY <2>2, <3>3, <3>4, ServerKeepsThreads DEF LineOK, Routing!Line, Routing!NoThread,
         RoutingTypes, ThreadServer, ServerStep, ThreadsGrow
    <3>5. QED
      BY <1>1, <3>1, <3>2, <3>4 DEF LineOK, HomedAt, IsNotice, Routing!IsAnswer, SameScene
  <2>3. input \in Seq(Routing!Request) /\ \A i \in 1..Len(input) : RequestOK(input[i])
    BY DEF RoutingTypes, WireTypes, RoutedOK, LinesOK
  <2>4. \A i \in 1..Len(input)' : RequestOK(input[i])'
    BY <2>1, <2>3 DEF ServerStep, Wrote
  <2>5. \A i \in 1..Len(OnTheWay)' : LineOK(OnTheWay[i])'
    BY <2>2, ServerFacts, WayTypes DEF RoutedOK, LinesOK, ServerStep, LineWritten, RoutingTypes
  <2>6. QED
    BY <2>4, <2>5 DEF LinesOK
<1>6. QED
  BY <1>3, <1>4, <1>5

LEMMA ServerKeepsStarts ==
  ASSUME RoutingBasis, RoutingTypes, RoutedOK, NEW lines, ServerStep(lines)
  PROVE  StartsAsked' /\ StartsAnswered'
<1>1. \A c : WaitsForStart(c)' <=> WaitsForStart(c)
  BY DEF WaitsForStart, ServerStep, Wrote
<1>2. input \in Seq(Routing!Request) /\ Len(input) \in Nat
  BY DEF RoutingTypes, WireTypes
<1>3. \/ /\ Len(input)' = Len(input) /\ Len(input)' \in Nat
         /\ \A i \in 1..Len(input)' : i \in 1..Len(input) /\ input'[i] = input[i]
         /\ \A k \in 1..Len(lines) : lines[k].kind # "thread/start"
      \/ /\ 1 \in 1..Len(input) /\ Len(input)' \in Nat
         /\ \A i \in 1..Len(input)' : i + 1 \in 2..Len(input) /\ input'[i] = input[i + 1]
  BY <1>2 DEF ServerStep, Wrote, LineWritten
<1>4. StartsAsked'
  <2>1. \A i \in 1..Len(input)' : input'[i].method = "thread/start" => WaitsForStart(input'[i].of)
    BY <1>2, <1>3 DEF RoutedOK, StartsAsked
  <2>2. ASSUME NEW i \in 1..Len(input)', NEW j \in 1..Len(input)',
               input'[i].method = "thread/start", input'[j].method = "thread/start",
               input'[i].of = input'[j].of
        PROVE  i = j
    <3>1. CASE input'[i] = input[i] /\ input'[j] = input[j] /\ i \in 1..Len(input) /\ j \in 1..Len(input)
      BY <2>2, <3>1 DEF RoutedOK, StartsAsked
    <3>2. CASE /\ input'[i] = input[i + 1] /\ input'[j] = input[j + 1]
               /\ i + 1 \in 2..Len(input) /\ j + 1 \in 2..Len(input)
      <4>1. i + 1 = j + 1
        BY <1>2, <2>2, <3>2 DEF RoutedOK, StartsAsked
      <4>2. QED
        BY <1>3, <4>1
    <3>3. QED
      BY <1>3, <3>1, <3>2
  <2>3. QED
    BY <1>1, <2>1, <2>2 DEF StartsAsked, WaitsForStart
<1>5. ASSUME NEW k \in 1..Len(lines), lines[k].kind = "thread/start"
      PROVE  /\ k = 1 /\ WaitsForStart(lines[k].of)
             /\ \A j \in 1..Len(OnTheWay) :
                   OnTheWay[j].kind = "thread/start" => OnTheWay[j].of # lines[k].of
             /\ \A i \in 1..Len(input)' :
                   input'[i].method = "thread/start" => input'[i].of # lines[k].of
  <2>1. /\ k = 1 /\ input[1].method = "thread/start" /\ input[1].of = lines[k].of
        /\ 1 \in 1..Len(input)
        /\ \A i \in 1..Len(input)' : i + 1 \in 2..Len(input) /\ input'[i] = input[i + 1]
    BY <1>3, <1>5 DEF ServerStep, LineWritten
  <2>2. \A i \in 2..Len(input) : input[i].method = "thread/start" => input[i].of # input[1].of
    BY <1>2, <2>1 DEF RoutedOK, StartsAsked
  <2>3. QED
    BY <2>1, <2>2 DEF RoutedOK, StartsAsked, StartsAnswered
<1>6. ASSUME NEW i \in 1..Len(input)', input'[i].method = "thread/start"
      PROVE  \E n \in 1..Len(input) : input'[i] = input[n]
  BY <1>2, <1>3
<1>7. StartsAnswered'
  <2>1. ASSUME NEW i \in 1..Len(OnTheWay)', OnTheWay'[i].kind = "thread/start"
        PROVE  WaitsForStart(OnTheWay'[i].of)
    <3>1. CASE i \in 1..Len(OnTheWay) /\ OnTheWay'[i] = OnTheWay[i]
      BY <2>1, <3>1 DEF RoutedOK, StartsAnswered
    <3>2. CASE \E k \in 1..Len(lines) : OnTheWay'[i] = lines[k]
      BY <1>5, <2>1, <3>2
    <3>3. QED
      BY <3>1, <3>2, ServerFacts
  <2>2. ASSUME NEW i \in 1..Len(OnTheWay)', NEW j \in 1..Len(OnTheWay)', SameStart(i, j)'
        PROVE  i = j
    <3>1. /\ OnTheWay'[i].kind = "thread/start" /\ OnTheWay'[j].kind = "thread/start"
          /\ OnTheWay'[i].of = OnTheWay'[j].of
      BY <2>2 DEF SameStart
    <3>2. ASSUME NEW m \in 1..Len(OnTheWay)', OnTheWay'[m].kind = "thread/start"
          PROVE  \/ m \in 1..Len(OnTheWay) /\ OnTheWay'[m] = OnTheWay[m]
                 \/ /\ m = Len(OnTheWay) + 1 /\ OnTheWay'[m] = lines[1]
                    /\ \A h \in 1..Len(OnTheWay) :
                          OnTheWay[h].kind = "thread/start" => OnTheWay[h].of # OnTheWay'[m].of
      <4>1. ASSUME NEW k \in 1..Len(lines), m = Len(OnTheWay) + k, OnTheWay'[m] = lines[k]
            PROVE  /\ m = Len(OnTheWay) + 1 /\ OnTheWay'[m] = lines[1]
                   /\ \A h \in 1..Len(OnTheWay) :
                         OnTheWay[h].kind = "thread/start" => OnTheWay[h].of # OnTheWay'[m].of
        BY <1>5, <3>2, <4>1
      <4>2. QED
        BY <4>1, ServerFacts
    <3>3. CASE /\ i \in 1..Len(OnTheWay) /\ OnTheWay'[i] = OnTheWay[i]
               /\ j \in 1..Len(OnTheWay) /\ OnTheWay'[j] = OnTheWay[j]
      BY <3>1, <3>3 DEF RoutedOK, StartsAnswered, SameStart
    <3>4. QED
      BY <3>1, <3>2, <3>3
  <2>3. ASSUME NEW i \in 1..Len(input)', NEW j \in 1..Len(OnTheWay)',
               input'[i].method = "thread/start", OnTheWay'[j].kind = "thread/start"
        PROVE  input'[i].of # OnTheWay'[j].of
    <3>1. CASE j \in 1..Len(OnTheWay) /\ OnTheWay'[j] = OnTheWay[j]
      BY <1>6, <2>3, <3>1 DEF RoutedOK, StartsAnswered
    <3>2. CASE \E k \in 1..Len(lines) : OnTheWay'[j] = lines[k]
      BY <1>5, <2>3, <3>2
    <3>3. QED
      BY <3>1, <3>2, ServerFacts
  <2>4. QED
    BY <1>1, <2>1, <2>2, <2>3 DEF StartsAnswered, WaitsForStart
<1>8. QED
  BY <1>4, <1>7

LEMMA ServerKeepsPlaces ==
  ASSUME RoutingBasis, RoutingTypes, RoutedOK, NEW lines, ServerStep(lines)
  PROVE  EventsPlaced' /\ RequestsPlaced' /\ InHandPlaced' /\ OwnHushed'
<1>1. UNCHANGED <<thread_workspace, hidden_thread_ids, senders, hand>> /\ SameScene
  BY ServerFacts DEF ServerStep, Wrote
<1>2. PICK n \in Nat : n = Len(OnTheWay)
  BY ServerFacts
<1>3. ASSUME NEW t \in Routing!Threads, NEW k \in 1..Len(lines) + 1,
             Placed(t, n) \/ \E j \in 1..(k - 1) : Introduces(lines[j], t)
      PROVE  Placed(t, n + k - 1)'
  <2>1. CASE thread_workspace[t] # None
    BY <1>1, <2>1 DEF Placed
  <2>2. CASE \E j \in 1..n : Introduces(OnTheWay[j], t)
    <3>1. PICK j \in 1..n : Introduces(OnTheWay[j], t)
      BY <2>2
    <3>2. j \in 1..(n + k - 1) /\ OnTheWay'[j] = OnTheWay[j]
      BY <1>2, ServerFacts
    <3>3. QED
      BY <3>1, <3>2 DEF Placed, Introduces
  <2>3. CASE \E j \in 1..(k - 1) : Introduces(lines[j], t)
    <3>1. PICK j \in 1..(k - 1) : Introduces(lines[j], t)
      BY <2>3
    <3>2. j \in 1..Len(lines) /\ OnTheWay'[n + j] = lines[j] /\ n + j \in 1..(n + k - 1)
      BY <1>2, <3>1, ServerFacts
    <3>3. QED
      BY <3>1, <3>2 DEF Placed, Introduces
  <2>4. QED
    BY <1>3, <2>1, <2>2, <2>3 DEF Placed
<1>4. ASSUME NEW t \in codex.memory, NEW i \in Nat, Hushed(t, n), i >= n PROVE Hushed(t, i)'
  <2>1. \A j \in 1..n : j \in 1..i /\ OnTheWay'[j] = OnTheWay[j]
    BY <1>2, <1>4, ServerFacts
  <2>2. QED
    BY <1>1, <1>4, <2>1 DEF Hushed, Announces
<1>5. \A i \in 1..Len(OnTheWay) : i - 1 \in 0..Len(OnTheWay) /\ i - 1 \in 0..n
  BY <1>2
<1>6. EventsPlaced'
  <2>1. ASSUME NEW i \in 1..Len(OnTheWay)', IsNotice(OnTheWay'[i]),
               OnTheWay'[i].thread \notin codex'.memory
        PROVE  Placed(OnTheWay[i].thread, i - 1)'
    <3>1. PICK t : t = OnTheWay'[i].thread
      OBVIOUS
    <3>2. CASE i \in 1..Len(OnTheWay) /\ OnTheWay'[i] = OnTheWay[i]
      BY <2>1, <3>1, <3>2, ServerKeepsThreads, <1>5 DEF ServerStep, ThreadsGrow, RoutedOK,
         EventsPlaced, Placed
    <3>3. ASSUME NEW k \in 1..Len(lines), i = n + k, OnTheWay'[i] = lines[k]
          PROVE  Placed(t, i - 1)'
      <4>1. NewsOf(lines, k)
        BY <2>1, <3>3 DEF ServerStep, LineWritten
      <4>2. t \in Routing!Threads /\ (Placed(t, n) \/ \E j \in 1..(k - 1) : Introduces(lines[j], t))
        BY <1>2, <2>1, <3>1, <3>3, <4>1 DEF NewsOf
      <4>3. k \in 1..Len(lines) + 1 /\ i - 1 = n + k - 1
        BY <1>2, <3>3, ServerFacts
      <4>4. Placed(t, n + k - 1)'
        BY <1>3, <4>2, <4>3
      <4>5. QED
        BY <4>3, <4>4 DEF Placed
    <3>4. QED
      BY <1>2, <3>1, <3>2, <3>3, ServerFacts DEF Placed
  <2>2. ASSUME NEW t \in codex'.running \ codex'.memory PROVE Placed(t, Len(OnTheWay))'
    <3>1. t \in Routing!Threads /\ (Placed(t, n) \/ \E j \in 1..Len(lines) : Introduces(lines[j], t))
      BY <1>2 DEF ServerStep, Wrote, ThreadsGrow, RoutingTypes, ThreadServer, Routing!Threads
    <3>2. PICK k \in 1..Len(lines) + 1 : k - 1 = Len(lines) /\ n + k - 1 = Len(OnTheWay)'
      <4>1. Len(lines) \in Nat /\ Len(OnTheWay)' = n + Len(lines)
        BY <1>2, ServerFacts
      <4>2. /\ Len(lines) + 1 \in 1..Len(lines) + 1 /\ (Len(lines) + 1) - 1 = Len(lines)
            /\ n + (Len(lines) + 1) - 1 = n + Len(lines)
        BY <4>1
      <4>3. QED
        BY <4>1, <4>2
    <3>3. Placed(t, n + k - 1)'
      BY <1>3, <3>1, <3>2
    <3>4. QED
      BY <3>2, <3>3 DEF Placed
  <2>3. QED
    BY <2>1, <2>2 DEF EventsPlaced, IsNotice
<1>7. RequestsPlaced'
  <2>1. \A t \in Routing!Threads, w \in Workspaces :
           HomedAt(t, w) /\ t \in codex'.live => t \in codex.live
    BY DEF ServerStep, ThreadsGrow, HomedAt, RoutingBasis
  <2>2. \A c \in Routing!Calls : Routing!Of(c) \in Workspaces
    BY RoutingFacts DEF RoutingTypes
  <2>3. codex'.live \subseteq Routing!Threads /\ 0 \notin Routing!Threads
    BY RoutingFacts DEF ServerStep, Wrote, RoutingTypes, ThreadServer, Routing!Threads
  <2>4. ASSUME NEW i \in 1..Len(input)', input'[i].thread \in codex'.live
        PROVE  thread_workspace[input'[i].thread] # None
    <3>1. PICK j \in 1..Len(input) : input'[i] = input[j]
      <4>1. input \in Seq(Routing!Request)
        BY DEF RoutingTypes, WireTypes
      <4>2. CASE input' = input
        BY <2>4, <4>2
      <4>3. CASE input # <<>> /\ input' = Tail(input)
        BY <2>4, <4>1, <4>3
      <4>4. QED
        BY <4>2, <4>3 DEF ServerStep, Wrote
    <3>2. input[j].thread \in codex.live
      BY <2>1, <2>2, <2>3, <2>4, <3>1 DEF RoutedOK, LinesOK, RequestOK
    <3>3. QED
      BY <3>1, <3>2 DEF RoutedOK, RequestsPlaced
  <2>5. ASSUME NEW c \in Routing!Calls, senders[c].step = "writing", senders[c].thread \in codex'.live
        PROVE  thread_workspace[senders[c].thread] # None
    BY <2>1, <2>2, <2>3, <2>5 DEF RoutedOK, SendersOK, SenderOK, RequestsPlaced
  <2>6. QED
    BY <1>1, <2>4, <2>5 DEF RequestsPlaced, SameScene
<1>8. InHandPlaced'
  BY WayTypes, ServerKeepsThreads, <1>1 DEF RoutingTypes, RoutedOK, InHandPlaced, ServerStep,
     ThreadsGrow, IsNotice
<1>9. OwnHushed'
  <2>1. ASSUME NEW t \in codex'.memory, codex.ws[t] # None PROVE t \in codex.memory /\ Hushed(t, n)
    BY <2>1, <1>2 DEF ServerStep, Wrote, RoutingTypes, ThreadServer, Routing!Threads,
       ThreadsGrow, RoutedOK, OwnHushed
  <2>2. ASSUME NEW i \in 1..Len(OnTheWay)', IsNotice(OnTheWay'[i]),
               OnTheWay'[i].thread \in codex'.memory, OnTheWay'[i].kind # "started"
        PROVE  Hushed(OnTheWay[i].thread, i - 1)'
    <3>1. PICK t : t = OnTheWay'[i].thread
      OBVIOUS
    <3>2. CASE i \in 1..Len(OnTheWay) /\ OnTheWay'[i] = OnTheWay[i]
      BY <2>1, <2>2, <3>1, <3>2, ServerKeepsThreads, <1>5 DEF RoutedOK, OwnHushed, Hushed
    <3>3. ASSUME NEW k \in 1..Len(lines), i = n + k, OnTheWay'[i] = lines[k]
          PROVE  Hushed(t, i - 1)'
      <4>1. t \in codex.live
        BY <2>2, <3>1, <3>3 DEF ServerStep, LineWritten, NewsOf
      <4>2. t \in codex.memory /\ Hushed(t, n)
        BY <2>1, <2>2, <3>1, <4>1 DEF RoutedOK, ThreadsOK
      <4>3. i - 1 \in Nat /\ i - 1 >= n
        BY <1>2, <3>3, ServerFacts
      <4>4. QED
        BY <1>4, <4>2, <4>3
    <3>4. CASE \E k \in 1..Len(lines) : i = n + k /\ OnTheWay'[i] = lines[k]
      <4>1. Hushed(t, i - 1)'
        BY <3>3, <3>4
      <4>2. QED
        BY <3>1, <4>1 DEF Hushed
    <3>5. QED
      BY <1>2, <3>2, <3>4, ServerFacts
  <2>3. ASSUME NEW t \in codex'.memory PROVE Hushed(t, Len(OnTheWay))'
    <3>1. PICK m \in Nat : m = Len(OnTheWay)' /\ m >= n
      BY <1>2, ServerFacts
    <3>2. CASE codex.ws[t] # None
      BY <1>4, <2>1, <3>1, <3>2 DEF Hushed
    <3>3. CASE codex.ws[t] = None
      <4>1. PICK k \in 1..Len(lines) : Announces(lines[k], t)
        BY <3>3 DEF ServerStep, ThreadsGrow
      <4>2. OnTheWay'[n + k] = lines[k] /\ n + k \in 1..m
        BY <1>2, <3>1, ServerFacts
      <4>3. QED
        BY <3>1, <4>1, <4>2 DEF Hushed, Announces
    <3>4. QED
      BY <3>2, <3>3
  <2>4. QED
    BY <2>2, <2>3 DEF OwnHushed, IsNotice
<1>10. QED
  BY <1>6, <1>7, <1>8, <1>9

LEMMA ServerKeepsWindow ==
  ASSUME RoutingBasis, RoutingTypes, RoutedOK, NEW lines, ServerStep(lines)
  PROVE  RemovedLast' /\ ListedLive' /\ LiveListed' /\ ConcealedOK'
<1>1. UNCHANGED <<background_thread_callbacks, senders, shown, concealed>> /\ SameScene
  BY ServerFacts DEF ServerStep, Wrote
<1>2. PICK n \in Nat : n = Len(OnTheWay)
  BY ServerFacts
<1>3. RemovedLast'
  <2>1. ASSUME NEW i \in 1..Len(OnTheWay)', OnTheWay'[i].kind = "archived",
               NEW j \in (i + 1)..Len(OnTheWay)', IsNotice(OnTheWay'[j]),
               OnTheWay'[j].thread = OnTheWay'[i].thread
        PROVE  FALSE
    <3>1. CASE i \in 1..n /\ OnTheWay'[i] = OnTheWay[i]
      <4>1. IsNotice(OnTheWay[i])
        BY <2>1, <3>1 DEF IsNotice, Routing!Told
      <4>2. /\ OnTheWay[i].thread \notin codex.live /\ codex.ws[OnTheWay[i].thread] # None
            /\ \A m \in (i + 1)..n : ~(IsNotice(OnTheWay[m]) /\ OnTheWay[m].thread = OnTheWay[i].thread)
        BY <1>2, <2>1, <3>1, <4>1, ServerKeepsThreads DEF RoutedOK, RemovedLast
      <4>3. CASE j \in 1..n /\ OnTheWay'[j] = OnTheWay[j]
        BY <2>1, <3>1, <4>2, <4>3
      <4>4. CASE \E k \in 1..Len(lines) : OnTheWay'[j] = lines[k]
        BY <2>1, <3>1, <4>2, <4>4 DEF ServerStep, LineWritten, NewsOf
      <4>5. QED
        BY <1>2, <2>1, <4>3, <4>4, ServerFacts
    <3>2. ASSUME NEW k \in 1..Len(lines), i = n + k, OnTheWay'[i] = lines[k] PROVE FALSE
      <4>1. k = Len(lines)
        BY <2>1, <3>2 DEF ServerStep, LineWritten, NewsOf, IsNotice, Routing!Told
      <4>2. QED
        BY <1>2, <2>1, <3>2, <4>1, ServerFacts
    <3>3. \/ i \in 1..n /\ OnTheWay'[i] = OnTheWay[i]
          \/ \E k \in 1..Len(lines) : i = n + k /\ OnTheWay'[i] = lines[k]
      BY <1>2, ServerFacts
    <3>4. QED
      BY <3>1, <3>2, <3>3
  <2>2. ASSUME NEW i \in 1..Len(OnTheWay)', OnTheWay'[i].kind = "archived"
        PROVE  OnTheWay'[i].thread \notin codex'.live
    <3>1. IsNotice(OnTheWay'[i])
      BY <2>2 DEF IsNotice, Routing!Told
    <3>2. CASE i \in 1..Len(OnTheWay) /\ OnTheWay'[i] = OnTheWay[i]
      BY <2>2, <3>1, <3>2, ServerKeepsThreads DEF RoutedOK, RemovedLast, ServerStep, ThreadsGrow
    <3>3. CASE \E k \in 1..Len(lines) : OnTheWay'[i] = lines[k]
      BY <2>2, <3>1, <3>3 DEF ServerStep, LineWritten, NewsOf
    <3>4. QED
      BY <3>2, <3>3, ServerFacts
  <2>3. QED
    BY <2>1, <2>2 DEF RemovedLast, IsNotice
<1>4. ListedLive'
  <2>1. ASSUME NEW i \in 1..Len(OnTheWay)', IsNotice(OnTheWay'[i]), OnTheWay'[i].kind # "archived"
        PROVE  Lives(OnTheWay[i].thread, i)'
    <3>1. PICK t : t = OnTheWay'[i].thread
      OBVIOUS
    <3>2. CASE i \in 1..Len(OnTheWay) /\ OnTheWay'[i] = OnTheWay[i]
      <4>1. t \in Routing!Threads /\ codex.ws[t] # None /\ Lives(t, i)
        BY <2>1, <3>1, <3>2, ServerKeepsThreads DEF RoutedOK, ListedLive
      <4>2. i \in 1..Len(OnTheWay) + 1
        BY <3>2, ServerFacts
      <4>3. Lives(t, i)'
        BY <4>1, <4>2, ServerKeepsThreads
      <4>4. QED
        BY <3>1, <4>3 DEF Lives
    <3>3. CASE \E k \in 1..Len(lines) : OnTheWay'[i] = lines[k]
      BY <2>1, <3>3 DEF ServerStep, LineWritten, NewsOf, Lives
    <3>4. QED
      BY <3>2, <3>3, ServerFacts
  <2>2. ASSUME NEW w \in Workspaces, NEW t \in shown[w] PROVE Lives(t, 1)'
    <3>1. t \in Routing!Threads /\ Lives(t, 1) /\ codex.ws[t] = w
      BY ServerKeepsThreads DEF RoutedOK, ListedLive, HomesOK, HomedAt
    <3>2. codex.ws[t] # None /\ 1 \in 1..Len(OnTheWay) + 1
      BY <3>1, ServerFacts DEF RoutingBasis
    <3>3. QED
      BY <3>1, <3>2, ServerKeepsThreads
  <2>3. QED
    BY <1>1, <2>1, <2>2 DEF ListedLive, IsNotice
<1>5. LiveListed'
  <2>1. ASSUME NEW t \in codex'.live \ codex'.memory, t # 1
        PROVE  \/ t \in shown[codex'.ws[t]] \cup concealed[codex'.ws[t]]
               \/ \E j \in 1..Len(OnTheWay)' : Announces(OnTheWay'[j], t)
    <3>1. t \in Routing!Threads
      BY DEF ServerStep, Wrote, RoutingTypes, ThreadServer, Routing!Threads
    <3>2. CASE codex.ws[t] = None
      BY <3>2, ServerFacts DEF ServerStep, ThreadsGrow
    <3>3. CASE codex.ws[t] # None
      BY <2>1, <3>1, <3>3, ServerFacts DEF ServerStep, ThreadsGrow, RoutedOK, LiveListed
    <3>4. QED
      BY <3>2, <3>3
  <2>2. QED
    BY <1>1, <2>1 DEF LiveListed, Announces
<1>6. ConcealedOK'
  BY ServerKeepsThreads, <1>1 DEF RoutedOK, ThreadsOK, ServerStep, ThreadsGrow, PromptOf,
     SameScene, ConcealedOK
<1>7. QED
  BY <1>3, <1>4, <1>5, <1>6

LEMMA ServerKeeps ==
  ASSUME RoutingBasis, RoutingTypes, RoutedOK, NEW lines, ServerStep(lines)
  PROVE  RoutingTypes' /\ RoutedOK'
BY ServerKeepsHomes, ServerKeepsStarts, ServerKeepsPlaces, ServerKeepsWindow DEF ServerStep,
   Wrote, ThreadsGrow, RoutedOK

----------------------------------------------------------------------------
(* A caller's step keeps the types: it goes on, asks, or leaves its channel. *)
LEMMA CallerShapes ==
  ASSUME RoutingBasis, RoutingTypes, NEW c \in Routing!Calls, Routing!Caller(c)
  PROVE  \/ /\ UNCHANGED <<thread_workspace, background_thread_callbacks>>
            /\ \E step \in {"waiting", "hidden", "collect", "done"} :
                  senders' = [senders EXCEPT ![c].step = step]
         \/ \E method \in Routing!Methods, t \in Routing!Threads \cup {0} :
               /\ Routing!Ask(c, method, t)
               /\ background_thread_callbacks' \in
                     {background_thread_callbacks, Routing!Listener(c)}
         \/ \E text : Routing!Leave(c, text)
<1>1. CASE Routing!Begin(c)
  BY RoutingFacts, <1>1 DEF RoutingTypes, WindowTypes, Routing!Begin, Routing!Methods,
     Routing!NoThread
<1>2. CASE Routing!PromptListens(c)
  BY <1>2 DEF RoutingTypes, SenderTypes, SenderOf, Routing!Methods, Routing!PromptListens
<1>3. CASE Routing!Write(c) \/ Routing!PromptHides(c)
  BY <1>3 DEF Routing!Write, Routing!PromptHides, Routing!maps
<1>4. CASE Routing!Returned(c) \/ Routing!PromptEnds(c)
  BY <1>4 DEF Routing!Returned, Routing!PromptEnds, Routing!Finished
<1>5. CASE Routing!TimeOut(c)
  BY <1>5 DEF Routing!TimeOut, Routing!Finished
<1>6. CASE Routing!PromptStarted(c)
  BY <1>6 DEF Routing!PromptStarted
<1>7. CASE Routing!PromptCollects(c) \/ Routing!PromptGivesUp(c)
  BY <1>7 DEF Routing!PromptCollects, Routing!PromptGivesUp
<1>8. QED
  BY <1>1, <1>2, <1>3, <1>4, <1>5, <1>6, <1>7 DEF Routing!Caller

LEMMA CallerKeepsTypes ==
  ASSUME RoutingBasis, RoutingTypes, NEW c \in Routing!Calls, Routing!Caller(c), SenderStep(c),
         out' = out
  PROVE  RoutingTypes'
<1>1. SameScene /\ UNCHANGED <<scene, codex, hidden_thread_ids, hand>>
  BY CallerFrame DEF SenderStep
<1>2. /\ Routing!Of(c) \in Workspaces /\ c \in Nat /\ 0 \notin Routing!Threads
      /\ senders[c].thread \in Routing!Threads \cup {0} /\ senders[c].method \in Routing!Methods
  BY RoutingFacts DEF RoutingTypes, SenderTypes, SenderOf
<1>3. SenderTypes' /\ MapTypes'
  <2>1. CASE /\ UNCHANGED <<thread_workspace, background_thread_callbacks>>
             /\ \E step \in {"waiting", "hidden", "collect", "done"} :
                   senders' = [senders EXCEPT ![c].step = step]
    BY <1>1, <2>1, SenderSteps DEF RoutingTypes, MapTypes, SameScene
  <2>2. ASSUME NEW method \in Routing!Methods, NEW t \in Routing!Threads \cup {0},
               Routing!Ask(c, method, t),
               background_thread_callbacks' \in {background_thread_callbacks, Routing!Listener(c)}
        PROVE  SenderTypes' /\ MapTypes'
    <3>1. SenderTypes'
      BY <1>1, <2>2, SenderAsks DEF RoutingTypes
    <3>2. thread_workspace' \in [Routing!Threads -> Workspaces \cup {None}]
      BY <1>2, <2>2 DEF Routing!Ask, Routing!Mapped, RoutingTypes, MapTypes
    <3>3. background_thread_callbacks' \in [Routing!Threads -> Routing!Calls \cup {0}]
      BY <2>2 DEF Routing!Listener, RoutingTypes, MapTypes
    <3>4. QED
      BY <1>1, <3>1, <3>2, <3>3 DEF RoutingTypes, MapTypes, SameScene
  <2>3. ASSUME NEW text, Routing!Leave(c, text) PROVE SenderTypes' /\ MapTypes'
    BY <1>1, <2>3, SenderLeaves, <1>2 DEF RoutingTypes, Routing!Leave, Routing!Mapped, MapTypes,
       Routing!Unheard, SameScene
  <2>4. QED
    BY <2>1, <2>2, <2>3, CallerShapes
<1>4. WireTypes'
  <2>1. Written(c) \in Routing!Request
    BY <1>2 DEF Written, Routing!Request, Routing!NoThread
  <2>2. input' \in Seq(Routing!Request)
    BY <2>1 DEF SenderStep, RoutingTypes, WireTypes
  <2>3. QED
    BY <1>1, <2>2 DEF RoutingTypes, WireTypes
<1>5. WindowTypes'
  BY <1>2 DEF RoutingTypes, WindowTypes, Hides, Lists, Routing!Listed, SenderStep
<1>6. QED
  BY <1>1, <1>3, <1>4, <1>5 DEF RoutingTypes

LEMMA CallerKeeps ==
  ASSUME RoutingBasis, RoutingTypes, RoutedOK, blame' = {}, NEW c \in Routing!Calls, Routing!Caller(c)
  PROVE  RoutingTypes' /\ RoutedOK'
<1>1. SenderStep(c)
  BY CallerMoves
<1>2. out' = out
  BY DEF Routing!Caller, Routing!Begin, Routing!Write, Routing!Returned, Routing!TimeOut,
         Routing!PromptHides, Routing!PromptListens, Routing!PromptStarted,
         Routing!PromptCollects, Routing!PromptGivesUp, Routing!PromptEnds
<1>3. RoutingTypes'
  BY <1>1, <1>2, CallerKeepsTypes
<1>4. ThreadsOK' /\ HomesOK' /\ SendersOK' /\ LinesOK' /\ StartsAsked' /\ StartsAnswered'
  BY <1>1, CallerKeepsHomes, CallerKeepsSenders, CallerKeepsStarts
<1>5. /\ EventsPlaced' /\ RequestsPlaced' /\ InHandPlaced'
      /\ OwnHushed' /\ RemovedLast' /\ ListedLive' /\ LiveListed' /\ ConcealedOK'
  BY <1>1, CallerKeepsPlaces, CallerKeepsWindow
<1>6. QED
  BY <1>3, <1>4, <1>5 DEF RoutedOK

----------------------------------------------------------------------------
(* The handlers of the server are such steps.                               *)
LEMMA ServerWrites ==
  ASSUME RoutingBasis, RoutingTypes, NEW lines \in Seq(Routing!Line), out' = out \o lines,
         UNCHANGED <<scene, thread_workspace, hidden_thread_ids, background_thread_callbacks,
                     senders, hand, shown, concealed>>,
         codex' \in ThreadServer, input' = input \/ (input # <<>> /\ input' = Tail(input))
  PROVE  Wrote(lines) /\ SameScene /\ Routing!Calls' = Routing!Calls
<1>1. WayExtended(lines) /\ out' \in Seq(Routing!Line)
  BY WayWritten DEF RoutingTypes
<1>2. SameScene
  BY SceneStays
<1>3. input' \in Seq(Routing!Request)
  <2>1. input \in Seq(Routing!Request)
    BY DEF RoutingTypes, WireTypes
  <2>2. CASE input # <<>> /\ input' = Tail(input)
    BY <2>1, <2>2
  <2>3. QED
    BY <2>1, <2>2
<1>4. RoutingTypes'
  BY <1>2, <1>1, <1>3 DEF RoutingTypes, MapTypes, SenderTypes, WindowTypes, SameScene,
     WireTypes, ThreadServer
<1>5. QED
  BY <1>1, <1>2, <1>4 DEF Wrote, SameScene

LEMMA AnswerFits ==
  ASSUME RoutingBasis, RoutingTypes, RoutedOK, input # <<>>, NEW ok \in BOOLEAN,
         NEW t \in Routing!Threads \cup {0}, NEW names \in SUBSET Routing!Threads,
         NEW a, a = Routing!Answer(Head(input), ok, t, names)
  PROVE  /\ a \in Routing!Line /\ Routing!IsAnswer(a) /\ ~IsNotice(a)
         /\ a.kind = input[1].method /\ a.of = input[1].of /\ a.thread = t
         /\ a.names = names /\ a.ok = ok
         /\ Head(input) = input[1] /\ input[1] \in Routing!Request /\ RequestOK(input[1])
         /\ 1 \in 1..Len(input) /\ a.of \in Routing!Calls /\ Routing!Of(a.of) \in Workspaces
<1>1. input \in Seq(Routing!Request)
  BY DEF RoutingTypes, WireTypes
<1>2. /\ Head(input) = input[1] /\ 1 \in 1..Len(input) /\ input[1] \in Routing!Request
      /\ input[1].of \in Nat /\ input[1].method \in Routing!Methods
  <2>1. Head(input) = input[1] /\ 1 \in 1..Len(input) /\ input[1] \in Routing!Request
    BY <1>1
  <2>2. QED
    BY <2>1 DEF Routing!Request
<1>3. RequestOK(input[1])
  BY <1>2 DEF RoutedOK, LinesOK
<1>4. a = [of |-> input[1].of, kind |-> input[1].method, thread |-> t, names |-> names, ok |-> ok]
  BY <1>2 DEF Routing!Answer
<1>5. a \in Routing!Line
  BY <1>2, <1>4 DEF Routing!Line, Routing!NoThread
<1>6. Routing!IsAnswer(a) /\ ~IsNotice(a)
  BY <1>2, <1>4 DEF Routing!IsAnswer, IsNotice, Routing!Methods, Routing!Told
<1>7. a.of \in Routing!Calls /\ Routing!Of(a.of) \in Workspaces
  BY <1>3, <1>4, RoutingFacts DEF RequestOK, RoutingTypes
<1>8. QED
  BY <1>2, <1>3, <1>4, <1>5, <1>6, <1>7

LEMMA NoticeFits ==
  ASSUME NEW kind \in Routing!Told, NEW t \in Routing!Threads, NEW names \in SUBSET Routing!Threads,
         NEW a, a = Routing!Notice(kind, t, names)
  PROVE  /\ a \in Routing!Line /\ IsNotice(a) /\ ~Routing!IsAnswer(a)
         /\ a.kind = kind /\ a.thread = t /\ a.names = names /\ a.kind # "thread/start"
BY DEF Routing!Notice, Routing!Line, Routing!NoThread, IsNotice, Routing!IsAnswer,
   Routing!Methods, Routing!Told

(* A server whose threads stay as they are, but for what runs and was said.  *)
LEMMA ThreadsStay ==
  ASSUME RoutingTypes, RoutedOK, NEW lines,
         codex'.ws = codex.ws, codex'.memory = codex.memory, codex'.live = codex.live,
         codex'.running \subseteq codex'.live,
         \A t \in codex'.running \ codex.memory :
            t \in codex.running \/ thread_workspace[t] # None
  PROVE  ThreadsGrow(lines)
BY DEF RoutedOK, ThreadsOK, EventsPlaced, Placed, ThreadsGrow

LEMMA OneLine ==
  ASSUME NEW a \in Routing!Line, Wrote(<<a>>), ThreadsGrow(<<a>>), LineWritten(<<a>>, 1)
  PROVE  ServerStep(<<a>>)
BY DEF ServerStep

LEMMA TwoLines ==
  ASSUME NEW a \in Routing!Line, NEW b \in Routing!Line, Wrote(<<a, b>>), ThreadsGrow(<<a, b>>),
         LineWritten(<<a, b>>, 1), LineWritten(<<a, b>>, 2)
  PROVE  ServerStep(<<a, b>>)
BY DEF ServerStep

(* An answer that names no thread, or one of the caller's own workspace.    *)
LEMMA AnswerServed ==
  ASSUME RoutingBasis, RoutingTypes, RoutedOK, input # <<>>, input' = Tail(input),
         NEW ok \in BOOLEAN, NEW t \in Routing!Threads \cup {0}, NEW names \in SUBSET Routing!Threads,
         NEW a, a = Routing!Answer(Head(input), ok, t, names),
         \A u \in names : codex'.ws[u] # None,
         t # 0 => /\ ok /\ input[1].method \in {"thread/start", "thread/resume"}
                  /\ t \notin codex'.memory /\ codex'.ws[t] = Routing!Of(input[1].of),
         scene' = scene, NEW lines, lines[1] = a
  PROVE  LineWritten(lines, 1)
<1>1. /\ Routing!IsAnswer(a) /\ ~IsNotice(a) /\ a.of \in Routing!Calls /\ a.of = input[1].of
      /\ a.kind = input[1].method /\ a.thread = t /\ a.names = names /\ a.ok = ok
  BY AnswerFits, SMTT(30)
<1>2. Routing!Calls' = Routing!Calls /\ Routing!Of(a.of)' = Routing!Of(a.of)
  BY <1>1, SceneStays DEF SameScene
<1>3. LineOK(a)'
  BY <1>1, <1>2 DEF LineOK, HomedAt, IsNotice, Routing!IsAnswer
<1>4. QED
  BY <1>1, <1>3 DEF LineWritten

LEMMA ThreadlessServed ==
  ASSUME RoutingBasis, RoutingTypes, RoutedOK, input # <<>>, input' = Tail(input), NEW ok \in BOOLEAN,
         NEW a, a = Routing!Answer(Head(input), ok, 0, {}), scene' = scene, NEW lines, lines[1] = a
  PROVE  a \in Routing!Line /\ LineWritten(lines, 1) /\ Head(input) = input[1] /\ 1 \in 1..Len(input)
<1>1. 0 \in Routing!Threads \cup {0} /\ {} \in SUBSET Routing!Threads
  OBVIOUS
<1>2. a \in Routing!Line /\ Head(input) = input[1] /\ 1 \in 1..Len(input)
  BY <1>1, AnswerFits
<1>3. LineWritten(lines, 1)
  BY <1>1, AnswerServed
<1>4. QED
  BY <1>2, <1>3

LEMMA OneAppended ==
  ASSUME RoutingTypes, NEW a
  PROVE  Append(out, a) = out \o <<a>> /\ <<a>>[1] = a /\ (a \in Routing!Line => <<a>> \in Seq(Routing!Line))
BY DEF RoutingTypes, WireTypes

LEMMA ReadServed ==
  ASSUME RoutingBasis, RoutingTypes, RoutedOK, input # <<>>, input' = Tail(input),
         Routing!ServeRead(Head(input)),
         UNCHANGED <<scene, thread_workspace, hidden_thread_ids, background_thread_callbacks,
                     senders, hand, shown, concealed>>
  PROVE  \E lines : ServerStep(lines)
<1>1. codex' = codex /\ codex' \in ThreadServer /\ codex.live \subseteq Routing!Threads
  BY DEF Routing!ServeRead, RoutingTypes, ThreadServer
<1> DEFINE Answers(t, names, a) ==
             /\ a = Routing!Answer(Head(input), TRUE, t, names) /\ out' = out \o <<a>>
             /\ t \in Routing!Threads \cup {0} /\ names \in SUBSET Routing!Threads
             /\ \A u \in names : codex.ws[u] # None
             /\ t # 0 => /\ input[1].method \in {"thread/start", "thread/resume"}
                         /\ t \notin codex.memory /\ codex.ws[t] = Routing!Of(input[1].of)
<1>2. PICK t, names, a : Answers(t, names, a)
  <2>1. \A x : Append(out, x) = out \o <<x>>
    BY OneAppended
  <2>2. {} \in SUBSET Routing!Threads /\ 0 \in Routing!Threads \cup {0}
    OBVIOUS
  <2>3. /\ Head(input) = input[1] /\ input[1].thread \in Routing!Threads \cup {0}
        /\ input[1].thread # 0 => HomedAt(input[1].thread, Routing!Of(input[1].of))
    <3>1. input \in Seq(Routing!Request)
      BY DEF RoutingTypes, WireTypes
    <3>2. Head(input) = input[1] /\ 1 \in 1..Len(input) /\ input[1] \in Routing!Request
      BY <3>1
    <3>3. QED
      BY <3>2 DEF RoutedOK, LinesOK, RequestOK, Routing!Request, Routing!NoThread
  <2>4. CASE /\ Head(input).method = "thread/list"
             /\ out' = Append(out, Routing!Answer(Head(input), TRUE, 0, codex.live))
    BY <1>1, <2>1, <2>2, <2>4 DEF RoutedOK, ThreadsOK
  <2>5. CASE /\ Head(input).method = "thread/resume"
             /\ out' = Append(out, Routing!Answer(Head(input), TRUE, Head(input).thread, {}))
    <3>1. PICK u : u = input[1].thread
      OBVIOUS
    <3>2. PICK x : x = Routing!Answer(Head(input), TRUE, u, {})
      OBVIOUS
    <3>3. out' = out \o <<x>> /\ input[1].method = "thread/resume"
      BY <2>1, <2>3, <2>5, <3>1, <3>2
    <3>4. /\ u \in Routing!Threads \cup {0}
          /\ u # 0 => u \notin codex.memory /\ codex.ws[u] = Routing!Of(input[1].of)
      BY <2>3, <3>1 DEF HomedAt
    <3>5. Answers(u, {}, x)
      BY <2>2, <3>2, <3>3, <3>4
    <3> HIDE DEF Answers
    <3>6. QED
      BY <3>5
  <2>6. QED
    BY <2>4, <2>5 DEF Routing!ServeRead, Routing!NoThread
<1>3. a \in Routing!Line
  BY <1>2, AnswerFits
<1>4. Wrote(<<a>>)
  BY <1>1, <1>2, <1>3, OneAppended, ServerWrites
<1>5. LineWritten(<<a>>, 1)
  BY <1>1, <1>2, OneAppended, AnswerServed
<1>6. ThreadsGrow(<<a>>)
  BY <1>1, ThreadsStay DEF RoutedOK, ThreadsOK
<1>7. QED
  BY <1>3, <1>4, <1>5, <1>6, OneLine

LEMMA TurnServed ==
  ASSUME RoutingBasis, RoutingTypes, RoutedOK, input # <<>>, input' = Tail(input),
         Routing!ServeTurn(Head(input)),
         UNCHANGED <<scene, thread_workspace, hidden_thread_ids, background_thread_callbacks,
                     senders, hand, shown, concealed>>
  PROVE  \E lines : ServerStep(lines)
<1>1. PICK r : r = Head(input)
  OBVIOUS
<1>2. /\ codex' = [codex EXCEPT !.running = @ \cup {r.thread}] /\ r.thread \in codex.live
      /\ out' = Append(out, Routing!Answer(Head(input), TRUE, 0, {}))
  BY <1>1 DEF Routing!ServeTurn, Routing!NoThread
<1>3. /\ codex' \in ThreadServer /\ codex'.ws = codex.ws /\ codex'.memory = codex.memory
      /\ codex'.live = codex.live /\ codex'.running = codex.running \cup {r.thread}
  BY <1>2 DEF RoutingTypes, ThreadServer
<1>4. PICK a : a = Routing!Answer(Head(input), TRUE, 0, {})
  OBVIOUS
<1>5. a \in Routing!Line /\ LineWritten(<<a>>, 1) /\ Head(input) = input[1] /\ 1 \in 1..Len(input)
  BY <1>4, OneAppended, ThreadlessServed
<1>6. out' = out \o <<a>>
  BY <1>2, <1>4, OneAppended
<1>7. Wrote(<<a>>)
  BY <1>3, <1>5, <1>6, OneAppended, ServerWrites
<1>8. thread_workspace[r.thread] # None
  BY <1>1, <1>2, <1>5 DEF RoutedOK, RequestsPlaced
<1>9. ThreadsGrow(<<a>>)
  BY <1>2, <1>3, <1>8, ThreadsStay DEF RoutedOK, ThreadsOK
<1>10. QED
  BY <1>5, <1>7, <1>9, OneLine

LEMMA RefusalServed ==
  ASSUME RoutingBasis, RoutingTypes, RoutedOK, input # <<>>, input' = Tail(input),
         Routing!Refuse(Head(input)),
         UNCHANGED <<scene, thread_workspace, hidden_thread_ids, background_thread_callbacks,
                     senders, hand, shown, concealed>>
  PROVE  \E lines : ServerStep(lines)
<1>1. codex' = codex /\ codex' \in ThreadServer
  BY DEF Routing!Refuse, RoutingTypes
<1>2. PICK a : a = Routing!Answer(Head(input), FALSE, 0, {})
  OBVIOUS
<1>3. a \in Routing!Line /\ LineWritten(<<a>>, 1)
  BY <1>2, OneAppended, ThreadlessServed
<1>4. out' = out \o <<a>>
  BY <1>2, OneAppended DEF Routing!Refuse, Routing!NoThread
<1>5. Wrote(<<a>>)
  BY <1>1, <1>3, <1>4, OneAppended, ServerWrites
<1>6. ThreadsGrow(<<a>>)
  BY <1>1, ThreadsStay DEF RoutedOK, ThreadsOK
<1>7. QED
  BY <1>3, <1>5, <1>6, OneLine

(* A new thread, and the line that announces it.                            *)
LEMMA FreshThread ==
  ASSUME RoutingBasis, RoutingTypes, RoutedOK, NEW t \in Routing!Fresh
  PROVE  /\ t \in Routing!Threads /\ codex.ws[t] = None /\ t # 1 /\ t # 0
         /\ t \notin codex.live /\ t \notin codex.memory
  BY RoutingFacts DEF Routing!Fresh, RoutingTypes, RoutedOK, ThreadsOK

LEMMA ThreadOpens ==
  ASSUME RoutingBasis, RoutingTypes, RoutedOK, NEW t \in Routing!Fresh, NEW w \in Workspaces, NEW lines,
         codex'.ws = [codex.ws EXCEPT ![t] = w], codex'.live = codex.live \cup {t},
         codex'.running \in {codex.running, codex.running \cup {t}},
         codex'.memory \in {codex.memory, codex.memory \cup {t}},
         \E i \in 1..Len(lines) : Announces(lines[i], t),
         t \in codex'.memory \/ \E i \in 1..Len(lines) : Introduces(lines[i], t)
  PROVE  ThreadsGrow(lines)
<1>1. codex.ws \in [Routing!Threads -> Workspaces \cup {None}] /\ None \notin Workspaces
  BY DEF RoutingTypes, ThreadServer, RoutingBasis
<1>2. /\ codex'.ws[t] = w /\ w # None
      /\ \A u \in Routing!Threads : u # t => codex'.ws[u] = codex.ws[u]
  BY <1>1, FreshThread
<1>3. /\ codex.live \cup codex.memory \subseteq Routing!Threads /\ 1 \in Routing!Threads
      /\ codex.running \subseteq codex.live
  BY RoutingFacts DEF RoutingTypes, ThreadServer, RoutedOK, ThreadsOK
<1>4. ThreadsOK'
  BY <1>2, <1>3, FreshThread DEF RoutedOK, ThreadsOK
<1>5. \A u \in codex.live \cup codex.memory : codex.ws[u] # None
  BY DEF RoutedOK, ThreadsOK
<1>6. \A u \in codex.running \ codex.memory : Placed(u, Len(OnTheWay))
  BY DEF RoutedOK, EventsPlaced
<1>7. QED
  BY <1>2, <1>4, <1>5, <1>6, FreshThread DEF ThreadsGrow

IntroducedBefore(lines, i, t) == \E j \in 1..(i - 1) : Introduces(lines[j], t)
LEMMA StartedWritten ==
  ASSUME RoutingBasis, RoutingTypes, RoutedOK, NEW t \in Routing!Fresh,
         codex'.ws[t] # None, t \in codex'.live,
         NEW b, b = Routing!Notice("started", t, {}), NEW lines, NEW i, lines[i] = b,
         t \in codex'.memory \/ IntroducedBefore(lines, i, t)
  PROVE  b \in Routing!Line /\ Announces(b, t) /\ LineWritten(lines, i)
BY FreshThread, NoticeFits DEF Routing!Told, LineOK, IsNotice, Routing!IsAnswer, NewsOf,
   IntroducedBefore, LineWritten, Announces

LEMMA TwoAppended ==
  ASSUME NEW a, NEW b
  PROVE  /\ <<a, b>>[1] = a /\ <<a, b>>[2] = b /\ Len(<<a, b>>) = 2
         /\ a \in Routing!Line /\ b \in Routing!Line => <<a, b>> \in Seq(Routing!Line)
  OBVIOUS

LEMMA StartServed ==
  ASSUME RoutingBasis, RoutingTypes, RoutedOK, blame' = {}, input # <<>>, input' = Tail(input),
         Routing!ServeStart(Head(input)),
         UNCHANGED <<scene, thread_workspace, hidden_thread_ids, background_thread_callbacks,
                     senders, hand, shown, concealed>>
  PROVE  \E lines : ServerStep(lines)
<1>a. PICK t \in Routing!Fresh :
         /\ codex' = [codex EXCEPT !.ws[t] = Routing!Of(Head(input).of), !.live = @ \cup {t}]
         /\ out' = out \o <<Routing!Answer(Head(input), TRUE, t, {}), Routing!Notice("started", t, {})>>
  BY DEF Routing!ServeStart, Routing!Says
<1>b. PICK a : a = Routing!Answer(Head(input), TRUE, t, {})
  OBVIOUS
<1>c. PICK b : b = Routing!Notice("started", t, {})
  OBVIOUS
<1>1. /\ t \in Routing!Fresh
      /\ a = Routing!Answer(Head(input), TRUE, t, {}) /\ b = Routing!Notice("started", t, {})
      /\ codex' = [codex EXCEPT !.ws[t] = Routing!Of(Head(input).of), !.live = @ \cup {t}]
      /\ out' = out \o <<a, b>>
  BY <1>a, <1>b, <1>c
<1>2. PICK w : w = Routing!Of(Head(input).of)
  OBVIOUS
<1>3. /\ t \in Routing!Threads \cup {0} /\ t \in Routing!Threads
      /\ \E ok \in BOOLEAN, names \in SUBSET Routing!Threads :
            ok = TRUE /\ names = {} /\ a = Routing!Answer(Head(input), ok, t, names)
  BY <1>1, FreshThread
<1>4. /\ a \in Routing!Line /\ a.kind = "thread/start" /\ a.thread = t /\ Head(input) = input[1]
      /\ input[1].method = "thread/start" /\ a.of = input[1].of /\ w \in Workspaces
  <2>1. Head(input).method = "thread/start"
    BY DEF Routing!ServeStart
  <2>2. PICK ok \in BOOLEAN, names \in SUBSET Routing!Threads :
           a = Routing!Answer(Head(input), ok, t, names)
    BY <1>3
  <2>3. PICK u \in Routing!Threads \cup {0} : u = t
    BY <1>3
  <2>4. a = Routing!Answer(Head(input), ok, u, names)
    BY <2>2, <2>3
  <2>5. /\ a \in Routing!Line /\ a.kind = input[1].method /\ a.of = input[1].of /\ a.thread = u
        /\ Head(input) = input[1] /\ Routing!Of(a.of) \in Workspaces
    BY <2>4, AnswerFits
  <2>6. QED
    BY <1>2, <2>1, <2>3, <2>5
<1>5. /\ codex' \in ThreadServer /\ codex'.ws = [codex.ws EXCEPT ![t] = w]
      /\ codex'.live = codex.live \cup {t} /\ codex'.running = codex.running
      /\ codex'.memory = codex.memory
  BY <1>1, <1>2, <1>3, <1>4 DEF RoutingTypes, ThreadServer
<1>6. codex'.ws[t] = w /\ w # None /\ t \in codex'.live /\ t \notin codex'.memory
  BY <1>3, <1>4, <1>5, FreshThread DEF RoutingTypes, ThreadServer, RoutingBasis
<1>7. LineWritten(<<a, b>>, 1)
  <2>1. /\ input[1].method \in {"thread/start", "thread/resume"} /\ \A u \in {} : codex'.ws[u] # None
        /\ t \notin codex'.memory /\ codex'.ws[t] = Routing!Of(input[1].of)
    BY <1>2, <1>4, <1>6
  <2>2. PICK ok \in BOOLEAN, names \in SUBSET Routing!Threads :
           ok = TRUE /\ names = {} /\ a = Routing!Answer(Head(input), ok, t, names)
    BY <1>3
  <2>3. QED
    BY <1>3, <2>1, <2>2, TwoAppended, AnswerServed
<1>8. Introduces(a, t)
  BY <1>4 DEF Introduces
<1>9. b \in Routing!Line /\ Announces(b, t) /\ LineWritten(<<a, b>>, 2)
  <2>1. IntroducedBefore(<<a, b>>, 2, t)
    BY <1>8, TwoAppended DEF IntroducedBefore
  <2>2. QED
    BY <1>1, <1>6, <2>1, TwoAppended, StartedWritten
<1>10. ThreadsGrow(<<a, b>>)
  <2>1. 1 \in 1..Len(<<a, b>>) /\ 2 \in 1..Len(<<a, b>>)
    BY TwoAppended
  <2>2. Announces(<<a, b>>[2], t) /\ Introduces(<<a, b>>[1], t)
    BY <1>8, <1>9, TwoAppended
  <2>3. QED
    BY <1>4, <1>5, <2>1, <2>2, ThreadOpens
<1>11. Wrote(<<a, b>>)
  BY <1>1, <1>4, <1>5, <1>9, TwoAppended, ServerWrites
<1>12. QED
  BY <1>4, <1>7, <1>9, <1>10, <1>11, TwoLines

(* An event of a thread that lives, told after what placed the thread.      *)
LEMMA EventWritten ==
  ASSUME RoutingBasis, RoutingTypes, RoutedOK, NEW t \in codex.live,
         NEW kind \in {"delta", "completed", "failed", "archived"},
         codex'.ws = codex.ws, kind = "archived" => t \notin codex'.memory,
         NEW lines, NEW i, NewsOf(lines, i),
         NEW b, b = Routing!Notice(kind, t, {}), lines[i] = b
  PROVE  LineWritten(lines, i)
<1>1. t \in Routing!Threads /\ t # 0 /\ codex.ws[t] # None
  BY RoutingFacts DEF RoutingTypes, ThreadServer, RoutedOK, ThreadsOK
<1>2. IsNotice(b) /\ ~Routing!IsAnswer(b) /\ b.kind = kind /\ b.thread = t /\ b.names = {}
  BY DEF Routing!Notice, IsNotice, Routing!IsAnswer, Routing!Methods, Routing!Told
<1>3. LineOK(b)'
  BY <1>1, <1>2 DEF LineOK, IsNotice, Routing!IsAnswer
<1>4. QED
  BY <1>2, <1>3 DEF LineWritten

LEMMA ArchiveServed ==
  ASSUME RoutingBasis, RoutingTypes, RoutedOK, input # <<>>, input' = Tail(input),
         Routing!ServeArchive(Head(input)),
         UNCHANGED <<scene, thread_workspace, hidden_thread_ids, background_thread_callbacks,
                     senders, hand, shown, concealed>>
  PROVE  \E lines : ServerStep(lines)
<1>1. PICK t, a, b :
         /\ t = Head(input).thread /\ t \in codex.live
         /\ codex' = [codex EXCEPT !.live = @ \ {t}, !.running = @ \ {t}]
         /\ a = Routing!Answer(Head(input), TRUE, 0, {}) /\ b = Routing!Notice("archived", t, {})
         /\ out' = out \o <<a, b>>
  BY DEF Routing!ServeArchive, Routing!NoThread
<1>2. /\ codex' \in ThreadServer /\ codex'.ws = codex.ws /\ codex'.memory = codex.memory
      /\ codex'.live = codex.live \ {t} /\ codex'.running = codex.running \ {t}
  BY <1>1 DEF RoutingTypes, ThreadServer
<1>3. a \in Routing!Line /\ LineWritten(<<a, b>>, 1) /\ Head(input) = input[1] /\ 1 \in 1..Len(input)
  <2>1. PICK ok \in BOOLEAN : ok = TRUE
    OBVIOUS
  <2>2. PICK lines : lines = <<a, b>>
    OBVIOUS
  <2>3. a = Routing!Answer(Head(input), ok, 0, {}) /\ lines[1] = a
    BY <1>1, <2>1, <2>2
  <2>4. a \in Routing!Line /\ LineWritten(lines, 1) /\ Head(input) = input[1] /\ 1 \in 1..Len(input)
    BY <2>3, ThreadlessServed
  <2>5. QED
    BY <2>2, <2>4
<1>4. t \notin codex.memory /\ Placed(t, Len(OnTheWay))
  <2>1. t # 0
    BY <1>1, RoutingFacts DEF RoutingTypes, ThreadServer
  <2>2. QED
    BY <1>1, <1>3, <2>1 DEF RoutedOK, LinesOK, RequestOK, HomedAt, RequestsPlaced, Placed
<1>5. b \in Routing!Line /\ b.kind = "archived" /\ b.thread = t /\ LineWritten(<<a, b>>, 2)
  <2>1. b \in Routing!Line /\ b.kind = "archived" /\ b.thread = t
    BY <1>1 DEF RoutingTypes, ThreadServer, Routing!Notice, Routing!Line, Routing!Told, Routing!NoThread
  <2>2. NewsOf(<<a, b>>, 2)
    BY <1>1, <1>2, <1>4, <2>1, TwoAppended DEF NewsOf, RoutingTypes, ThreadServer
  <2>3. QED
    BY <1>1, <1>2, <1>4, <2>1, <2>2, TwoAppended, EventWritten
<1>6. ThreadsGrow(<<a, b>>)
  BY <1>1, <1>2, <1>5, TwoAppended DEF RoutedOK, ThreadsOK, Removes, EventsPlaced, ThreadsGrow
<1>7. Wrote(<<a, b>>)
  BY <1>1, <1>2, <1>3, <1>5, TwoAppended, ServerWrites
<1>8. QED
  BY <1>3, <1>5, <1>6, <1>7, TwoLines

LEMMA Spoken ==
  ASSUME RoutingBasis, RoutingTypes, RoutedOK, NEW t \in Routing!Threads, Routing!Speak(t)
  PROVE  \E lines : ServerStep(lines)
<1>1. /\ UNCHANGED <<scene, thread_workspace, hidden_thread_ids, background_thread_callbacks,
                     senders, hand, shown, concealed>>
      /\ input' = input /\ t \in codex.running
  BY DEF Routing!Speak, Routing!maps, Routing!window
<1>2. PICK kind, b :
         /\ kind \in {"delta", "completed", "failed"} /\ b = Routing!Notice(kind, t, {})
         /\ out' = out \o <<b>>
  BY OneAppended DEF Routing!Speak, Routing!Ends
<1>3. /\ codex' \in ThreadServer /\ codex'.ws = codex.ws /\ codex'.memory = codex.memory
      /\ codex'.live = codex.live /\ codex'.running \subseteq codex.running
  <2>1. CASE codex' = [codex EXCEPT !.said[t] = @ + 1]
    BY <2>1 DEF RoutingTypes, ThreadServer
  <2>2. CASE codex' = [codex EXCEPT !.running = @ \ {t}, !.over = @ \cup {t}]
    BY <2>2 DEF RoutingTypes, ThreadServer
  <2>3. QED
    BY <2>1, <2>2 DEF Routing!Speak
<1>4. /\ t \in codex.live /\ codex.running \subseteq codex.live
      /\ t \in codex.memory \/ Placed(t, Len(OnTheWay))
  BY <1>1 DEF RoutedOK, ThreadsOK, EventsPlaced
<1>5. b \in Routing!Line /\ LineWritten(<<b>>, 1)
  BY <1>2, <1>3, <1>4, EventWritten DEF Routing!Notice, Routing!Line, Routing!Told,
     Routing!NoThread, NewsOf
<1>6. Wrote(<<b>>)
  BY <1>1, <1>2, <1>3, <1>5, OneAppended, ServerWrites
<1>7. ThreadsGrow(<<b>>)
  BY <1>3, <1>4, ThreadsStay
<1>8. QED
  BY <1>5, <1>6, <1>7, OneLine

LEMMA Consolidated ==
  ASSUME RoutingBasis, RoutingTypes, RoutedOK, Routing!Consolidate
  PROVE  \E lines : ServerStep(lines)
<1>1. /\ UNCHANGED <<scene, thread_workspace, hidden_thread_ids, background_thread_callbacks,
                     senders, hand, shown, concealed>>
      /\ input' = input
  BY DEF Routing!Consolidate, Routing!maps, Routing!window
<1>a. PICK t \in Routing!Fresh, w \in Workspaces :
         /\ codex' = [Routing!Opened(t, w) EXCEPT !.memory = {t}] /\ codex.memory = {}
         /\ out' = out \o <<Routing!Notice("started", t, {})>>
  BY OneAppended DEF Routing!Consolidate
<1>b. PICK b : b = Routing!Notice("started", t, {})
  OBVIOUS
<1>2. /\ t \in Routing!Fresh /\ w \in Workspaces
      /\ codex' = [Routing!Opened(t, w) EXCEPT !.memory = {t}] /\ codex.memory = {}
      /\ b = Routing!Notice("started", t, {}) /\ out' = out \o <<b>>
  BY <1>a, <1>b
<1>3. t \in Routing!Threads
  BY FreshThread
<1>4. /\ codex' \in ThreadServer /\ codex'.ws = [codex.ws EXCEPT ![t] = w]
      /\ codex'.live = codex.live \cup {t} /\ codex'.running = codex.running \cup {t}
      /\ codex'.memory = codex.memory \cup {t}
  BY <1>2, <1>3 DEF Routing!Opened, RoutingTypes, ThreadServer
<1>5. codex'.ws[t] # None /\ t \in codex'.live /\ t \in codex'.memory
  BY <1>3, <1>4 DEF RoutingTypes, ThreadServer, RoutingBasis
<1>6. b \in Routing!Line /\ Announces(b, t) /\ LineWritten(<<b>>, 1)
  BY <1>2, <1>5, StartedWritten
<1>7. Wrote(<<b>>)
  BY <1>1, <1>2, <1>4, <1>6, OneAppended, ServerWrites
<1>8. ThreadsGrow(<<b>>)
  BY <1>6, <1>4, <1>5, ThreadOpens
<1>9. QED
  BY <1>6, <1>7, <1>8, OneLine

LEMMA Spawned ==
  ASSUME RoutingBasis, RoutingTypes, RoutedOK, blame' = {}, Routing!Spawn
  PROVE  \E lines : ServerStep(lines)
<1>1. /\ UNCHANGED <<scene, thread_workspace, hidden_thread_ids, background_thread_callbacks,
                     senders, hand, shown, concealed>>
      /\ input' = input
  BY DEF Routing!Spawn, Routing!maps, Routing!window
<1>a. PICK p \in codex.running \ codex.memory, t \in Routing!Fresh :
         /\ codex' = Routing!Opened(t, codex.ws[p])
         /\ out' = out \o <<Routing!Notice("item", p, {t}), Routing!Notice("started", t, {})>>
  BY DEF Routing!Spawn, Routing!Says
<1>b. PICK w : w = codex.ws[p]
  OBVIOUS
<1>c. PICK a : a = Routing!Notice("item", p, {t})
  OBVIOUS
<1>d. PICK b : b = Routing!Notice("started", t, {})
  OBVIOUS
<1>2. /\ p \in codex.running \ codex.memory /\ t \in Routing!Fresh
      /\ codex' = Routing!Opened(t, w) /\ w = codex.ws[p]
      /\ a = Routing!Notice("item", p, {t}) /\ b = Routing!Notice("started", t, {})
      /\ out' = out \o <<a, b>>
  BY <1>a, <1>b, <1>c, <1>d
<1>3. /\ t \in Routing!Threads /\ p \in Routing!Threads /\ p # 0 /\ p \in codex.live
      /\ w \in Workspaces /\ Placed(p, Len(OnTheWay)) /\ p # t
  BY <1>2, RoutingFacts, FreshThread
     DEF RoutingTypes, ThreadServer, RoutedOK, ThreadsOK, EventsPlaced
<1>4. /\ codex' \in ThreadServer /\ codex'.ws = [codex.ws EXCEPT ![t] = w]
      /\ codex'.live = codex.live \cup {t} /\ codex'.running = codex.running \cup {t}
      /\ codex'.memory = codex.memory
  BY <1>2, <1>3 DEF Routing!Opened, RoutingTypes, ThreadServer
<1>5. /\ codex'.ws[t] = w /\ codex'.ws[p] = w /\ w # None /\ t \in codex'.live
      /\ t \notin codex'.memory /\ p \notin codex'.memory /\ p \in codex'.live
  <2>1. codex.ws \in [Routing!Threads -> Workspaces \cup {None}] /\ None \notin Workspaces
    BY DEF RoutingTypes, ThreadServer, RoutingBasis
  <2>2. codex'.ws[t] = w /\ codex'.ws[p] = codex.ws[p] /\ w # None
    BY <1>3, <1>4, <2>1
  <2>3. t \notin codex.memory
    BY FreshThread
  <2>4. QED
    BY <1>2, <1>3, <1>4, <2>2, <2>3
<1>6. /\ a \in Routing!Line /\ IsNotice(a) /\ ~Routing!IsAnswer(a) /\ a.kind = "item"
      /\ a.thread = p /\ a.names = {t} /\ Introduces(a, t)
  BY <1>2, <1>3 DEF Routing!Notice, Routing!Line, IsNotice, Routing!IsAnswer, Routing!Methods,
                    Routing!Told, Routing!NoThread, Introduces
<1>7. LineWritten(<<a, b>>, 1)
  BY <1>3, <1>5, <1>6, TwoAppended DEF LineOK, HomedAt, IsNotice, Routing!IsAnswer, NewsOf,
     LineWritten
<1>8. b \in Routing!Line /\ Announces(b, t) /\ LineWritten(<<a, b>>, 2)
  BY <1>6, TwoAppended, <1>2, <1>5, StartedWritten DEF IntroducedBefore
<1>9. ThreadsGrow(<<a, b>>)
  <2>1. 1 \in 1..Len(<<a, b>>) /\ 2 \in 1..Len(<<a, b>>)
    BY TwoAppended
  <2>2. Announces(<<a, b>>[2], t) /\ Introduces(<<a, b>>[1], t)
    BY <1>6, <1>8, TwoAppended
  <2>3. QED
    BY <1>3, <1>4, <2>1, <2>2, ThreadOpens
<1>10. Wrote(<<a, b>>)
  BY <1>1, <1>2, <1>4, <1>6, <1>8, TwoAppended, ServerWrites
<1>11. QED
  BY <1>6, <1>7, <1>8, <1>9, <1>10, TwoLines

LEMMA ServerMoves ==
  ASSUME RoutingBasis, RoutingTypes, RoutedOK, blame' = {},
         \/ Routing!Serve \/ Routing!Consolidate \/ Routing!Spawn
         \/ \E t \in Routing!Threads : Routing!Speak(t)
  PROVE  \E lines : ServerStep(lines)
BY StartServed, ReadServed, TurnServed, ArchiveServed, RefusalServed, Consolidated, Spawned,
   Spoken DEF Routing!Serve, Routing!maps, Routing!window

----------------------------------------------------------------------------
(* The invariant, and what it says once everything has been told.           *)
LEMMA RoutingInit ==
  ASSUME RoutingBasis, Routing!Init
  PROVE  RoutingTypes /\ RoutedOK
<1>1. scene \in Scenes /\ 1 \in Routing!Threads /\ 0 \notin Routing!Threads
      /\ \A c \in Routing!Calls : c # 0
  BY RoutingFacts DEF Routing!Init
<1>2. /\ thread_workspace = [t \in Routing!Threads |-> None] /\ hidden_thread_ids = {}
      /\ background_thread_callbacks = [t \in Routing!Threads |-> 0]
      /\ input = <<>> /\ out = <<>> /\ hand = Routing!Idle
      /\ shown = [w \in Workspaces |-> {}] /\ concealed = [w \in Workspaces |-> {}]
  BY DEF Routing!Init
<1>3. PICK w \in Workspaces :
         codex = [ws |-> [t \in Routing!Threads |-> IF t = 1 THEN w ELSE None], memory |-> {},
                   live |-> {1}, running |-> {}, over |-> {}, said |-> [t \in Routing!Threads |-> 0]]
  BY DEF Routing!Init
<1>4. \A c \in Routing!Calls :
         /\ senders[c].step = "none" /\ senders[c].thread = 0 /\ senders[c].method = "thread/start"
  BY DEF Routing!Init, Routing!NoThread
<1>5. SenderTypes
  <2>1. senders \in [Routing!Calls -> SenderOf({<<>>, None})]
    BY DEF Routing!Init, Routing!NoThread, SenderOf, Routing!Methods
  <2>2. QED
    BY <2>1 DEF SenderTypes
<1>6. WireTypes
  BY <1>2 DEF WireTypes, Hand, Routing!Idle, Routing!NoLine, Routing!Notice, Routing!Line,
              Routing!Told, Routing!NoThread, RoutingBasis
<1>7. RoutingTypes
  BY <1>1, <1>2, <1>3, <1>5, <1>6 DEF RoutingTypes, MapTypes, WindowTypes, ThreadServer
<1>8. OnTheWay = <<>> /\ Len(OnTheWay) = 0 /\ Len(input) = 0 /\ ~hand.busy
  BY <1>2 DEF OnTheWay, Routing!Idle
<1>9. /\ codex.live = {1} /\ codex.memory = {} /\ codex.running = {} /\ codex.ws[1] # None
      /\ \A v \in Workspaces : shown[v] = {} /\ concealed[v] = {}
  BY <1>1, <1>2, <1>3 DEF RoutingBasis
<1>10. ThreadsOK /\ HomesOK /\ SendersOK
  BY <1>1, <1>2, <1>4, <1>9 DEF ThreadsOK, HomesOK, SendersOK, SenderOK
<1>11. LinesOK /\ StartsAsked /\ StartsAnswered /\ EventsPlaced
  BY <1>8, <1>9 DEF LinesOK, StartsAsked, StartsAnswered, EventsPlaced
<1>12. RequestsPlaced /\ InHandPlaced /\ OwnHushed /\ RemovedLast /\ ListedLive
  BY <1>4, <1>8, <1>9 DEF RequestsPlaced, InHandPlaced, OwnHushed, RemovedLast, ListedLive
<1>13. LiveListed /\ ConcealedOK
  BY <1>1, <1>2, <1>9 DEF LiveListed, ConcealedOK
<1>14. QED
  BY <1>7, <1>10, <1>11, <1>12, <1>13 DEF RoutedOK

(* What is blamed is never forgotten.                                       *)
LEMMA BlameStays ==
  ASSUME Routing!Next, blame' = {} PROVE blame = {}
<1>1. ASSUME NEW c \in Routing!Calls, Routing!Caller(c) PROVE blame = {}
  BY <1>1 DEF Routing!Caller, Routing!Begin, Routing!Write, Routing!Returned, Routing!TimeOut,
         Routing!PromptHides, Routing!PromptListens, Routing!PromptStarted,
         Routing!PromptCollects, Routing!PromptGivesUp, Routing!PromptEnds
<1>2. CASE Routing!ReadLine \/ Routing!Deliver \/ Routing!Consolidate
           \/ \E t \in Routing!Threads : Routing!Speak(t)
  BY <1>2 DEF Routing!ReadLine, Routing!Deliver, Routing!Consolidate, Routing!Speak
<1>3. CASE Routing!Serve
  BY <1>3 DEF Routing!Serve, Routing!ServeStart, Routing!ServeRead, Routing!ServeTurn,
              Routing!ServeArchive, Routing!Refuse, Routing!Says
<1>4. CASE Routing!Spawn
  BY <1>4 DEF Routing!Spawn, Routing!Says
<1>5. QED
  BY <1>1, <1>2, <1>3, <1>4 DEF Routing!Next

LEMMA RoutingSteps ==
  ASSUME RoutingBasis, RoutingInv, [Routing!Next]_Routing!vars
  PROVE  RoutingInv'
<1>1. CASE Routing!Next /\ blame' = {}
  <2>1. blame = {} /\ RoutingTypes /\ RoutedOK
    BY <1>1, BlameStays DEF RoutingInv
  <2>2. ASSUME NEW c \in Routing!Calls, Routing!Caller(c) PROVE RoutingTypes' /\ RoutedOK'
    BY <1>1, <2>1, <2>2, CallerKeeps
  <2>3. CASE Routing!ReadLine
    BY <2>1, <2>3, ReadMoves, ReadKeeps DEF RoutingInv
  <2>4. CASE Routing!Deliver
    BY <2>1, <2>4, DeliverMoves, DeliverKeeps DEF RoutingInv
  <2>5. CASE \/ Routing!Serve \/ Routing!Consolidate \/ Routing!Spawn
             \/ \E t \in Routing!Threads : Routing!Speak(t)
    BY <1>1, <2>1, <2>5, ServerMoves, ServerKeeps DEF RoutingInv
  <2>6. QED
    BY <1>1, <2>2, <2>3, <2>4, <2>5 DEF Routing!Next, RoutingInv
<1>2. CASE blame' # {}
  BY <1>2 DEF RoutingInv
<1>3. CASE UNCHANGED Routing!vars
  <2>1. UNCHANGED <<scene, thread_workspace, hidden_thread_ids, background_thread_callbacks,
                    senders, input, out, hand, codex, shown, concealed, blame>>
    BY <1>3 DEF Routing!vars, Routing!maps, Routing!window
  <2>2. ASSUME RoutingTypes, RoutedOK PROVE RoutingTypes' /\ RoutedOK'
    <3>1. PICK lines \in Seq(Routing!Line) : lines = <<>> /\ out' = out \o lines
      <4>1. out \in Seq(Routing!Line)
        BY <2>2 DEF RoutingTypes, WireTypes
      <4>2. <<>> \in Seq(Routing!Line) /\ out' = out \o <<>>
        BY <2>1, <4>1
      <4>3. QED
        BY <4>2
    <3>2. Wrote(lines)
      BY <2>1, <2>2, <3>1, ServerWrites DEF RoutingTypes
    <3>3. ThreadsGrow(lines)
      BY <2>1, <2>2, ThreadsStay DEF RoutedOK, ThreadsOK
    <3>4. ServerStep(lines)
      BY <3>1, <3>2, <3>3 DEF ServerStep
    <3>5. QED
      BY <2>2, <3>4, ServerKeeps
  <2>3. QED
    BY <2>1, <2>2 DEF RoutingInv
<1>4. QED
  BY <1>1, <1>2, <1>3

LEMMA RoutedHome ==
  ASSUME RoutingBasis, RoutingInv PROVE Routing!ListedAtHome
<1> SUFFICES ASSUME Routing!AtRest, blame = {}, NEW w \in Workspaces, NEW t \in Routing!Threads
             PROVE  LET home == /\ t \in codex.live \ (codex.memory \cup Routing!Background)
                                /\ codex.ws[t] = w
                    IN  (t \in shown[w] => home) /\ (home /\ t # 1 => t \in shown[w])
  BY DEF Routing!ListedAtHome
<1>1. RoutingTypes /\ RoutedOK
  BY DEF RoutingInv
<1>2. OnTheWay = <<>> /\ Len(OnTheWay) = 0
  BY DEF Routing!AtRest, OnTheWay
<1>3. t # 0
  BY <1>1, RoutingFacts DEF RoutingTypes
<1>4. ASSUME t \in shown[w]
      PROVE  t \in codex.live /\ HomedAt(t, w) /\ t \notin concealed[w]
  BY <1>1, <1>2, <1>4 DEF RoutedOK, ListedLive, Lives, HomesOK
<1>5. ASSUME t \in Routing!Background, HomedAt(t, w) PROVE t \in concealed[w]
  BY <1>5, <1>1, <1>3 DEF Routing!Background, Routing!AtRest, RoutedOK, SendersOK, SenderOK,
     HomedAt
<1>6. ASSUME t \in codex.live \ codex.memory, codex.ws[t] = w, t # 1
      PROVE  t \in shown[w] \/ t \in Routing!Background
  BY <1>1, <1>2, <1>6, <1>3 DEF RoutedOK, LiveListed, ConcealedOK, PromptOf, Routing!Background
<1>7. QED
  BY <1>4, <1>5, <1>6 DEF HomedAt

(* Whichever of the answer to a start, the events of its thread, the hiding *)
(* of it and the requests and listings of other workspaces came first, once  *)
(* all has been answered and told each thread that lives is listed in the    *)
(* workspace it works for and in no other, and those of background prompts   *)
(* and of the server's own in none (ListedAtHome).                          *)
THEOREM ThreadsListedAtHome ==
  ASSUME RoutingBasis PROVE Routing!Spec => []Routing!ListedAtHome
<1>1. Routing!Init => RoutingInv
  BY RoutingInit DEF RoutingInv
<1>2. RoutingInv /\ [Routing!Next]_Routing!vars => RoutingInv'
  BY RoutingSteps
<1>3. RoutingInv => Routing!ListedAtHome
  BY RoutedHome
<1>4. QED
  BY <1>1, <1>2, <1>3, PTL DEF Routing!Spec
=============================================================================
