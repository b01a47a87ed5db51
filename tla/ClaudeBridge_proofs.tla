------------------------ MODULE ClaudeBridge_proofs ------------------------
(***************************************************************************)
(* Theorems about ClaudeBridge, for every set of callers and threads and   *)
(* every bound: types (with what the reader and the callers hold), then    *)
(* turns, then control requests, each with one inductive invariant per     *)
(* concern, relative to the types, and the refinement of its ledger.       *)
(***************************************************************************)
EXTENDS ClaudeBridge, TLAPS

ReaderInv == ReaderTypeOK /\ OutboxOK
CallerInv == CallersTypeOK /\ JobOK
TypeInv   == BridgeTypeOK /\ ChannelTypeOK /\ CallerInv /\ ReaderInv /\ CliTypeOK /\ HistoryTypeOK

LEMMA TypeInvInit == Init => TypeInv
<1> SUFFICES ASSUME Init PROVE TypeInv
  OBVIOUS
<1>1. BridgeTypeOK
  <2>1. /\ thread_id = Thread0 /\ turn_id = 0
        /\ turn_started = FALSE /\ turn_has_content = FALSE
        /\ approval_id_counter = FirstApprovalId /\ uuids = 0
    BY DEF Init
  <2>2. DOMAIN pending_control_requests = {}
    BY DEF Init, NoPending
  <2>3. turn_started \in BOOLEAN /\ turn_has_content \in BOOLEAN
    BY <2>1
  <2>4. turn_id \in Nat /\ approval_id_counter \in Nat /\ uuids \in Nat /\ thread_id \in Threads
    BY <2>1, ThreadsAssumption DEF FirstApprovalId
  <2>5. QED
    BY <2>2, <2>3, <2>4 DEF BridgeTypeOK
<1>2. ChannelTypeOK
  <2>1. process_exited = FALSE /\ stdin_q = <<>> /\ writer_alive = TRUE
    BY DEF Init
  <2>2. process_exited \in BOOLEAN /\ writer_alive \in BOOLEAN
    BY <2>1
  <2>3. stdin_q \in Seq(StdinMessage)
    BY <2>1
  <2>4. QED
    BY <2>2, <2>3 DEF ChannelTypeOK
<1>3. CallerInv
  <2>1. pc = [c \in Callers |-> "idle"] /\ job = [c \in Callers |-> NoJob]
        /\ prompts = 0 /\ stops = 0
    BY DEF Init
  <2>2. job \in [Callers -> Job]
    BY <2>1, ThreadsAssumption DEF Job, NoJob
  <2>3. QED
    BY <2>1, <2>2 DEF CallerInv, CallersTypeOK, JobOK
<1>4. ReaderInv
  <2>1. reader = "read" /\ outbox = {}
    BY DEF Init
  <2>2. QED
    BY <2>1 DEF ReaderInv, ReaderTypeOK, OutboxOK
<1>5. CliTypeOK
  <2>1. /\ stdout = <<>> /\ cli_alive = TRUE /\ inbox = <<>> /\ cur = 0 /\ messages = 0
        /\ waiting = 0 /\ interrupted = FALSE /\ requests = 0
    BY DEF Init
  <2>2. cli_alive \in BOOLEAN /\ interrupted \in BOOLEAN
    BY <2>1
  <2>3. stdout \in Seq(Line) /\ inbox \in Seq(Nat)
    BY <2>1
  <2>4. cur \in Nat /\ messages \in Nat /\ waiting \in RequestIds \cup {0}
        /\ requests \in 0 .. MaxRequests
    BY <2>1, BoundsAssumption
  <2>5. QED
    BY <2>2, <2>3, <2>4 DEF CliTypeOK
<1>6. HistoryTypeOK
  <2>1. emitted = {} /\ installed = {} /\ answers = [r \in RequestIds |-> 0]
    BY DEF Init
  <2>2. QED
    BY <2>1 DEF HistoryTypeOK
<1>7. QED
  BY <1>1, <1>2, <1>3, <1>4, <1>5, <1>6 DEF TypeInv

(* A part of the state that is left alone keeps its type. *)
LEMMA Unchanged ==
  /\ UNCHANGED bridge /\ BridgeTypeOK => BridgeTypeOK'
  /\ UNCHANGED <<process_exited, channel>> /\ ChannelTypeOK => ChannelTypeOK'
  /\ UNCHANGED callers /\ CallerInv => CallerInv'
  /\ UNCHANGED reading /\ ReaderInv => ReaderInv'
  /\ UNCHANGED <<stdout, cli>> /\ CliTypeOK => CliTypeOK'
  /\ UNCHANGED history /\ HistoryTypeOK => HistoryTypeOK'
<1>1. UNCHANGED bridge /\ BridgeTypeOK => BridgeTypeOK'
  BY DEF bridge, BridgeTypeOK
<1>2. UNCHANGED <<process_exited, channel>> /\ ChannelTypeOK => ChannelTypeOK'
  BY DEF channel, ChannelTypeOK
<1>3. UNCHANGED callers /\ CallerInv => CallerInv'
  BY DEF callers, CallerInv, CallersTypeOK, JobOK
<1>4. UNCHANGED reading /\ ReaderInv => ReaderInv'
  BY DEF reading, ReaderInv, ReaderTypeOK, OutboxOK
<1>5. UNCHANGED <<stdout, cli>> /\ CliTypeOK => CliTypeOK'
  BY DEF cli, CliTypeOK
<1>6. UNCHANGED history /\ HistoryTypeOK => HistoryTypeOK'
  BY DEF history, HistoryTypeOK
<1>7. QED
  BY <1>1, <1>2, <1>3, <1>4, <1>5, <1>6

(* A caller that moves to another phase, not "reply", without touching its job. *)
LEMMA MoveOn ==
  ASSUME CallerInv, NEW c \in Callers,
         NEW p \in {"idle", "steer", "install", "announce", "prompt", "take"},
         pc' = [pc EXCEPT ![c] = p], UNCHANGED <<prompts, stops>>,
         job' = job \/ \E j \in Job : job' = [job EXCEPT ![c] = j]
  PROVE  CallerInv'
<1>1. pc' \in [Callers -> {"idle", "steer", "install", "announce", "prompt", "take", "reply"}]
  BY DEF CallerInv, CallersTypeOK
<1>2. job' \in [Callers -> Job]
  BY DEF CallerInv, CallersTypeOK
<1>3. JobOK'
  BY DEF CallerInv, CallersTypeOK, JobOK
<1>4. QED
  BY <1>1, <1>2, <1>3 DEF CallerInv, CallersTypeOK

LEMMA SendType ==
  ASSUME ChannelTypeOK, NEW m \in StdinMessage, Send(m), UNCHANGED process_exited
  PROVE  ChannelTypeOK'
BY DEF Send, ChannelTypeOK

LEMMA SendResponseType ==
  ASSUME ChannelTypeOK, HistoryTypeOK, NEW r \in RequestIds, SendResponse(r),
         UNCHANGED <<process_exited, emitted, installed>>
  PROVE  ChannelTypeOK' /\ HistoryTypeOK'
<1>1. [type |-> "control_response", request_id |-> r] \in StdinMessage
  BY DEF StdinMessage
<1>2. ChannelTypeOK'
  BY <1>1, SendType DEF SendResponse
<1>3. HistoryTypeOK'
  BY DEF SendResponse, HistoryTypeOK
<1>4. QED
  BY <1>2, <1>3

LEMMA NoJobType == NoJob \in Job
  BY ThreadsAssumption DEF NoJob, Job

LEMMA InterceptorType ==
  ASSUME TypeInv, NEW c \in Callers, Interceptor(c)
  PROVE  TypeInv'
<1> USE Unchanged DEF TypeInv
<1>1. ASSUME NEW m \in {"turn/start", "turn/steer"}, NEW th \in Threads, CheckTurn(c, m, th)
      PROVE  TypeInv'
  <2>1. CallerInv'
    <3>1. prompts' \in Nat
      BY <1>1 DEF CheckTurn, CallerInv, CallersTypeOK
    <3>2. pc' \in [Callers -> {"idle", "steer", "install", "announce", "prompt", "take", "reply"}]
      BY <1>1 DEF CheckTurn, CallerInv, CallersTypeOK
    <3>3. job' \in [Callers -> Job]
      BY <1>1 DEF CheckTurn, CallerInv, CallersTypeOK, Job
    <3>4. JobOK'
      BY <1>1 DEF CheckTurn, CallerInv, CallersTypeOK, JobOK, Job
    <3>5. QED
      BY <1>1, <3>1, <3>2, <3>3, <3>4 DEF CheckTurn, CallerInv, CallersTypeOK
  <2>2. QED
    BY <1>1, <2>1 DEF CheckTurn
<1>2. CASE SteerInterrupt(c)
  <2>1. ChannelTypeOK'
    BY <1>2, SendType DEF SteerInterrupt, StdinMessage
  <2>2. CallerInv'
    BY <1>2, MoveOn DEF SteerInterrupt
  <2>3. QED
    BY <1>2, <2>1, <2>2 DEF SteerInterrupt
<1>3. CASE InstallTurn(c)
  <2>1. job[c] \in Job /\ uuids + 1 \in Nat
    BY DEF CallerInv, CallersTypeOK, BridgeTypeOK
  <2>2. BridgeTypeOK' /\ HistoryTypeOK'
    BY <1>3, <2>1 DEF InstallTurn, Install, BridgeTypeOK, HistoryTypeOK, Job
  <2>3. [job[c] EXCEPT !.turn = uuids + 1] \in Job
    BY <2>1 DEF Job
  <2>4. job' = [job EXCEPT ![c] = [job[c] EXCEPT !.turn = uuids + 1]]
    BY <1>3 DEF InstallTurn
  <2>5. CallerInv'
    BY <1>3, <2>3, <2>4, MoveOn DEF InstallTurn
  <2>6. QED
    BY <1>3, <2>2, <2>5 DEF InstallTurn
<1>4. CASE AnnounceTurn(c)
  <2>1. job[c].turn \in Nat /\ job[c].thread \in Threads
    BY DEF CallerInv, CallersTypeOK, Job
  <2>2. HistoryTypeOK'
    BY <1>4, <2>1 DEF AnnounceTurn, HistoryTypeOK, Started, Event
  <2>3. CallerInv'
    BY <1>4, MoveOn DEF AnnounceTurn
  <2>4. QED
    BY <1>4, <2>2, <2>3 DEF AnnounceTurn
<1>5. CASE SendPrompt(c)
  <2>1. job[c].turn \in Nat
    BY DEF CallerInv, CallersTypeOK, Job
  <2>2. ChannelTypeOK'
    BY <1>5, <2>1, SendType DEF SendPrompt, StdinMessage
  <2>3. CallerInv'
    BY <1>5, NoJobType, MoveOn DEF SendPrompt
  <2>4. QED
    BY <1>5, <2>2, <2>3 DEF SendPrompt
<1>6. CASE Interrupt(c)
  <2>1. ChannelTypeOK'
    BY <1>6, SendType DEF Interrupt, StdinMessage
  <2>2. CallerInv'
    BY <1>6 DEF Interrupt, CallerInv, CallersTypeOK, JobOK
  <2>3. QED
    BY <1>6, <2>1, <2>2 DEF Interrupt
<1>7. ASSUME NEW e \in emitted, e.method = "codex/requestApproval", CheckAnswer(c, e.id)
      PROVE  TypeInv'
  <2>1. e.id \in Nat
    BY <1>7 DEF HistoryTypeOK, Event
  <2>2. [job[c] EXCEPT !.approval = e.id] \in Job
    BY <2>1 DEF CallerInv, CallersTypeOK, Job
  <2>3. CallerInv'
    BY <1>7, <2>2, MoveOn DEF CheckAnswer
  <2>4. QED
    BY <1>7, <2>3 DEF CheckAnswer
<1>8. CASE TakeApproval(c)
  <2> DEFINE a == job[c].approval
  <2>1. CASE a \in DOMAIN pending_control_requests
    <3>1. pending_control_requests[a] \in RequestIds
      BY <2>1 DEF BridgeTypeOK
    <3>2. BridgeTypeOK'
      BY <1>8, <2>1 DEF TakeApproval, RemovePending, Without, BridgeTypeOK
    <3> DEFINE j == [job[c] EXCEPT !.request_id = pending_control_requests[a]]
    <3>j. j \in Job /\ j.request_id # 0
      BY <3>1 DEF CallerInv, CallersTypeOK, Job, RequestIds
    <3>k. job' = [job EXCEPT ![c] = j]
      BY <1>8, <2>1 DEF TakeApproval
    <3> HIDE DEF j
    <3>3. job' \in [Callers -> Job]
      BY <3>j, <3>k DEF CallerInv, CallersTypeOK
    <3>4. JobOK'
      BY <1>8, <2>1, <3>j, <3>k DEF TakeApproval, CallerInv, CallersTypeOK, JobOK
    <3>5. pc' \in [Callers -> {"idle", "steer", "install", "announce", "prompt", "take", "reply"}]
      BY <1>8, <2>1 DEF TakeApproval, CallerInv, CallersTypeOK
    <3>6. CallerInv'
      BY <1>8, <3>3, <3>4, <3>5 DEF TakeApproval, CallerInv, CallersTypeOK
    <3>7. QED
      BY <1>8, <3>2, <3>6 DEF TakeApproval
  <2>2. CASE a \notin DOMAIN pending_control_requests
    <3>1. CallerInv'
      BY <1>8, <2>2, NoJobType, MoveOn DEF TakeApproval
    <3>2. BridgeTypeOK'
      BY <1>8, <2>2 DEF TakeApproval, BridgeTypeOK
    <3>3. QED
      BY <1>8, <3>1, <3>2 DEF TakeApproval
  <2>3. QED
    BY <2>1, <2>2
<1>9. CASE SendAnswer(c)
  <2>1. job[c].request_id \in RequestIds
    BY <1>9 DEF SendAnswer, JobOK, CallerInv, CallersTypeOK, Job
  <2>2. ChannelTypeOK' /\ HistoryTypeOK'
    BY <1>9, <2>1, SendResponseType DEF SendAnswer
  <2>3. CallerInv'
    BY <1>9, NoJobType, MoveOn DEF SendAnswer
  <2>4. QED
    BY <1>9, <2>2, <2>3 DEF SendAnswer
<1>10. QED
  BY <1>1, <1>2, <1>3, <1>4, <1>5, <1>6, <1>7, <1>8, <1>9 DEF Interceptor

-----------------------------------------------------------------------------
LEMMA WriterType ==
  ASSUME TypeInv, WriterWrite \/ WriterFail
  PROVE  TypeInv'
<1> USE Unchanged DEF TypeInv
<1>1. CASE WriterWrite
  <2>1. /\ Head(stdin_q) \in StdinMessage
        /\ Tail(stdin_q) \in Seq(StdinMessage)
    BY <1>1 DEF WriterWrite, ChannelTypeOK
  <2>2. ChannelTypeOK'
    BY <1>1, <2>1 DEF WriterWrite, ChannelTypeOK
  <2>3. inbox' \in Seq(Nat)
    BY <1>1, <2>1 DEF WriterWrite, CliTypeOK, StdinMessage
  <2>4. waiting' \in RequestIds \cup {0}
    BY <1>1 DEF WriterWrite, CliTypeOK
  <2>5. interrupted' \in BOOLEAN
    BY <1>1 DEF WriterWrite
  <2>6. CliTypeOK'
    BY <1>1, <2>3, <2>4, <2>5 DEF WriterWrite, CliTypeOK
  <2>7. QED
    BY <1>1, <2>2, <2>6 DEF WriterWrite
<1>2. CASE WriterFail
  <2>1. writer_alive' \in BOOLEAN
    BY <1>2 DEF WriterFail
  <2>2. ChannelTypeOK'
    BY <1>2, <2>1 DEF WriterFail, ChannelTypeOK
  <2>3. QED
    BY <1>2, <2>2 DEF WriterFail
<1>3. QED
  BY <1>1, <1>2

LEMMA CliType ==
  ASSUME TypeInv, Cli
  PROVE  TypeInv'
<1> USE Unchanged DEF TypeInv
<1>1. CASE CliTake
  <2>1. CliTypeOK'
    BY <1>1 DEF CliTake, CliTypeOK
  <2>2. QED
    BY <1>1, <2>1 DEF CliTake
<1>2. CASE CliMessageStart
  <2>1. [type |-> "message_start", of |-> cur] \in Line
    BY DEF Line, CliTypeOK
  <2>2. CliTypeOK'
    BY <1>2, <2>1 DEF CliMessageStart, CliPrint, CliTypeOK
  <2>3. QED
    BY <1>2, <2>2 DEF CliMessageStart
<1>3. ASSUME NEW s \in Subtypes, CliAsk(s)
      PROVE  TypeInv'
  <2>1. requests + 1 \in RequestIds /\ requests + 1 \in 0 .. MaxRequests
    BY <1>3, BoundsAssumption DEF CliAsk, CliTypeOK, RequestIds
  <2>2. [type |-> "control_request", of |-> cur, subtype |-> s, request_id |-> requests + 1]
          \in Line
    BY <2>1 DEF Line, CliTypeOK
  <2>3. CliTypeOK'
    BY <1>3, <2>1, <2>2 DEF CliAsk, CliPrint, CliTypeOK
  <2>4. QED
    BY <1>3, <2>3 DEF CliAsk
<1>4. ASSUME NEW b \in BOOLEAN, CliResult(b)
      PROVE  TypeInv'
  <2>1. [type |-> "result", of |-> cur, is_error |-> b] \in Line
    BY DEF Line, CliTypeOK
  <2>2. stdout' \in Seq(Line)
    BY <1>4, <2>1 DEF CliResult, CliPrint, CliTypeOK
  <2>3. interrupted' \in BOOLEAN
    BY <1>4 DEF CliResult
  <2>4. CliTypeOK'
    BY <1>4, <2>2, <2>3 DEF CliResult, CliTypeOK
  <2>5. QED
    BY <1>4, <2>4 DEF CliResult
<1>5. CASE CliExit
  <2>1. cli_alive' \in BOOLEAN
    BY <1>5 DEF CliExit
  <2>2. CliTypeOK'
    BY <1>5, <2>1 DEF CliExit, CliTypeOK
  <2>3. QED
    BY <1>5, <2>2 DEF CliExit
<1>6. QED
  BY <1>1, <1>2, <1>3, <1>4, <1>5 DEF Cli

-----------------------------------------------------------------------------
(* Reading a line shortens stdout and leaves callers, CLI and history alone. *)
LEMMA ReadLineType ==
  ASSUME TypeInv, NEW t, ReadLine(t)
  PROVE  /\ Head(stdout) \in Line /\ Head(stdout).type = t
         /\ ChannelTypeOK' /\ CallerInv' /\ CliTypeOK' /\ HistoryTypeOK'
<1> USE Unchanged DEF TypeInv
<1>1. Head(stdout) \in Line /\ Tail(stdout) \in Seq(Line)
  BY DEF ReadLine, CliTypeOK
<1>2. CliTypeOK'
  BY <1>1 DEF ReadLine, CliTypeOK, cli
<1>3. QED
  BY <1>1, <1>2 DEF ReadLine

LEMMA EmitType ==
  ASSUME NEW events \in SUBSET Event, Emit(events)
  PROVE  ReaderInv'
BY DEF Emit, ReaderInv, ReaderTypeOK, OutboxOK

LEMMA ReaderType ==
  ASSUME TypeInv, Reader
  PROVE  TypeInv'
<1> USE Unchanged DEF TypeInv
<1>0. /\ Started(turn_id, thread_id) \in Event
      /\ \A of \in Nat : Completed(turn_id, thread_id, of) \in Event
      /\ Disconnected \in Event
  BY DEF BridgeTypeOK, Started, Completed, Disconnected, Event
<1>1. CASE ReadMessageStart
  <2>1. ReaderInv'
    BY <1>0, <1>1, EmitType DEF ReadMessageStart
  <2>2. turn_started' \in BOOLEAN /\ turn_has_content' \in BOOLEAN
    BY <1>1 DEF ReadMessageStart
  <2>3. BridgeTypeOK'
    BY <1>1, <2>2 DEF ReadMessageStart, BridgeTypeOK
  <2>4. QED
    BY <1>1, <2>1, <2>3, ReadLineType DEF ReadMessageStart
<1>2. CASE ReadResult
  <2>1. Head(stdout).of \in Nat
    BY <1>2, ReadLineType DEF ReadResult, Line
  <2>2. CASE IsStale(Head(stdout).is_error)
    <3>1. Emit({}) /\ UNCHANGED bridge
      BY <1>2, <2>2 DEF ReadResult
    <3>2. ReaderInv'
      BY <3>1, EmitType
    <3>3. QED
      BY <1>2, <3>1, <3>2, ReadLineType DEF ReadResult
  <2>3. CASE ~IsStale(Head(stdout).is_error)
    <3>1. /\ Emit(IF turn_started THEN {Completed(turn_id, thread_id, Head(stdout).of)} ELSE {})
          /\ pending_control_requests' = NoPending
          /\ NewTurn
      BY <1>2, <2>3 DEF ReadResult
    <3>2. ReaderInv'
      BY <1>0, <2>1, <3>1, EmitType
    <3>3. turn_started' \in BOOLEAN /\ turn_has_content' \in BOOLEAN
      BY <3>1 DEF NewTurn
    <3>4. DOMAIN pending_control_requests' = {}
      BY <3>1 DEF NoPending
    <3>5. turn_id' \in Nat /\ uuids' \in Nat
      BY <3>1 DEF NewTurn, BridgeTypeOK
    <3>6. BridgeTypeOK'
      BY <3>1, <3>3, <3>4, <3>5 DEF NewTurn, BridgeTypeOK
    <3>7. QED
      BY <1>2, <3>2, <3>6, ReadLineType DEF ReadResult
  <2>4. QED
    BY <2>2, <2>3
<1>3. CASE ReadControlRequest
  <2> DEFINE r == Head(stdout).request_id
             a == NextApprovalId
  <2>1. r \in RequestIds
    BY <1>3, ReadLineType DEF ReadControlRequest, Line
  <2>2. CASE Head(stdout).subtype = "can_use_tool"
    <3>1. /\ outbox' = {Approval(a, r)} /\ reader' = "filter"
          /\ pending_control_requests' = With(pending_control_requests, a, r)
          /\ approval_id_counter' = approval_id_counter + 1
          /\ UNCHANGED <<thread_id, turn_id, turn_started, turn_has_content, uuids>>
      BY <1>3, <2>2 DEF ReadControlRequest
    <3>2. a \in Nat
      BY DEF NextApprovalId, BridgeTypeOK
    <3>3. Approval(a, r) \in Event /\ Approval(a, r).method = "codex/requestApproval"
      BY <2>1, <3>2 DEF Approval, Event
    <3>4. ReaderInv'
      BY <3>1, <3>3 DEF ReaderInv, ReaderTypeOK, OutboxOK, Approvals
    <3>5. BridgeTypeOK'
      BY <2>1, <3>1, <3>2 DEF With, BridgeTypeOK
    <3>6. QED
      BY <1>3, <3>4, <3>5, ReadLineType DEF ReadControlRequest
  <2>3. CASE Head(stdout).subtype # "can_use_tool"
    <3>1. /\ outbox' = {Ack(r)} /\ reader' = "ack"
          /\ UNCHANGED bridge
      BY <1>3, <2>3 DEF ReadControlRequest, bridge
    <3>2. ReaderInv'
      BY <2>1, <3>1 DEF ReaderInv, ReaderTypeOK, OutboxOK
    <3>3. QED
      BY <1>3, <3>1, <3>2, ReadLineType DEF ReadControlRequest
  <2>4. QED
    BY <2>2, <2>3
<1>4. CASE ReaderAck
  <2>1. PICK r \in RequestIds : outbox = {Ack(r)}
    BY <1>4 DEF ReaderAck, ReaderInv, OutboxOK
  <2>2. SendResponse(r)
    BY <1>4, <2>1 DEF ReaderAck, Ack
  <2>3. ChannelTypeOK' /\ HistoryTypeOK'
    BY <1>4, <2>2, SendResponseType DEF ReaderAck
  <2>4. ReaderInv'
    BY <1>4, EmitType DEF ReaderAck
  <2>5. QED
    BY <1>4, <2>3, <2>4 DEF ReaderAck
<1>5. CASE AutoApprove
  <2>1. PICK e \in outbox :
          IF e.id \in DOMAIN pending_control_requests
          THEN /\ SendResponse(pending_control_requests[e.id])
               /\ RemovePending(e.id)
          ELSE UNCHANGED <<channel, answers, pending_control_requests>>
    BY <1>5 DEF AutoApprove
  <2>2. ReaderInv'
    BY <1>5, EmitType DEF AutoApprove
  <2>3. CASE e.id \in DOMAIN pending_control_requests
    <3>1. pending_control_requests[e.id] \in RequestIds
      BY <2>3 DEF BridgeTypeOK
    <3>2. ChannelTypeOK' /\ HistoryTypeOK'
      BY <1>5, <2>1, <2>3, <3>1, SendResponseType DEF AutoApprove
    <3>3. BridgeTypeOK'
      BY <1>5, <2>1, <2>3 DEF AutoApprove, RemovePending, Without, BridgeTypeOK
    <3>4. QED
      BY <1>5, <2>2, <3>2, <3>3 DEF AutoApprove
  <2>4. CASE e.id \notin DOMAIN pending_control_requests
    <3>1. UNCHANGED <<bridge, channel, history>>
      BY <1>5, <2>1, <2>4 DEF AutoApprove, bridge, history
    <3>2. QED
      BY <1>5, <2>2, <3>1 DEF AutoApprove
  <2>5. QED
    BY <2>3, <2>4
<1>6. CASE AskUser
  <2>1. ReaderInv'
    BY <1>6 DEF AskUser, ReaderInv, ReaderTypeOK, OutboxOK, Approvals
  <2>2. QED
    BY <1>6, <2>1 DEF AskUser
<1>7. CASE ReaderEmit
  <2>1. HistoryTypeOK'
    BY <1>7 DEF ReaderEmit, HistoryTypeOK, ReaderInv, OutboxOK
  <2>2. ReaderInv'
    BY <1>7, EmitType DEF ReaderEmit
  <2>3. QED
    BY <1>7, <2>1, <2>2 DEF ReaderEmit
<1>8. CASE ReaderEof
  <2>1. ReaderInv'
    BY <1>8 DEF ReaderEof, ReaderInv, ReaderTypeOK, OutboxOK
  <2>2. process_exited' \in BOOLEAN
    BY <1>8 DEF ReaderEof
  <2>3. ChannelTypeOK'
    BY <1>8, <2>2 DEF ReaderEof, ChannelTypeOK, channel
  <2>4. QED
    BY <1>8, <2>1, <2>3 DEF ReaderEof
<1>9. CASE ReaderCleanup
  <2>1. Farewell \subseteq Event
    BY <1>0 DEF Farewell, BridgeTypeOK
  <2>2. ReaderInv'
    BY <1>9, <2>1 DEF ReaderCleanup, ReaderInv, ReaderTypeOK, OutboxOK
  <2>3. DOMAIN pending_control_requests' = {}
    BY <1>9 DEF ReaderCleanup, NoPending
  <2>4. BridgeTypeOK'
    BY <1>9, <2>3 DEF ReaderCleanup, BridgeTypeOK
  <2>5. QED
    BY <1>9, <2>2, <2>4 DEF ReaderCleanup
<1>10. CASE ReaderFarewell
  <2>1. HistoryTypeOK'
    BY <1>10 DEF ReaderFarewell, HistoryTypeOK, ReaderInv, OutboxOK
  <2>2. ReaderInv'
    BY <1>10 DEF ReaderFarewell, ReaderInv, ReaderTypeOK, OutboxOK
  <2>3. QED
    BY <1>10, <2>1, <2>2 DEF ReaderFarewell
<1>11. QED
  BY <1>1, <1>2, <1>3, <1>4, <1>5, <1>6, <1>7, <1>8, <1>9, <1>10 DEF Reader

LEMMA TypeInvNext == TypeInv /\ [Next]_vars => TypeInv'
<1>1. TypeInv /\ UNCHANGED vars => TypeInv'
  BY Unchanged DEF vars, TypeInv
<1>2. QED
  BY <1>1, InterceptorType, WriterType, CliType, ReaderType DEF Next

LEMMA TypeInvariant == Spec => []TypeInv
BY TypeInvInit, TypeInvNext, PTL DEF Spec

(* Every value the bridge, its tasks and the CLI handle has its type. *)
THEOREM TypeCorrect == Spec => []TypeOK
<1>1. TypeInv => TypeOK
  BY DEF TypeInv, TypeOK, CallerInv, ReaderInv
<1>2. QED
  BY <1>1, TypeInvariant, PTL

----------------------------------------------------------------------------
(* Turns: a turn is completed once, and on the thread that started it.  The *)
(* invariants rest on one fact: a turn id is drawn above every id that any  *)
(* event or any caller already holds.                                       *)

TurnInv == TurnIdsOK /\ CurrentTurnOpen /\ NoSecondCompletion

LEMMA TurnEventTypes ==
  ASSUME TypeInv
  PROVE  /\ \A e \in Completions(AllEvents) \cup Starts(AllEvents) :
              e \in Event /\ e.turn \in Nat /\ e.thread \in Threads
         /\ \A c \in Callers : job[c].turn \in Nat /\ job[c].thread \in Threads
         /\ turn_id \in Nat /\ uuids \in Nat
<1>1. \A e \in Completions(AllEvents) \cup Starts(AllEvents) : e \in Event
  BY DEF TypeInv, HistoryTypeOK, ReaderInv, ReaderTypeOK, AllEvents, Completions, Starts, Ack, Event
<1>2. \A e \in Completions(AllEvents) \cup Starts(AllEvents) : e.turn \in Nat /\ e.thread \in Threads
  BY <1>1 DEF Event, Completions, Starts
<1>3. QED
  BY <1>1, <1>2 DEF TypeInv, CallerInv, CallersTypeOK, Job, BridgeTypeOK

(* A step that draws no id and makes no event about a turn. *)
LEMMA TurnFrame ==
  ASSUME TurnInv,
         UNCHANGED <<turn_id, uuids, emitted>>,
         Completions(outbox') \subseteq Completions(outbox),
         Starts(outbox') \subseteq Starts(outbox),
         reader' \notin {"farewell", "done"} => reader \notin {"farewell", "done"},
         \A c \in Callers : job'[c].turn \in {0, job[c].turn},
         TypeInv
  PROVE  TurnInv'
<1>1. Completions(AllEvents') \subseteq Completions(AllEvents)
  BY DEF AllEvents, Completions
<1>2. Starts(AllEvents') \subseteq Starts(AllEvents)
  BY DEF AllEvents, Starts
<1>3. \A c \in Callers : job'[c].turn <= uuids
  BY TurnEventTypes DEF TurnInv, TurnIdsOK
<1>4. TurnIdsOK'
  BY <1>1, <1>2, <1>3 DEF TurnInv, TurnIdsOK, AllEvents
<1>5. CurrentTurnOpen'
  BY <1>1 DEF TurnInv, CurrentTurnOpen, AllEvents
<1>6. NoSecondCompletion'
  BY DEF TurnInv, NoSecondCompletion, Completions
<1>7. QED
  BY <1>4, <1>5, <1>6 DEF TurnInv

LEMMA TurnInvInit == Init => TurnInv
<1> SUFFICES ASSUME Init PROVE TurnInv
  OBVIOUS
<1>1. turn_id = 0 /\ uuids = 0 /\ emitted = {} /\ outbox = {}
  BY DEF Init
<1>2. \A c \in Callers : job[c].turn = 0
  BY DEF Init, NoJob
<1>3. Completions(AllEvents) = {} /\ Starts(AllEvents) = {}
  BY <1>1 DEF AllEvents, Completions, Starts
<1>4. TurnIdsOK
  BY <1>1, <1>2, <1>3 DEF TurnIdsOK
<1>5. CurrentTurnOpen /\ NoSecondCompletion
  BY <1>1, <1>3 DEF CurrentTurnOpen, NoSecondCompletion, Completions
<1>6. QED
  BY <1>4, <1>5 DEF TurnInv

(* A fresh turn: its id lies above everything known. *)
LEMMA TurnDrawn ==
  ASSUME TurnInv, TypeInv,
         turn_id' = uuids + 1, uuids' = uuids + 1, emitted' = emitted,
         Completions(outbox') \subseteq Completions(outbox) \cup
           {e \in Completions(outbox') : e.turn = turn_id /\ reader = "read"},
         Starts(outbox') \subseteq Starts(outbox),
         \A c \in Callers : job'[c].turn \in {0, job[c].turn, uuids + 1}
  PROVE  TurnInv'
<1>1. turn_id \in Nat /\ uuids \in Nat /\ turn_id <= uuids
  BY TurnEventTypes DEF TurnInv, TurnIdsOK
<1>2. \A e \in Completions(AllEvents') \cup Starts(AllEvents') : e.turn \in Nat /\ e.turn <= uuids
  <2>1. \A e \in Completions(AllEvents) \cup Starts(AllEvents) : e.turn \in Nat /\ e.turn <= uuids
    BY TurnEventTypes DEF TurnInv, TurnIdsOK
  <2>2. Starts(AllEvents') \subseteq Starts(AllEvents)
    BY DEF AllEvents, Starts
  <2>3. \A e \in Completions(AllEvents') : e \in Completions(AllEvents) \/ e.turn = turn_id
    BY DEF AllEvents, Completions
  <2>4. QED
    BY <1>1, <2>1, <2>2, <2>3
<1>3. \A c \in Callers : job'[c].turn <= uuids + 1
  <2>1. \A c \in Callers : job[c].turn \in Nat /\ job[c].turn <= uuids
    BY TurnEventTypes DEF TurnInv, TurnIdsOK
  <2>2. QED
    BY <1>1, <2>1
<1>4. \A e \in Completions(AllEvents') \cup Starts(AllEvents') :
        e.turn <= uuids + 1 /\ e.turn # uuids + 1
  BY <1>1, <1>2
<1>5. TurnIdsOK'
  <2>1. turn_id' <= uuids'
    BY <1>1
  <2>2. QED
    BY <2>1, <1>3, <1>4 DEF TurnIdsOK
<1>6. CurrentTurnOpen'
  BY <1>4 DEF CurrentTurnOpen, AllEvents
<1>7. NoSecondCompletion'
  <2> SUFFICES ASSUME NEW e \in Completions(outbox'), NEW d \in Completions(emitted)
               PROVE  e.turn # d.turn
    BY DEF NoSecondCompletion
  <2>1. CASE e \in Completions(outbox)
    BY <2>1 DEF TurnInv, NoSecondCompletion
  <2>2. CASE e.turn = turn_id /\ reader = "read"
    BY <2>2 DEF TurnInv, CurrentTurnOpen, AllEvents, Completions
  <2>3. QED
    BY <2>1, <2>2
<1>8. QED
  BY <1>5, <1>6, <1>7 DEF TurnInv

(* The reader hands its events to the frontend. *)
LEMMA TurnHandedOver ==
  ASSUME TurnInv, TypeInv,
         UNCHANGED <<turn_id, uuids>>, emitted' = emitted \cup outbox, outbox' = {},
         reader' \notin {"farewell", "done"} => reader \notin {"farewell", "done"},
         job' = job
  PROVE  TurnInv'
<1>1. AllEvents' = AllEvents
  BY DEF AllEvents
<1>2. TurnIdsOK' /\ CurrentTurnOpen'
  BY <1>1 DEF TurnInv, TurnIdsOK, CurrentTurnOpen
<1>3. NoSecondCompletion'
  BY DEF NoSecondCompletion, Completions
<1>4. QED
  BY <1>2, <1>3 DEF TurnInv

LEMMA TurnInterceptor ==
  ASSUME TypeInv, TurnInv, NEW c \in Callers, Interceptor(c)
  PROVE  TurnInv'
<1>0. job \in [Callers -> Job]
  BY DEF TypeInv, CallerInv, CallersTypeOK
<1>1. ASSUME NEW m \in {"turn/start", "turn/steer"}, NEW th \in Threads, CheckTurn(c, m, th)
      PROVE  TurnInv'
  <2>1. \A d \in Callers : job'[d].turn = job[d].turn
    BY <1>0, <1>1 DEF CheckTurn, Job
  <2>2. QED
    BY <1>1, <2>1, TurnFrame DEF CheckTurn, bridge, reading, history
<1>2. CASE SteerInterrupt(c)
  BY <1>2, TurnFrame DEF SteerInterrupt, bridge, reading, history
<1>3. CASE InstallTurn(c)
  <2>1. \A d \in Callers : job'[d].turn \in {job[d].turn, uuids + 1}
    BY <1>0, <1>3 DEF InstallTurn, Job
  <2>2. QED
    BY <1>3, <2>1, TurnDrawn DEF InstallTurn, Install, reading
<1>4. CASE AnnounceTurn(c)
  <2> DEFINE s == Started(job[c].turn, job[c].thread)
  <2>1. /\ emitted' = emitted \cup {s} /\ outbox' = outbox /\ reader' = reader
        /\ UNCHANGED <<turn_id, uuids, job>>
    BY <1>4 DEF AnnounceTurn, bridge, reading
  <2>2. s.method = "turn/started" /\ s.turn = job[c].turn
    BY DEF Started
  <2> HIDE DEF s
  <2>3. Completions(emitted') = Completions(emitted) /\ Completions(outbox') = Completions(outbox)
    BY <2>1, <2>2 DEF Completions
  <2>4. /\ Completions(AllEvents') = Completions(AllEvents)
        /\ Starts(AllEvents') = Starts(AllEvents) \cup {s}
    BY <2>1, <2>2 DEF AllEvents, Completions, Starts
  <2>5. s.turn <= uuids
    BY <2>2 DEF TurnInv, TurnIdsOK
  <2>6. TurnIdsOK'
    BY <2>1, <2>4, <2>5 DEF TurnInv, TurnIdsOK
  <2>7. CurrentTurnOpen' /\ NoSecondCompletion'
    BY <2>1, <2>3, <2>4 DEF TurnInv, CurrentTurnOpen, NoSecondCompletion
  <2>8. QED
    BY <2>6, <2>7 DEF TurnInv
<1>5. CASE SendPrompt(c)
  <2>1. \A d \in Callers : job'[d].turn \in {0, job[d].turn}
    BY <1>0, <1>5 DEF SendPrompt, NoJob
  <2>2. QED
    BY <1>5, <2>1, TurnFrame DEF SendPrompt, bridge, reading, history
<1>6. CASE Interrupt(c)
  BY <1>6, TurnFrame DEF Interrupt, bridge, reading, history
<1>7. ASSUME NEW e \in emitted, CheckAnswer(c, e.id)
      PROVE  TurnInv'
  <2>1. \A d \in Callers : job'[d].turn = job[d].turn
    BY <1>0, <1>7 DEF CheckAnswer, Job
  <2>2. QED
    BY <1>7, <2>1, TurnFrame DEF CheckAnswer, bridge, reading, history
<1>8. CASE TakeApproval(c)
  <2>1. \A d \in Callers : job'[d].turn \in {0, job[d].turn}
    BY <1>0, <1>8 DEF TakeApproval, NoJob, Job
  <2>2. QED
    BY <1>8, <2>1, TurnFrame DEF TakeApproval, reading, history
<1>9. CASE SendAnswer(c)
  <2>1. \A d \in Callers : job'[d].turn \in {0, job[d].turn}
    BY <1>0, <1>9 DEF SendAnswer, NoJob
  <2>2. QED
    BY <1>9, <2>1, TurnFrame DEF SendAnswer, bridge, reading
<1>10. QED
  BY <1>1, <1>2, <1>3, <1>4, <1>5, <1>6, <1>7, <1>8, <1>9 DEF Interceptor

LEMMA TurnReader ==
  ASSUME TypeInv, TurnInv, Reader
  PROVE  TurnInv'
<1>0. ReaderTypeOK /\ OutboxOK
  BY DEF TypeInv, ReaderInv
<1>1. CASE ReadMessageStart
  <2>1. reader = "read" /\ outbox = {}
    BY <1>0, <1>1 DEF ReadMessageStart, ReadLine, OutboxOK
  <2>2. /\ UNCHANGED <<turn_id, uuids, emitted, job>>
        /\ outbox' = {} \/ outbox' = {Started(turn_id, thread_id)}
        /\ reader' \in {"read", "emit"}
    BY <1>1 DEF ReadMessageStart, ReadLine, Emit, callers, history
  <2>3. Completions(outbox') = {} /\ Completions(outbox) = {}
    BY <2>1, <2>2 DEF Completions, Started
  <2>4. /\ Completions(AllEvents') = Completions(AllEvents)
        /\ \A e \in Starts(AllEvents') : e \in Starts(AllEvents) \/ e.turn = turn_id
    BY <2>1, <2>2, <2>3 DEF AllEvents, Completions, Starts, Started
  <2>5. TurnIdsOK'
    BY <2>2, <2>4 DEF TurnInv, TurnIdsOK
  <2>6. CurrentTurnOpen' /\ NoSecondCompletion'
    BY <2>1, <2>2, <2>3, <2>4 DEF TurnInv, CurrentTurnOpen, NoSecondCompletion
  <2>7. QED
    BY <2>5, <2>6 DEF TurnInv
<1>2. CASE ReadResult
  <2>1. reader = "read" /\ outbox = {} /\ UNCHANGED <<emitted, job>>
    BY <1>0, <1>2 DEF ReadResult, ReadLine, OutboxOK, callers, history
  <2>2. CASE IsStale(Head(stdout).is_error)
    <3>1. Emit({}) /\ UNCHANGED <<turn_id, uuids>>
      BY <1>2, <2>2 DEF ReadResult, bridge
    <3>2. QED
      BY <2>1, <3>1, TurnFrame DEF Emit
  <2>3. CASE ~IsStale(Head(stdout).is_error)
    <3>1. /\ outbox' = {} \/ outbox' = {Completed(turn_id, thread_id, Head(stdout).of)}
          /\ turn_id' = uuids + 1 /\ uuids' = uuids + 1
      BY <1>2, <2>3 DEF ReadResult, Emit, NewTurn
    <3>2. Starts(outbox') = {} /\ \A e \in Completions(outbox') : e.turn = turn_id
      BY <3>1 DEF Starts, Completions, Completed
    <3>3. QED
      BY <2>1, <3>1, <3>2, TurnDrawn
  <2>4. QED
    BY <2>2, <2>3
<1>3. CASE ReadControlRequest
  <2>1. reader = "read" /\ outbox = {} /\ UNCHANGED <<emitted, job>>
    BY <1>0, <1>3 DEF ReadControlRequest, ReadLine, OutboxOK, callers, history
  <2>2. /\ UNCHANGED <<turn_id, uuids>>
        /\ \A e \in outbox' : e.method \in {"codex/requestApproval", "ack"}
    BY <1>3 DEF ReadControlRequest, Approval, Ack
  <2>3. Completions(outbox') = {} /\ Starts(outbox') = {}
    BY <2>2 DEF Completions, Starts
  <2>4. QED
    BY <2>1, <2>2, <2>3, TurnFrame
<1>4. CASE ReaderAck
  <2>1. outbox' = {} /\ reader = "ack" /\ UNCHANGED <<turn_id, uuids, emitted, job>>
    BY <1>4 DEF ReaderAck, Emit, bridge, callers
  <2>2. Completions(outbox') = {} /\ Starts(outbox') = {}
    BY <2>1 DEF Completions, Starts
  <2>3. QED
    BY <2>1, <2>2, TurnFrame
<1>5. CASE AutoApprove
  <2>1. outbox' = {} /\ reader = "filter" /\ UNCHANGED <<turn_id, uuids, emitted, job>>
    BY <1>5 DEF AutoApprove, Emit, callers
  <2>2. Completions(outbox') = {} /\ Starts(outbox') = {}
    BY <2>1 DEF Completions, Starts
  <2>3. QED
    BY <2>1, <2>2, TurnFrame
<1>6. CASE AskUser
  BY <1>6, TurnFrame DEF AskUser, bridge, callers, history
<1>7. CASE ReaderEmit
  BY <1>7, TurnHandedOver DEF ReaderEmit, Emit, bridge, callers
<1>8. CASE ReaderEof
  BY <1>8, TurnFrame DEF ReaderEof, bridge, callers, history
<1>9. CASE ReaderCleanup
  <2>1. /\ reader = "cleanup" /\ outbox = {} /\ reader' = "farewell"
        /\ outbox' = Farewell /\ UNCHANGED <<turn_id, uuids, emitted, job>>
    BY <1>0, <1>9 DEF ReaderCleanup, OutboxOK, callers, history
  <2>2. Starts(outbox') = {} /\ \A e \in Completions(outbox') : e.turn = turn_id
    BY <2>1 DEF Farewell, Disconnected, Completed, Starts, Completions
  <2>3. /\ Starts(AllEvents') = Starts(AllEvents)
        /\ \A e \in Completions(AllEvents') : e \in Completions(AllEvents) \/ e.turn = turn_id
    BY <2>1, <2>2 DEF AllEvents, Starts, Completions
  <2>4. TurnIdsOK'
    BY <2>1, <2>3 DEF TurnInv, TurnIdsOK
  <2>5. CurrentTurnOpen'
    BY <2>1 DEF CurrentTurnOpen
  <2>6. \A d \in Completions(emitted) : d.turn # turn_id
    BY <2>1 DEF TurnInv, CurrentTurnOpen, AllEvents, Completions
  <2>7. NoSecondCompletion'
    BY <2>1, <2>2, <2>6 DEF NoSecondCompletion
  <2>8. QED
    BY <2>4, <2>5, <2>7 DEF TurnInv
<1>10. CASE ReaderFarewell
  BY <1>10, TurnHandedOver DEF ReaderFarewell, bridge, callers
<1>11. QED
  BY <1>1, <1>2, <1>3, <1>4, <1>5, <1>6, <1>7, <1>8, <1>9, <1>10 DEF Reader

LEMMA TurnInvNext == TypeInv /\ TurnInv /\ [Next]_vars => TurnInv'
<1> SUFFICES ASSUME TypeInv, TurnInv, [Next]_vars PROVE TurnInv'
  OBVIOUS
<1>1. CASE UNCHANGED vars
  BY <1>1, TurnFrame DEF vars, bridge, callers, reading, history
<1>2. CASE WriterWrite \/ WriterFail
  BY <1>2, TurnFrame DEF WriterWrite, WriterFail, bridge, callers, reading, history
<1>3. CASE Cli
  BY <1>3, TurnFrame DEF Cli, CliTake, CliMessageStart, CliAsk, CliResult, CliExit,
                         bridge, callers, reading, history
<1>4. QED
  BY <1>1, <1>2, <1>3, TurnInterceptor, TurnReader DEF Next

LEMMA TurnInvariant == Spec => []TurnInv
BY TurnInvInit, TurnInvNext, TypeInvariant, PTL DEF Spec

(* However the result of a turn, a new prompt and the end of the process    *)
(* interleave, the frontend is told once at most that a turn has ended.     *)
THEOREM TurnCompletedOnce == Spec => []NoSecondCompletion
<1>1. TurnInv => NoSecondCompletion
  BY DEF TurnInv
<1>2. QED
  BY <1>1, TurnInvariant, PTL

-----------------------------------------------------------------------------
ThreadInv == CurrentThreadOK /\ CompletedOnItsThread

LEMMA ThreadFrame ==
  ASSUME ThreadInv,
         UNCHANGED <<turn_id, thread_id>>,
         Completions(AllEvents') \subseteq Completions(AllEvents),
         Starts(AllEvents') \subseteq Starts(AllEvents),
         \A c \in Callers : pc'[c] = "announce" => pc[c] = "announce" /\ job'[c] = job[c]
  PROVE  ThreadInv'
<1>1. CurrentThreadOK'
  BY DEF ThreadInv, CurrentThreadOK
<1>2. CompletedOnItsThread'
  BY DEF ThreadInv, CompletedOnItsThread
<1>3. QED
  BY <1>1, <1>2 DEF ThreadInv

(* The events that wait or have been sent are the same: nothing was made. *)
LEMMA NoNewEvents ==
  ASSUME emitted' \cup outbox' \subseteq emitted \cup outbox
  PROVE  /\ Completions(AllEvents') \subseteq Completions(AllEvents)
         /\ Starts(AllEvents') \subseteq Starts(AllEvents)
BY DEF AllEvents, Completions, Starts

LEMMA ThreadInvInit == Init => ThreadInv
<1> SUFFICES ASSUME Init PROVE ThreadInv
  OBVIOUS
<1>1. emitted = {} /\ outbox = {}
  BY DEF Init
<1>2. \A c \in Callers : pc[c] = "idle"
  BY DEF Init
<1>3. Completions(AllEvents) = {} /\ Starts(AllEvents) = {}
  BY <1>1 DEF AllEvents, Completions, Starts
<1>4. QED
  BY <1>2, <1>3 DEF ThreadInv, CurrentThreadOK, CompletedOnItsThread

LEMMA ThreadInterceptor ==
  ASSUME TypeInv, TurnInv, ThreadInv, NEW c \in Callers, Interceptor(c)
  PROVE  ThreadInv'
<1>0. job \in [Callers -> Job] /\ DOMAIN pc = Callers
  BY DEF TypeInv, CallerInv, CallersTypeOK
<1>1. ASSUME NEW m \in {"turn/start", "turn/steer"}, NEW th \in Threads, CheckTurn(c, m, th)
      PROVE  ThreadInv'
  <2>1. \A d \in Callers : pc'[d] = "announce" => pc[d] = "announce" /\ job'[d] = job[d]
    BY <1>0, <1>1 DEF CheckTurn
  <2>2. QED
    BY <1>1, <2>1, ThreadFrame, NoNewEvents DEF CheckTurn, bridge, reading, history
<1>2. CASE SteerInterrupt(c)
  BY <1>0, <1>2, ThreadFrame, NoNewEvents DEF SteerInterrupt, bridge, reading, history
<1>3. CASE InstallTurn(c)
  <2>1. /\ emitted' = emitted /\ outbox' = outbox
        /\ turn_id' = uuids + 1 /\ thread_id' = job[c].thread
        /\ job'[c].turn = uuids + 1 /\ job'[c].thread = job[c].thread
        /\ \A d \in Callers \ {c} : job'[d] = job[d] /\ pc'[d] = pc[d]
    BY <1>0, <1>3 DEF InstallTurn, Install, reading, Job
  <2>2. AllEvents' = AllEvents
    BY <2>1 DEF AllEvents
  <2>3. /\ \A e \in Completions(AllEvents) \cup Starts(AllEvents) : e.turn # uuids + 1
        /\ \A d \in Callers : job[d].turn # uuids + 1
    BY TurnEventTypes DEF TurnInv, TurnIdsOK
  <2>4. CurrentThreadOK'
    BY <2>1, <2>2, <2>3 DEF CurrentThreadOK
  <2>5. \A e \in Completions(AllEvents'), d \in Callers :
          pc'[d] = "announce" /\ e.turn = job'[d].turn => e.thread = job'[d].thread
    <3> SUFFICES ASSUME NEW e \in Completions(AllEvents), NEW d \in Callers,
                        pc'[d] = "announce", e.turn = job'[d].turn
                 PROVE  e.thread = job'[d].thread
      BY <2>2
    <3>1. d # c
      BY <2>1, <2>3
    <3>2. QED
      BY <2>1, <3>1 DEF ThreadInv, CompletedOnItsThread
  <2>6. CompletedOnItsThread'
    BY <2>2, <2>5 DEF ThreadInv, CompletedOnItsThread
  <2>7. QED
    BY <2>4, <2>6 DEF ThreadInv
<1>4. CASE AnnounceTurn(c)
  <2> DEFINE s == Started(job[c].turn, job[c].thread)
  <2>1. /\ emitted' = emitted \cup {s} /\ outbox' = outbox
        /\ UNCHANGED <<turn_id, thread_id, job>>
        /\ pc[c] = "announce"
        /\ \A d \in Callers : pc'[d] = "announce" => pc[d] = "announce"
    BY <1>0, <1>4 DEF AnnounceTurn, bridge, reading
  <2>2. s.method = "turn/started" /\ s.turn = job[c].turn /\ s.thread = job[c].thread
    BY DEF Started
  <2> HIDE DEF s
  <2>3. /\ Completions(AllEvents') = Completions(AllEvents)
        /\ Starts(AllEvents') = Starts(AllEvents) \cup {s}
    BY <2>1, <2>2 DEF AllEvents, Completions, Starts
  <2>4. CurrentThreadOK'
    BY <2>1, <2>2, <2>3 DEF ThreadInv, CurrentThreadOK
  <2>5. CompletedOnItsThread'
    BY <2>1, <2>2, <2>3 DEF ThreadInv, CompletedOnItsThread
  <2>6. QED
    BY <2>4, <2>5 DEF ThreadInv
<1>5. CASE SendPrompt(c)
  <2>1. \A d \in Callers : pc'[d] = "announce" => pc[d] = "announce" /\ job'[d] = job[d]
    BY <1>0, <1>5 DEF SendPrompt
  <2>2. QED
    BY <1>5, <2>1, ThreadFrame, NoNewEvents DEF SendPrompt, bridge, reading, history
<1>6. CASE Interrupt(c)
  BY <1>6, ThreadFrame, NoNewEvents DEF Interrupt, bridge, reading, history
<1>7. ASSUME NEW e \in emitted, CheckAnswer(c, e.id)
      PROVE  ThreadInv'
  <2>1. \A d \in Callers : pc'[d] = "announce" => pc[d] = "announce" /\ job'[d] = job[d]
    BY <1>0, <1>7 DEF CheckAnswer
  <2>2. QED
    BY <1>7, <2>1, ThreadFrame, NoNewEvents DEF CheckAnswer, bridge, reading, history
<1>8. CASE TakeApproval(c)
  <2>1. \A d \in Callers : pc'[d] = "announce" => pc[d] = "announce" /\ job'[d] = job[d]
    BY <1>0, <1>8 DEF TakeApproval
  <2>2. QED
    BY <1>8, <2>1, ThreadFrame, NoNewEvents DEF TakeApproval, reading, history
<1>9. CASE SendAnswer(c)
  <2>1. \A d \in Callers : pc'[d] = "announce" => pc[d] = "announce" /\ job'[d] = job[d]
    BY <1>0, <1>9 DEF SendAnswer
  <2>2. QED
    BY <1>9, <2>1, ThreadFrame, NoNewEvents DEF SendAnswer, bridge, reading
<1>10. QED
  BY <1>1, <1>2, <1>3, <1>4, <1>5, <1>6, <1>7, <1>8, <1>9 DEF Interceptor

LEMMA ThreadReader ==
  ASSUME TypeInv, TurnInv, ThreadInv, Reader
  PROVE  ThreadInv'
<1>0. ReaderTypeOK /\ OutboxOK
  BY DEF TypeInv, ReaderInv
<1>1. CASE ReadMessageStart
  <2>1. /\ reader = "read" /\ outbox = {}
        /\ UNCHANGED <<turn_id, thread_id, emitted, pc, job>>
        /\ outbox' = {} \/ outbox' = {Started(turn_id, thread_id)}
    BY <1>0, <1>1 DEF ReadMessageStart, ReadLine, Emit, OutboxOK, callers, history
  <2>2. Completions(AllEvents') = Completions(AllEvents)
    BY <2>1 DEF AllEvents, Completions, Started
  <2>3. \A e \in Starts(AllEvents') :
          e \in Starts(AllEvents) \/ (e.turn = turn_id /\ e.thread = thread_id)
    BY <2>1 DEF AllEvents, Starts, Started
  <2>4. \A e \in Completions(AllEvents) : e.turn # turn_id
    BY <2>1 DEF TurnInv, CurrentTurnOpen
  <2>5. CurrentThreadOK'
    BY <2>1, <2>3 DEF ThreadInv, CurrentThreadOK
  <2>6. CompletedOnItsThread'
    BY <2>1, <2>2, <2>3, <2>4 DEF ThreadInv, CompletedOnItsThread
  <2>7. QED
    BY <2>5, <2>6 DEF ThreadInv
<1>2. CASE ReadResult
  <2>1. reader = "read" /\ outbox = {} /\ UNCHANGED <<emitted, pc, job>>
    BY <1>0, <1>2 DEF ReadResult, ReadLine, OutboxOK, callers, history
  <2>2. CASE IsStale(Head(stdout).is_error)
    <3>1. Emit({}) /\ UNCHANGED bridge
      BY <1>2, <2>2 DEF ReadResult
    <3>2. QED
      BY <2>1, <3>1, ThreadFrame, NoNewEvents DEF Emit, bridge
  <2>3. CASE ~IsStale(Head(stdout).is_error)
    <3>1. /\ outbox' = {} \/ outbox' = {Completed(turn_id, thread_id, Head(stdout).of)}
          /\ turn_id' = uuids + 1 /\ thread_id' = thread_id
      BY <1>2, <2>3 DEF ReadResult, Emit, NewTurn
    <3>2. Starts(AllEvents') = Starts(AllEvents)
      BY <2>1, <3>1 DEF AllEvents, Starts, Completed
    <3>3. \A e \in Completions(AllEvents') :
            e \in Completions(AllEvents) \/ (e.turn = turn_id /\ e.thread = thread_id)
      BY <2>1, <3>1 DEF AllEvents, Completions, Completed
    <3>4. /\ \A e \in Starts(AllEvents) : e.turn # uuids + 1
          /\ \A c \in Callers : job[c].turn # uuids + 1
      BY TurnEventTypes DEF TurnInv, TurnIdsOK
    <3>5. CurrentThreadOK'
      BY <2>1, <3>1, <3>2, <3>4 DEF CurrentThreadOK
    <3>6. CompletedOnItsThread'
      BY <2>1, <3>2, <3>3 DEF ThreadInv, CurrentThreadOK, CompletedOnItsThread
    <3>7. QED
      BY <3>5, <3>6 DEF ThreadInv
  <2>4. QED
    BY <2>2, <2>3
<1>3. CASE ReadControlRequest
  <2>1. /\ UNCHANGED <<turn_id, thread_id, emitted, pc, job>>
        /\ \A e \in outbox' : e.method \in {"codex/requestApproval", "ack"}
    BY <1>3 DEF ReadControlRequest, ReadLine, Approval, Ack, callers, history
  <2>2. /\ Completions(AllEvents') \subseteq Completions(AllEvents)
        /\ Starts(AllEvents') \subseteq Starts(AllEvents)
    BY <2>1 DEF AllEvents, Completions, Starts
  <2>3. QED
    BY <2>1, <2>2, ThreadFrame
<1>4. CASE ReaderAck
  BY <1>4, ThreadFrame, NoNewEvents DEF ReaderAck, Emit, bridge, callers
<1>5. CASE AutoApprove
  BY <1>5, ThreadFrame, NoNewEvents DEF AutoApprove, Emit, callers
<1>6. CASE AskUser
  BY <1>6, ThreadFrame, NoNewEvents DEF AskUser, bridge, callers, history
<1>7. CASE ReaderEmit
  BY <1>7, ThreadFrame, NoNewEvents DEF ReaderEmit, Emit, bridge, callers
<1>8. CASE ReaderEof
  BY <1>8, ThreadFrame, NoNewEvents DEF ReaderEof, bridge, callers, history
<1>9. CASE ReaderCleanup
  <2>1. /\ outbox = {} /\ outbox' = Farewell
        /\ UNCHANGED <<turn_id, thread_id, emitted, pc, job>>
    BY <1>0, <1>9 DEF ReaderCleanup, OutboxOK, callers, history
  <2>2. Starts(AllEvents') = Starts(AllEvents)
    BY <2>1 DEF Farewell, Disconnected, Completed, AllEvents, Starts
  <2>3. \A e \in Completions(AllEvents') :
          e \in Completions(AllEvents) \/ (e.turn = turn_id /\ e.thread = thread_id)
    BY <2>1 DEF Farewell, Disconnected, Completed, AllEvents, Completions
  <2>4. CurrentThreadOK'
    BY <2>1, <2>2 DEF ThreadInv, CurrentThreadOK
  <2>5. CompletedOnItsThread'
    BY <2>1, <2>2, <2>3 DEF ThreadInv, CurrentThreadOK, CompletedOnItsThread
  <2>6. QED
    BY <2>4, <2>5 DEF ThreadInv
<1>10. CASE ReaderFarewell
  BY <1>10, ThreadFrame, NoNewEvents DEF ReaderFarewell, bridge, callers
<1>11. QED
  BY <1>1, <1>2, <1>3, <1>4, <1>5, <1>6, <1>7, <1>8, <1>9, <1>10 DEF Reader

LEMMA ThreadInvNext == TypeInv /\ TurnInv /\ ThreadInv /\ [Next]_vars => ThreadInv'
<1> SUFFICES ASSUME TypeInv, TurnInv, ThreadInv, [Next]_vars PROVE ThreadInv'
  OBVIOUS
<1>1. CASE UNCHANGED vars
  BY <1>1, ThreadFrame, NoNewEvents DEF vars, bridge, callers, reading, history
<1>2. CASE WriterWrite \/ WriterFail
  BY <1>2, ThreadFrame, NoNewEvents DEF WriterWrite, WriterFail, bridge, callers, reading, history
<1>3. CASE Cli
  BY <1>3, ThreadFrame, NoNewEvents DEF Cli, CliTake, CliMessageStart, CliAsk, CliResult,
                         CliExit, bridge, callers, reading, history
<1>4. QED
  BY <1>1, <1>2, <1>3, ThreadInterceptor, ThreadReader DEF Next

(* A turn ends on the thread it was started on, although a second caller    *)
(* may move the session to another thread before the first one announces.   *)
THEOREM TurnKeepsThread == Spec => []CompletedOnItsThread
<1>1. ThreadInv => CompletedOnItsThread
  BY DEF ThreadInv
<1>2. QED
  BY <1>1, ThreadInvInit, ThreadInvNext, TypeInvariant, TurnInvariant, PTL DEF Spec

-----------------------------------------------------------------------------
(* The turn ledger.  A turn is begun by the caller that installs it or by   *)
(* the reader that meets its first message; the session's current turn has  *)
(* begun exactly if turn_started says so, and a caller announces only what  *)
(* it has installed.                                                        *)
BegunOK ==
  /\ turn_started <=> turn_id \in BegunTurns
  /\ \A t \in BegunTurns : t <= uuids
  /\ \A c \in Callers : pc[c] = "announce" => job[c].turn \in BegunTurns

Exiting == {"farewell", "done"}

(* Nothing about turns: the ledger does not move. *)
LEMMA LedgerStutter ==
  ASSUME BegunOK,
         UNCHANGED <<turn_id, turn_started, uuids>>,
         Completions(AllEvents') = Completions(AllEvents),
         BegunTurns' = BegunTurns,
         reader' \in Exiting <=> reader \in Exiting,
         \A c \in Callers : pc'[c] = "announce" =>
           pc[c] = "announce" /\ job'[c].turn = job[c].turn
  PROVE  BegunOK' /\ UNCHANGED Ledgers!turns
<1>1. BegunOK'
  BY DEF BegunOK
<1>2. ClosedTurns' = ClosedTurns
  BY DEF ClosedTurns
<1>3. OpenTurns' = OpenTurns
  BY <1>2 DEF OpenTurns, ClosedByExit, Exiting
<1>4. QED
  BY <1>1, <1>2, <1>3 DEF Ledgers!turns

(* The same for a step that leaves the events and the turns alone. *)
LEMMA LedgerFrame ==
  ASSUME BegunOK,
         UNCHANGED <<turn_id, turn_started, uuids, emitted, installed>>,
         Completions(outbox') = Completions(outbox),
         Starts(outbox') = Starts(outbox),
         reader' \in Exiting <=> reader \in Exiting,
         \A c \in Callers : pc'[c] = "announce" =>
           pc[c] = "announce" /\ job'[c].turn = job[c].turn
  PROVE  BegunOK' /\ UNCHANGED Ledgers!turns
<1>1. /\ Completions(AllEvents') = Completions(AllEvents)
      /\ Starts(AllEvents') = Starts(AllEvents)
  BY DEF AllEvents, Completions, Starts
<1>2. BegunTurns' = BegunTurns
  BY <1>1 DEF BegunTurns
<1>3. QED
  BY <1>1, <1>2, LedgerStutter

(* What is open has begun and is not closed. *)
LEMMA OpenBegun ==
  ASSUME TurnInv, BegunOK
  PROVE  OpenTurns \subseteq BegunTurns /\ OpenTurns \cap ClosedTurns = {}
<1> SUFFICES ASSUME NEW t \in OpenTurns PROVE t \in BegunTurns /\ t \notin ClosedTurns
  OBVIOUS
<1>1. turn_started /\ t = turn_id /\ ~ClosedByExit
  BY DEF OpenTurns
<1>2. t \in BegunTurns
  BY <1>1 DEF BegunOK
<1>3. reader \notin Exiting => turn_id \notin ClosedTurns
  BY DEF TurnInv, CurrentTurnOpen, ClosedTurns, Exiting
<1>4. QED
  BY <1>1, <1>2, <1>3 DEF ClosedByExit, Exiting

(* The current turn becomes a turn that nobody has begun. *)
LEMMA LedgerBegin ==
  ASSUME TurnInv, BegunOK, turn_started',
         turn_id' \notin BegunTurns, turn_id' \notin ClosedTurns,
         Completions(AllEvents') = Completions(AllEvents),
         BegunTurns' = BegunTurns \cup {turn_id'}
  PROVE  Ledgers!Begin
<1>1. ClosedTurns' = ClosedTurns
  BY DEF ClosedTurns
<1>2. OpenTurns' = {turn_id'}
  BY <1>1 DEF OpenTurns, ClosedByExit
<1>3. turn_id' \notin OpenTurns
  BY OpenBegun
<1>4. BegunTurns' \ (ClosedTurns' \cup OpenTurns')
        = (BegunTurns \ (ClosedTurns \cup OpenTurns)) \cup OpenTurns
  BY <1>1, <1>2, OpenBegun
<1>5. QED
  BY <1>1, <1>2, <1>3, <1>4 DEF Ledgers!Begin

(* The current turn, which is open, is completed. *)
LEMMA LedgerClose ==
  ASSUME turn_started, ~ClosedByExit, OpenTurns' = {},
         ClosedTurns' = ClosedTurns \cup {turn_id}, BegunTurns' = BegunTurns
  PROVE  Ledgers!Close
<1>1. OpenTurns = {turn_id}
  BY DEF OpenTurns
<1>2. BegunTurns' \ (ClosedTurns' \cup OpenTurns') = BegunTurns \ (ClosedTurns \cup OpenTurns)
  BY <1>1
<1>3. QED
  BY <1>1, <1>2 DEF Ledgers!Close

LEMMA LedgerInit == Init => BegunOK /\ Ledgers!TurnInit
<1> SUFFICES ASSUME Init PROVE BegunOK /\ Ledgers!TurnInit
  OBVIOUS
<1>1. /\ emitted = {} /\ outbox = {} /\ installed = {} /\ turn_started = FALSE
      /\ \A c \in Callers : pc[c] = "idle"
  BY DEF Init
<1>2. BegunTurns = {} /\ ClosedTurns = {} /\ OpenTurns = {}
  BY <1>1 DEF BegunTurns, ClosedTurns, OpenTurns, AllEvents, Completions, Starts
<1>3. QED
  BY <1>1, <1>2 DEF BegunOK, Ledgers!TurnInit

LedgerStep == BegunOK' /\ [Ledgers!TurnNext]_(Ledgers!turns)

LEMMA LedgerInterceptor ==
  ASSUME TypeInv, TurnInv, BegunOK, NEW c \in Callers, Interceptor(c)
  PROVE  LedgerStep
<1>0. job \in [Callers -> Job] /\ DOMAIN pc = Callers
  BY DEF TypeInv, CallerInv, CallersTypeOK
<1>1. ASSUME NEW m \in {"turn/start", "turn/steer"}, NEW th \in Threads, CheckTurn(c, m, th)
      PROVE  LedgerStep
  <2>1. \A d \in Callers : pc'[d] = "announce" => pc[d] = "announce" /\ job'[d].turn = job[d].turn
    BY <1>0, <1>1 DEF CheckTurn, Job
  <2>2. QED
    BY <1>1, <2>1, LedgerFrame DEF LedgerStep, CheckTurn, bridge, reading, history
<1>2. CASE SteerInterrupt(c)
  <2>1. \A d \in Callers : pc'[d] = "announce" => pc[d] = "announce" /\ job'[d].turn = job[d].turn
    BY <1>0, <1>2 DEF SteerInterrupt
  <2>2. QED
    BY <1>2, <2>1, LedgerFrame DEF LedgerStep, SteerInterrupt, bridge, reading, history
<1>3. CASE InstallTurn(c)
  <2>1. /\ UNCHANGED <<emitted, outbox, reader>> /\ turn_started'
        /\ turn_id' = uuids + 1 /\ uuids' = uuids + 1 /\ installed' = installed \cup {uuids + 1}
    BY <1>3 DEF InstallTurn, Install, reading
  <2>2. AllEvents' = AllEvents /\ uuids \in Nat
    BY <2>1, TurnEventTypes DEF AllEvents
  <2>3. BegunTurns' = BegunTurns \cup {turn_id'}
    BY <2>1, <2>2 DEF BegunTurns
  <2>4. BegunTurns \subseteq Nat
    BY TurnEventTypes DEF BegunTurns, TypeInv, HistoryTypeOK
  <2>5. turn_id' \notin BegunTurns
    BY <2>1, <2>2, <2>4 DEF BegunOK
  <2>6. turn_id' \notin ClosedTurns
    BY <2>1, <2>2, TurnEventTypes DEF TurnInv, TurnIdsOK, ClosedTurns
  <2>7. Ledgers!Begin
    BY <2>1, <2>2, <2>3, <2>5, <2>6, LedgerBegin
  <2>8. \A t \in BegunTurns' : t <= uuids'
    BY <2>1, <2>2, <2>3, <2>4 DEF BegunOK
  <2>9. \A d \in Callers : pc'[d] = "announce" => job'[d].turn \in BegunTurns'
    BY <1>0, <1>3, <2>1, <2>3 DEF InstallTurn, BegunOK, Job
  <2>10. BegunOK'
    BY <2>1, <2>3, <2>8, <2>9 DEF BegunOK
  <2>11. QED
    BY <2>7, <2>10 DEF LedgerStep, Ledgers!TurnNext
<1>4. CASE AnnounceTurn(c)
  <2> DEFINE s == Started(job[c].turn, job[c].thread)
  <2>1. /\ emitted' = emitted \cup {s} /\ outbox' = outbox /\ reader' = reader
        /\ UNCHANGED <<turn_id, turn_started, uuids, job, installed>>
        /\ pc[c] = "announce" /\ pc' = [pc EXCEPT ![c] = "prompt"]
    BY <1>4 DEF AnnounceTurn, bridge, reading
  <2>2. s.method = "turn/started" /\ s.turn = job[c].turn
    BY DEF Started
  <2> HIDE DEF s
  <2>3. /\ Completions(AllEvents') = Completions(AllEvents)
        /\ Starts(AllEvents') = Starts(AllEvents) \cup {s}
    BY <2>1, <2>2 DEF AllEvents, Completions, Starts
  <2>4. BegunTurns' = BegunTurns \cup {s.turn}
    BY <2>1, <2>3 DEF BegunTurns
  <2>5. BegunTurns' = BegunTurns
    BY <2>1, <2>2, <2>4 DEF BegunOK
  <2>6. \A d \in Callers : pc'[d] = "announce" => pc[d] = "announce" /\ job'[d].turn = job[d].turn
    BY <1>0, <2>1
  <2>7. QED
    BY <2>1, <2>3, <2>5, <2>6, LedgerStutter DEF LedgerStep
<1>5. CASE SendPrompt(c)
  <2>1. \A d \in Callers : pc'[d] = "announce" => pc[d] = "announce" /\ job'[d].turn = job[d].turn
    BY <1>0, <1>5 DEF SendPrompt
  <2>2. QED
    BY <1>5, <2>1, LedgerFrame DEF LedgerStep, SendPrompt, bridge, reading, history
<1>6. CASE Interrupt(c)
  BY <1>6, LedgerFrame DEF LedgerStep, Interrupt, bridge, reading, history
<1>7. ASSUME NEW e \in emitted, CheckAnswer(c, e.id)
      PROVE  LedgerStep
  <2>1. \A d \in Callers : pc'[d] = "announce" => pc[d] = "announce" /\ job'[d].turn = job[d].turn
    BY <1>0, <1>7 DEF CheckAnswer
  <2>2. QED
    BY <1>7, <2>1, LedgerFrame DEF LedgerStep, CheckAnswer, bridge, reading, history
<1>8. CASE TakeApproval(c)
  <2>1. \A d \in Callers : pc'[d] = "announce" => pc[d] = "announce" /\ job'[d].turn = job[d].turn
    BY <1>0, <1>8 DEF TakeApproval
  <2>2. QED
    BY <1>8, <2>1, LedgerFrame DEF LedgerStep, TakeApproval, reading, history
<1>9. CASE SendAnswer(c)
  <2>1. \A d \in Callers : pc'[d] = "announce" => pc[d] = "announce" /\ job'[d].turn = job[d].turn
    BY <1>0, <1>9 DEF SendAnswer
  <2>2. QED
    BY <1>9, <2>1, LedgerFrame DEF LedgerStep, SendAnswer, bridge, reading
<1>10. QED
  BY <1>1, <1>2, <1>3, <1>4, <1>5, <1>6, <1>7, <1>8, <1>9 DEF Interceptor

LEMMA LedgerReader ==
  ASSUME TypeInv, TurnInv, BegunOK, Reader
  PROVE  LedgerStep
<1>0. ReaderTypeOK /\ OutboxOK
  BY DEF TypeInv, ReaderInv
<1>1. CASE ReadMessageStart
  <2>1. /\ reader = "read" /\ outbox = {}
        /\ UNCHANGED <<turn_id, uuids, emitted, installed, pc, job>>
        /\ reader' \in {"read", "emit"}
    BY <1>0, <1>1 DEF ReadMessageStart, ReadLine, Emit, OutboxOK, callers, history
  <2>2. CASE turn_started
    <3>1. outbox' = {} /\ turn_started' = turn_started
      BY <1>1, <2>2 DEF ReadMessageStart, Emit
    <3>2. QED
      BY <2>1, <3>1, LedgerFrame DEF LedgerStep, Exiting
  <2>3. CASE ~turn_started
    <3>1. outbox' = {Started(turn_id, thread_id)} /\ turn_started'
      BY <1>1, <2>3 DEF ReadMessageStart, Emit
    <3>2. /\ Completions(AllEvents') = Completions(AllEvents)
          /\ Starts(AllEvents') = Starts(AllEvents) \cup {Started(turn_id, thread_id)}
      BY <2>1, <3>1 DEF AllEvents, Completions, Starts, Started
    <3>3. BegunTurns' = BegunTurns \cup {turn_id'}
      <4> DEFINE s == Started(turn_id, thread_id)
      <4>1. s.turn = turn_id /\ Starts(AllEvents') = Starts(AllEvents) \cup {s}
        BY <3>2 DEF Started
      <4> HIDE DEF s
      <4>2. QED
        BY <2>1, <4>1 DEF BegunTurns
    <3>4. turn_id' \notin BegunTurns
      BY <2>1, <2>3 DEF BegunOK
    <3>5. turn_id' \notin ClosedTurns
      BY <2>1 DEF TurnInv, CurrentTurnOpen, ClosedTurns
    <3>6. Ledgers!Begin
      BY <3>1, <3>2, <3>3, <3>4, <3>5, LedgerBegin
    <3>7. BegunOK'
      BY <2>1, <3>1, <3>3 DEF BegunOK, TurnInv, TurnIdsOK
    <3>8. QED
      BY <3>6, <3>7 DEF LedgerStep, Ledgers!TurnNext
  <2>4. QED
    BY <2>2, <2>3
<1>2. CASE ReadResult
  <2>1. reader = "read" /\ outbox = {} /\ UNCHANGED <<emitted, installed, pc, job>>
    BY <1>0, <1>2 DEF ReadResult, ReadLine, OutboxOK, callers, history
  <2>2. CASE IsStale(Head(stdout).is_error)
    <3>1. Emit({}) /\ UNCHANGED <<turn_id, turn_started, uuids>>
      BY <1>2, <2>2 DEF ReadResult, bridge
    <3>2. QED
      BY <2>1, <3>1, LedgerFrame DEF LedgerStep, Emit, Exiting
  <2>3. CASE ~IsStale(Head(stdout).is_error)
    <3> DEFINE e == Completed(turn_id, thread_id, Head(stdout).of)
    <3>1. /\ outbox' = (IF turn_started THEN {e} ELSE {}) /\ reader' \in {"read", "emit"}
          /\ turn_id' = uuids + 1 /\ uuids' = uuids + 1 /\ turn_started' = FALSE
      BY <1>2, <2>3 DEF ReadResult, Emit, NewTurn
    <3>2. e.method = "turn/completed" /\ e.turn = turn_id
      BY DEF Completed
    <3> HIDE DEF e
    <3>3. /\ Starts(AllEvents') = Starts(AllEvents)
          /\ Completions(AllEvents') = Completions(AllEvents) \cup (IF turn_started THEN {e} ELSE {})
      BY <2>1, <3>1, <3>2 DEF AllEvents, Starts, Completions
    <3>4. BegunTurns' = BegunTurns /\ OpenTurns' = {}
      BY <2>1, <3>1, <3>3 DEF BegunTurns, OpenTurns
    <3>5. BegunTurns \subseteq Nat /\ uuids \in Nat
      BY TurnEventTypes DEF BegunTurns, TypeInv, HistoryTypeOK
    <3>6. BegunOK'
      <4>1. turn_id' \notin BegunTurns /\ \A t \in BegunTurns : t <= uuids'
        BY <3>1, <3>5 DEF BegunOK
      <4>2. QED
        BY <2>1, <3>1, <3>4, <4>1 DEF BegunOK
    <3>7. CASE turn_started
      <4>1. ClosedTurns' = ClosedTurns \cup {turn_id}
        BY <3>2, <3>3, <3>7 DEF ClosedTurns
      <4>2. ~ClosedByExit
        BY <2>1 DEF ClosedByExit
      <4>3. Ledgers!Close
        BY <3>4, <3>7, <4>1, <4>2, LedgerClose
      <4>4. QED
        BY <3>6, <4>3 DEF LedgerStep, Ledgers!TurnNext
    <3>8. CASE ~turn_started
      <4>1. ClosedTurns' = ClosedTurns /\ OpenTurns = {}
        BY <3>3, <3>8 DEF ClosedTurns, OpenTurns
      <4>2. UNCHANGED Ledgers!turns
        BY <3>4, <4>1 DEF Ledgers!turns
      <4>3. QED
        BY <3>6, <4>2 DEF LedgerStep
    <3>9. QED
      BY <3>7, <3>8
  <2>4. QED
    BY <2>2, <2>3
<1>3. CASE ReadControlRequest
  <2>1. /\ reader = "read" /\ outbox = {} /\ reader' \in {"filter", "ack"}
        /\ UNCHANGED <<emitted, installed, pc, job, turn_id, turn_started, uuids>>
        /\ \A e \in outbox' : e.method \in {"codex/requestApproval", "ack"}
    BY <1>0, <1>3 DEF ReadControlRequest, ReadLine, OutboxOK, Approval, Ack, callers, history
  <2>2. Completions(outbox') = {} /\ Starts(outbox') = {}
    BY <2>1 DEF Completions, Starts
  <2>3. Completions(outbox) = {} /\ Starts(outbox) = {}
    BY <2>1 DEF Completions, Starts
  <2>4. QED
    BY <2>1, <2>2, <2>3, LedgerFrame DEF LedgerStep, Exiting
<1>4. CASE ReaderAck
  <2>1. /\ outbox' = {} /\ reader = "ack" /\ reader' = "read"
        /\ UNCHANGED <<emitted, installed, pc, job, turn_id, turn_started, uuids>>
    BY <1>4 DEF ReaderAck, Emit, bridge, callers
  <2>2. \A e \in outbox : e.method = "ack"
    BY <1>0, <2>1 DEF OutboxOK, Ack
  <2>3. /\ Completions(outbox') = {} /\ Starts(outbox') = {}
        /\ Completions(outbox) = {} /\ Starts(outbox) = {}
    BY <2>1, <2>2 DEF Completions, Starts
  <2>4. QED
    BY <2>1, <2>3, LedgerFrame DEF LedgerStep, Exiting
<1>5. CASE AutoApprove
  <2>1. /\ outbox' = {} /\ reader = "filter" /\ reader' = "read"
        /\ UNCHANGED <<emitted, installed, pc, job, turn_id, turn_started, uuids>>
    BY <1>5 DEF AutoApprove, Emit, callers
  <2>2. \A e \in outbox : e.method = "codex/requestApproval"
    BY <1>0, <2>1 DEF OutboxOK, Approvals
  <2>3. /\ Completions(outbox') = {} /\ Starts(outbox') = {}
        /\ Completions(outbox) = {} /\ Starts(outbox) = {}
    BY <2>1, <2>2 DEF Completions, Starts
  <2>4. QED
    BY <2>1, <2>3, LedgerFrame DEF LedgerStep, Exiting
<1>6. CASE AskUser
  BY <1>6, LedgerFrame DEF LedgerStep, AskUser, bridge, callers, history, Exiting
<1>7. CASE ReaderEmit
  <2>1. /\ reader = "emit" /\ reader' = "read" /\ emitted' = emitted \cup outbox /\ outbox' = {}
        /\ UNCHANGED <<installed, pc, job, turn_id, turn_started, uuids>>
    BY <1>7 DEF ReaderEmit, Emit, bridge, callers
  <2>2. AllEvents' = AllEvents
    BY <2>1 DEF AllEvents
  <2>3. QED
    BY <2>1, <2>2, LedgerStutter DEF LedgerStep, Exiting, BegunTurns
<1>8. CASE ReaderEof
  BY <1>8, LedgerFrame DEF LedgerStep, ReaderEof, bridge, callers, history, Exiting
<1>9. CASE ReaderCleanup
  <2>1. /\ reader = "cleanup" /\ outbox = {} /\ reader' = "farewell" /\ outbox' = Farewell
        /\ UNCHANGED <<emitted, installed, pc, job, turn_id, turn_started, uuids>>
    BY <1>0, <1>9 DEF ReaderCleanup, OutboxOK, callers, history
  <2> DEFINE e == Completed(turn_id, thread_id, turn_id)
  <2>2. e.method = "turn/completed" /\ e.turn = turn_id
    BY DEF Completed
  <2>3. Farewell = {Disconnected} \cup (IF turn_started THEN {e} ELSE {})
    BY DEF Farewell
  <2> HIDE DEF e
  <2>4. /\ Starts(AllEvents') = Starts(AllEvents)
        /\ Completions(AllEvents') = Completions(AllEvents) \cup (IF turn_started THEN {e} ELSE {})
    BY <2>1, <2>2, <2>3 DEF AllEvents, Starts, Completions, Disconnected
  <2>5. BegunTurns' = BegunTurns
    BY <2>1, <2>4 DEF BegunTurns
  <2>6. BegunOK'
    BY <2>1, <2>5 DEF BegunOK
  <2>7. CASE turn_started
    <3>1. ClosedTurns' = ClosedTurns \cup {turn_id}
      BY <2>2, <2>4, <2>7 DEF ClosedTurns
    <3>2. ~ClosedByExit /\ OpenTurns' = {}
      BY <2>1, <3>1 DEF ClosedByExit, OpenTurns
    <3>3. Ledgers!Close
      BY <2>5, <2>7, <3>1, <3>2, LedgerClose
    <3>4. QED
      BY <2>6, <3>3 DEF LedgerStep, Ledgers!TurnNext
  <2>8. CASE ~turn_started
    <3>1. ClosedTurns' = ClosedTurns /\ OpenTurns' = {} /\ OpenTurns = {}
      BY <2>1, <2>4, <2>8 DEF ClosedTurns, OpenTurns
    <3>2. UNCHANGED Ledgers!turns
      BY <2>5, <3>1 DEF Ledgers!turns
    <3>3. QED
      BY <2>6, <3>2 DEF LedgerStep
  <2>9. QED
    BY <2>7, <2>8
<1>10. CASE ReaderFarewell
  <2>1. /\ reader = "farewell" /\ reader' = "done" /\ emitted' = emitted \cup outbox /\ outbox' = {}
        /\ UNCHANGED <<installed, pc, job, turn_id, turn_started, uuids>>
    BY <1>10 DEF ReaderFarewell, bridge, callers
  <2>2. AllEvents' = AllEvents
    BY <2>1 DEF AllEvents
  <2>3. QED
    BY <2>1, <2>2, LedgerStutter DEF LedgerStep, Exiting, BegunTurns
<1>11. QED
  BY <1>1, <1>2, <1>3, <1>4, <1>5, <1>6, <1>7, <1>8, <1>9, <1>10 DEF Reader

LEMMA LedgerNext == TypeInv /\ TurnInv /\ BegunOK /\ [Next]_vars => LedgerStep
<1> SUFFICES ASSUME TypeInv, TurnInv, BegunOK, [Next]_vars PROVE LedgerStep
  OBVIOUS
<1>1. CASE UNCHANGED vars
  BY <1>1, LedgerFrame DEF LedgerStep, vars, bridge, callers, reading, history
<1>2. CASE WriterWrite \/ WriterFail
  BY <1>2, LedgerFrame DEF LedgerStep, WriterWrite, WriterFail, bridge, callers, reading, history
<1>3. CASE Cli
  BY <1>3, LedgerFrame DEF LedgerStep, Cli, CliTake, CliMessageStart, CliAsk, CliResult,
                           CliExit, bridge, callers, reading, history
<1>4. QED
  BY <1>1, <1>2, <1>3, LedgerInterceptor, LedgerReader DEF Next

(* The session implements the turn ledger: whatever callers, reader and the *)
(* exit do, one turn at most is open, and what is closed or superseded      *)
(* never comes back.                                                        *)
THEOREM BridgeKeepsTurnLedger == Spec => KeepsTurnLedger
<1>1. TypeInv /\ TurnInv /\ BegunOK /\ [Next]_vars => BegunOK' /\ [Ledgers!TurnNext]_(Ledgers!turns)
  BY LedgerNext DEF LedgerStep
<1>2. Init => BegunOK /\ Ledgers!TurnInit
  BY LedgerInit
<1>3. QED
  BY <1>1, <1>2, TypeInvariant, TurnInvariant, PTL DEF Spec, KeepsTurnLedger, Ledgers!TurnSpec

----------------------------------------------------------------------------
(* Control requests: an answer reaches the request it was given for, because *)
(* approval ids are never reused; and no request is answered twice, because  *)
(* it is in one place at a time.                                             *)

AskInv == ApprovalIdsOK /\ AnswerReachesAsker

LEMMA ApprovalTypes ==
  ASSUME TypeInv
  PROVE  /\ \A e \in Approvals(AllEvents) : e.id \in Nat /\ e.request_id \in RequestIds
         /\ approval_id_counter \in Nat
         /\ job \in [Callers -> Job] /\ DOMAIN pc = Callers
<1>1. \A e \in Approvals(AllEvents) : e \in Event
  BY DEF TypeInv, HistoryTypeOK, ReaderInv, ReaderTypeOK, AllEvents, Approvals, Ack
<1>2. \A e \in Approvals(AllEvents) : e.id \in Nat /\ e.request_id \in RequestIds
  BY <1>1 DEF Event, Approvals
<1>3. QED
  BY <1>2 DEF TypeInv, CallerInv, CallersTypeOK, BridgeTypeOK

(* No approval is added, and a caller takes up none it did not have. *)
LEMMA AskFrame ==
  ASSUME AskInv,
         UNCHANGED approval_id_counter,
         DOMAIN pending_control_requests' \subseteq DOMAIN pending_control_requests,
         \A a \in DOMAIN pending_control_requests' :
           pending_control_requests'[a] = pending_control_requests[a],
         Approvals(AllEvents') \subseteq Approvals(AllEvents),
         \A c \in Callers : pc'[c] \in {"take", "reply"} => pc'[c] = pc[c] /\ job'[c] = job[c]
  PROVE  AskInv'
<1>1. ApprovalIdsOK'
  BY DEF AskInv, ApprovalIdsOK
<1>2. AnswerReachesAsker'
  BY DEF AskInv, AnswerReachesAsker
<1>3. QED
  BY <1>1, <1>2 DEF AskInv

LEMMA NoNewApprovals ==
  ASSUME \A e \in emitted' \cup outbox' : e.method = "codex/requestApproval" => e \in AllEvents
  PROVE  Approvals(AllEvents') \subseteq Approvals(AllEvents)
BY DEF AllEvents, Approvals

LEMMA AskInvInit == Init => AskInv
<1> SUFFICES ASSUME Init PROVE AskInv
  OBVIOUS
<1>1. emitted = {} /\ outbox = {}
  BY DEF Init
<1>2. \A c \in Callers : pc[c] = "idle"
  BY DEF Init
<1>3. DOMAIN pending_control_requests = {}
  BY DEF Init, NoPending
<1>4. Approvals(AllEvents) = {}
  BY <1>1 DEF AllEvents, Approvals
<1>5. QED
  BY <1>2, <1>3, <1>4 DEF AskInv, ApprovalIdsOK, AnswerReachesAsker

LEMMA AskInterceptor ==
  ASSUME TypeInv, AskInv, NEW c \in Callers, Interceptor(c)
  PROVE  AskInv'
<1>0. job \in [Callers -> Job] /\ DOMAIN pc = Callers
  BY ApprovalTypes
<1>1. ASSUME NEW m \in {"turn/start", "turn/steer"}, NEW th \in Threads, CheckTurn(c, m, th)
      PROVE  AskInv'
  <2>1. \A d \in Callers : pc'[d] \in {"take", "reply"} => pc'[d] = pc[d] /\ job'[d] = job[d]
    BY <1>0, <1>1 DEF CheckTurn
  <2>2. QED
    BY <1>1, <2>1, AskFrame, NoNewApprovals DEF CheckTurn, bridge, reading, history, AllEvents
<1>2. CASE SteerInterrupt(c)
  BY <1>0, <1>2, AskFrame, NoNewApprovals DEF SteerInterrupt, bridge, reading, history, AllEvents
<1>3. CASE InstallTurn(c)
  <2>1. \A d \in Callers : pc'[d] \in {"take", "reply"} => pc'[d] = pc[d] /\ job'[d] = job[d]
    BY <1>0, <1>3 DEF InstallTurn
  <2>2. QED
    BY <1>3, <2>1, AskFrame, NoNewApprovals DEF InstallTurn, Install, reading, AllEvents
<1>4. CASE AnnounceTurn(c)
  <2>1. \A d \in Callers : pc'[d] \in {"take", "reply"} => pc'[d] = pc[d] /\ job'[d] = job[d]
    BY <1>0, <1>4 DEF AnnounceTurn
  <2>2. \A e \in emitted' \cup outbox' : e.method = "codex/requestApproval" => e \in AllEvents
    BY <1>4 DEF AnnounceTurn, reading, AllEvents, Started
  <2>3. QED
    BY <1>4, <2>1, <2>2, AskFrame, NoNewApprovals DEF AnnounceTurn, bridge
<1>5. CASE SendPrompt(c)
  <2>1. \A d \in Callers : pc'[d] \in {"take", "reply"} => pc'[d] = pc[d] /\ job'[d] = job[d]
    BY <1>0, <1>5 DEF SendPrompt
  <2>2. QED
    BY <1>5, <2>1, AskFrame, NoNewApprovals DEF SendPrompt, bridge, reading, history, AllEvents
<1>6. CASE Interrupt(c)
  BY <1>6, AskFrame, NoNewApprovals DEF Interrupt, bridge, reading, history, AllEvents
<1>7. ASSUME NEW e \in emitted, e.method = "codex/requestApproval", CheckAnswer(c, e.id)
      PROVE  AskInv'
  <2>1. e \in Approvals(AllEvents)
    BY <1>7 DEF Approvals, AllEvents
  <2>2. /\ UNCHANGED <<pending_control_requests, approval_id_counter, emitted, outbox>>
        /\ job'[c].approval = e.id /\ pc'[c] = "take"
        /\ \A d \in Callers \ {c} : pc'[d] = pc[d] /\ job'[d] = job[d]
    BY <1>0, <1>7 DEF CheckAnswer, bridge, reading, history, Job
  <2>3. AllEvents' = AllEvents
    BY <2>2 DEF AllEvents
  <2>4. \A d \in Callers : pc'[d] \in {"take", "reply"} => job'[d].approval < approval_id_counter
    BY <2>1, <2>2 DEF AskInv, ApprovalIdsOK
  <2>5. ApprovalIdsOK'
    BY <2>2, <2>3, <2>4 DEF AskInv, ApprovalIdsOK
  <2>6. AnswerReachesAsker'
    BY <2>2, <2>3 DEF AskInv, AnswerReachesAsker
  <2>7. QED
    BY <2>5, <2>6 DEF AskInv
<1>8. CASE TakeApproval(c)
  <2> DEFINE a == job[c].approval
  <2>1. CASE a \in DOMAIN pending_control_requests
    <3>1. /\ UNCHANGED <<approval_id_counter, emitted, outbox>>
          /\ job'[c].approval = a /\ job'[c].request_id = pending_control_requests[a]
          /\ \A d \in Callers \ {c} : pc'[d] = pc[d] /\ job'[d] = job[d]
          /\ pc[c] = "take"
          /\ RemovePending(a)
      BY <1>0, <1>8, <2>1 DEF TakeApproval, reading, history, Job
    <3>2. /\ DOMAIN pending_control_requests' \subseteq DOMAIN pending_control_requests
          /\ \A x \in DOMAIN pending_control_requests' :
               pending_control_requests'[x] = pending_control_requests[x]
      BY <3>1 DEF RemovePending, Without
    <3>3. AllEvents' = AllEvents
      BY <3>1 DEF AllEvents
    <3>4. ApprovalIdsOK'
      BY <3>1, <3>2, <3>3 DEF AskInv, ApprovalIdsOK
    <3>5. AnswerReachesAsker'
      BY <2>1, <3>1, <3>2, <3>3 DEF AskInv, AnswerReachesAsker
    <3>6. QED
      BY <3>4, <3>5 DEF AskInv
  <2>2. CASE a \notin DOMAIN pending_control_requests
    <3>1. \A d \in Callers : pc'[d] \in {"take", "reply"} => pc'[d] = pc[d] /\ job'[d] = job[d]
      BY <1>0, <1>8, <2>2 DEF TakeApproval
    <3>2. QED
      BY <1>8, <2>2, <3>1, AskFrame, NoNewApprovals DEF TakeApproval, reading, history, AllEvents
  <2>3. QED
    BY <2>1, <2>2
<1>9. CASE SendAnswer(c)
  <2>1. \A d \in Callers : pc'[d] \in {"take", "reply"} => pc'[d] = pc[d] /\ job'[d] = job[d]
    BY <1>0, <1>9 DEF SendAnswer
  <2>2. QED
    BY <1>9, <2>1, AskFrame, NoNewApprovals DEF SendAnswer, bridge, reading, AllEvents
<1>10. QED
  BY <1>1, <1>2, <1>3, <1>4, <1>5, <1>6, <1>7, <1>8, <1>9 DEF Interceptor

LEMMA AskReader ==
  ASSUME TypeInv, AskInv, Reader
  PROVE  AskInv'
<1>1. CASE ReadMessageStart
  <2>1. \A e \in emitted' \cup outbox' : e.method = "codex/requestApproval" => e \in AllEvents
    BY <1>1 DEF ReadMessageStart, ReadLine, Emit, history, AllEvents, Started
  <2>2. QED
    BY <1>1, <2>1, AskFrame, NoNewApprovals DEF ReadMessageStart, ReadLine, callers
<1>2. CASE ReadResult
  <2>1. \A e \in emitted' \cup outbox' : e.method = "codex/requestApproval" => e \in AllEvents
    BY <1>2 DEF ReadResult, ReadLine, Emit, history, AllEvents, Completed
  <2>2. /\ DOMAIN pending_control_requests' \subseteq DOMAIN pending_control_requests
        /\ \A a \in DOMAIN pending_control_requests' :
             pending_control_requests'[a] = pending_control_requests[a]
        /\ UNCHANGED approval_id_counter
    BY <1>2 DEF ReadResult, NoPending, NewTurn, bridge
  <2>3. QED
    BY <1>2, <2>1, <2>2, AskFrame, NoNewApprovals DEF ReadResult, ReadLine, callers
<1>3. CASE ReadControlRequest
  <2> DEFINE r == Head(stdout).request_id
             n == approval_id_counter
  <2>1. UNCHANGED <<emitted, pc, job>>
    BY <1>3 DEF ReadControlRequest, ReadLine, callers, history
  <2>2. CASE Head(stdout).subtype = "can_use_tool"
    <3>1. /\ outbox' = {Approval(n, r)}
          /\ pending_control_requests' = With(pending_control_requests, n, r)
          /\ approval_id_counter' = n + 1
      BY <1>3, <2>2 DEF ReadControlRequest, NextApprovalId
    <3>2. /\ DOMAIN pending_control_requests' = DOMAIN pending_control_requests \cup {n}
          /\ pending_control_requests'[n] = r
          /\ \A a \in DOMAIN pending_control_requests :
               a # n => pending_control_requests'[a] = pending_control_requests[a]
      BY <3>1 DEF With
    <3>3. \A e \in Approvals(AllEvents') : e \in Approvals(AllEvents) \/ (e.id = n /\ e.request_id = r)
      BY <2>1, <3>1 DEF AllEvents, Approvals, Approval
    <3>4. /\ \A a \in DOMAIN pending_control_requests : a \in Nat /\ a < n
          /\ \A e \in Approvals(AllEvents) : e.id \in Nat /\ e.id < n
          /\ \A c \in Callers : pc[c] \in {"take", "reply"} => job[c].approval \in Nat
                                                            /\ job[c].approval < n
          /\ n \in Nat
      BY ApprovalTypes DEF AskInv, ApprovalIdsOK, TypeInv, BridgeTypeOK, Job
    <3>5. ApprovalIdsOK'
      BY <2>1, <3>1, <3>2, <3>3, <3>4 DEF ApprovalIdsOK
    <3>6. ASSUME NEW e \in Approvals(AllEvents'), e.id \in DOMAIN pending_control_requests'
          PROVE  pending_control_requests'[e.id] = e.request_id
      <4>1. CASE e.id = n
        BY <3>2, <3>3, <3>4, <4>1
      <4>2. CASE e.id # n
        BY <3>2, <3>3, <3>6, <4>2 DEF AskInv, AnswerReachesAsker
      <4>3. QED
        BY <4>1, <4>2
    <3>7. ASSUME NEW e \in Approvals(AllEvents'), NEW c \in Callers,
                 pc'[c] = "reply", job'[c].approval = e.id
          PROVE  job'[c].request_id = e.request_id
      <4>1. job[c].approval # n
        BY <2>1, <3>4, <3>7
      <4>2. QED
        BY <2>1, <3>3, <3>7, <4>1 DEF AskInv, AnswerReachesAsker
    <3>8. AnswerReachesAsker'
      BY <3>6, <3>7 DEF AnswerReachesAsker
    <3>9. QED
      BY <3>5, <3>8 DEF AskInv
  <2>3. CASE Head(stdout).subtype # "can_use_tool"
    <3>1. outbox' = {Ack(r)} /\ UNCHANGED <<pending_control_requests, approval_id_counter>>
      BY <1>3, <2>3 DEF ReadControlRequest
    <3>2. \A e \in emitted' \cup outbox' : e.method = "codex/requestApproval" => e \in AllEvents
      BY <2>1, <3>1 DEF AllEvents, Ack
    <3>3. QED
      BY <2>1, <3>1, <3>2, AskFrame, NoNewApprovals
  <2>4. QED
    BY <2>2, <2>3
<1>4. CASE ReaderAck
  BY <1>4, AskFrame, NoNewApprovals DEF ReaderAck, Emit, bridge, callers, AllEvents
<1>5. CASE AutoApprove
  <2>1. /\ DOMAIN pending_control_requests' \subseteq DOMAIN pending_control_requests
        /\ \A a \in DOMAIN pending_control_requests' :
             pending_control_requests'[a] = pending_control_requests[a]
    BY <1>5 DEF AutoApprove, RemovePending, Without
  <2>2. QED
    BY <1>5, <2>1, AskFrame, NoNewApprovals DEF AutoApprove, Emit, callers, AllEvents
<1>6. CASE AskUser
  BY <1>6, AskFrame, NoNewApprovals DEF AskUser, bridge, callers, history, AllEvents
<1>7. CASE ReaderEmit
  BY <1>7, AskFrame, NoNewApprovals DEF ReaderEmit, Emit, bridge, callers, AllEvents
<1>8. CASE ReaderEof
  BY <1>8, AskFrame, NoNewApprovals DEF ReaderEof, bridge, callers, history, AllEvents
<1>9. CASE ReaderCleanup
  <2>1. \A e \in emitted' \cup outbox' : e.method = "codex/requestApproval" => e \in AllEvents
    BY <1>9 DEF ReaderCleanup, Farewell, Disconnected, Completed, history, AllEvents
  <2>2. DOMAIN pending_control_requests' = {}
    BY <1>9 DEF ReaderCleanup, NoPending
  <2>3. QED
    BY <1>9, <2>1, <2>2, AskFrame, NoNewApprovals DEF ReaderCleanup, callers
<1>10. CASE ReaderFarewell
  BY <1>10, AskFrame, NoNewApprovals DEF ReaderFarewell, bridge, callers, AllEvents
<1>11. QED
  BY <1>1, <1>2, <1>3, <1>4, <1>5, <1>6, <1>7, <1>8, <1>9, <1>10 DEF Reader

LEMMA AskInvNext == TypeInv /\ AskInv /\ [Next]_vars => AskInv'
<1> SUFFICES ASSUME TypeInv, AskInv, [Next]_vars PROVE AskInv'
  OBVIOUS
<1>1. CASE UNCHANGED vars
  BY <1>1, AskFrame, NoNewApprovals DEF vars, bridge, callers, reading, history, AllEvents
<1>2. CASE WriterWrite \/ WriterFail
  BY <1>2, AskFrame, NoNewApprovals DEF WriterWrite, WriterFail, bridge, callers, reading,
                                       history, AllEvents
<1>3. CASE Cli
  BY <1>3, AskFrame, NoNewApprovals DEF Cli, CliTake, CliMessageStart, CliAsk, CliResult, CliExit,
                                       bridge, callers, reading, history, AllEvents
<1>4. QED
  BY <1>1, <1>2, <1>3, AskInterceptor, AskReader DEF Next

(* An answer, however late, goes to the request the user was shown: the id  *)
(* under which a request was shown never comes to stand for another one.    *)
THEOREM AnswersReachTheirAsker == Spec => []AnswerReachesAsker
<1>1. AskInv => AnswerReachesAsker
  BY DEF AskInv
<1>2. QED
  BY <1>1, AskInvInit, AskInvNext, TypeInvariant, PTL DEF Spec

-----------------------------------------------------------------------------
PlaceInv == OnePlace /\ AnswersOK /\ OneAnswerPerRequest

LEMMA PlaceTypes ==
  ASSUME TypeInv
  PROVE  /\ RequestIds \subseteq Nat
         /\ \A r \in RequestIds : answers[r] \in Nat
         /\ requests \in Nat
         /\ job \in [Callers -> Job] /\ DOMAIN pc = Callers
         /\ stdout \in Seq(Line)
BY BoundsAssumption DEF RequestIds, TypeInv, HistoryTypeOK, CliTypeOK, CallerInv, CallersTypeOK

(* Requests only leave their places; k counts the lines that were read. *)
LEMMA PlaceFrame ==
  ASSUME TypeInv, PlaceInv, NEW k \in {0, 1},
         DOMAIN stdout' \subseteq Nat,
         UNCHANGED <<answers, requests>>,
         \A r \in RequestIds, i \in DOMAIN stdout' : Unread(i, r)' => Unread(i + k, r),
         \A r \in RequestIds, a \in DOMAIN pending_control_requests' :
           Pending(a, r)' => Pending(a, r),
         \A r \in RequestIds : Acking(r)' => Acking(r),
         \A r \in RequestIds, c \in Callers : Replying(c, r)' => Replying(c, r)
  PROVE  PlaceInv'
<1>1. \A r \in RequestIds, i \in DOMAIN stdout' : Unread(i, r)' => i + k \in DOMAIN stdout
  BY DEF Unread
<1>2. \A r \in RequestIds, a \in DOMAIN pending_control_requests' :
        Pending(a, r)' => a \in DOMAIN pending_control_requests
  BY DEF Pending
<1>3. ASSUME NEW r \in RequestIds, NEW i \in DOMAIN stdout', NEW j \in DOMAIN stdout',
             Unread(i, r)', Unread(j, r)'
      PROVE  i = j
  <2>1. i + k = j + k
    BY <1>1, <1>3 DEF PlaceInv, OnePlace
  <2>2. QED
    BY <2>1
<1>4. \A r \in RequestIds : Touched(r)' => Touched(r)
  BY <1>1, <1>2 DEF Touched
<1>5. OnePlace'
  BY <1>1, <1>2, <1>3 DEF PlaceInv, OnePlace
<1>6. AnswersOK'
  BY <1>4 DEF PlaceInv, AnswersOK
<1>7. OneAnswerPerRequest'
  BY DEF PlaceInv, OneAnswerPerRequest
<1>8. QED
  BY <1>5, <1>6, <1>7 DEF PlaceInv

(* OnePlace without the bounds that the places themselves imply. *)
Apart(r) ==
  /\ \A i, j : Unread(i, r) /\ Unread(j, r) => i = j
  /\ \A a, b : Pending(a, r) /\ Pending(b, r) => a = b
  /\ \A c, d \in Callers : Replying(c, r) /\ Replying(d, r) => c = d
  /\ \A i, a : ~(Unread(i, r) /\ Pending(a, r))
  /\ \A i : ~(Unread(i, r) /\ Acking(r))
  /\ \A a : ~(Pending(a, r) /\ Acking(r))
  /\ \A c \in Callers : ~(Replying(c, r) /\ Acking(r))
  /\ \A i : \A c \in Callers : ~(Unread(i, r) /\ Replying(c, r))
  /\ \A a : \A c \in Callers : ~(Pending(a, r) /\ Replying(c, r))

LEMMA OnePlaceApart ==
  /\ OnePlace <=> \A r \in RequestIds : Apart(r)
  /\ OnePlace' <=> \A r \in RequestIds : Apart(r)'
<1>1. /\ \A r, i : Unread(i, r) => i \in DOMAIN stdout
      /\ \A r, a : Pending(a, r) => a \in DOMAIN pending_control_requests
      /\ \A r, i : Unread(i, r)' => i \in DOMAIN stdout'
      /\ \A r, a : Pending(a, r)' => a \in DOMAIN pending_control_requests'
  BY DEF Unread, Pending
<1>2. OnePlace <=> \A r \in RequestIds : Apart(r)
  BY <1>1 DEF OnePlace, Apart
<1>3. OnePlace' <=> \A r \in RequestIds : Apart(r)'
  BY <1>1 DEF OnePlace, Apart
<1>4. QED
  BY <1>2, <1>3

LEMMA TouchedAnywhere ==
  /\ \A r : Touched(r) <=> \/ \E i : Unread(i, r)
                            \/ \E a : Pending(a, r)
                            \/ Acking(r) \/ \E c \in Callers : Replying(c, r)
  /\ \A r : Touched(r)' <=> \/ \E i : Unread(i, r)'
                             \/ \E a : Pending(a, r)'
                             \/ Acking(r)' \/ \E c \in Callers : Replying(c, r)'
BY DEF Touched, Unread, Pending

(* A request that was somewhere is answered, and is nowhere any more. *)
LEMMA PlaceAnswered ==
  ASSUME TypeInv, PlaceInv, NEW q \in RequestIds, Touched(q),
         answers' = [answers EXCEPT ![q] = @ + 1],
         UNCHANGED <<stdout, requests>>,
         \A r \in RequestIds, a \in DOMAIN pending_control_requests' :
           Pending(a, r)' => Pending(a, r),
         \A r \in RequestIds : Acking(r)' => Acking(r),
         \A r \in RequestIds, c \in Callers : Replying(c, r)' => Replying(c, r),
         ~Touched(q)'
  PROVE  PlaceInv'
<1>1. \A r \in RequestIds, i \in DOMAIN stdout' : Unread(i, r)' => Unread(i, r)
  BY DEF Unread
<1>2. \A r \in RequestIds, a \in DOMAIN pending_control_requests' :
        Pending(a, r)' => a \in DOMAIN pending_control_requests
  BY DEF Pending
<1>3. \A r \in RequestIds : Touched(r)' => Touched(r) /\ r # q
  BY <1>1, <1>2 DEF Touched
<1>4. \A r \in RequestIds : r # q => answers'[r] = answers[r]
  BY DEF TypeInv, HistoryTypeOK
<1>5. answers[q] = 0 /\ q <= requests /\ answers'[q] = 1
  BY PlaceTypes DEF PlaceInv, AnswersOK, TypeInv, HistoryTypeOK
<1>6. OnePlace'
  BY <1>1, <1>2 DEF PlaceInv, OnePlace
<1>7. AnswersOK'
  BY <1>3, <1>4, <1>5 DEF PlaceInv, AnswersOK
<1>8. OneAnswerPerRequest'
  BY <1>4, <1>5 DEF PlaceInv, OneAnswerPerRequest
<1>9. QED
  BY <1>6, <1>7, <1>8 DEF PlaceInv

(* What the three ways stdout changes mean for unread requests. *)
LEMMA StdoutStill ==
  ASSUME TypeInv, UNCHANGED stdout
  PROVE  /\ DOMAIN stdout' \subseteq Nat
         /\ \A r \in RequestIds, i \in DOMAIN stdout' : Unread(i, r)' => Unread(i + 0, r)
BY PlaceTypes DEF Unread

LEMMA LinePrinted ==
  ASSUME TypeInv, NEW line \in Line, CliPrint(line), line.type # "control_request"
  PROVE  /\ DOMAIN stdout' \subseteq Nat
         /\ \A r \in RequestIds, i \in DOMAIN stdout' : Unread(i, r)' => Unread(i + 0, r)
<1>1. /\ DOMAIN stdout = 1 .. Len(stdout) /\ Len(stdout) \in Nat
      /\ DOMAIN stdout' = 1 .. Len(stdout) + 1
      /\ stdout'[Len(stdout) + 1] = line
      /\ \A i \in 1 .. Len(stdout) : stdout'[i] = stdout[i]
  BY PlaceTypes DEF CliPrint
<1>2. QED
  BY <1>1 DEF Unread

LEMMA LineRead ==
  ASSUME TypeInv, stdout # <<>>, stdout' = Tail(stdout)
  PROVE  /\ DOMAIN stdout' \subseteq Nat \ {0}
         /\ \A r \in RequestIds, i \in DOMAIN stdout' : Unread(i, r)' => Unread(i + 1, r)
         /\ Head(stdout) = stdout[1] /\ 1 \in DOMAIN stdout
<1>1. /\ DOMAIN stdout = 1 .. Len(stdout) /\ Len(stdout) \in Nat \ {0}
      /\ DOMAIN stdout' = 1 .. Len(stdout) - 1
      /\ \A i \in 1 .. Len(stdout) - 1 : stdout'[i] = stdout[i + 1]
      /\ Head(stdout) = stdout[1]
  BY PlaceTypes
<1>2. QED
  BY <1>1 DEF Unread

LEMMA PlaceInvInit == Init => PlaceInv
<1> SUFFICES ASSUME Init PROVE PlaceInv
  OBVIOUS
<1>1. reader = "read" /\ stdout = <<>> /\ requests = 0
      /\ \A r \in RequestIds : answers[r] = 0
  BY DEF Init
<1>2. \A c \in Callers : pc[c] = "idle"
  BY DEF Init
<1>3. DOMAIN pending_control_requests = {} /\ DOMAIN stdout = {}
  BY <1>1 DEF Init, NoPending
<1>4. \A r \in RequestIds : ~Acking(r) /\ \A c \in Callers : ~Replying(c, r)
  BY <1>1, <1>2 DEF Acking, Replying
<1>5. \A r \in RequestIds : ~Touched(r)
  BY <1>3, <1>4 DEF Touched
<1>6. QED
  BY <1>1, <1>3, <1>4, <1>5 DEF PlaceInv, OnePlace, AnswersOK, OneAnswerPerRequest

LEMMA PlaceInterceptor ==
  ASSUME TypeInv, PlaceInv, NEW c \in Callers, Interceptor(c)
  PROVE  PlaceInv'
<1>0. job \in [Callers -> Job] /\ DOMAIN pc = Callers
  BY PlaceTypes
<1>1. ASSUME UNCHANGED <<stdout, requests, answers, reader, outbox, pending_control_requests>>,
             \A r \in RequestIds, d \in Callers : Replying(d, r)' => Replying(d, r)
      PROVE  PlaceInv'
  BY <1>1, StdoutStill, PlaceFrame DEF Pending, Acking
<1>2. CASE \/ \E m \in {"turn/start", "turn/steer"}, th \in Threads : CheckTurn(c, m, th)
           \/ SteerInterrupt(c) \/ InstallTurn(c) \/ AnnounceTurn(c) \/ SendPrompt(c)
           \/ Interrupt(c)
           \/ \E e \in emitted : CheckAnswer(c, e.id)
  <2>1. UNCHANGED <<stdout, requests, answers, reader, outbox, pending_control_requests>>
    BY <1>2 DEF CheckTurn, SteerInterrupt, InstallTurn, Install, AnnounceTurn, SendPrompt,
                Interrupt, CheckAnswer, cli, bridge, reading, history
  <2>2. \A d \in Callers : pc'[d] = "reply" => pc[d] = "reply" /\ job'[d] = job[d]
    BY <1>0, <1>2 DEF CheckTurn, SteerInterrupt, InstallTurn, AnnounceTurn, SendPrompt,
                Interrupt, CheckAnswer
  <2>3. QED
    BY <1>1, <2>1, <2>2 DEF Replying
<1>3. CASE TakeApproval(c)
  <2> DEFINE a == job[c].approval
  <2>1. UNCHANGED <<stdout, requests, answers, reader, outbox>> /\ pc[c] = "take"
    BY <1>3 DEF TakeApproval, cli, reading, history
  <2>2. CASE a \in DOMAIN pending_control_requests
    <3>1. PICK q \in RequestIds : q = pending_control_requests[a] /\ Pending(a, q)
      BY <2>2 DEF TypeInv, BridgeTypeOK, Pending
    <3>2. /\ RemovePending(a)
          /\ pc'[c] = "reply" /\ job'[c].request_id = q
          /\ \A d \in Callers \ {c} : pc'[d] = pc[d] /\ job'[d] = job[d]
      BY <1>0, <1>3, <2>2, <3>1 DEF TakeApproval, Job
    <3> HIDE DEF a
    <3>3. \A x, r : Pending(x, r)' => Pending(x, r) /\ x # a
      BY <3>2 DEF RemovePending, Without, Pending
    <3>4. \A r \in RequestIds, d \in Callers :
            Replying(d, r)' => Replying(d, r) \/ (d = c /\ r = q)
      BY <2>1, <3>2 DEF Replying
    <3>5. \A r : Acking(r)' <=> Acking(r)
      BY <2>1 DEF Acking
    <3>6. \A r, i : Unread(i, r)' <=> Unread(i, r)
      BY <2>1 DEF Unread
    <3>7. \A r \in RequestIds : Apart(r)
      BY OnePlaceApart DEF PlaceInv
    <3>8. ASSUME NEW r \in RequestIds, r # q
          PROVE  Apart(r)'
      BY <3>3, <3>4, <3>5, <3>6, <3>7, <3>8 DEF Apart
    <3>9. Apart(q)'
      BY <3>1, <3>3, <3>4, <3>5, <3>6, <3>7 DEF Apart
    <3>10. OnePlace'
      BY <3>8, <3>9, OnePlaceApart
    <3>11. Touched(q) /\ \A r \in RequestIds : Touched(r)' => Touched(r)
      BY <3>1, <3>3, <3>4, <3>5, <3>6, TouchedAnywhere
    <3>12. AnswersOK' /\ OneAnswerPerRequest'
      BY <2>1, <3>11 DEF PlaceInv, AnswersOK, OneAnswerPerRequest
    <3>13. QED
      BY <3>10, <3>12 DEF PlaceInv
  <2>3. CASE a \notin DOMAIN pending_control_requests
    <3>1. pc' = [pc EXCEPT ![c] = "idle"] /\ job' = [job EXCEPT ![c] = NoJob]
          /\ UNCHANGED pending_control_requests
      BY <1>3, <2>3 DEF TakeApproval
    <3>2. \A r \in RequestIds, d \in Callers : Replying(d, r)' => Replying(d, r)
      BY <1>0, <3>1 DEF Replying
    <3>3. QED
      BY <1>1, <2>1, <3>1, <3>2
  <2>4. QED
    BY <2>2, <2>3
<1>4. CASE SendAnswer(c)
  <2>1. PICK q \in RequestIds : q = job[c].request_id /\ Replying(c, q)
    BY <1>4 DEF SendAnswer, TypeInv, CallerInv, JobOK, CallersTypeOK, Job, Replying
  <2>2. /\ UNCHANGED <<stdout, requests, reader, outbox, pending_control_requests>>
        /\ answers' = [answers EXCEPT ![q] = @ + 1]
    BY <1>4, <2>1 DEF SendAnswer, SendResponse, bridge, reading, cli
  <2>3. \A r, d : d \in Callers /\ Replying(d, r)' => Replying(d, r) /\ d # c
    BY <1>0, <1>4 DEF SendAnswer, Replying
  <2>4. /\ \A r : Acking(r)' <=> Acking(r)
        /\ \A r, i : Unread(i, r)' <=> Unread(i, r)
        /\ \A r, x : Pending(x, r)' <=> Pending(x, r)
    BY <2>2 DEF Acking, Unread, Pending
  <2>5. ~Touched(q)'
    BY <2>1, <2>3, <2>4, OnePlaceApart, TouchedAnywhere DEF PlaceInv, Apart
  <2>6. Touched(q)
    BY <2>1 DEF Touched
  <2>7. QED
    BY <2>1, <2>2, <2>3, <2>4, <2>5, <2>6, PlaceAnswered
<1>5. QED
  BY <1>2, <1>3, <1>4 DEF Interceptor

LEMMA PlaceReader ==
  ASSUME TypeInv, PlaceInv, Reader
  PROVE  PlaceInv'
<1>0. ReaderTypeOK /\ OutboxOK
  BY DEF TypeInv, ReaderInv
<1>1. CASE ReadMessageStart \/ ReadResult
  <2>1. /\ reader = "read" /\ reader' # "ack" /\ stdout # <<>> /\ stdout' = Tail(stdout)
        /\ UNCHANGED <<pc, job, answers, requests>>
        /\ UNCHANGED pending_control_requests \/ DOMAIN pending_control_requests' = {}
    BY <1>1 DEF ReadMessageStart, ReadResult, ReadLine, Emit, NoPending, callers, history, cli, bridge
  <2>2. /\ \A r \in RequestIds : ~Acking(r)'
        /\ \A r \in RequestIds, c \in Callers : Replying(c, r)' => Replying(c, r)
        /\ \A r \in RequestIds, a \in DOMAIN pending_control_requests' :
             Pending(a, r)' => Pending(a, r)
    BY <2>1 DEF Acking, Replying, Pending
  <2>3. DOMAIN stdout' \subseteq Nat
        /\ \A r \in RequestIds, i \in DOMAIN stdout' : Unread(i, r)' => Unread(i + 1, r)
    BY <2>1, LineRead
  <2>4. QED
    BY <2>1, <2>2, <2>3, PlaceFrame
<1>2. CASE ReadControlRequest
  <2> DEFINE n == approval_id_counter
  <2>1. /\ reader = "read" /\ stdout # <<>> /\ stdout' = Tail(stdout)
        /\ Head(stdout).type = "control_request"
        /\ UNCHANGED <<pc, job, answers, requests>>
    BY <1>2 DEF ReadControlRequest, ReadLine, callers, history, cli
  <2>2. PICK q \in RequestIds : q = Head(stdout).request_id /\ Unread(1, q)
    BY <2>1, <1>2, ReadLineType, LineRead DEF ReadControlRequest, Line, Unread
  <2>3. \A r \in RequestIds : Apart(r)
    BY OnePlaceApart DEF PlaceInv
  <2>4. \A r \in RequestIds : \A i : Unread(i, r)' => i \in Nat \ {0} /\ Unread(i + 1, r)
    BY <2>1, LineRead DEF Unread
  <2>5. \A i : ~Unread(i, q)'
    <3> SUFFICES ASSUME NEW i, Unread(i, q)' PROVE FALSE
      OBVIOUS
    <3>1. i \in Nat \ {0} /\ Unread(i + 1, q)
      BY <2>4
    <3>2. i + 1 = 1
      BY <2>2, <2>3, <3>1 DEF Apart
    <3>3. QED
      BY <3>1, <3>2
  <2>6. \A r, c : Replying(c, r)' <=> Replying(c, r)
    BY <2>1 DEF Replying
  <2>7. \A r : ~Acking(r)
    BY <2>1 DEF Acking
  <2>8. \A r \in RequestIds : Acking(r)' => r = q /\ \A a : Pending(a, r)' => Pending(a, r)
    BY <1>2, <2>2 DEF ReadControlRequest, Acking, Ack, Approval, Pending
  <2>9. \A r, a : Pending(a, r)' => Pending(a, r) \/ (r = q /\ a = n)
    BY <1>2, <2>2 DEF ReadControlRequest, NextApprovalId, With, Pending
  <2>10. \A a : ~Pending(a, q)
    BY <2>2, <2>3 DEF Apart
  <2>11. \A c \in Callers : ~Replying(c, q)
    BY <2>2, <2>3 DEF Apart
  <2> HIDE DEF n
  <2>12. ASSUME NEW r \in RequestIds, r # q
         PROVE  Apart(r)'
    <3>1. \A i, j : Unread(i, r)' /\ Unread(j, r)' => i = j
      <4> SUFFICES ASSUME NEW i, NEW j, Unread(i, r)', Unread(j, r)' PROVE i = j
        OBVIOUS
      <4>1. i + 1 = j + 1 /\ i \in Nat /\ j \in Nat
        BY <2>3, <2>4 DEF Apart
      <4>2. QED
        BY <4>1
    <3>2. ~Acking(r)' /\ (\A a : Pending(a, r)' => Pending(a, r))
          /\ \A i : Unread(i, r)' => Unread(i + 1, r)
      BY <2>4, <2>8, <2>9, <2>12
    <3>3. QED
      BY <2>3, <2>6, <3>1, <3>2 DEF Apart
  <2>13. Apart(q)'
    BY <2>5, <2>6, <2>8, <2>9, <2>10, <2>11 DEF Apart
  <2>14. OnePlace'
    BY <2>12, <2>13, OnePlaceApart
  <2>15. Touched(q) /\ \A r \in RequestIds : Touched(r)' => Touched(r)
    BY <2>2, <2>4, <2>6, <2>8, <2>9, TouchedAnywhere
  <2>16. AnswersOK' /\ OneAnswerPerRequest'
    BY <2>1, <2>15 DEF PlaceInv, AnswersOK, OneAnswerPerRequest
  <2>17. QED
    BY <2>14, <2>16 DEF PlaceInv
<1>3. CASE ReaderAck
  <2>1. PICK q \in RequestIds : outbox = {Ack(q)} /\ Acking(q)
    BY <1>0, <1>3 DEF ReaderAck, OutboxOK, Acking
  <2>2. /\ UNCHANGED <<stdout, requests, pending_control_requests, pc, job>>
        /\ answers' = [answers EXCEPT ![q] = @ + 1]
        /\ reader' = "read"
    <3>1. SendResponse(q)
      BY <1>3, <2>1 DEF ReaderAck, Ack
    <3>2. QED
      BY <1>3, <3>1 DEF ReaderAck, SendResponse, Emit, bridge, callers, cli
  <2>3. /\ \A r : ~Acking(r)'
        /\ \A r, i : Unread(i, r)' <=> Unread(i, r)
        /\ \A r, a : Pending(a, r)' <=> Pending(a, r)
        /\ \A r, c : Replying(c, r)' <=> Replying(c, r)
    BY <2>2 DEF Acking, Unread, Pending, Replying
  <2>4. ~Touched(q)'
    BY <2>1, <2>3, OnePlaceApart, TouchedAnywhere DEF PlaceInv, Apart
  <2>5. Touched(q)
    BY <2>1 DEF Touched
  <2>6. QED
    BY <2>1, <2>2, <2>3, <2>4, <2>5, PlaceAnswered
<1>4. CASE AutoApprove
  <2>1. /\ UNCHANGED <<stdout, requests, pc, job>> /\ reader = "filter" /\ reader' = "read"
    BY <1>4 DEF AutoApprove, Emit, callers, cli
  <2>2. PICK e \in outbox :
          IF e.id \in DOMAIN pending_control_requests
          THEN /\ SendResponse(pending_control_requests[e.id])
               /\ RemovePending(e.id)
          ELSE UNCHANGED <<channel, answers, pending_control_requests>>
    BY <1>4 DEF AutoApprove
  <2>3. /\ \A r : ~Acking(r)' /\ ~Acking(r)
        /\ \A r, i : Unread(i, r)' <=> Unread(i, r)
        /\ \A r, c : Replying(c, r)' <=> Replying(c, r)
    BY <2>1 DEF Acking, Unread, Replying
  <2>4. CASE e.id \in DOMAIN pending_control_requests
    <3>1. PICK q \in RequestIds : q = pending_control_requests[e.id] /\ Pending(e.id, q)
      BY <2>4 DEF TypeInv, BridgeTypeOK, Pending
    <3>2. answers' = [answers EXCEPT ![q] = @ + 1]
      BY <2>2, <2>4, <3>1 DEF SendResponse
    <3>3. \A r, a : Pending(a, r)' => Pending(a, r) /\ a # e.id
      BY <2>2, <2>4 DEF RemovePending, Without, Pending
    <3>4. ~Touched(q)'
      BY <2>3, <3>1, <3>3, OnePlaceApart, TouchedAnywhere DEF PlaceInv, Apart
    <3>5. Touched(q)
      BY <3>1, TouchedAnywhere
    <3>6. QED
      BY <2>1, <2>3, <3>1, <3>2, <3>3, <3>4, <3>5, PlaceAnswered
  <2>5. CASE e.id \notin DOMAIN pending_control_requests
    <3>1. UNCHANGED <<answers, pending_control_requests>>
      BY <2>2, <2>5
    <3>2. QED
      BY <2>1, <2>3, <3>1, StdoutStill, PlaceFrame DEF Pending
  <2>6. QED
    BY <2>4, <2>5
<1>5. CASE AskUser \/ ReaderEmit \/ ReaderEof \/ ReaderCleanup \/ ReaderFarewell
  <2>1. /\ UNCHANGED <<stdout, requests, answers, pc, job>> /\ reader' # "ack"
        /\ UNCHANGED pending_control_requests \/ DOMAIN pending_control_requests' = {}
    BY <1>5 DEF AskUser, ReaderEmit, ReaderEof, ReaderCleanup, ReaderFarewell, Emit, NoPending,
                bridge, callers, cli, history
  <2>2. /\ \A r \in RequestIds : ~Acking(r)'
        /\ \A r \in RequestIds, c \in Callers : Replying(c, r)' => Replying(c, r)
        /\ \A r \in RequestIds, a \in DOMAIN pending_control_requests' :
             Pending(a, r)' => Pending(a, r)
    BY <2>1 DEF Acking, Replying, Pending
  <2>3. QED
    BY <2>1, <2>2, StdoutStill, PlaceFrame
<1>6. QED
  BY <1>1, <1>2, <1>3, <1>4, <1>5 DEF Reader

LEMMA PlaceCli ==
  ASSUME TypeInv, PlaceInv, Cli
  PROVE  PlaceInv'
<1>1. /\ \A r \in RequestIds, a \in DOMAIN pending_control_requests' :
           Pending(a, r)' => Pending(a, r)
      /\ \A r \in RequestIds : Acking(r)' <=> Acking(r)
      /\ \A r \in RequestIds, c \in Callers : Replying(c, r)' => Replying(c, r)
      /\ \A r, a : Pending(a, r)' <=> Pending(a, r)
      /\ \A r, c : Replying(c, r)' <=> Replying(c, r)
      /\ UNCHANGED answers
  BY DEF Cli, CliTake, CliMessageStart, CliAsk, CliResult, CliExit, bridge, callers, reading,
         history, Pending, Acking, Replying
<1>2. CASE CliTake \/ CliExit
  BY <1>1, <1>2, StdoutStill, PlaceFrame DEF CliTake, CliExit
<1>3. CASE CliMessageStart
  <2>1. [type |-> "message_start", of |-> cur] \in Line
    BY DEF Line, TypeInv, CliTypeOK
  <2>2. QED
    BY <1>1, <1>3, <2>1, LinePrinted, PlaceFrame DEF CliMessageStart
<1>4. ASSUME NEW b \in BOOLEAN, CliResult(b)
      PROVE  PlaceInv'
  <2>1. [type |-> "result", of |-> cur, is_error |-> b] \in Line
    BY DEF Line, TypeInv, CliTypeOK
  <2>2. QED
    BY <1>1, <1>4, <2>1, LinePrinted, PlaceFrame DEF CliResult
<1>5. ASSUME NEW s \in Subtypes, CliAsk(s)
      PROVE  PlaceInv'
  <2> DEFINE line == [type |-> "control_request", of |-> cur, subtype |-> s,
                      request_id |-> requests + 1]
  <2>1. requests' = requests + 1 /\ stdout' = Append(stdout, line)
    BY <1>5 DEF CliAsk, CliPrint
  <2>2. line \in Line /\ requests + 1 \in RequestIds
    BY <1>5, BoundsAssumption DEF Line, TypeInv, CliTypeOK, CliAsk, RequestIds
  <2>3. /\ DOMAIN stdout = 1 .. Len(stdout) /\ Len(stdout) \in Nat
        /\ DOMAIN stdout' = 1 .. Len(stdout) + 1
        /\ stdout'[Len(stdout) + 1] = line
        /\ \A i \in 1 .. Len(stdout) : stdout'[i] = stdout[i]
    BY <2>1, <2>2, PlaceTypes
  <2>4. PICK q \in RequestIds : q = requests + 1
    BY <2>2
  <2>5. \A r \in RequestIds : \A i : Unread(i, r)' => Unread(i, r) \/ (i = Len(stdout) + 1 /\ r = q)
    BY <2>3, <2>4 DEF Unread
  <2>6. \A r \in RequestIds : Apart(r)
    BY OnePlaceApart DEF PlaceInv
  <2>7. ~Touched(q) /\ answers[q] = 0
    BY <2>4, PlaceTypes DEF PlaceInv, AnswersOK
  <2>8. /\ \A i : ~Unread(i, q) /\ \A a : ~Pending(a, q)
        /\ ~Acking(q) /\ \A c \in Callers : ~Replying(c, q)
    BY <2>7, TouchedAnywhere
  <2>9. ASSUME NEW r \in RequestIds PROVE Apart(r)'
    <3>1. CASE r = q
      BY <1>1, <2>5, <2>8, <3>1 DEF Apart
    <3>2. CASE r # q
      BY <1>1, <2>5, <2>6, <3>2 DEF Apart
    <3>3. QED
      BY <3>1, <3>2
  <2>10. \A r \in RequestIds : Touched(r)' => Touched(r) \/ r = q
    BY <1>1, <2>5, TouchedAnywhere
  <2>11. AnswersOK'
    BY <1>1, <2>1, <2>4, <2>7, <2>10, PlaceTypes DEF PlaceInv, AnswersOK
  <2>12. OnePlace' /\ OneAnswerPerRequest'
    BY <1>1, <2>9, OnePlaceApart DEF PlaceInv, OneAnswerPerRequest
  <2>13. QED
    BY <2>11, <2>12 DEF PlaceInv
<1>6. QED
  BY <1>2, <1>3, <1>4, <1>5 DEF Cli

LEMMA PlaceInvNext == TypeInv /\ PlaceInv /\ [Next]_vars => PlaceInv'
<1> SUFFICES ASSUME TypeInv, PlaceInv, [Next]_vars PROVE PlaceInv'
  OBVIOUS
<1>1. CASE UNCHANGED vars \/ WriterWrite \/ WriterFail
  <2>1. UNCHANGED <<stdout, requests, answers, reader, outbox, pending_control_requests, pc, job>>
    BY <1>1 DEF WriterWrite, WriterFail, vars, bridge, callers, reading, history, cli
  <2>2. QED
    BY <2>1, StdoutStill, PlaceFrame DEF Pending, Acking, Replying
<1>2. QED
  BY <1>1, PlaceInterceptor, PlaceReader, PlaceCli DEF Next

(* A control request gets one control response at most, whoever races to    *)
(* answer it: two answers of the user, a prefix rule, or the reader's ack.  *)
THEOREM RequestAnsweredOnce == Spec => []OneAnswerPerRequest
<1>1. PlaceInv => OneAnswerPerRequest
  BY DEF PlaceInv
<1>2. QED
  BY <1>1, PlaceInvInit, PlaceInvNext, TypeInvariant, PTL DEF Spec

-----------------------------------------------------------------------------
WaitInv == WaitedRequestNotLost /\ WaitingIsLast /\ WriterOK /\ EofOK

(* What the CLI waits for stays where it is, or moves on towards the CLI. *)
LEMMA WaitFrame ==
  ASSUME TypeInv, WaitInv,
         cli_alive' => cli_alive,
         waiting' \in {0, waiting},
         UNCHANGED writer_alive,
         reader' \in {"cleanup", "farewell", "done"} => reader \in {"cleanup", "farewell", "done"},
         UNCHANGED stdout \/ waiting' = 0 \/ ~cli_alive',
         \A r \in RequestIds : cli_alive' /\ r = waiting' /\ (Touched(r) \/ AnswerSent(r)) =>
           (Touched(r)' \/ AnswerSent(r)')
  PROVE  WaitInv'
<1>1. waiting \in RequestIds \cup {0} /\ 0 \notin RequestIds
  BY DEF TypeInv, CliTypeOK, RequestIds
<1>2. WaitedRequestNotLost'
  <2> SUFFICES ASSUME cli_alive', waiting' # 0
               PROVE  Touched(waiting)' \/ AnswerSent(waiting)'
    BY DEF WaitedRequestNotLost
  <2>1. PICK w \in RequestIds : w = waiting /\ w = waiting'
    BY <1>1
  <2>2. Touched(w) \/ AnswerSent(w)
    BY <2>1, <1>1 DEF WaitInv, WaitedRequestNotLost
  <2>3. Touched(w)' \/ AnswerSent(w)'
    BY <2>1, <2>2
  <2>4. (Touched(w)' <=> Touched(waiting)') /\ (AnswerSent(w)' <=> AnswerSent(waiting)')
    BY <2>1 DEF Touched, Unread, Pending, Acking, Replying, Ack, AnswerSent
  <2>5. QED
    BY <2>3, <2>4
<1>3. WaitingIsLast'
  BY DEF WaitInv, WaitingIsLast, Unread
<1>4. WriterOK' /\ EofOK'
  BY DEF WaitInv, WriterOK, EofOK
<1>5. QED
  BY <1>2, <1>3, <1>4 DEF WaitInv

LEMMA SendKeeps ==
  ASSUME TypeInv, NEW m \in StdinMessage, Send(m)
  PROVE  /\ \A r : AnswerSent(r) => AnswerSent(r)'
         /\ writer_alive /\ m.type = "control_response" => AnswerSent(m.request_id)'
<1>1. CASE writer_alive
  <2>1. /\ DOMAIN stdin_q = 1 .. Len(stdin_q) /\ Len(stdin_q) \in Nat
        /\ DOMAIN stdin_q' = 1 .. Len(stdin_q) + 1
        /\ stdin_q'[Len(stdin_q) + 1] = m
        /\ \A i \in 1 .. Len(stdin_q) : stdin_q'[i] = stdin_q[i]
    BY <1>1 DEF Send, TypeInv, ChannelTypeOK
  <2>2. \A r : AnswerSent(r) => AnswerSent(r)'
    BY <2>1 DEF AnswerSent
  <2>3. ASSUME m.type = "control_response" PROVE AnswerSent(m.request_id)'
    <3>1. Len(stdin_q) + 1 \in DOMAIN stdin_q'
      BY <2>1
    <3>2. QED
      BY <2>1, <2>3, <3>1 DEF AnswerSent
  <2>4. QED
    BY <2>2, <2>3
<1>2. CASE ~writer_alive
  BY <1>2 DEF Send, AnswerSent
<1>3. QED
  BY <1>1, <1>2

(* A response to q: q goes from its place into the channel, others stay. *)
LEMMA WaitAnswered ==
  ASSUME TypeInv, WaitInv, NEW q \in RequestIds, SendResponse(q),
         UNCHANGED <<stdout, cli>>,
         reader' \in {"cleanup", "farewell", "done"} => reader \in {"cleanup", "farewell", "done"},
         \A r \in RequestIds : r # q /\ Touched(r) => Touched(r)'
  PROVE  WaitInv'
<1>1. [type |-> "control_response", request_id |-> q] \in StdinMessage
  BY DEF StdinMessage
<1>2. /\ \A r : AnswerSent(r) => AnswerSent(r)'
      /\ writer_alive => AnswerSent(q)'
  BY <1>1, SendKeeps DEF SendResponse
<1>3. cli_alive => writer_alive
  BY DEF WaitInv, WriterOK
<1>4. UNCHANGED <<cli_alive, waiting, writer_alive>>
  BY DEF cli, SendResponse, Send
<1>5. \A r \in RequestIds : cli_alive' /\ r = waiting' /\ (Touched(r) \/ AnswerSent(r)) =>
        (Touched(r)' \/ AnswerSent(r)')
  BY <1>2, <1>3, <1>4
<1>6. QED
  BY <1>4, <1>5, WaitFrame

LEMMA WaitInvInit == Init => WaitInv
<1> SUFFICES ASSUME Init PROVE WaitInv
  OBVIOUS
<1>1. waiting = 0 /\ writer_alive = TRUE /\ reader = "read"
  BY DEF Init
<1>2. QED
  BY <1>1 DEF WaitInv, WaitedRequestNotLost, WaitingIsLast, WriterOK, EofOK

LEMMA WaitInterceptor ==
  ASSUME TypeInv, WaitInv, NEW c \in Callers, Interceptor(c)
  PROVE  WaitInv'
<1>0. job \in [Callers -> Job] /\ DOMAIN pc = Callers
  BY PlaceTypes
<1>1. ASSUME UNCHANGED <<stdout, cli, reader, outbox, pending_control_requests, writer_alive>>,
             \A d \in Callers : pc[d] = "reply" => pc'[d] = "reply" /\ job'[d] = job[d],
             \A r : AnswerSent(r) => AnswerSent(r)'
      PROVE  WaitInv'
  <2>1. \A r \in RequestIds : Touched(r) => Touched(r)'
    BY <1>1, TouchedAnywhere DEF Unread, Pending, Acking, Replying
  <2>2. QED
    BY <1>1, <2>1, WaitFrame DEF cli
<1>2. CASE \/ \E m \in {"turn/start", "turn/steer"}, th \in Threads : CheckTurn(c, m, th)
           \/ InstallTurn(c) \/ AnnounceTurn(c) \/ \E e \in emitted : CheckAnswer(c, e.id)
  <2>1. UNCHANGED <<stdout, cli, reader, outbox, pending_control_requests, writer_alive, stdin_q>>
    BY <1>2 DEF CheckTurn, InstallTurn, Install, AnnounceTurn, CheckAnswer, bridge, reading, channel
  <2>2. \A d \in Callers : pc[d] = "reply" => pc'[d] = "reply" /\ job'[d] = job[d]
    BY <1>0, <1>2 DEF CheckTurn, InstallTurn, AnnounceTurn, CheckAnswer
  <2>3. QED
    BY <1>1, <2>1, <2>2 DEF AnswerSent
<1>3. CASE SteerInterrupt(c) \/ Interrupt(c) \/ SendPrompt(c)
  <2>1. UNCHANGED <<stdout, cli, reader, outbox, pending_control_requests, writer_alive>>
    BY <1>3 DEF SteerInterrupt, Interrupt, SendPrompt, Send, bridge, reading
  <2>2. \A d \in Callers : pc[d] = "reply" => pc'[d] = "reply" /\ job'[d] = job[d]
    BY <1>0, <1>3 DEF SteerInterrupt, Interrupt, SendPrompt
  <2>3. job[c].turn \in Nat
    BY <1>0 DEF Job
  <2>4. \A r : AnswerSent(r) => AnswerSent(r)'
    BY <1>3, <2>3, SendKeeps DEF SteerInterrupt, Interrupt, SendPrompt, StdinMessage
  <2>5. QED
    BY <1>1, <2>1, <2>2, <2>4
<1>4. CASE TakeApproval(c)
  <2> DEFINE a == job[c].approval
  <2>1. UNCHANGED <<stdout, cli, reader, outbox, writer_alive, stdin_q>> /\ pc[c] = "take"
    BY <1>4 DEF TakeApproval, channel, reading
  <2>2. CASE a \in DOMAIN pending_control_requests
    <3>1. /\ RemovePending(a)
          /\ pc'[c] = "reply" /\ job'[c].request_id = pending_control_requests[a]
          /\ \A d \in Callers \ {c} : pc'[d] = pc[d] /\ job'[d] = job[d]
      BY <1>0, <1>4, <2>2 DEF TakeApproval, Job
    <3> HIDE DEF a
    <3>2. \A r, x : Pending(x, r) => Pending(x, r)' \/ Replying(c, r)'
      BY <3>1 DEF Pending, Replying, RemovePending, Without
    <3>3. \A r : \A d \in Callers : Replying(d, r) => Replying(d, r)'
      BY <2>1, <3>1 DEF Replying
    <3>4. \A r : Touched(r) => Touched(r)'
      BY <2>1, <3>2, <3>3, TouchedAnywhere DEF Unread, Acking
    <3>5. \A r : AnswerSent(r) => AnswerSent(r)'
      BY <2>1 DEF AnswerSent
    <3>6. QED
      BY <2>1, <3>4, <3>5, WaitFrame DEF cli
  <2>3. CASE a \notin DOMAIN pending_control_requests
    <3>1. /\ UNCHANGED pending_control_requests
          /\ \A d \in Callers : pc[d] = "reply" => pc'[d] = "reply" /\ job'[d] = job[d]
      BY <1>0, <1>4, <2>3 DEF TakeApproval
    <3>2. QED
      BY <1>1, <2>1, <3>1 DEF AnswerSent
  <2>4. QED
    BY <2>2, <2>3
<1>5. CASE SendAnswer(c)
  <2>1. PICK q \in RequestIds : q = job[c].request_id
    BY <1>5 DEF SendAnswer, TypeInv, CallerInv, JobOK, CallersTypeOK, Job
  <2>2. SendResponse(q) /\ UNCHANGED <<stdout, cli, reader, outbox, pending_control_requests>>
    BY <1>5, <2>1 DEF SendAnswer, bridge, reading
  <2>3. \A r : \A d \in Callers : r # q /\ Replying(d, r) => Replying(d, r)'
    BY <1>0, <1>5, <2>1 DEF SendAnswer, Replying
  <2>4. \A r \in RequestIds : r # q /\ Touched(r) => Touched(r)'
    BY <2>2, <2>3, TouchedAnywhere DEF Unread, Pending, Acking
  <2>5. QED
    BY <2>2, <2>4, WaitAnswered
<1>6. QED
  BY <1>2, <1>3, <1>4, <1>5 DEF Interceptor

LEMMA WaitWriter ==
  ASSUME TypeInv, WaitInv, WriterWrite \/ WriterFail
  PROVE  WaitInv'
<1>0. UNCHANGED <<stdout, reader, outbox, pending_control_requests, pc, job, cli_alive>>
  BY DEF WriterWrite, WriterFail, bridge, callers, reading, cli
<1>1. \A r : Touched(r) <=> Touched(r)'
  BY <1>0 DEF Touched, Unread, Pending, Acking, Replying
<1>2. CASE WriterWrite
  <2>1. /\ waiting' \in {0, waiting} /\ writer_alive' = writer_alive
        /\ waiting' # 0 => ~(Head(stdin_q).type = "control_response"
                             /\ Head(stdin_q).request_id = waiting)
    BY <1>2 DEF WriterWrite
  <2>2. /\ DOMAIN stdin_q = 1 .. Len(stdin_q) /\ Len(stdin_q) \in Nat
        /\ DOMAIN stdin_q' = 1 .. Len(stdin_q) - 1
        /\ \A i \in 1 .. Len(stdin_q) - 1 : stdin_q'[i] = stdin_q[i + 1]
        /\ Head(stdin_q) = stdin_q[1]
    BY <1>2 DEF WriterWrite, TypeInv, ChannelTypeOK
  <2>3. ASSUME NEW r \in RequestIds, r = waiting', AnswerSent(r)
        PROVE  AnswerSent(r)'
    <3>1. r = waiting /\ waiting' # 0
      BY <2>1, <2>3 DEF RequestIds
    <3>2. PICK i \in DOMAIN stdin_q : /\ stdin_q[i].type = "control_response"
                                      /\ stdin_q[i].request_id = r
      BY <2>3 DEF AnswerSent
    <3>3. i # 1
      BY <2>1, <2>2, <3>1, <3>2
    <3>4. i - 1 \in DOMAIN stdin_q' /\ stdin_q'[i - 1] = stdin_q[i]
      BY <2>2, <3>3
    <3>5. QED
      BY <3>2, <3>4 DEF AnswerSent
  <2>4. QED
    BY <1>0, <1>1, <2>1, <2>3, WaitFrame
<1>3. CASE WriterFail
  <2>1. ~cli_alive /\ ~cli_alive' /\ reader' = reader
    BY <1>0, <1>3 DEF WriterFail
  <2>2. WaitedRequestNotLost' /\ WaitingIsLast' /\ WriterOK' /\ EofOK'
    BY <2>1 DEF WaitedRequestNotLost, WaitingIsLast, WriterOK, EofOK
  <2>3. QED
    BY <2>2 DEF WaitInv
<1>4. QED
  BY <1>2, <1>3

LEMMA WaitCli ==
  ASSUME TypeInv, WaitInv, Cli
  PROVE  WaitInv'
<1>0. /\ UNCHANGED <<pending_control_requests, reader, outbox, pc, job, stdin_q, writer_alive>>
      /\ cli_alive' => cli_alive
  <2>1. UNCHANGED <<pending_control_requests, reader, outbox, pc, job, stdin_q, writer_alive>>
    BY DEF Cli, CliTake, CliMessageStart, CliAsk, CliResult, CliExit, bridge, callers, reading,
           channel
  <2>2. cli_alive
    BY DEF Cli, CliTake, CliMessageStart, CliAsk, CliResult, CliExit, CliBusy
  <2>3. QED
    BY <2>1, <2>2
<1>1. CASE CliTake \/ CliExit
  <2>1. UNCHANGED <<stdout, waiting>>
    BY <1>1 DEF CliTake, CliExit
  <2>2. \A r : (Touched(r) <=> Touched(r)') /\ (AnswerSent(r) <=> AnswerSent(r)')
    BY <1>0, <2>1 DEF Touched, Unread, Pending, Acking, Replying, AnswerSent
  <2>3. QED
    BY <1>0, <2>1, <2>2, WaitFrame
<1>2. CASE CliMessageStart \/ \E b \in BOOLEAN : CliResult(b)
  <2>1. waiting' = 0
    BY <1>2 DEF CliMessageStart, CliResult, CliBusy
  <2>2. QED
    BY <1>0, <2>1 DEF WaitInv, WaitedRequestNotLost, WaitingIsLast, WriterOK, EofOK
<1>3. ASSUME NEW s \in Subtypes, CliAsk(s)
      PROVE  WaitInv'
  <2> DEFINE line == [type |-> "control_request", of |-> cur, subtype |-> s,
                      request_id |-> requests + 1]
  <2>1. waiting' = requests + 1 /\ stdout' = Append(stdout, line)
    BY <1>3 DEF CliAsk, CliPrint
  <2>2. line \in Line
    BY <1>3, BoundsAssumption DEF Line, TypeInv, CliTypeOK, CliAsk, RequestIds
  <2>3. /\ Len(stdout) \in Nat /\ Len(stdout') = Len(stdout) + 1
        /\ DOMAIN stdout' = 1 .. Len(stdout) + 1
        /\ stdout'[Len(stdout) + 1] = line
    BY <2>1, <2>2, PlaceTypes
  <2>4. Len(stdout') \in DOMAIN stdout' /\ stdout'[Len(stdout')] = line
    BY <2>3
  <2>5. /\ Len(stdout') \in DOMAIN stdout'
        /\ stdout'[Len(stdout')].type = "control_request"
        /\ stdout'[Len(stdout')].request_id = waiting'
    BY <2>1, <2>4
  <2>6. WaitingIsLast'
    BY <2>5 DEF WaitingIsLast, Unread
  <2>7. WaitedRequestNotLost'
    BY <2>5 DEF WaitedRequestNotLost, Touched, Unread
  <2>8. QED
    BY <1>0, <2>6, <2>7 DEF WaitInv, WriterOK, EofOK
<1>4. QED
  BY <1>1, <1>2, <1>3 DEF Cli

(* A line is read.  If the CLI waits, its question is the last line, so it  *)
(* is either still unread or the very line that was read.                   *)
LEMMA WaitRead ==
  ASSUME TypeInv, WaitInv, NEW t, ReadLine(t), reader' \in {"read", "emit", "filter", "ack"},
         \A r \in RequestIds : Unread(1, r) => Touched(r)'
  PROVE  WaitInv'
<1>1. /\ stdout # <<>> /\ stdout' = Tail(stdout)
      /\ UNCHANGED <<cli_alive, waiting, writer_alive>>
  BY DEF ReadLine, cli, channel
<1>2. /\ DOMAIN stdout = 1 .. Len(stdout) /\ Len(stdout) \in Nat \ {0}
      /\ DOMAIN stdout' = 1 .. Len(stdout) - 1 /\ Len(stdout') = Len(stdout) - 1
      /\ \A i \in 1 .. Len(stdout) - 1 : stdout'[i] = stdout[i + 1]
  BY <1>1, PlaceTypes
<1>3. waiting \in RequestIds \cup {0} /\ 0 \notin RequestIds
  BY DEF TypeInv, CliTypeOK, RequestIds
<1>4. ASSUME cli_alive, waiting # 0 PROVE Unread(Len(stdout), waiting)
  BY <1>1, <1>4 DEF WaitInv, WaitingIsLast
<1>5. WaitingIsLast'
  <2> SUFFICES ASSUME cli_alive, waiting # 0, stdout' # <<>>
               PROVE  Unread(Len(stdout), waiting)'
    BY <1>1 DEF WaitingIsLast
  <2>1. Len(stdout') \in DOMAIN stdout' /\ stdout'[Len(stdout')] = stdout[Len(stdout)]
    BY <1>1, <1>2
  <2>2. QED
    BY <1>1, <1>4, <2>1 DEF Unread
<1>6. WaitedRequestNotLost'
  <2> SUFFICES ASSUME cli_alive, waiting # 0
               PROVE  Touched(waiting)'
    BY <1>1 DEF WaitedRequestNotLost
  <2>1. CASE Len(stdout) = 1
    <3>1. PICK w \in RequestIds : w = waiting
      BY <1>3
    <3>2. Touched(w)'
      BY <1>4, <2>1, <3>1
    <3>3. QED
      BY <1>1, <3>1, <3>2 DEF Touched, Unread, Pending, Acking, Replying, Ack
  <2>2. CASE Len(stdout) # 1
    <3>1. Len(stdout) - 1 \in DOMAIN stdout' /\ stdout'[Len(stdout) - 1] = stdout[Len(stdout)]
      BY <1>2, <2>2
    <3>2. QED
      BY <1>1, <1>4, <3>1 DEF Touched, Unread
  <2>3. QED
    BY <2>1, <2>2
<1>7. WriterOK' /\ EofOK'
  BY <1>1 DEF WaitInv, WriterOK, EofOK
<1>8. QED
  BY <1>5, <1>6, <1>7 DEF WaitInv

LEMMA WaitReader ==
  ASSUME TypeInv, WaitInv, Reader
  PROVE  WaitInv'
<1>0. ReaderTypeOK /\ OutboxOK
  BY DEF TypeInv, ReaderInv
<1>1. CASE ReadMessageStart
  <2>1. ReadLine("message_start") /\ reader' \in {"read", "emit"}
    BY <1>1 DEF ReadMessageStart, Emit
  <2>2. \A r : ~Unread(1, r)
    BY <2>1, LineRead DEF ReadLine, Unread
  <2>3. QED
    BY <2>1, <2>2, WaitRead
<1>2. CASE ReadResult
  <2>1. ReadLine("result") /\ reader' \in {"read", "emit"}
    BY <1>2 DEF ReadResult, Emit
  <2>2. \A r : ~Unread(1, r)
    BY <2>1, LineRead DEF ReadLine, Unread
  <2>3. QED
    BY <2>1, <2>2, WaitRead
<1>3. CASE ReadControlRequest
  <2>1. ReadLine("control_request") /\ reader' \in {"filter", "ack"}
    BY <1>3 DEF ReadControlRequest
  <2>2. ASSUME NEW r \in RequestIds, Unread(1, r) PROVE Touched(r)'
    <3>1. Head(stdout).request_id = r
      BY <2>1, <2>2, LineRead DEF ReadLine, Unread
    <3>2. CASE Head(stdout).subtype = "can_use_tool"
      <4>1. PICK n : n = approval_id_counter
        OBVIOUS
      <4>2. pending_control_requests' = With(pending_control_requests, n, r)
        BY <1>3, <3>1, <3>2, <4>1 DEF ReadControlRequest, NextApprovalId
      <4>3. Pending(n, r)'
        BY <4>2 DEF With, Pending
      <4>4. QED
        BY <4>3, TouchedAnywhere
    <3>3. CASE Head(stdout).subtype # "can_use_tool"
      <4>1. Acking(r)'
        BY <1>3, <3>1, <3>3 DEF ReadControlRequest, Acking
      <4>2. QED
        BY <4>1, TouchedAnywhere
    <3>4. QED
      BY <3>2, <3>3
  <2>3. QED
    BY <2>1, <2>2, WaitRead
<1>4. CASE ReaderAck
  <2>1. PICK q \in RequestIds : outbox = {Ack(q)}
    BY <1>0, <1>4 DEF ReaderAck, OutboxOK
  <2>2. SendResponse(q) /\ reader' = "read"
        /\ UNCHANGED <<stdout, cli, pending_control_requests, pc, job>>
    BY <1>4, <2>1 DEF ReaderAck, Ack, Emit, bridge, callers
  <2>3. \A r \in RequestIds : r # q /\ Touched(r) => Touched(r)'
    BY <2>1, <2>2, TouchedAnywhere DEF Unread, Pending, Replying, Acking, Ack
  <2>4. QED
    BY <2>2, <2>3, WaitAnswered
<1>5. CASE AutoApprove
  <2>1. PICK e \in outbox :
          IF e.id \in DOMAIN pending_control_requests
          THEN /\ SendResponse(pending_control_requests[e.id])
               /\ RemovePending(e.id)
          ELSE UNCHANGED <<channel, answers, pending_control_requests>>
    BY <1>5 DEF AutoApprove
  <2>2. UNCHANGED <<stdout, cli, pc, job>> /\ reader = "filter" /\ reader' = "read"
    BY <1>5 DEF AutoApprove, Emit, callers
  <2>3. \A r : ~Acking(r)
    BY <2>2 DEF Acking
  <2>4. CASE e.id \in DOMAIN pending_control_requests
    <3>1. PICK q \in RequestIds : q = pending_control_requests[e.id]
      BY <2>4 DEF TypeInv, BridgeTypeOK
    <3>2. \A r, a : r # q /\ Pending(a, r) => Pending(a, r)'
      BY <2>1, <2>4, <3>1 DEF RemovePending, Without, Pending
    <3>3. \A r \in RequestIds : r # q /\ Touched(r) => Touched(r)'
      BY <2>2, <2>3, <3>2, TouchedAnywhere DEF Unread, Replying
    <3>4. SendResponse(q)
      BY <2>1, <2>4, <3>1
    <3>5. QED
      BY <2>2, <3>3, <3>4, WaitAnswered
  <2>5. CASE e.id \notin DOMAIN pending_control_requests
    <3>1. UNCHANGED <<stdin_q, writer_alive, pending_control_requests>>
      BY <2>1, <2>5 DEF channel
    <3>2. \A r : (Touched(r) => Touched(r)') /\ (AnswerSent(r) => AnswerSent(r)')
      BY <2>2, <2>3, <3>1 DEF Touched, Unread, Pending, Replying, AnswerSent
    <3>3. QED
      BY <2>2, <3>1, <3>2, WaitFrame DEF cli
  <2>6. QED
    BY <2>4, <2>5
<1>6. CASE AskUser \/ ReaderEmit
  <2>1. /\ UNCHANGED <<stdout, cli, pc, job, pending_control_requests, stdin_q, writer_alive>>
        /\ reader # "ack" /\ reader' \in {"read", "emit"}
    BY <1>6 DEF AskUser, ReaderEmit, Emit, bridge, callers, channel
  <2>2. \A r : (Touched(r) => Touched(r)') /\ (AnswerSent(r) => AnswerSent(r)')
    BY <2>1 DEF Touched, Unread, Pending, Acking, Replying, AnswerSent
  <2>3. QED
    BY <2>1, <2>2, WaitFrame DEF cli
<1>7. CASE ReaderEof \/ ReaderCleanup \/ ReaderFarewell
  <2>1. ~cli_alive
    BY <1>7 DEF ReaderEof, ReaderCleanup, ReaderFarewell, WaitInv, EofOK
  <2>2. cli_alive' = cli_alive
    BY <1>7 DEF ReaderEof, ReaderCleanup, ReaderFarewell, cli
  <2>3. QED
    BY <2>1, <2>2 DEF WaitInv, WaitedRequestNotLost, WaitingIsLast, WriterOK, EofOK
<1>8. QED
  BY <1>1, <1>2, <1>3, <1>4, <1>5, <1>6, <1>7 DEF Reader

LEMMA WaitInvNext == TypeInv /\ WaitInv /\ [Next]_vars => WaitInv'
<1> SUFFICES ASSUME TypeInv, WaitInv, [Next]_vars PROVE WaitInv'
  OBVIOUS
<1>1. CASE UNCHANGED vars
  BY <1>1 DEF vars, WaitInv, WaitedRequestNotLost, WaitingIsLast, WriterOK, EofOK, Touched, Unread,
              Pending, Acking, Replying, AnswerSent, bridge, callers, reading, channel, cli
<1>2. QED
  BY <1>1, WaitInterceptor, WaitReader, WaitWriter, WaitCli DEF Next

(* No result, new turn, steer or late answer loses the control request that *)
(* the CLI is blocked on.                                                   *)
THEOREM WaitedRequestKept == Spec => []WaitedRequestNotLost
<1>1. WaitInv => WaitedRequestNotLost
  BY DEF WaitInv
<1>2. QED
  BY <1>1, WaitInvInit, WaitInvNext, TypeInvariant, PTL DEF Spec

-----------------------------------------------------------------------------
(* The approval ledger.  A request is in one place (OnePlace), so reading,  *)
(* taking, answering and clearing move it from one set of the ledger to     *)
(* another and never leave it in two.                                       *)
VoidedRequests == (1 .. requests) \ (UnreadRequests \cup AskedRequests \cup TakenRequests)

RequestsStep == [Ledgers!ApprovalNext]_(Ledgers!approvals)

LEMMA WhereRequestsAre ==
  /\ \A r : r \in UnreadRequests <=> r \in RequestIds /\ \E i : Unread(i, r)
  /\ \A r : r \in AskedRequests <=> r \in RequestIds /\ \E a : Pending(a, r)
  /\ \A r : r \in UnreadRequests' <=> r \in RequestIds /\ \E i : Unread(i, r)'
  /\ \A r : r \in AskedRequests' <=> r \in RequestIds /\ \E a : Pending(a, r)'
<1>1. /\ \A r : r \in UnreadRequests <=> r \in RequestIds /\ \E i : Unread(i, r)
      /\ \A r : r \in AskedRequests <=> r \in RequestIds /\ \E a : Pending(a, r)
  BY DEF UnreadRequests, AskedRequests, Unread, Pending
<1>2. /\ \A r : r \in UnreadRequests' <=> r \in RequestIds /\ \E i : Unread(i, r)'
      /\ \A r : r \in AskedRequests' <=> r \in RequestIds /\ \E a : Pending(a, r)'
  BY DEF UnreadRequests, AskedRequests, Unread, Pending
<1>3. QED
  BY <1>1, <1>2

LEMMA RequestsApart ==
  ASSUME TypeInv, PlaceInv
  PROVE  /\ AskedRequests \cap TakenRequests = {}
         /\ AskedRequests \cap UnreadRequests = {}
         /\ UnreadRequests \cap TakenRequests = {}
         /\ AskedRequests \cup UnreadRequests \cup TakenRequests \subseteq 1 .. requests
<1>1. \A r \in RequestIds : Apart(r)
  BY OnePlaceApart DEF PlaceInv
<1>2. \A r \in RequestIds : Touched(r) => answers[r] = 0 /\ r <= requests
  BY DEF PlaceInv, AnswersOK
<1>3. \A r \in AskedRequests \cup UnreadRequests : r \in RequestIds /\ Touched(r)
  BY WhereRequestsAre, TouchedAnywhere
<1>4. ASSUME NEW r \in TakenRequests
      PROVE  /\ r \in RequestIds /\ r <= requests
             /\ r \notin AskedRequests /\ r \notin UnreadRequests
  <2>1. r \in RequestIds
    BY DEF TakenRequests
  <2>2. CASE answers[r] > 0
    <3>1. ~Touched(r)
      BY <1>2, <2>1, <2>2
    <3>2. r <= requests
      BY <2>1, <2>2 DEF PlaceInv, AnswersOK
    <3>3. QED
      BY <1>3, <2>1, <3>1, <3>2
  <2>3. CASE Acking(r) \/ \E c \in Callers : Replying(c, r)
    <3>1. Touched(r)
      BY <2>3 DEF Touched
    <3>2. QED
      BY <1>1, <1>2, <2>1, <2>3, <3>1, WhereRequestsAre DEF Apart
  <2>4. QED
    BY <2>2, <2>3 DEF TakenRequests
<1>5. AskedRequests \cap UnreadRequests = {}
  BY <1>1, WhereRequestsAre DEF Apart
<1>6. AskedRequests \cup UnreadRequests \cup TakenRequests \subseteq 1 .. requests
  BY <1>2, <1>3, <1>4, PlaceTypes DEF RequestIds
<1>7. QED
  BY <1>4, <1>5, <1>6

(* What the sets of the ledger depend on. *)
LEMMA AskedStill ==
  ASSUME UNCHANGED pending_control_requests
  PROVE  AskedRequests' = AskedRequests
BY DEF AskedRequests, Pending

LEMMA UnreadStill ==
  ASSUME UNCHANGED stdout
  PROVE  UnreadRequests' = UnreadRequests
BY DEF UnreadRequests, Unread

LEMMA TakenStill ==
  ASSUME UNCHANGED answers, \A r \in RequestIds : Acking(r)' <=> Acking(r),
         \A r \in RequestIds : (\E c \in Callers : Replying(c, r)') <=> \E c \in Callers : Replying(c, r)
  PROVE  TakenRequests' = TakenRequests
BY DEF TakenRequests

(* The steps of the ledger, in terms of the four sets. *)
LEMMA RequestsStutter ==
  ASSUME UNCHANGED <<UnreadRequests, AskedRequests, TakenRequests, requests>>
  PROVE  RequestsStep
BY DEF RequestsStep, Ledgers!approvals

LEMMA RequestAnswered ==
  ASSUME TypeInv, PlaceInv, NEW q \in AskedRequests, UNCHANGED <<UnreadRequests, requests>>,
         AskedRequests' = AskedRequests \ {q}, TakenRequests' = TakenRequests \cup {q}
  PROVE  RequestsStep
<1>1. VoidedRequests' = VoidedRequests
  BY DEF VoidedRequests
<1>2. Ledgers!Answer
  BY <1>1 DEF Ledgers!Answer, VoidedRequests
<1>3. QED
  BY <1>2 DEF RequestsStep, Ledgers!ApprovalNext

LEMMA RequestAsked ==
  ASSUME TypeInv, PlaceInv, NEW q \in UnreadRequests, UNCHANGED <<TakenRequests, requests>>,
         AskedRequests' = AskedRequests \cup {q}, UnreadRequests' = UnreadRequests \ {q}
  PROVE  RequestsStep
<1>1. VoidedRequests' = VoidedRequests
  BY DEF VoidedRequests
<1>2. q \notin AskedRequests \cup TakenRequests \cup VoidedRequests
  BY RequestsApart DEF VoidedRequests
<1>3. Ledgers!Ask
  BY <1>1, <1>2 DEF Ledgers!Ask, Ledgers!Fresh, VoidedRequests
<1>4. QED
  BY <1>3 DEF RequestsStep, Ledgers!ApprovalNext

LEMMA RequestAcknowledged ==
  ASSUME TypeInv, PlaceInv, NEW q \in UnreadRequests, UNCHANGED <<AskedRequests, requests>>,
         TakenRequests' = TakenRequests \cup {q}, UnreadRequests' = UnreadRequests \ {q}
  PROVE  RequestsStep
<1>1. VoidedRequests' = VoidedRequests
  BY DEF VoidedRequests
<1>2. q \notin AskedRequests \cup TakenRequests \cup VoidedRequests
  BY RequestsApart DEF VoidedRequests
<1>3. Ledgers!Acknowledge
  BY <1>1, <1>2 DEF Ledgers!Acknowledge, Ledgers!Fresh, VoidedRequests
<1>4. QED
  BY <1>3 DEF RequestsStep, Ledgers!ApprovalNext

LEMMA RequestsVoided ==
  ASSUME TypeInv, PlaceInv, UNCHANGED <<UnreadRequests, TakenRequests, requests>>,
         DOMAIN pending_control_requests' = {}
  PROVE  RequestsStep
<1>1. AskedRequests' = {}
  BY DEF AskedRequests
<1>2. VoidedRequests' = VoidedRequests \cup AskedRequests
  BY <1>1, RequestsApart DEF VoidedRequests
<1>3. Ledgers!Void
  BY <1>1, <1>2 DEF Ledgers!Void, VoidedRequests
<1>4. QED
  BY <1>3 DEF RequestsStep, Ledgers!ApprovalNext

(* Pending entry a, which holds q, is removed. *)
LEMMA AskedRemoved ==
  ASSUME TypeInv, PlaceInv, NEW a, NEW q \in RequestIds, Pending(a, q), RemovePending(a)
  PROVE  q \in AskedRequests /\ AskedRequests' = AskedRequests \ {q}
<1>1. \A x, r : Pending(x, r)' <=> Pending(x, r) /\ x # a
  BY DEF RemovePending, Without, Pending
<1>2. \A r : Pending(a, r) => r = q
  BY DEF Pending
<1>3. \A x : Pending(x, q) => x = a
  BY OnePlaceApart DEF PlaceInv, Apart
<1>4. \A r : r \in AskedRequests' <=> r \in AskedRequests /\ r # q
  BY <1>1, <1>2, <1>3, WhereRequestsAre
<1>5. QED
  BY <1>4, WhereRequestsAre

(* What reading and printing a line does to the unread requests. *)
LEMMA UnreadAfterRead ==
  ASSUME TypeInv, stdout # <<>>, stdout' = Tail(stdout), NEW r
  PROVE  (\E i : Unread(i, r)) <=> Unread(1, r) \/ \E i : Unread(i, r)'
<1>1. /\ DOMAIN stdout = 1 .. Len(stdout) /\ Len(stdout) \in Nat \ {0}
      /\ DOMAIN stdout' = 1 .. Len(stdout) - 1
      /\ \A i \in 1 .. Len(stdout) - 1 : stdout'[i] = stdout[i + 1]
  BY PlaceTypes
<1>2. ASSUME NEW i, Unread(i, r)' PROVE Unread(i + 1, r)
  BY <1>1, <1>2 DEF Unread
<1>3. ASSUME NEW i, Unread(i, r), i # 1 PROVE Unread(i - 1, r)'
  <2>1. i \in 2 .. Len(stdout)
    BY <1>1, <1>3 DEF Unread
  <2>2. i - 1 \in 1 .. Len(stdout) - 1 /\ stdout'[i - 1] = stdout[i]
    BY <1>1, <2>1
  <2>3. QED
    BY <1>1, <1>3, <2>2 DEF Unread
<1>4. QED
  BY <1>2, <1>3

LEMMA UnreadAfterPrint ==
  ASSUME TypeInv, NEW line \in Line, CliPrint(line), NEW r
  PROVE  (\E i : Unread(i, r)') <=>
           \/ \E i : Unread(i, r)
           \/ line.type = "control_request" /\ line.request_id = r
<1>1. /\ DOMAIN stdout = 1 .. Len(stdout) /\ Len(stdout) \in Nat
      /\ DOMAIN stdout' = 1 .. Len(stdout) + 1
      /\ stdout'[Len(stdout) + 1] = line
      /\ \A i \in 1 .. Len(stdout) : stdout'[i] = stdout[i]
  BY PlaceTypes DEF CliPrint
<1>2. QED
  BY <1>1 DEF Unread

LEMMA RequestsInit == Init => Ledgers!ApprovalInit
<1> SUFFICES ASSUME Init PROVE Ledgers!ApprovalInit
  OBVIOUS
<1>1. reader = "read" /\ stdout = <<>> /\ requests = 0 /\ pending_control_requests = NoPending
      /\ \A r \in RequestIds : answers[r] = 0
  BY DEF Init
<1>2. \A c \in Callers : pc[c] = "idle"
  BY DEF Init
<1>3. AskedRequests = {} /\ TakenRequests = {}
  BY <1>1, <1>2 DEF AskedRequests, TakenRequests, NoPending, Acking, Replying
<1>4. VoidedRequests = {}
  BY <1>1 DEF VoidedRequests
<1>5. QED
  BY <1>3, <1>4 DEF Ledgers!ApprovalInit, VoidedRequests

LEMMA RequestsInterceptor ==
  ASSUME TypeInv, PlaceInv, NEW c \in Callers, Interceptor(c)
  PROVE  RequestsStep
<1>0. job \in [Callers -> Job] /\ DOMAIN pc = Callers
  BY PlaceTypes
<1>1. CASE \/ \E m \in {"turn/start", "turn/steer"}, th \in Threads : CheckTurn(c, m, th)
           \/ SteerInterrupt(c) \/ InstallTurn(c) \/ AnnounceTurn(c) \/ SendPrompt(c)
           \/ Interrupt(c)
           \/ \E e \in emitted : CheckAnswer(c, e.id)
  <2>1. UNCHANGED <<stdout, requests, answers, reader, outbox, pending_control_requests>>
    BY <1>1 DEF CheckTurn, SteerInterrupt, InstallTurn, Install, AnnounceTurn, SendPrompt,
                Interrupt, CheckAnswer, cli, bridge, reading, history
  <2>2. \A d \in Callers :
          /\ pc'[d] = "reply" <=> pc[d] = "reply"
          /\ pc[d] = "reply" => job'[d] = job[d]
    BY <1>0, <1>1 DEF CheckTurn, SteerInterrupt, InstallTurn, AnnounceTurn, SendPrompt,
                Interrupt, CheckAnswer
  <2>3. TakenRequests' = TakenRequests
    BY <2>1, <2>2, TakenStill DEF Acking, Replying
  <2>4. QED
    BY <2>1, <2>3, AskedStill, UnreadStill, RequestsStutter
<1>2. CASE TakeApproval(c)
  <2> DEFINE a == job[c].approval
  <2>1. UNCHANGED <<stdout, requests, answers, reader, outbox>> /\ pc[c] = "take"
    BY <1>2 DEF TakeApproval, cli, reading, history
  <2>2. CASE a \in DOMAIN pending_control_requests
    <3>1. PICK q \in RequestIds : q = pending_control_requests[a] /\ Pending(a, q)
      BY <2>2 DEF TypeInv, BridgeTypeOK, Pending
    <3>2. /\ RemovePending(a)
          /\ pc'[c] = "reply" /\ job'[c].request_id = q
          /\ \A d \in Callers \ {c} : pc'[d] = pc[d] /\ job'[d] = job[d]
      BY <1>0, <1>2, <2>2, <3>1 DEF TakeApproval, Job
    <3> HIDE DEF a
    <3>3. q \in AskedRequests /\ AskedRequests' = AskedRequests \ {q}
      BY <3>1, <3>2, AskedRemoved
    <3>4. \A r \in RequestIds, d \in Callers :
            Replying(d, r)' <=> Replying(d, r) \/ (d = c /\ r = q)
      BY <2>1, <3>2 DEF Replying
    <3>5. TakenRequests' = TakenRequests \cup {q}
      BY <2>1, <3>4 DEF TakenRequests, Acking
    <3>6. QED
      BY <2>1, <3>3, <3>5, UnreadStill, RequestAnswered
  <2>3. CASE a \notin DOMAIN pending_control_requests
    <3>1. pc' = [pc EXCEPT ![c] = "idle"] /\ job' = [job EXCEPT ![c] = NoJob]
          /\ UNCHANGED pending_control_requests
      BY <1>2, <2>3 DEF TakeApproval
    <3>2. \A r \in RequestIds, d \in Callers : Replying(d, r)' <=> Replying(d, r)
      BY <1>0, <2>1, <3>1 DEF Replying
    <3>3. TakenRequests' = TakenRequests
      BY <2>1, <3>2, TakenStill DEF Acking
    <3>4. QED
      BY <2>1, <3>1, <3>3, AskedStill, UnreadStill, RequestsStutter
  <2>4. QED
    BY <2>2, <2>3
<1>3. CASE SendAnswer(c)
  <2>1. PICK q \in RequestIds : q = job[c].request_id /\ Replying(c, q)
    BY <1>3 DEF SendAnswer, TypeInv, CallerInv, JobOK, CallersTypeOK, Job, Replying
  <2>2. /\ UNCHANGED <<stdout, requests, reader, outbox, pending_control_requests>>
        /\ answers' = [answers EXCEPT ![q] = @ + 1]
    BY <1>3, <2>1 DEF SendAnswer, SendResponse, bridge, reading, cli
  <2>3. \A r \in RequestIds, d \in Callers : Replying(d, r)' <=> Replying(d, r) /\ d # c
    BY <1>0, <1>3 DEF SendAnswer, Replying
  <2>4. \A r \in RequestIds : Replying(c, r) => r = q
    BY <2>1 DEF Replying
  <2>5. answers'[q] > 0 /\ \A r \in RequestIds \ {q} : answers'[r] = answers[r]
    BY <2>2, PlaceTypes DEF TypeInv, HistoryTypeOK
  <2>6. \A r \in RequestIds : Acking(r)' <=> Acking(r)
    BY <2>2 DEF Acking
  <2>7. q \in TakenRequests /\ q \in TakenRequests'
    BY <2>1, <2>5 DEF TakenRequests
  <2>8. \A r \in RequestIds \ {q} : r \in TakenRequests' <=> r \in TakenRequests
    BY <2>3, <2>4, <2>5, <2>6 DEF TakenRequests
  <2>9. TakenRequests' = TakenRequests
    BY <2>7, <2>8 DEF TakenRequests
  <2>10. QED
    BY <2>2, <2>9, AskedStill, UnreadStill, RequestsStutter
<1>4. QED
  BY <1>1, <1>2, <1>3 DEF Interceptor

LEMMA RequestsReader ==
  ASSUME TypeInv, AskInv, PlaceInv, Reader
  PROVE  RequestsStep
<1>0. ReaderTypeOK /\ OutboxOK
  BY DEF TypeInv, ReaderInv
<1>1. CASE ReadMessageStart \/ ReadResult
  <2>1. /\ reader = "read" /\ reader' # "ack" /\ stdout # <<>> /\ stdout' = Tail(stdout)
        /\ Head(stdout).type # "control_request"
        /\ UNCHANGED <<pc, job, answers, requests>>
        /\ UNCHANGED pending_control_requests \/ DOMAIN pending_control_requests' = {}
    BY <1>1 DEF ReadMessageStart, ReadResult, ReadLine, Emit, NoPending, callers, history, cli, bridge
  <2>2. \A r : ~Unread(1, r)
    BY <2>1, LineRead DEF Unread
  <2>3. UnreadRequests' = UnreadRequests
    BY <2>1, <2>2, UnreadAfterRead, WhereRequestsAre
  <2>4. TakenRequests' = TakenRequests
    BY <2>1, TakenStill DEF Acking, Replying
  <2>5. QED
    BY <2>1, <2>3, <2>4, AskedStill, RequestsStutter, RequestsVoided
<1>2. CASE ReadControlRequest
  <2>1. /\ reader = "read" /\ stdout # <<>> /\ stdout' = Tail(stdout)
        /\ Head(stdout).type = "control_request"
        /\ UNCHANGED <<pc, job, answers, requests>>
    BY <1>2 DEF ReadControlRequest, ReadLine, callers, history, cli
  <2>2. PICK q \in RequestIds : q = Head(stdout).request_id /\ Unread(1, q)
    BY <2>1, <1>2, ReadLineType, LineRead DEF ReadControlRequest, Line, Unread
  <2>3. \A r : Unread(1, r) => r = q
    BY <2>2 DEF Unread
  <2>4. \A i : ~Unread(i, q)'
    <3> SUFFICES ASSUME NEW i, Unread(i, q)' PROVE FALSE
      OBVIOUS
    <3>1. i \in Nat \ {0} /\ Unread(i + 1, q)
      BY <2>1, LineRead DEF Unread
    <3>2. i + 1 = 1
      BY <2>2, <3>1, OnePlaceApart DEF PlaceInv, Apart
    <3>3. QED
      BY <3>1, <3>2
  <2>5. \A r : r \in UnreadRequests' <=> r \in UnreadRequests /\ r # q
    BY <2>1, <2>3, <2>4, UnreadAfterRead, WhereRequestsAre
  <2>6. q \in UnreadRequests /\ UnreadRequests' = UnreadRequests \ {q}
    BY <2>2, <2>5, WhereRequestsAre
  <2>7. \A r \in RequestIds, c \in Callers : Replying(c, r)' <=> Replying(c, r)
    BY <2>1 DEF Replying
  <2>8. \A r \in RequestIds : ~Acking(r)
    BY <2>1 DEF Acking
  <2>9. CASE Head(stdout).subtype = "can_use_tool"
    <3>1. /\ pending_control_requests' = With(pending_control_requests, approval_id_counter, q)
          /\ reader' = "filter"
      BY <1>2, <2>2, <2>9 DEF ReadControlRequest, NextApprovalId
    <3>2. approval_id_counter \notin DOMAIN pending_control_requests
      BY ApprovalTypes DEF AskInv, ApprovalIdsOK
    <3>3. \A a, r : Pending(a, r)' <=> Pending(a, r) \/ (a = approval_id_counter /\ r = q)
      BY <3>1, <3>2 DEF With, Pending
    <3>4. AskedRequests' = AskedRequests \cup {q}
      BY <3>3, WhereRequestsAre
    <3>5. TakenRequests' = TakenRequests
      BY <2>1, <2>7, <2>8, <3>1, TakenStill DEF Acking
    <3>6. QED
      BY <2>1, <2>6, <3>4, <3>5, RequestAsked
  <2>10. CASE Head(stdout).subtype # "can_use_tool"
    <3>1. outbox' = {Ack(q)} /\ reader' = "ack" /\ UNCHANGED pending_control_requests
      BY <1>2, <2>2, <2>10 DEF ReadControlRequest
    <3>2. \A r \in RequestIds : Acking(r)' <=> r = q
      BY <3>1 DEF Acking, Ack
    <3>3. TakenRequests' = TakenRequests \cup {q}
      BY <2>1, <2>7, <2>8, <3>2 DEF TakenRequests
    <3>4. QED
      BY <2>1, <2>6, <3>1, <3>3, AskedStill, RequestAcknowledged
  <2>11. QED
    BY <2>9, <2>10
<1>3. CASE ReaderAck
  <2>1. PICK q \in RequestIds : outbox = {Ack(q)} /\ Acking(q)
    BY <1>0, <1>3 DEF ReaderAck, OutboxOK, Acking
  <2>2. /\ UNCHANGED <<stdout, requests, pending_control_requests, pc, job>>
        /\ answers' = [answers EXCEPT ![q] = @ + 1]
        /\ reader' = "read"
    <3>1. SendResponse(q)
      BY <1>3, <2>1 DEF ReaderAck, Ack
    <3>2. QED
      BY <1>3, <3>1 DEF ReaderAck, SendResponse, Emit, bridge, callers, cli
  <2>3. \A r \in RequestIds : ~Acking(r)' /\ (Acking(r) => r = q)
    BY <2>1, <2>2 DEF Acking, Ack
  <2>4. answers'[q] > 0 /\ \A r \in RequestIds \ {q} : answers'[r] = answers[r]
    BY <2>2, PlaceTypes DEF TypeInv, HistoryTypeOK
  <2>5. q \in TakenRequests /\ q \in TakenRequests'
    BY <2>1, <2>4 DEF TakenRequests
  <2>6. \A r \in RequestIds, c \in Callers : Replying(c, r)' <=> Replying(c, r)
    BY <2>2 DEF Replying
  <2>7. \A r \in RequestIds \ {q} : r \in TakenRequests' <=> r \in TakenRequests
    BY <2>3, <2>4, <2>6 DEF TakenRequests
  <2>8. TakenRequests' = TakenRequests
    BY <2>5, <2>7 DEF TakenRequests
  <2>9. QED
    BY <2>2, <2>8, AskedStill, UnreadStill, RequestsStutter
<1>4. CASE AutoApprove
  <2>1. /\ UNCHANGED <<stdout, requests, pc, job>> /\ reader = "filter" /\ reader' = "read"
    BY <1>4 DEF AutoApprove, Emit, callers, cli
  <2>2. PICK e \in outbox :
          IF e.id \in DOMAIN pending_control_requests
          THEN /\ SendResponse(pending_control_requests[e.id])
               /\ RemovePending(e.id)
          ELSE UNCHANGED <<channel, answers, pending_control_requests>>
    BY <1>4 DEF AutoApprove
  <2>3. /\ \A r \in RequestIds : ~Acking(r)' /\ ~Acking(r)
        /\ \A r \in RequestIds, c \in Callers : Replying(c, r)' <=> Replying(c, r)
    BY <2>1 DEF Acking, Replying
  <2>4. CASE e.id \in DOMAIN pending_control_requests
    <3>1. PICK q \in RequestIds : q = pending_control_requests[e.id] /\ Pending(e.id, q)
      BY <2>4 DEF TypeInv, BridgeTypeOK, Pending
    <3>2. answers' = [answers EXCEPT ![q] = @ + 1] /\ RemovePending(e.id)
      BY <2>2, <2>4, <3>1 DEF SendResponse
    <3>3. q \in AskedRequests /\ AskedRequests' = AskedRequests \ {q}
      BY <3>1, <3>2, AskedRemoved
    <3>4. answers'[q] > 0 /\ \A r \in RequestIds \ {q} : answers'[r] = answers[r]
      BY <3>2, PlaceTypes DEF TypeInv, HistoryTypeOK
    <3>5. \A r \in RequestIds \ {q} : r \in TakenRequests' <=> r \in TakenRequests
      BY <2>3, <3>4 DEF TakenRequests
    <3>6. q \in TakenRequests'
      BY <3>4 DEF TakenRequests
    <3>7. TakenRequests' = TakenRequests \cup {q}
      BY <3>5, <3>6 DEF TakenRequests
    <3>8. QED
      BY <2>1, <3>3, <3>7, UnreadStill, RequestAnswered
  <2>5. CASE e.id \notin DOMAIN pending_control_requests
    <3>1. UNCHANGED <<answers, pending_control_requests>>
      BY <2>2, <2>5
    <3>2. TakenRequests' = TakenRequests
      BY <2>3, <3>1, TakenStill
    <3>3. QED
      BY <2>1, <3>1, <3>2, AskedStill, UnreadStill, RequestsStutter
  <2>6. QED
    BY <2>4, <2>5
<1>5. CASE AskUser \/ ReaderEmit \/ ReaderEof \/ ReaderCleanup \/ ReaderFarewell
  <2>1. /\ UNCHANGED <<stdout, requests, answers, pc, job>> /\ reader # "ack" /\ reader' # "ack"
        /\ UNCHANGED pending_control_requests \/ DOMAIN pending_control_requests' = {}
    BY <1>5 DEF AskUser, ReaderEmit, ReaderEof, ReaderCleanup, ReaderFarewell, Emit, NoPending,
                bridge, callers, cli, history
  <2>2. TakenRequests' = TakenRequests
    BY <2>1, TakenStill DEF Acking, Replying
  <2>3. QED
    BY <2>1, <2>2, AskedStill, UnreadStill, RequestsStutter, RequestsVoided
<1>6. QED
  BY <1>1, <1>2, <1>3, <1>4, <1>5 DEF Reader

LEMMA RequestsCli ==
  ASSUME TypeInv, PlaceInv, Cli
  PROVE  RequestsStep
<1>1. AskedRequests' = AskedRequests /\ TakenRequests' = TakenRequests
  <2>1. UNCHANGED <<pending_control_requests, answers, reader, outbox, pc, job>>
    BY DEF Cli, CliTake, CliMessageStart, CliAsk, CliResult, CliExit, bridge, callers, reading, history
  <2>2. QED
    BY <2>1, AskedStill, TakenStill DEF Acking, Replying
<1>2. CASE CliTake \/ CliExit
  BY <1>1, <1>2, UnreadStill, RequestsStutter DEF CliTake, CliExit
<1>3. CASE CliMessageStart
  <2>1. [type |-> "message_start", of |-> cur] \in Line
    BY DEF Line, TypeInv, CliTypeOK
  <2>2. UnreadRequests' = UnreadRequests
    BY <1>3, <2>1, UnreadAfterPrint, WhereRequestsAre DEF CliMessageStart
  <2>3. QED
    BY <1>1, <1>3, <2>2, RequestsStutter DEF CliMessageStart
<1>4. ASSUME NEW b \in BOOLEAN, CliResult(b)
      PROVE  RequestsStep
  <2>1. [type |-> "result", of |-> cur, is_error |-> b] \in Line
    BY DEF Line, TypeInv, CliTypeOK
  <2>2. UnreadRequests' = UnreadRequests
    BY <1>4, <2>1, UnreadAfterPrint, WhereRequestsAre DEF CliResult
  <2>3. QED
    BY <1>1, <1>4, <2>2, RequestsStutter DEF CliResult
<1>5. ASSUME NEW s \in Subtypes, CliAsk(s)
      PROVE  RequestsStep
  <2> DEFINE line == [type |-> "control_request", of |-> cur, subtype |-> s,
                      request_id |-> requests + 1]
  <2>1. requests' = requests + 1 /\ CliPrint(line)
    BY <1>5 DEF CliAsk
  <2>2. line \in Line /\ requests + 1 \in RequestIds /\ requests \in Nat
    BY <1>5, BoundsAssumption DEF Line, TypeInv, CliTypeOK, CliAsk, RequestIds
  <2>3. \A r : r \in UnreadRequests' <=> r \in UnreadRequests \/ r = requests + 1
    BY <2>1, <2>2, UnreadAfterPrint, WhereRequestsAre
  <2>4. 1 .. requests' = (1 .. requests) \cup {requests + 1} /\ requests + 1 \notin 1 .. requests
    BY <2>1, <2>2
  <2>5. VoidedRequests' = VoidedRequests
    BY <1>1, <2>3, <2>4, RequestsApart DEF VoidedRequests
  <2>6. QED
    BY <1>1, <2>5 DEF RequestsStep, Ledgers!approvals, VoidedRequests
<1>6. QED
  BY <1>2, <1>3, <1>4, <1>5 DEF Cli

LEMMA RequestsNext == TypeInv /\ AskInv /\ PlaceInv /\ [Next]_vars => RequestsStep
<1> SUFFICES ASSUME TypeInv, AskInv, PlaceInv, [Next]_vars PROVE RequestsStep
  OBVIOUS
<1>1. CASE UNCHANGED vars \/ WriterWrite \/ WriterFail
  <2>1. UNCHANGED <<stdout, requests, answers, reader, outbox, pending_control_requests, pc, job>>
    BY <1>1 DEF WriterWrite, WriterFail, vars, bridge, callers, reading, history, cli
  <2>2. TakenRequests' = TakenRequests
    BY <2>1, TakenStill DEF Acking, Replying
  <2>3. QED
    BY <2>1, <2>2, AskedStill, UnreadStill, RequestsStutter
<1>2. QED
  BY <1>1, RequestsInterceptor, RequestsReader, RequestsCli DEF Next

(* The session implements the approval ledger: a control request is         *)
(* acknowledged, or asked and then answered once or voided, never both,     *)
(* although the user, a prefix rule, results and the exit race for it.      *)
THEOREM BridgeKeepsApprovalLedger == Spec => KeepsApprovalLedger
<1>1. TypeInv /\ AskInv /\ PlaceInv /\ [Next]_vars => [Ledgers!ApprovalNext]_(Ledgers!approvals)
  BY RequestsNext DEF RequestsStep
<1>2. QED
  BY <1>1, RequestsInit, AskInvInit, AskInvNext, PlaceInvInit, PlaceInvNext, TypeInvariant,
     PTL DEF Spec, KeepsApprovalLedger, Ledgers!ApprovalSpec

=============================================================================
