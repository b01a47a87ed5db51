------------------------------ MODULE Approvals ------------------------------
(***************************************************************************)
(* What an agent asks before it runs a command: the request comes as an       *)
(* event, is answered at once if the user allowed a prefix of the command,   *)
(* and is shown as a toast until the user answered it (useThreadApprovals,   *)
(* useThreadApprovalEvents, ApprovalToasts, threadQueueSlice).  Requests are  *)
(* known by the number their agent gave them, and an agent that is started   *)
(* again counts from the beginning.                                         *)
(***************************************************************************)
EXTENDS Naturals, Sequences, FiniteSets
LOCAL INSTANCE SequencesExt

CONSTANTS
    Asked,          \* of a request: what each key of a command holds, in order, as tokens
    MaxAsks,        \* bound: requests of one agent
    MaxStarts,      \* bound: the agent is started again
    MaxSteps        \* bound: what the user does

VARIABLES
    agent,          \* the agent: how often it was started, its requests
    approvals,      \* state.approvals
    allowlist,      \* approvalAllowlistRef
    calls,          \* calls under way
    noted           \* history

vars == <<agent, approvals, allowlist, calls, noted>>

Ids == 1..MaxAsks
Starts == 0..MaxStarts
Requests == [id : Ids, start : Starts, params : Asked]
Decisions == {"accept", "decline"}
Calls == [do : {"respond", "rule"}, request : Requests, decision : Decisions, auto : BOOLEAN]
Answer(r) == [start |-> r.start, id |-> r.id]

TypeOK ==
    /\ agent.start \in Starts /\ agent.open \subseteq Requests
    /\ agent.done \subseteq [request : Requests, decision : Decisions]
    /\ \A i \in DOMAIN approvals : approvals[i] \in Requests
    /\ \A p \in allowlist : p # <<>>
    /\ \A i \in DOMAIN calls : calls[i] \in Calls
    /\ noted.steps \in 0..MaxSteps

----------------------------------------------------------------------------
(* getApprovalCommandInfo: the first key that holds a command.               *)
Tokens(r) ==
    LET full == SelectSeq(r.params, LAMBDA c : c # <<>>)
    IN  IF full = <<>> THEN <<>> ELSE Head(full)
(* matchesCommandPrefix                                                     *)
Matches(c, allowed) == c # <<>> /\ \E p \in allowed : IsPrefix(p, c)

Step == noted.steps < MaxSteps
Call(do, r, d, auto) == [do |-> do, request |-> r, decision |-> d, auto |-> auto]
Same(r, s) == r.id = s.id

(* addApproval and removeApproval: by the number of the request.             *)
AddApproval(r) == IF \E i \in DOMAIN approvals : Same(approvals[i], r) THEN approvals ELSE Append(approvals, r)
RemoveApproval(r) == SelectSeq(approvals, LAMBDA a : ~Same(a, r))

(* An agent asks, and the window is told.                                   *)
Ask(p) ==
    LET r == [id |-> Cardinality(agent.open) + Cardinality(agent.done) + 1,
              start |-> agent.start, params |-> p]
    IN  /\ r.id \in Ids
        /\ agent' = [agent EXCEPT !.open = @ \cup {r}]
        /\ IF Matches(Tokens(r), allowlist)
           THEN calls' = Append(calls, Call("respond", r, "accept", TRUE)) /\ UNCHANGED <<approvals, noted>>
           ELSE /\ approvals' = AddApproval(r) /\ calls' = calls
                /\ noted' = [noted EXCEPT !.hidden = IF approvals' = approvals THEN @ \cup {r} ELSE @]
        /\ allowlist' = allowlist
AgentStartsAgain ==
    /\ agent.start < MaxStarts
    /\ agent' = [start |-> agent.start + 1, open |-> {}, done |-> {}]
    /\ UNCHANGED <<approvals, allowlist, calls, noted>>

(* handleApprovalDecision, by a button of a toast or by Enter for the newest; *)
(* handleApprovalRemember.                                                  *)
Decide(r, d) ==
    /\ Step /\ calls' = Append(calls, Call("respond", r, d, FALSE))
    /\ noted' = [noted EXCEPT !.steps = @ + 1, !.said = @ \cup {[request |-> r, decision |-> d]}]
    /\ UNCHANGED <<agent, approvals, allowlist>>
Button(d) == \E i \in DOMAIN approvals : Decide(approvals[i], d)
PressEnter == approvals # <<>> /\ Decide(Last(approvals), "accept")
HandleApprovalRemember ==
    /\ Step
    /\ \E i \in DOMAIN approvals :
          /\ Tokens(approvals[i]) # <<>>
          /\ calls' = Append(calls, Call("rule", approvals[i], "accept", FALSE))
          /\ noted' = [noted EXCEPT !.steps = @ + 1, !.allowed = @ \cup {approvals[i]},
                                    !.said = @ \cup {[request |-> approvals[i], decision |-> "accept"]}]
    /\ UNCHANGED <<agent, approvals, allowlist>>

(* The rule is written, or is not: the window keeps it and answers.           *)
Remembered(c) == IF c = <<>> THEN allowlist ELSE allowlist \cup {c}
RuleAnswered(i) ==
    /\ calls[i].do = "rule"
    /\ allowlist' = Remembered(Tokens(calls[i].request))
    /\ calls' = [calls EXCEPT ![i].do = "respond"]
    /\ UNCHANGED <<agent, approvals, noted>>

(* The answer reaches the agent that runs now, which heeds the first to a     *)
(* request of its own; then the toast goes.                                 *)
Heeds(c) == {r \in agent.open : Same(r, c.request)}
Responded(i) ==
    LET c == calls[i]
    IN  /\ c.do = "respond" /\ calls' = RemoveAt(calls, i)
        /\ agent' = [agent EXCEPT !.open = @ \ Heeds(c),
                                  !.done = @ \cup {[request |-> r, decision |-> c.decision] : r \in Heeds(c)}]
        /\ approvals' = IF c.auto THEN approvals ELSE RemoveApproval(c.request)
        /\ noted' = [noted EXCEPT !.misled = @ \cup {r \in Heeds(c) : r.start # c.request.start}]
        /\ allowlist' = allowlist
RespondFails(i) ==
    LET c == calls[i]
    IN  /\ c.do = "respond" /\ calls' = RemoveAt(calls, i)
        /\ noted' = [noted EXCEPT !.unheard = @ \cup {c.request}]
        /\ UNCHANGED <<agent, approvals, allowlist>>

Init ==
    /\ agent = [start |-> 0, open |-> {}, done |-> {}]
    /\ approvals = <<>> /\ allowlist = {} /\ calls = <<>>
    /\ noted = [steps |-> 0, hidden |-> {}, said |-> {}, allowed |-> {}, misled |-> {}, unheard |-> {}]

Next ==
    \/ \E p \in Asked : Ask(p)
    \/ AgentStartsAgain \/ PressEnter \/ HandleApprovalRemember
    \/ \E d \in Decisions : Button(d)
    \/ \E i \in DOMAIN calls : RuleAnswered(i) \/ Responded(i) \/ RespondFails(i)

Spec == Init /\ [][Next]_vars

----------------------------------------------------------------------------
(* No request is lost: one the agent still waits for is shown, or an answer   *)
(* of its own is under way.  It is not when it has the number of a request   *)
(* of the agent before that is still shown, or when the answer given at once *)
(* failed: then nobody is asked and the agent waits.                         *)
Shown(r) == \E i \in DOMAIN approvals : approvals[i] = r
NoRequestLost ==
    \A r \in agent.open :
        r \notin noted.hidden \cup noted.unheard =>
            Shown(r) \/ \E i \in DOMAIN calls : calls[i].request = r

(* The agent is answered as the user said of that request, or because he      *)
(* allowed commands that begin like it, but for an answer meant for the agent *)
(* before; what he answered is answered unless the call failed, and no toast  *)
(* of a request stays that was answered otherwise.                           *)
Asks(r) == r.params[CHOOSE i \in DOMAIN r.params : r.params[i] # <<>> /\ \A j \in 1..(i - 1) : r.params[j] = <<>>]
BeginsLike(r, q) ==
    /\ \E i \in DOMAIN r.params : r.params[i] # <<>>
    /\ Len(Asks(q)) <= Len(Asks(r)) /\ SubSeq(Asks(r), 1, Len(Asks(q))) = Asks(q)
AnsweredAsDecided ==
    /\ \A d \in agent.done :
          \/ d \in noted.said \/ d.request \in noted.misled
          \/ d.decision = "accept" /\ \E q \in noted.allowed : BeginsLike(d.request, q)
    /\ calls = <<>> => \A d \in noted.said : d.request \in agent.open => d.request \in noted.unheard
    /\ \A i \in DOMAIN approvals : approvals[i].start = agent.start => approvals[i] \in agent.open \cup noted.misled
=============================================================================
