--------------------------- MODULE BridgeLedgers ---------------------------
(***************************************************************************)
(* What a bridge session promises, of turns and of approvals: two ledgers,  *)
(* each a specification of its own.                                         *)
(***************************************************************************)
VARIABLES open, closed, gone,          \* turns
          asked, answered, voided      \* control requests of the CLI

turns     == <<open, closed, gone>>
approvals == <<asked, answered, voided>>

----------------------------------------------------------------------------
(* At most one turn is open, whatever the threads do; a turn opens once; it *)
(* is closed only while open and then stays closed; opening a turn while    *)
(* another is open leaves the other one behind for good.                    *)
TurnInit == open = {} /\ closed = {} /\ gone = {}

Begin ==
  \E t \in open' :
    /\ t \notin open \cup closed \cup gone
    /\ open' = {t}
    /\ gone' = gone \cup open
    /\ UNCHANGED closed

Close ==
  \E t \in open :
    /\ open' = open \ {t}
    /\ closed' = closed \cup {t}
    /\ UNCHANGED gone

TurnNext == Begin \/ Close

TurnSpec == TurnInit /\ [][TurnNext]_turns

----------------------------------------------------------------------------
(* A control request is either acknowledged at once, or asked, and one that *)
(* was asked is answered once or voided with everything else that is open,  *)
(* never both.                                                              *)
ApprovalInit == asked = {} /\ answered = {} /\ voided = {}

Fresh(r) == r \notin asked \cup answered \cup voided

Ask ==
  \E r \in asked' : Fresh(r) /\ asked' = asked \cup {r} /\ UNCHANGED <<answered, voided>>

Acknowledge ==
  \E r \in answered' :
    Fresh(r) /\ answered' = answered \cup {r} /\ UNCHANGED <<asked, voided>>

Answer ==
  \E r \in asked :
    /\ asked' = asked \ {r}
    /\ answered' = answered \cup {r}
    /\ UNCHANGED voided

Void == asked' = {} /\ voided' = voided \cup asked /\ UNCHANGED answered

ApprovalNext == Ask \/ Acknowledge \/ Answer \/ Void

ApprovalSpec == ApprovalInit /\ [][ApprovalNext]_approvals
=============================================================================
