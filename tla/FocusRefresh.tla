---------------------------- MODULE FocusRefresh ----------------------------
(***************************************************************************)
(* The two hooks that refresh what the window shows when it comes back to   *)
(* the front and, of a remote backend, at an interval:                      *)
(* useRemoteThreadRefreshOnFocus the selected thread,                       *)
(* useWorkspaceRefreshOnFocus the workspaces and their thread lists.        *)
(*                                                                         *)
(* Their timers live in the closure of an effect.  When a prop changes, the *)
(* effect is torn down and runs anew: a refresh that was waiting for its    *)
(* half second is dropped, one under way goes on without being known to the *)
(* new closure.                                                            *)
(***************************************************************************)
EXTENDS Naturals

CONSTANTS MaxClosures   \* bound on the closures of the thread's effect

VARIABLES
    selected,    \* a thread is selected, its workspace connected or not
    processing,  \* the selected thread is processing
    live,        \* the live connection follows it: suspendPolling
    visible,     \* the document is visible
    front,       \* external: the window has the focus
    poll,        \* the thread's effect: timers and flags of its closure
    running,     \* closures with a refresh under way
    cycle        \* the workspaces' effect

vars == <<selected, processing, live, visible, front, poll, running, cycle>>

TypeOK ==
    /\ selected \in {"none", "offline", "online"}
    /\ processing \in BOOLEAN /\ live \in BOOLEAN /\ visible \in BOOLEAN
    /\ front \in BOOLEAN
    /\ poll \in [closure : 1..MaxClosures, focused : BOOLEAN, timer : BOOLEAN,
                 debounce : BOOLEAN]
    /\ running \subseteq (1..MaxClosures) \X {"connecting", "refreshing"}
    /\ cycle \in [timer : BOOLEAN, debounce : BOOLEAN,
                  step : {"idle", "workspaces", "threads"}]

----------------------------------------------------------------------------
(* updatePolling.                                                          *)
ShouldPoll(p, sel, proc, lv, vis) ==
    sel # "none" /\ ~lv /\ ~proc /\ p.focused /\ vis

Polling(p, sel, proc, lv, vis) == [p EXCEPT !.timer = ShouldPoll(p, sel, proc, lv, vis)]

(* A new run of the effect, after the clean-up of the old one.             *)
Rerun(sel, proc, lv, vis) ==
    Polling([closure |-> poll.closure + 1, focused |-> vis, timer |-> FALSE,
             debounce |-> FALSE], sel, proc, lv, vis)

(* The props change: another selection, a turn starts or ends, the live     *)
(* connection comes or goes.                                               *)
PropsChange(sel, proc, lv) ==
    /\ <<sel, proc, lv>> # <<selected, processing, live>>
    /\ sel = "none" => ~proc /\ ~lv
    /\ selected' = sel /\ processing' = proc /\ live' = lv
    /\ IF (sel = "none") = (selected = "none") /\ proc = processing /\ lv = live
       THEN UNCHANGED poll      \* the connection is read from a ref
       ELSE poll.closure < MaxClosures /\ poll' = Rerun(sel, proc, lv, visible)
    /\ UNCHANGED <<visible, front, running, cycle>>

(* Mutant: the interval goes on while the window is away.                  *)
HandleBlurPolls ==
    /\ front /\ front' = FALSE
    /\ poll' = [poll EXCEPT !.focused = FALSE]
    /\ UNCHANGED <<selected, processing, live, visible, running, cycle>>

HandleBlur ==
    /\ front /\ front' = FALSE
    /\ poll' = Polling([poll EXCEPT !.focused = FALSE], selected, processing, live, visible)
    /\ UNCHANGED <<selected, processing, live, visible, running, cycle>>

HandleFocus ==
    /\ ~front /\ visible /\ front' = TRUE
    /\ poll' = Polling([poll EXCEPT !.focused = TRUE, !.debounce = @ \/ ~live],
                       selected, processing, live, visible)
    /\ cycle' = [cycle EXCEPT !.debounce = TRUE, !.timer = TRUE]
    /\ UNCHANGED <<selected, processing, live, visible, running>>

HandleVisibilityChange ==
    /\ ~front /\ visible' = ~visible
    /\ poll' = IF visible'
               THEN Polling([poll EXCEPT !.focused = TRUE, !.debounce = @ \/ ~live],
                            selected, processing, live, TRUE)
               ELSE Polling(poll, selected, processing, live, FALSE)
    /\ cycle' = [cycle EXCEPT !.debounce = @ \/ visible', !.timer = visible']
    /\ UNCHANGED <<selected, processing, live, front, running>>

(* refreshInFlight of the present closure.                                 *)
NotInFlight == ~\E r \in running : r[1] = poll.closure

(* runRefresh, from the interval or half a second after the focus.         *)
RunRefresh ==
    /\ \/ poll.timer /\ UNCHANGED poll
       \/ poll.debounce /\ poll' = [poll EXCEPT !.debounce = FALSE]
    /\ running' = IF selected # "none" /\ NotInFlight
                  THEN running \cup
                       {<<poll.closure, IF selected = "offline" THEN "connecting"
                                        ELSE "refreshing">>}
                  ELSE running
    /\ UNCHANGED <<selected, processing, live, visible, front, cycle>>

(* The workspace is connected, or could not be: refresh all the same.      *)
ConnectEnds(c) ==
    /\ <<c, "connecting">> \in running
    /\ running' = (running \ {<<c, "connecting">>}) \cup {<<c, "refreshing">>}
    /\ UNCHANGED <<selected, processing, live, visible, front, poll, cycle>>

RefreshEnds(c) ==
    /\ <<c, "refreshing">> \in running
    /\ running' = running \ {<<c, "refreshing">>}
    /\ UNCHANGED <<selected, processing, live, visible, front, poll, cycle>>

(* runRefreshCycle of the workspaces, and its two awaits.                  *)
RunRefreshCycle ==
    /\ cycle.timer \/ cycle.debounce
    /\ cycle' = [cycle EXCEPT !.debounce = FALSE,
                   !.step = IF @ = "idle" THEN "workspaces" ELSE @]
    /\ cycle' # cycle
    /\ UNCHANGED <<selected, processing, live, visible, front, poll, running>>

CycleGoesOn ==
    /\ \/ cycle.step = "workspaces" /\ \E s \in {"threads", "idle"} :
                                          cycle' = [cycle EXCEPT !.step = s]
       \/ cycle.step = "threads" /\ cycle' = [cycle EXCEPT !.step = "idle"]
    /\ UNCHANGED <<selected, processing, live, visible, front, poll, running>>

----------------------------------------------------------------------------
Init ==
    /\ selected = "none" /\ processing = FALSE /\ live = FALSE
    /\ visible = TRUE /\ front = TRUE
    /\ poll = [closure |-> 1, focused |-> TRUE, timer |-> FALSE, debounce |-> FALSE]
    /\ running = {}
    /\ cycle = [timer |-> TRUE, debounce |-> FALSE, step |-> "idle"]

Next ==
    \/ \E sel \in {"none", "offline", "online"}, proc \in BOOLEAN, lv \in BOOLEAN :
          PropsChange(sel, proc, lv)
    \/ HandleBlur \/ HandleFocus \/ HandleVisibilityChange
    \/ RunRefresh \/ RunRefreshCycle \/ CycleGoesOn
    \/ \E c \in 1..MaxClosures : ConnectEnds(c) \/ RefreshEnds(c)

Spec == Init /\ [][Next]_vars

----------------------------------------------------------------------------
(* The selected thread is polled exactly while nothing else brings its news:*)
(* the window looks at it, it is not processing and the live connection     *)
(* does not follow it.  Every handler and every new closure must leave the  *)
(* timer so; an interval that survives its closure would poll for ever.     *)
PollsWhenNothingElseTells ==
    /\ poll.timer => visible /\ poll.focused /\ ~live /\ ~processing /\ selected # "none"
    /\ front /\ visible /\ ~live /\ ~processing /\ selected # "none" => poll.timer

(* What every step keeps: the timer is what updatePolling would make it     *)
(* now, though half of the handlers do not call it, and the window has the  *)
(* focus only where the closure took it to have.                            *)
IInv ==
    /\ processing \in BOOLEAN /\ live \in BOOLEAN /\ visible \in BOOLEAN /\ front \in BOOLEAN
    /\ poll \in [closure : Nat, focused : BOOLEAN, timer : BOOLEAN, debounce : BOOLEAN]
    /\ poll.timer <=> ShouldPoll(poll, selected, processing, live, visible)
    /\ front => visible /\ poll.focused
=============================================================================
