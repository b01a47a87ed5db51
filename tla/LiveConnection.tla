--------------------------- MODULE LiveConnection ---------------------------
(***************************************************************************)
(* How the window follows the selected thread of a remote workspace:        *)
(* useRemoteThreadLiveConnection subscribes to the thread at the daemon,    *)
(* moves the subscription when another thread is selected, drops it when    *)
(* the window is left and takes it up again afterwards.                     *)
(*                                                                         *)
(* Each attempt (reconnectLive) awaits up to four answers; blur, focus and  *)
(* a change of thread make it stale by a sequence number.  The daemon       *)
(* tells of every subscription by events, the window's own ones included.   *)
(* The refs of the hook are one record; a handler is an operator on it.     *)
(* A change of the props is one step with the effects that follow it.       *)
(***************************************************************************)
EXTENDS Naturals, Sequences

CONSTANTS
    Threads, NoThread,
    MaxAttempts,     \* bound on reconnectLive's attempts
    MaxMoves,        \* bound on what the user and the daemon do by themselves
    MaxFailures      \* bound on failing requests

VARIABLES
    thread,     \* the selected thread, or none
    connected,  \* the workspace is connected
    visible, focused,
    hook,       \* the refs and the state of the hook
    subs,       \* external: the threads the daemon has subscribed
    wire,       \* requests to the daemon, in order
    events,     \* events to the window, in order
    moves, failures,
    blame,      \* history: a request was refused; the hook took a thread for
                \* followed whose subscription was gone
    adrift      \* history: subscribed threads the hook has let go of unasked

vars == <<thread, connected, visible, focused, hook, subs, wire, events, moves, failures,
          blame, adrift>>

Keys == Threads \cup {NoThread}

Attempt == [key : Threads, seq : Nat, resume : BOOLEAN, keep : BOOLEAN,
            step : {"connecting", "refreshing", "detaching", "attaching", "attached",
                    "detached", "refused", "cleaning", "done"}]

Request == [op : {"subscribe", "unsubscribe"}, key : Threads, by : 0..MaxAttempts]

Event == [kind : {"attached", "detached", "activity", "connected"}, key : Keys]

Hooks == [conn : {"live", "polling", "disconnected"}, active : Keys, desired : Keys,
          sequence : Nat, inFlight : 0..MaxAttempts, inFlightSeq : Nat,
          attempts : Seq(Attempt), ignoring : SUBSET Threads, sent : Seq(Request)]

TypeOK ==
    /\ thread \in Keys
    /\ connected \in BOOLEAN /\ visible \in BOOLEAN /\ focused \in BOOLEAN
    /\ hook \in Hooks /\ hook.sent = <<>> /\ Len(hook.attempts) <= MaxAttempts
    /\ subs \subseteq Threads /\ adrift \subseteq Threads
    /\ wire \in Seq(Request) /\ events \in Seq(Event)
    /\ moves \in 0..MaxMoves /\ failures \in 0..MaxFailures /\ blame \subseteq {"refused", "misled"}

----------------------------------------------------------------------------
Unsubscribe(h, key, by) ==
    [h EXCEPT !.sent = Append(@, [op |-> "unsubscribe", key |-> key, by |-> by])]
Subscribe(h, key, by) ==
    [h EXCEPT !.sent = Append(@, [op |-> "subscribe", key |-> key, by |-> by])]

SetStep(h, i, step) == [h EXCEPT !.attempts[i].step = step]

(* reconcileDisconnectedState, the backend being remote.                   *)
Reconcile(h, c) == [h EXCEPT !.conn = IF c THEN "polling" ELSE "disconnected"]

(* An attempt comes to its subscription: a subscription it already has is   *)
(* given up first, and the event this causes will be ignored once.         *)
Attach(h, i) ==
    LET key == h.attempts[i].key IN
    IF h.active = key
    THEN SetStep(Unsubscribe([h EXCEPT !.ignoring = @ \cup {key}], key, i), i, "detaching")
    ELSE SetStep(Subscribe(h, key, i), i, "attaching")

Proceed(h, i) == IF h.attempts[i].resume THEN SetStep(h, i, "refreshing") ELSE Attach(h, i)

Settled(h, i) ==
    LET h1 == SetStep(h, i, "done") IN
    IF h1.inFlight = i THEN [h1 EXCEPT !.inFlight = 0, !.inFlightSeq = 0] ELSE h1

(* Mutant: an attempt that has been made stale is waited for all the same.  *)
JoinsAny(h, key) == h.inFlight # 0 /\ h.attempts[h.inFlight].key = key

(* The caller gets the promise of an attempt for the same thread, unless a  *)
(* newer sequence has invalidated it.                                      *)
Joins(h, key) ==
    /\ h.inFlight # 0 /\ h.attempts[h.inFlight].key = key
    /\ h.inFlightSeq = h.sequence

(* reconnectLive up to its first await, with the workspace as c tells.     *)
Reconnect(h, key, resume, keep, c) ==
    LET id  == Len(h.attempts) + 1
        new == [key |-> key, seq |-> h.sequence + 1, resume |-> resume, keep |-> keep,
                step |-> "connecting"]
        h1  == [h EXCEPT !.desired = key, !.sequence = @ + 1,
                         !.inFlight = id, !.inFlightSeq = h.sequence + 1,
                         !.attempts = Append(@, new),
                         !.conn = IF ~c THEN "disconnected"
                                  ELSE IF resume \/ ~keep THEN "polling" ELSE "live"]
    IN  IF Joins(h, key) THEN [h EXCEPT !.desired = key]
        ELSE IF c THEN Proceed(h1, id) ELSE h1

(* The effect on the key: the thread, the workspace's connection.          *)
KeyChanged(h, key, c, resume) ==
    LET left == h.active # NoThread /\ h.active # key
        h1   == [h EXCEPT !.desired = key, !.active = IF left THEN NoThread ELSE @]
        h2   == IF left THEN Unsubscribe(h1, h.active, 0) ELSE h1
    IN  IF key = NoThread \/ ~visible THEN Reconcile(h2, c)
        ELSE IF h2.active = key /\ h2.conn # "disconnected" /\ c THEN h2
        ELSE Reconnect(h2, key, resume, TRUE, c)

(* handleFocus, and the document becoming visible.                         *)
Focused(h) == IF thread = NoThread THEN h ELSE Reconnect(h, thread, TRUE, FALSE, connected)

(* handleBlur, and the document becoming hidden.                           *)
Blurred(h) ==
    LET h1 == [h EXCEPT !.sequence = @ + 1, !.desired = NoThread, !.active = NoThread]
    IN  IF h.active = NoThread THEN h1
        ELSE Reconcile(Unsubscribe(h1, h.active, 0), connected)

(* What the hook sent goes onto the wire.  It lets go of `drops`; a thread  *)
(* it asks about, or holds again, is adrift no more.                       *)
LetsGo(h, drops) ==
    /\ hook' = [h EXCEPT !.sent = <<>>]
    /\ wire' = wire \o h.sent
    /\ adrift' = ((adrift \cup drops) \ {h.sent[i].key : i \in 1..Len(h.sent)}) \ {h.active}

Becomes(h) == LetsGo(h, {})

----------------------------------------------------------------------------
(* A thread is not followed, and nothing under way will tell so.            *)
Asked(key) == \E i \in 1..Len(wire) : wire[i].key = key
Told(key, evs) == \E i \in 1..Len(evs) : evs[i].kind = "detached" /\ evs[i].key = key
Lost(key, evs) == key \notin subs /\ ~Asked(key) /\ ~Told(key, evs)
Misled(c) == blame' = blame \cup (IF c THEN {"misled"} ELSE {})

Room == Len(hook.attempts) < MaxAttempts
Move == moves < MaxMoves /\ moves' = moves + 1

Select(t) ==
    /\ t # thread /\ Room /\ Move
    /\ thread' = t
    /\ \E resume \in BOOLEAN : Becomes(KeyChanged(hook, t, connected, resume))
    /\ UNCHANGED <<connected, visible, focused, subs, events, failures, blame>>

(* The workspace loses its connection; the daemon forgets what it followed. *)
Disconnect ==
    /\ connected /\ Room /\ Move
    /\ connected' = FALSE /\ subs' = {}
    /\ \E resume \in BOOLEAN : Becomes(KeyChanged(hook, thread, FALSE, resume))
    /\ UNCHANGED <<thread, visible, focused, events, failures, blame>>

(* It is connected again, by an attempt or by another part of the window.   *)
Connect ==
    /\ ~connected /\ Room
    /\ connected' = TRUE
    /\ \E resume \in BOOLEAN : Becomes(KeyChanged(hook, thread, TRUE, resume))
    /\ events' = Append(events, [kind |-> "connected", key |-> NoThread])
    /\ UNCHANGED <<thread, visible, focused, subs, moves, failures, blame>>

Focus ==
    /\ ~focused /\ visible /\ Room /\ Move
    /\ focused' = TRUE
    /\ Becomes(Focused(hook))
    /\ UNCHANGED <<thread, connected, visible, subs, events, failures, blame>>

Blur ==
    /\ focused /\ Move
    /\ focused' = FALSE
    /\ Becomes(Blurred(hook))
    /\ UNCHANGED <<thread, connected, visible, subs, events, failures, blame>>

(* visibilitychange.                                                       *)
VisibilityChange ==
    /\ ~focused /\ Room /\ Move
    /\ visible' = ~visible
    /\ Becomes(IF visible' THEN Focused(hook) ELSE Blurred(hook))
    /\ UNCHANGED <<thread, connected, focused, subs, events, failures, blame>>

----------------------------------------------------------------------------
(* An attempt goes on after an answer.                                     *)
Current(i) == hook.attempts[i].seq = hook.sequence
At(i, step) == i \in 1..Len(hook.attempts) /\ hook.attempts[i].step = step

Awaiting == UNCHANGED <<thread, connected, visible, focused, subs, events, moves>>

(* reconnectWorkspace or refreshThread has resolved.                       *)
Resolved(i) ==
    /\ At(i, "connecting") \/ At(i, "refreshing")
    /\ At(i, "connecting") => connected
    /\ Becomes(IF ~Current(i) THEN Settled(hook, i)
               ELSE IF At(i, "connecting") THEN Proceed(hook, i) ELSE Attach(hook, i))
    /\ UNCHANGED <<failures, blame>> /\ Awaiting

(* Either has been rejected, or threadLiveSubscribe has.                   *)
Rejected(i) ==
    /\ \/ At(i, "refused") /\ UNCHANGED <<failures, blame>>
       \/ /\ At(i, "connecting") \/ At(i, "refreshing")
          /\ failures < MaxFailures /\ failures' = failures + 1 /\ blame' = blame \cup {"refused"}
    /\ Becomes(IF Current(i) THEN Reconcile(Settled(hook, i), connected)
               ELSE Settled(hook, i))
    /\ Awaiting

(* The own subscription has been given up: subscribe again.  By now the    *)
(* hook may hold another.                                                  *)
Detached(i) ==
    /\ At(i, "detached")
    /\ LetsGo(SetStep(Subscribe([hook EXCEPT !.active = NoThread], hook.attempts[i].key, i), i,
                      "attaching"),
              {hook.active} \cap subs)
    /\ UNCHANGED <<failures, blame>> /\ Awaiting

(* An attempt that is subscribed and current holds the subscription.        *)
Holds(i) ==
    LET a == hook.attempts[i]
    IN  [Settled(hook, i) EXCEPT !.active = a.key, !.conn = IF a.resume \/ ~a.keep THEN "polling" ELSE "live"]

(* Mutant: a stale attempt keeps the subscription it got.                  *)
AttachedKept(i) ==
    /\ At(i, "attached")
    /\ Becomes(IF Current(i) THEN Holds(i) ELSE Settled(hook, i))
    /\ Misled(Current(i) /\ Lost(hook.attempts[i].key, events))
    /\ UNCHANGED failures /\ Awaiting

(* Subscribed.  A stale attempt undoes it, unless the thread is wanted: then *)
(* it leaves it to the attempt that wants it.                              *)
Attached(i) ==
    LET key == hook.attempts[i].key
    IN  /\ At(i, "attached")
        /\ IF Current(i) THEN Becomes(Holds(i))
           ELSE IF hook.desired = key THEN LetsGo(Settled(hook, i), {key} \cap subs)
           ELSE Becomes(SetStep(Unsubscribe(hook, key, i), i, "cleaning"))
        /\ Misled(Current(i) /\ Lost(key, events))
        /\ UNCHANGED failures /\ Awaiting

----------------------------------------------------------------------------
(* The handler of app-server events, of the selected thread and "connected". *)
Unheard(key) ==
    \/ key = hook.active /\ key # thread
    \/ /\ key = thread /\ thread \in hook.ignoring
       /\ \A i \in 1..Len(hook.attempts) : At(i, "detached") => hook.attempts[i].key # key

HandleEvent ==
    /\ events # <<>> /\ Room
    /\ events' = Tail(events)
    /\ LET e == Head(events)
           released == Reconcile([hook EXCEPT !.active = NoThread], connected)
       IN  /\ \/ /\ thread = NoThread \/ (e.key # thread /\ e.kind # "connected")
                 /\ UNCHANGED <<hook, wire, adrift>>
              \/ /\ thread # NoThread /\ e.kind = "connected"
                 /\ Becomes(IF visible THEN Reconnect(hook, thread, FALSE, FALSE, connected) ELSE hook)
              \/ /\ thread # NoThread /\ e.kind = "attached" /\ e.key = thread
                 /\ Becomes([hook EXCEPT !.active = thread,
                                         !.conn = IF @ = "polling" THEN "polling" ELSE "live"])
              \/ /\ thread # NoThread /\ e.kind = "activity" /\ e.key = thread
                 /\ Becomes([hook EXCEPT !.conn = "live"])
              \/ /\ thread # NoThread /\ e.kind = "detached" /\ e.key = thread
                 /\ IF thread \in hook.ignoring
                    THEN Becomes([hook EXCEPT !.ignoring = @ \ {thread}])
                    ELSE LetsGo(IF visible /\ focused
                                THEN Reconnect(released, thread, TRUE, FALSE, connected) ELSE released,
                                {hook.active} \cap subs)
           /\ Misled(/\ \/ e.kind = "attached" /\ e.key = thread
                        \/ e.kind = "detached" /\ Unheard(e.key)
                     /\ Lost(e.key, Tail(events)))
    /\ UNCHANGED <<thread, connected, visible, focused, subs, moves, failures>>

(* SELF_DETACH_IGNORE_WINDOW_MS has passed.                                *)
IgnoreExpires ==
    /\ hook.ignoring # {} /\ wire = <<>> /\ events = <<>>
    /\ hook' = [hook EXCEPT !.ignoring = {}]
    /\ UNCHANGED <<thread, connected, visible, focused, subs, wire, events, moves,
                   failures, blame, adrift>>

----------------------------------------------------------------------------
(* The daemon, external.                                                   *)

Answered(i, step) ==
    hook' = IF i = 0 THEN hook
            ELSE IF step = "cleaned" THEN Settled(hook, i) ELSE SetStep(hook, i, step)

Serve ==
    /\ wire # <<>>
    /\ wire' = Tail(wire)
    /\ LET r == Head(wire)
           told == [kind |-> IF r.op = "subscribe" THEN "attached" ELSE "detached",
                    key |-> r.key]
       IN  IF ~connected
           THEN /\ Answered(r.by, IF r.op = "subscribe" THEN "refused"
                                  ELSE IF r.by # 0 /\ At(r.by, "cleaning") THEN "cleaned"
                                  ELSE "detached")
                /\ blame' = blame \cup {"refused"} /\ UNCHANGED <<subs, events>>
           ELSE /\ subs' = IF r.op = "subscribe" THEN subs \cup {r.key} ELSE subs \ {r.key}
                /\ events' = Append(events, told)
                /\ Answered(r.by, IF r.op = "subscribe" THEN "attached"
                                  ELSE IF r.by # 0 /\ At(r.by, "cleaning") THEN "cleaned"
                                  ELSE "detached")
                /\ UNCHANGED blame
    /\ UNCHANGED <<thread, connected, visible, focused, moves, failures, adrift>>

Refuse ==
    /\ wire # <<>> /\ Head(wire).op = "subscribe"
    /\ failures < MaxFailures /\ failures' = failures + 1 /\ blame' = blame \cup {"refused"}
    /\ wire' = Tail(wire)
    /\ Answered(Head(wire).by, "refused")
    /\ UNCHANGED <<thread, connected, visible, focused, subs, events, moves, adrift>>

(* The thread it follows does something, or another client unsubscribes.    *)
Tell ==
    /\ connected /\ Move
    /\ \E key \in subs :
          \/ /\ events' = Append(events, [kind |-> "activity", key |-> key])
             /\ UNCHANGED subs
          \/ /\ events' = Append(events, [kind |-> "detached", key |-> key])
             /\ subs' = subs \ {key}
    /\ UNCHANGED <<thread, connected, visible, focused, hook, wire, failures, blame, adrift>>

----------------------------------------------------------------------------
Init ==
    /\ thread = NoThread /\ connected = TRUE /\ visible = TRUE /\ focused = TRUE
    /\ hook = [conn |-> "polling", active |-> NoThread, desired |-> NoThread,
               sequence |-> 0, inFlight |-> 0, inFlightSeq |-> 0, attempts |-> <<>>,
               ignoring |-> {}, sent |-> <<>>]
    /\ subs = {} /\ wire = <<>> /\ events = <<>>
    /\ moves = 0 /\ failures = 0 /\ blame = {} /\ adrift = {}

Next ==
    \/ \E t \in Keys : Select(t)
    \/ Disconnect \/ Connect \/ Focus \/ Blur \/ VisibilityChange
    \/ \E i \in 1..MaxAttempts : Resolved(i) \/ Rejected(i) \/ Detached(i) \/ Attached(i)
    \/ HandleEvent \/ IgnoreExpires
    \/ Serve \/ Refuse \/ Tell

Spec == Init /\ [][Next]_vars

----------------------------------------------------------------------------
Rest ==
    /\ wire = <<>> /\ events = <<>>
    /\ \A i \in 1..Len(hook.attempts) : hook.attempts[i].step = "done"

(* When every attempt has come to its end, the daemon follows no thread but *)
(* the one the hook holds the subscription of: switching, leaving and       *)
(* coming back leave no subscription behind, whichever attempt is overtaken *)
(* by another.  (A refused attempt may leave the one of its predecessor;    *)
(* and one is adrift that was left to a later attempt that came to nothing, *)
(* or that the hook forgot when it learned that another was lost.)          *)
OneSubscription == Rest /\ "refused" \notin blame => subs \subseteq {hook.active} \cup adrift

(* While the user looks at a thread of a connected workspace, the window    *)
(* follows it, whatever switches, blurs and losses came before, as long as *)
(* no request failed and the hook was not misled: it may be told of a       *)
(* subscription that is gone by then, or drop the event that tells it of    *)
(* the loss (either may leave "live", which suspends the polling, for a     *)
(* thread the window does not follow).                                     *)
FollowedWhileLooking ==
    Rest /\ connected /\ visible /\ focused /\ thread # NoThread /\ blame = {}
        => thread \in subs

----------------------------------------------------------------------------
(* What the two rest on.  A request is that of an attempt that waits for    *)
(* it, and no attempt waits for two.                                       *)
Basis == NoThread \notin Threads /\ MaxAttempts \in Nat /\ MaxMoves \in Nat /\ MaxFailures \in Nat

Line(h) == wire \o h.sent

WaitedFor(r, h) ==
    IF r.by = 0 THEN r.op = "unsubscribe"
    ELSE /\ r.by <= Len(h.attempts) /\ h.attempts[r.by].key = r.key
         /\ h.attempts[r.by].step \in IF r.op = "subscribe" THEN {"attaching"} ELSE {"detaching", "cleaning"}
RequestsOK(h, w) ==
    /\ \A p \in 1..Len(w) : WaitedFor(w[p], h)
    /\ \A p, q \in 1..Len(w) : w[p].by = w[q].by /\ w[p].by # 0 => p = q
NumbersOK(h) == \A i, j \in 1..Len(h.attempts) :
    h.attempts[i].seq <= h.sequence /\ (h.attempts[i].seq = h.attempts[j].seq => i = j)
FlightOK(h) == h.inFlight # 0 =>
    /\ h.inFlight <= Len(h.attempts) /\ h.attempts[h.inFlight].step # "done"
    /\ h.inFlightSeq = h.attempts[h.inFlight].seq
HookOK(h, w) == RequestsOK(h, w) /\ NumbersOK(h) /\ FlightOK(h)

(* The current attempt and the subscription that is held are of the thread  *)
(* that is selected, unless none is any more.                              *)
CurrentOK == \A i \in 1..Len(hook.attempts) :
    Current(i) => visible /\ thread \in {hook.attempts[i].key, NoThread}
ActiveOK ==
    /\ thread # NoThread => hook.active \in {thread, NoThread}
    /\ thread = NoThread /\ hook.active # NoThread =>
          /\ visible
          /\ \A i \in 1..Len(hook.attempts) : Current(i) => hook.attempts[i].key = hook.active

(* A subscription is held, or adrift, or some attempt has yet to deal with it. *)
InStep(key, step) == \E i \in 1..Len(hook.attempts) : hook.attempts[i].key = key /\ hook.attempts[i].step = step
RefusedOK == \A i \in 1..Len(hook.attempts) : hook.attempts[i].step = "refused" => "refused" \in blame
SubscriptionsOK ==
    "refused" \notin blame => \A key \in subs :
        Asked(key) \/ key = hook.active \/ key \in adrift \/ InStep(key, "attached")

(* What the hook holds, and what the user looks at, is followed, or the hook *)
(* will be told that it is not, or an attempt is under way.                 *)
Going(h, key) == \E i \in 1..Len(h.attempts) :
    h.attempts[i].seq = h.sequence /\ h.attempts[i].key = key /\ h.attempts[i].step # "done"
Tended(key) == ~Lost(key, events) \/ InStep(key, "detached") \/ Going(hook, key)
TendedOK ==
    blame = {} /\ visible =>
        /\ hook.active # NoThread => Tended(hook.active)
        /\ connected /\ focused /\ thread # NoThread => Tended(thread)

IInv ==
    /\ TypeOK /\ HookOK(hook, wire) /\ CurrentOK /\ ActiveOK
    /\ RefusedOK /\ SubscriptionsOK /\ TendedOK
=============================================================================
