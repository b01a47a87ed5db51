--------------------------- MODULE TerminalSessions ---------------------------
(***************************************************************************)
(* The terminals of the window (useTerminalController, useTerminalTabs,     *)
(* useTerminalSession, useWorkspaceLaunchScript and -Scripts).  Tabs are kept*)
(* by workspace; a session of the backend is opened for the tab that is      *)
(* shown and closed with it, and the event of a session's end, which names   *)
(* only the terminal, closes the tab.  A launch script restarts the session  *)
(* of its terminal and is written once that is ready.                       *)
(*                                                                         *)
(* What the window keeps is one record, win; the effects that run after any  *)
(* change of it are functions of that record.  Calls and events are sets:    *)
(* the backend and the window take them in any order.                       *)
(***************************************************************************)
EXTENDS Naturals, Sequences, FiniteSets

CONSTANTS
    Workspaces,
    None,
    Keys,           \* terminals, with their workspace
    WorkspaceOf, Launch,    \* the terminal of the launch script, in each workspace
    MaxOpens,       \* bound: requests for a session
    MaxMoves        \* bound: acts of the user, and sessions that end of themselves

VARIABLES
    win,            \* what the hooks keep
    session,        \* of each terminal in the backend: its number, or 0
    asks,           \* openTerminalSession calls: key, number, whether it was done
    closes,         \* closeTerminalSession calls that are under way
    exits,          \* terminal-exit events under way, with the session that ended
    writes,         \* scripts being written
    noted,          \* history: scripts written, and what is not covered
    moves

vars == <<win, session, asks, closes, exits, writes, noted, moves>>

Calls == 1..MaxOpens
Requests == [key : Keys, n : Calls, done : BOOLEAN]
Scripts == [key : Keys, run : 1..MaxMoves]
RangeOf(s) == {s[i] : i \in 1..Len(s)}

TypeOK ==
    /\ win \in [at : Workspaces, tabs : [Workspaces -> UNION {[1..n -> Keys] : n \in 0..Cardinality(Keys)}],
                active : [Workspaces -> Keys \cup {None}], visible : BOOLEAN, opened : SUBSET Keys,
                ready : Keys \cup {None}, has : BOOLEAN, rendered : Keys \cup {None},
                drawn : Keys \cup {None}, pending : Scripts \cup {None}, used : SUBSET Keys,
                asked : 0..MaxOpens]
    /\ session \in [Keys -> 0..MaxOpens]
    /\ asks \subseteq Requests /\ writes \subseteq Scripts
    /\ closes \subseteq [key : Keys, restart : BOOLEAN] /\ exits \subseteq Keys \X Calls
    /\ noted \in [written : SUBSET (1..MaxMoves), crossed : BOOLEAN, raced : SUBSET Keys, failed : SUBSET Keys]
    /\ moves \in 0..MaxMoves

----------------------------------------------------------------------------
(* useTerminalTabs.                                                         *)
ActiveKey(w) == w.active[w.at]
AddTab(w, k) ==
    LET ws == WorkspaceOf[k]
    IN  [w EXCEPT !.tabs[ws] = IF k \in RangeOf(@) THEN @ ELSE Append(@, k),
                  !.active[ws] = k, !.used = @ \cup {k}]
WithoutTab(w, k) ==
    LET ws == WorkspaceOf[k]
        left == SelectSeq(w.tabs[ws], LAMBDA j : j # k)
    IN  [w EXCEPT !.tabs[ws] = left,
                  !.active[ws] = IF @ # k THEN @ ELSE IF left = <<>> THEN None ELSE left[Len(left)]]
OnlyTab(w, k) == w.tabs[w.at] = <<k>>
(* A new terminal has an id that none had before.                           *)
Fresh(w) == {k \in Keys \ w.used : WorkspaceOf[k] = w.at /\ k # Launch[w.at]}
EnsureTerminal(w) ==
    IF w.visible /\ ActiveKey(w) = None /\ Fresh(w) # {}
    THEN AddTab(w, CHOOSE k \in Fresh(w) : TRUE)
    ELSE w

(* useTerminalSession: a session that is closed or has ended is forgotten,   *)
(* and the effect below runs again.                                         *)
Cleanup(w, k) ==
    [w EXCEPT !.opened = @ \ {k},
              !.ready = IF @ = k THEN None ELSE @,
              !.has = IF ActiveKey(w) = k THEN FALSE ELSE @,
              !.drawn = IF ActiveKey(w) = k THEN k ELSE @]

(* syncActiveBuffer: the terminal shows another buffer, if it is there.      *)
Synced(w, k) ==
    [w EXCEPT !.drawn = IF w.rendered # k /\ w.visible THEN k ELSE @, !.rendered = k]
(* The effect that opens the session of the terminal shown.  One that is      *)
(* open is shown at once, another when it is answered.                       *)
Asks(w) == w.visible /\ ActiveKey(w) # None /\ ActiveKey(w) \notin w.opened
OpenSession(w) ==
    CASE ~w.visible -> [w EXCEPT !.has = FALSE, !.ready = None, !.drawn = None, !.rendered = None]
      [] w.visible /\ ActiveKey(w) = None -> [w EXCEPT !.has = FALSE, !.ready = None]
      [] Asks(w) -> [w EXCEPT !.asked = @ + 1]
      [] OTHER -> Synced([w EXCEPT !.has = TRUE, !.ready = ActiveKey(w)], ActiveKey(w))

(* The effect of the launch scripts: what is pending is written when its      *)
(* terminal is shown and ready, if one of these changed.                    *)
Due(b, w) ==
    /\ <<ActiveKey(w), w.at, w.ready>> # <<ActiveKey(b), b.at, b.ready>>
    /\ w.pending # None
    /\ w.pending.key = w.ready /\ w.pending.key = ActiveKey(w)
Dropped(b, w) == IF w.at # b.at THEN [w EXCEPT !.pending = None] ELSE w

(* Everything that follows a change of win from b to w.                      *)
Follows(b, w, reset) ==
    LET c == EnsureTerminal(Dropped(b, w))
        again == reset \/ <<ActiveKey(c), c.at, c.visible>> # <<ActiveKey(b), b.at, b.visible>>
        d == IF again THEN OpenSession(c) ELSE c
        ask == IF again /\ Asks(c) THEN {[key |-> ActiveKey(c), n |-> d.asked, done |-> FALSE]} ELSE {}
    IN  /\ d.asked <= MaxOpens
        /\ win' = IF Due(b, d) THEN [d EXCEPT !.pending = None] ELSE d
        /\ writes' = IF Due(b, d) THEN writes \cup {d.pending} ELSE writes
        /\ asks' = asks \cup ask

Move == moves < MaxMoves /\ moves' = moves + 1
(* Calls of one terminal that pass each other: its session may be closed, or *)
(* its tab be, behind a request for it.                                     *)
Behind(k) == {r.key : r \in {q \in asks : q.key = k}}
(* The terminal is emptied for one that it does not show yet.               *)
Blanks(k) == ActiveKey(win) = k /\ win.rendered \notin {None, k}

----------------------------------------------------------------------------
TogglePanel ==
    /\ Move /\ Follows(win, [win EXCEPT !.visible = ~@], FALSE)
    /\ UNCHANGED <<session, closes, exits, noted>>
SwitchTo(ws) ==
    /\ Move /\ ws # win.at /\ Follows(win, [win EXCEPT !.at = ws], FALSE)
    /\ UNCHANGED <<session, closes, exits, noted>>
NewTerminal ==
    /\ Move /\ win.visible /\ Fresh(win) # {}
    /\ Follows(win, AddTab(win, CHOOSE k \in Fresh(win) : TRUE), FALSE)
    /\ UNCHANGED <<session, closes, exits, noted>>
SelectTerminal(k) ==
    /\ Move /\ win.visible /\ k \in RangeOf(win.tabs[win.at]) /\ k # ActiveKey(win)
    /\ Follows(win, [win EXCEPT !.active[win.at] = k], FALSE)
    /\ UNCHANGED <<session, closes, exits, noted>>

(* closeTerminal and handleTerminalClose; the last tab takes the panel along.*)
Closed(k, only) ==
    LET w == WithoutTab(Cleanup(win, k), k)
    IN  /\ Follows(win, [w EXCEPT !.visible = @ /\ ~only], TRUE)
        /\ closes' = closes \cup {[key |-> k, restart |-> FALSE]}
        /\ noted' = [noted EXCEPT !.raced = @ \cup Behind(k), !.crossed = @ \/ Blanks(k)]
CloseTerminal(k) ==
    /\ Move /\ win.visible /\ k \in RangeOf(win.tabs[win.at])
    /\ Closed(k, OnlyTab(win, k))
    /\ UNCHANGED <<session, exits>>
(* A terminal-exit event: as if the user closed the tab, which it may be of a*)
(* session that was opened since.                                           *)
SessionExit(e) ==
    /\ exits' = exits \ {e}
    /\ LET k == e[1]
           w == WithoutTab(Cleanup(win, k), k)
       IN  /\ Follows(win, [w EXCEPT !.visible = @ /\ ~OnlyTab(win, k)], TRUE)
           /\ closes' = closes \cup {[key |-> k, restart |-> FALSE]}
           /\ noted' = [noted EXCEPT !.crossed = @ \/ Blanks(k), !.raced = @ \cup Behind(k)]
    /\ UNCHANGED <<session, moves>>

(* onRunLaunchScript, onRunScript, restartTerminalSession.                  *)
RunScript ==
    LET k == Launch[win.at]
        w == AddTab(Cleanup(win, k), k)
    IN  /\ Move
        /\ Follows(win, [w EXCEPT !.visible = TRUE, !.pending = [key |-> k, run |-> moves + 1]], TRUE)
        /\ closes' = closes \cup {[key |-> k, restart |-> TRUE]}
        /\ noted' = [noted EXCEPT !.raced = @ \cup Behind(k), !.crossed = @ \/ Blanks(k)]
        /\ UNCHANGED <<session, exits>>

----------------------------------------------------------------------------
(* The backend: terminal_open, terminal_close, a shell that ends.            *)
OpenDone(r) ==
    /\ ~r.done /\ asks' = (asks \ {r}) \cup {[r EXCEPT !.done = TRUE]}
    /\ session' = [session EXCEPT ![r.key] = IF @ = 0 THEN r.n ELSE @]
    /\ UNCHANGED <<win, closes, exits, writes, noted, moves>>
OpenFails(r) ==
    /\ ~r.done /\ asks' = asks \ {r}
    /\ noted' = [noted EXCEPT !.failed = @ \cup {r.key}]
    /\ UNCHANGED <<win, session, closes, exits, writes, moves>>
Ended(k) ==
    /\ session' = [session EXCEPT ![k] = 0]
    /\ exits' = IF session[k] # 0 THEN exits \cup {<<k, session[k]>>} ELSE exits
CloseDone(c) ==
    /\ closes' = closes \ {c} /\ Ended(c.key)
    /\ UNCHANGED <<win, asks, writes, noted, moves>>
ShellEnds(k) ==
    /\ Move /\ session[k] # 0 /\ Ended(k)
    /\ UNCHANGED <<win, asks, closes, writes, noted>>

(* The answer of a request: its terminal is ready, whether or not it is shown.*)
Opened(w, k) == Synced([w EXCEPT !.opened = @ \cup {k}, !.has = TRUE, !.ready = k], k)
OpenAnswered(r) ==
    LET w == Opened(win, r.key)
    IN  /\ r.done
        /\ win' = IF Due(win, w) THEN [w EXCEPT !.pending = None] ELSE w
        /\ writes' = IF Due(win, w) THEN writes \cup {w.pending} ELSE writes
        /\ asks' = asks \ {r}
        /\ noted' = [noted EXCEPT !.crossed = @ \/ ~win.visible \/ ActiveKey(win) # r.key]
        /\ UNCHANGED <<session, closes, exits, moves>>

(* restartTerminalSession fails otherwise than for want of a session.        *)
RestartFails(c) ==
    /\ c.restart /\ closes' = closes \ {c}
    /\ win' = [win EXCEPT !.pending = None]
    /\ noted' = [noted EXCEPT !.failed = @ \cup {c.key}]
    /\ UNCHANGED <<session, asks, exits, writes, moves>>
Written(s) ==
    /\ writes' = writes \ {s}
    /\ noted' = IF session[s.key] # 0 THEN [noted EXCEPT !.written = @ \cup {s.run}] ELSE noted
    /\ UNCHANGED <<win, session, asks, closes, exits, moves>>
(* What is typed, or a resize, finds no session: it is no longer taken for    *)
(* open, though it is shown as ready.                                       *)
InputFails ==
    /\ win.visible /\ ActiveKey(win) \in win.opened /\ session[ActiveKey(win)] = 0
    /\ win' = [win EXCEPT !.opened = @ \ {ActiveKey(win)}]
    /\ UNCHANGED <<session, asks, closes, exits, writes, noted, moves>>

Init ==
    /\ win = [at |-> CHOOSE w \in Workspaces : TRUE, tabs |-> [w \in Workspaces |-> <<>>],
              active |-> [w \in Workspaces |-> None], visible |-> FALSE, opened |-> {}, ready |-> None,
              has |-> FALSE, rendered |-> None, drawn |-> None, pending |-> None, used |-> {}, asked |-> 0]
    /\ session = [k \in Keys |-> 0]
    /\ asks = {} /\ closes = {} /\ exits = {} /\ writes = {} /\ moves = 0
    /\ noted = [written |-> {}, crossed |-> FALSE, raced |-> {}, failed |-> {}]

Next ==
    \/ TogglePanel \/ NewTerminal \/ RunScript \/ InputFails
    \/ \E ws \in Workspaces : SwitchTo(ws)
    \/ \E k \in Keys : SelectTerminal(k) \/ CloseTerminal(k) \/ ShellEnds(k)
    \/ \E r \in asks : OpenDone(r) \/ OpenFails(r) \/ OpenAnswered(r)
    \/ \E c \in closes : CloseDone(c) \/ RestartFails(c)
    \/ \E e \in exits : SessionExit(e)
    \/ \E s \in writes : Written(s)

Spec == Init /\ [][Next]_vars

----------------------------------------------------------------------------
Quiet == asks = {} /\ closes = {} /\ exits = {} /\ writes = {}
Open == {k \in Keys : session[k] # 0}

(* What the terminal shows is the output of the terminal that what is typed  *)
(* goes to, once that is ready: but for an answer that comes when its        *)
(* terminal is no longer shown, and for one closed before it was shown.     *)
DrawnIsActive ==
    (win.visible /\ win.ready # None /\ win.ready = ActiveKey(win) /\ ~noted.crossed) =>
        win.drawn = win.ready

(* When all calls and events have come through, the sessions that are open    *)
(* in the backend are those the window takes for open, each with a tab, but   *)
(* for a terminal whose close passed a request for it, or failed; and none    *)
(* is taken for open that has ended.                                        *)
NoSessionForgotten ==
    Quiet =>
        /\ \A k \in Open \ (noted.raced \cup noted.failed) :
              k \in win.opened /\ k \in RangeOf(win.tabs[WorkspaceOf[k]])
        /\ win.opened \ (noted.raced \cup noted.failed) \subseteq Open

(* A launch script waits no longer than until its terminal is shown with a    *)
(* session, unless that could not be opened.                                *)
ScriptsWritten ==
    (Quiet /\ win.visible /\ win.pending # None) =>
        \/ win.pending.key # ActiveKey(win)
        \/ win.pending.key \in noted.raced \cup noted.failed
=============================================================================
