--------------------------- MODULE AccountSwitching ---------------------------
(***************************************************************************)
(* Signing in with another account: useAccountSwitching, with one set of      *)
(* refs for the logins of all workspaces; codex_login_core and               *)
(* codex_login_cancel_core, which keep for each workspace how its login can   *)
(* be cancelled; and the account each workspace shows (useThreadAccountInfo,  *)
(* useThreadRateLimits).  A login, and the account it leads to, is a number.  *)
(***************************************************************************)
EXTENDS Naturals, Sequences, FiniteSets

CONSTANTS
    Workspaces,
    None,
    MaxLogins,      \* bound: logins begun
    MaxSteps        \* bound: what else the user does

VARIABLES
    active,         \* activeWorkspaceId
    hook,           \* accountSwitching and the refs: canceled, loginId, loginWs
    login,          \* per login: its workspace and where its call is
    undo,           \* handleCancelSwitchAccount's calls: workspace, and whether the backend did it
    cancels,        \* codex_login_cancels: None, or the login that is starting, or has its id
    server,         \* the app-server: logins that are open, account of each workspace
    events,         \* what it says, not yet handled
    shown,          \* accountByWorkspace
    reads,          \* getAccountInfo under way: reads begun on one account count as one
    noted           \* history

vars == <<active, hook, login, undo, cancels, server, events, shown, reads, noted>>

Logins == 1..MaxLogins
Accounts == 0..MaxLogins
Quiet == [switching |-> FALSE, canceled |-> FALSE, loginId |-> None, loginWs |-> None]
Places == {"none", "starting", "told", "ok", "canceled", "failed", "opening", "undo", "undone", "done"}

TypeOK ==
    /\ active \in Workspaces
    /\ hook \in [switching : BOOLEAN, canceled : BOOLEAN, loginId : Logins \cup {None}, loginWs : Workspaces \cup {None}]
    /\ login \in [Logins -> [ws : Workspaces, at : Places]]
    /\ undo \subseteq [ws : Workspaces, did : BOOLEAN]
    /\ cancels \in [Workspaces -> [how : {"none", "start", "id"}, of : Accounts]]
    /\ server.open \subseteq Logins /\ server.account \in [Workspaces -> Accounts]
    /\ \A i \in DOMAIN events : events[i] \in [kind : {"completed", "updated"}, ws : Workspaces, of : Logins, success : BOOLEAN]
    /\ shown \in [Workspaces -> Accounts] /\ reads \subseteq [ws : Workspaces, of : Accounts]
    /\ noted.cancelled \cup noted.url \subseteq Logins /\ noted.steps \in 0..MaxSteps

----------------------------------------------------------------------------
(* The backend.  The entry of a workspace is replaced or removed: a login that  *)
(* was starting under it is told to stop, by its channel or because that was   *)
(* dropped.                                                                 *)
NoEntry == [how |-> "none", of |-> 0]
At(n, place) == [login EXCEPT ![n].at = place]
Told(ls, entry, but) ==
    IF entry.how = "start" /\ entry.of # but /\ ls[entry.of].at = "starting" THEN [ls EXCEPT ![entry.of].at = "told"] ELSE ls
Backend(ls, ws, entry, but) ==
    /\ login' = Told(ls, cancels[ws], but)
    /\ cancels' = [cancels EXCEPT ![ws] = entry]

(* The loop of codex_login_core sees that it was told, or account/login/start  *)
(* is answered first, or fails.                                             *)
LoginPolled(n) ==
    /\ login[n].at = "told" /\ Backend(At(n, "canceled"), login[n].ws, NoEntry, n)
    /\ UNCHANGED <<active, hook, undo, server, events, shown, reads, noted>>
StartAnswered(n) ==
    LET ws == login[n].ws
        older == {m \in server.open : login[m].ws = ws}
    IN  /\ login[n].at \in {"starting", "told"}
        /\ Backend(At(n, "ok"), ws, [how |-> "id", of |-> n], n)
        /\ server' = [server EXCEPT !.open = (@ \ older) \cup {n}]
        /\ UNCHANGED <<active, hook, undo, events, shown, reads, noted>>
StartFails(n) ==
    /\ login[n].at \in {"starting", "told"}
    /\ \E timeout \in BOOLEAN :
          IF timeout THEN Backend(At(n, "failed"), login[n].ws, NoEntry, n)
          ELSE login' = At(n, "failed") /\ UNCHANGED cancels
    /\ UNCHANGED <<active, hook, undo, server, events, shown, reads, noted>>

(* codex_login_cancel_core: the entry is taken; a login with an id is cancelled *)
(* at the app-server, which may say that it failed.                          *)
Cancels(ws, ls) ==
    LET entry == cancels[ws]
        ends == entry.how = "id" /\ entry.of \in server.open
    IN  /\ cancels' = [cancels EXCEPT ![ws] = NoEntry] /\ login' = Told(ls, entry, 0)
        /\ server' = IF ends THEN [server EXCEPT !.open = @ \ {entry.of}] ELSE server
        /\ \E says \in BOOLEAN :
              events' = IF ends /\ says
                        THEN Append(events, [kind |-> "completed", ws |-> ws, of |-> entry.of, success |-> FALSE]) ELSE events

(* The user signs in, or closes the page in the browser.                      *)
LoginCompletes(n) ==
    LET ws == login[n].ws
        ev(kind, ok) == [kind |-> kind, ws |-> ws, of |-> n, success |-> ok]
    IN  /\ n \in server.open /\ n \in noted.url
        /\ \E ok \in BOOLEAN :
              /\ server' = [open |-> server.open \ {n}, account |-> IF ok THEN [server.account EXCEPT ![ws] = n] ELSE server.account]
              /\ events' = events \o (IF ok THEN <<ev("completed", TRUE), ev("updated", TRUE)>> ELSE <<ev("completed", FALSE)>>)
        /\ UNCHANGED <<active, hook, login, undo, cancels, shown, reads, noted>>

----------------------------------------------------------------------------
(* useAccountSwitching.                                                     *)
Read(ws) == reads \cup {[ws |-> ws, of |-> server.account[ws]]}
Step == noted.steps < MaxSteps
Under == {n \in Logins : login[n].at \notin {"none", "done"}} \cup server.open

LookAt(ws) ==
    /\ Step /\ ws # active /\ active' = ws
    /\ hook' = IF hook.switching /\ hook.loginWs \notin {None, ws} THEN [hook EXCEPT !.switching = FALSE] ELSE hook
    /\ reads' = Read(ws)
    /\ noted' = [noted EXCEPT !.steps = @ + 1]
    /\ UNCHANGED <<login, undo, cancels, server, events, shown>>

HandleSwitchAccount ==
    /\ ~hook.switching
    /\ \E n \in Logins :
          /\ login[n].at = "none" /\ \A m \in 1..(n - 1) : login[m].at # "none"
          /\ Backend([login EXCEPT ![n] = [ws |-> active, at |-> "starting"]], active, [how |-> "start", of |-> n], n)
    /\ hook' = [Quiet EXCEPT !.switching = TRUE, !.loginWs = active]
    /\ noted' = [noted EXCEPT !.again = @ \/ Under # {} \/ undo # {} \/ events # <<>>]
    /\ UNCHANGED <<active, undo, server, events, shown, reads>>

LoginAnswered(n) ==
    /\ login[n].at = "ok" /\ hook' = [hook EXCEPT !.loginId = n]
    /\ login' = At(n, IF hook.canceled THEN "undo" ELSE "opening")
    /\ UNCHANGED <<active, undo, cancels, server, events, shown, reads, noted>>
OpenUrl(n) ==
    /\ login[n].at = "opening" /\ login' = At(n, "done")
    /\ noted' = [noted EXCEPT !.url = @ \cup {n}]
    /\ UNCHANGED <<active, hook, undo, cancels, server, events, shown, reads>>

(* The catch: quiet when cancelled; else a login that has its id is cancelled   *)
(* first.                                                                   *)
LoginFailed(n) ==
    /\ login[n].at \in {"canceled", "failed", "opening"}
    /\ IF hook.canceled \/ login[n].at = "canceled" \/ hook.loginId = None
       THEN hook' = Quiet /\ login' = At(n, "done")
       ELSE hook' = hook /\ login' = At(n, "undo")
    /\ UNCHANGED <<active, undo, cancels, server, events, shown, reads, noted>>
Undo(n) ==
    /\ login[n].at = "undo" /\ Cancels(login[n].ws, At(n, "undone"))
    /\ UNCHANGED <<active, hook, undo, shown, reads, noted>>
Undone(n) ==
    /\ login[n].at = "undone" /\ login' = At(n, "done") /\ hook' = Quiet
    /\ UNCHANGED <<active, undo, cancels, server, events, shown, reads, noted>>

CancelTarget == IF hook.loginWs # None THEN hook.loginWs ELSE active
HandleCancelSwitchAccount ==
    /\ Step /\ hook.switching
    /\ hook' = [hook EXCEPT !.canceled = TRUE]
    /\ undo' = undo \cup {[ws |-> CancelTarget, did |-> FALSE]}
    /\ noted' = [noted EXCEPT !.steps = @ + 1,
                              !.cancelled = @ \cup {n \in Logins : login[n].at \in {"starting", "told", "ok", "canceled", "failed"}}]
    /\ UNCHANGED <<active, login, cancels, server, events, shown, reads>>
CancelDone(c) ==
    /\ ~c.did /\ undo' = (undo \ {c}) \cup {[c EXCEPT !.did = TRUE]}
    /\ Cancels(c.ws, login)
    /\ UNCHANGED <<active, hook, shown, reads, noted>>
CancelAnswered(c) ==
    /\ c.did /\ undo' = undo \ {c}
    /\ hook' = [Quiet EXCEPT !.canceled = hook.canceled]
    /\ UNCHANGED <<active, login, cancels, server, events, shown, reads, noted>>

(* The listener: events of the workspace of the login, else of the active one.  *)
Handled(e) ==
    LET ws == CancelTarget
        other == hook.loginId \notin {None, e.of}
    IN  IF e.ws # ws THEN hook' = hook /\ reads' = reads
        ELSE IF e.kind = "completed"
        THEN IF other THEN hook' = hook /\ reads' = reads
             ELSE /\ hook' = Quiet
                  /\ reads' = IF e.success /\ ~hook.canceled THEN Read(ws) ELSE reads
        ELSE IF ~hook.switching \/ hook.canceled THEN hook' = hook /\ reads' = reads
        ELSE hook' = [hook EXCEPT !.switching = FALSE, !.canceled = FALSE] /\ reads' = Read(ws)
HandleEvent ==
    /\ events # <<>> /\ events' = Tail(events) /\ Handled(Head(events))
    /\ noted' = [noted EXCEPT !.early = @ \cup {n \in {Head(events).of} : login[n].at = "ok"},
                              !.both = @ \/ (Head(events).success /\ hook.canceled)]
    /\ UNCHANGED <<active, login, undo, cancels, server, shown>>

(* A read answers what the server had at some moment since it was begun.       *)
AccountRead(r) ==
    /\ \E of \in {r.of, server.account[r.ws]} :
          /\ shown' = [shown EXCEPT ![r.ws] = of]
          /\ noted' = [noted EXCEPT !.late = @ \/ of # server.account[r.ws]]
    /\ reads' \in {reads, reads \ {r}}
    /\ UNCHANGED <<active, hook, login, undo, cancels, server, events>>

Init ==
    /\ active \in Workspaces /\ hook = Quiet
    /\ login = [n \in Logins |-> [ws |-> active, at |-> "none"]]
    /\ undo = {} /\ cancels = [ws \in Workspaces |-> NoEntry]
    /\ server = [open |-> {}, account |-> [ws \in Workspaces |-> 0]]
    /\ events = <<>> /\ shown = [ws \in Workspaces |-> 0] /\ reads = {}
    /\ noted = [steps |-> 0, again |-> FALSE, cancelled |-> {}, url |-> {}, early |-> {}, late |-> FALSE, both |-> FALSE]

Next ==
    \/ \E ws \in Workspaces : LookAt(ws)
    \/ HandleSwitchAccount \/ HandleCancelSwitchAccount \/ HandleEvent
    \/ \E n \in Logins :
          \/ LoginPolled(n) \/ StartAnswered(n) \/ StartFails(n) \/ LoginCompletes(n)
          \/ LoginAnswered(n) \/ OpenUrl(n) \/ LoginFailed(n) \/ Undo(n) \/ Undone(n)
    \/ \E c \in undo : CancelDone(c) \/ CancelAnswered(c)
    \/ \E r \in reads : AccountRead(r)

Spec == Init /\ [][Next]_vars

----------------------------------------------------------------------------
AtRest == Under = {} /\ undo = {} /\ events = <<>> /\ reads = {}

(* When nothing is under way, nobody waits for a login any more, unless a login *)
(* was begun over another: its refs are then those of either.                *)
SwitchingEnds == AtRest /\ ~noted.again => ~hook.switching

(* And each workspace shows the account it is signed in with, unless a login    *)
(* was begun over another, or was finished while it was being cancelled, or a  *)
(* read was answered with what changed meanwhile.                            *)
AccountIsShown == AtRest /\ ~noted.again /\ ~noted.both /\ ~noted.late => \A ws \in Workspaces : shown[ws] = server.account[ws]

(* The browser is not opened for a login that was cancelled before, unless      *)
(* another was begun, or its end was told before its call was answered.       *)
CancelledIsNotOpened == noted.again \/ noted.cancelled \cap noted.url \subseteq noted.early
=============================================================================
