-------------------------- MODULE WorkspaceSessions --------------------------
(***************************************************************************)
(* The map from workspaces to sessions in the backend, and the processes    *)
(* behind the sessions: connect, add, remove, runtime arguments             *)
(* (shared/workspaces_core), the replacement of a Claude session that died  *)
(* (codex/mod.rs) and the change of the backend's mode (settings/mod.rs).   *)
(*                                                                         *)
(* One codex app-server serves all workspaces.  A Claude session is bound   *)
(* to the folder of one, and its `child` is a process of no use that exits  *)
(* at once: the CLI behind it is neither asked nor killed.  Connecting,     *)
(* adding and new arguments hold the spawn lock; removing, replacing and    *)
(* the change of mode do not.                                              *)
(***************************************************************************)
EXTENDS Naturals, Sequences, FiniteSets

CONSTANTS
    Workspaces,     \* ids, of those there are and of those that may be added
    ParentOf,       \* of a worktree its main workspace
    None,
    Known,          \* the workspaces at the start
    Args,           \* arguments a session may be started with
    Default,        \* those of the settings
    MaxCalls,       \* bound: commands
    MaxOpen,        \* bound: commands under way at once
    MaxProcs        \* bound: processes

VARIABLES
    mode,           \* backend_mode of the settings
    entries,        \* the workspaces' entries
    fresh,          \* ids not given yet
    sessions,       \* the session of each workspace, 0: none
    procs,          \* of each session: its process
    lock,           \* the call that holds the spawn lock, 0: none
    calls,          \* commands under way
    made,           \* commands there were
    crossed         \* history: kinds of commands that overlapped, and mishaps there were

vars == <<mode, entries, fresh, sessions, procs, lock, calls, made, crossed>>

Modes == {"codex", "claude"}
Kinds == {"connect", "add", "args", "remove", "respawn", "settings"}
Steps == {"lock", "own", "probe", "mode", "share", "try", "spawn", "write", "insert", "current",
          "replace", "kill", "take", "stop", "git", "forget", "drop", "look", "drain"}
Sessions == 0..MaxProcs
Call == [n : 1..MaxCalls, do : Kinds, of : Workspaces \cup {None}, at : Steps, s : Sessions,
         old : Sessions, new : BOOLEAN, args : Args, now : Workspaces \cup {None}, todo : SUBSET Workspaces, gone : SUBSET Workspaces]
Process == [kind : Modes, of : Workspaces, args : Args, alive : BOOLEAN, child : BOOLEAN, killed : BOOLEAN]

TypeOK ==
    /\ mode \in Modes /\ entries \subseteq Workspaces /\ fresh \subseteq Workspaces \ entries
    /\ procs \in Seq(Process) /\ Len(procs) <= MaxProcs
    /\ sessions \in [Workspaces -> 0..Len(procs)]
    /\ made \in 0..MaxCalls /\ lock \in 0..made
    /\ calls \subseteq Call
    /\ lock # 0 => \E c \in calls : c.n = lock

----------------------------------------------------------------------------
Listed == {sessions[w] : w \in Workspaces} \ {0}
Without(s) == [w \in Workspaces |-> IF sessions[w] = s THEN 0 ELSE sessions[w]]
IsWorktree(w) == ParentOf[w] # None
Children(w) == {v \in entries : ParentOf[v] = w}

(* kill_child_process_tree, of the child the session has.                   *)
Kill(ps, s) ==
    [ps EXCEPT ![s].child = FALSE, ![s].alive = @ /\ ps[s].kind = "claude", ![s].killed = TRUE]

(* Adding and new arguments do not ask whose session it is they hand on.    *)
Lent(s) == {{"lent"} : k \in {procs[s].kind} \cap {"claude"}}

Goes(c, step) == calls' = (calls \ {c}) \cup {[c EXCEPT !.at = step]}
GoesWith(c, step, s) == calls' = (calls \ {c}) \cup {[c EXCEPT !.at = step, !.s = s, !.new = FALSE]}
(* A command returns, and its guard with it.                                *)
Returns(c) == calls' = calls \ {c} /\ lock' = IF lock = c.n THEN 0 ELSE lock
At(c, step) == c \in calls /\ c.at = step

Begin(kind, w, step, args, todo) ==
    /\ made < MaxCalls /\ Cardinality(calls) < MaxOpen /\ made' = made + 1
    /\ calls' = calls \cup {[n |-> made', do |-> kind, of |-> w, at |-> step, s |-> 0, old |-> 0, new |-> FALSE,
                             args |-> args, now |-> None, todo |-> todo, gone |-> {}]}
    /\ crossed' = crossed \cup {{kind, c.do} : c \in calls}

(* connect_workspace_core                                                   *)
Connect(w) ==
    /\ w \in entries /\ Begin("connect", w, "lock", Default, {})
    /\ UNCHANGED <<mode, entries, fresh, sessions, procs, lock>>
(* add_workspace_core, add_clone_core, add_worktree_core: an id of its own. *)
Add(w) ==
    /\ w \in fresh /\ fresh' = fresh \ {w} /\ (IsWorktree(w) => ParentOf[w] \in entries)
    /\ Begin("add", w, "lock", Default, {})
    /\ UNCHANGED <<mode, entries, sessions, procs, lock>>
(* set_workspace_runtime_codex_args_core                                    *)
SetArgs(w, a) ==
    /\ w \in entries /\ Begin("args", w, "lock", a, {})
    /\ UNCHANGED <<mode, entries, fresh, sessions, procs, lock>>
(* remove_workspace_core and remove_worktree_core                           *)
Remove(w) ==
    /\ w \in entries /\ (IsWorktree(w) => ParentOf[w] \in entries)
    /\ Begin("remove", w, "take", Default, Children(w) \cup {w})
    /\ UNCHANGED <<mode, entries, fresh, sessions, procs, lock>>
(* A message for a Claude session whose CLI has exited.                     *)
Respawn(w) ==
    /\ sessions[w] # 0 /\ procs[sessions[w]].kind = "claude" /\ ~procs[sessions[w]].alive
    /\ Begin("respawn", w, "drop", Default, {})
    /\ UNCHANGED <<mode, entries, fresh, sessions, procs, lock>>
(* update_app_settings, with another mode.                                  *)
SetMode ==
    /\ mode' = IF mode = "codex" THEN "claude" ELSE "codex"
    /\ Begin("settings", None, "drain", Default, {})
    /\ UNCHANGED <<entries, fresh, sessions, procs, lock>>

----------------------------------------------------------------------------
Acquire(c) ==
    /\ At(c, "lock") /\ lock = 0 /\ lock' = c.n
    /\ Goes(c, CASE c.do = "connect" -> "own" [] c.do = "add" -> "share" [] OTHER -> "current")
    /\ UNCHANGED <<mode, entries, fresh, sessions, procs, made, crossed>>

(* The session of the workspace itself, if its child lives.                 *)
Own(c) ==
    /\ At(c, "own")
    /\ IF sessions[c.of] = 0 THEN Goes(c, "mode") ELSE GoesWith(c, "probe", sessions[c.of])
    /\ UNCHANGED <<mode, entries, fresh, sessions, procs, lock, made, crossed>>
Probe(c) ==
    /\ At(c, "probe")
    /\ IF procs[c.s].child THEN Returns(c) /\ UNCHANGED sessions
       ELSE Goes(c, "mode") /\ sessions' = Without(c.s) /\ UNCHANGED lock
    /\ UNCHANGED <<mode, entries, fresh, procs, made, crossed>>

(* "In Claude mode each workspace needs its own session."                   *)
AskMode(c) ==
    /\ At(c, "mode") /\ Goes(c, IF mode = "claude" THEN "spawn" ELSE "share")
    /\ UNCHANGED <<mode, entries, fresh, sessions, procs, lock, made, crossed>>

(* take_live_shared_session: any session there is, until one lives.         *)
Take(c) ==
    /\ At(c, "share")
    /\ IF Listed = {} THEN Goes(c, "spawn") ELSE \E s \in Listed : GoesWith(c, "try", s)
    /\ UNCHANGED <<mode, entries, fresh, sessions, procs, lock, made, crossed>>
Try(c) ==
    /\ At(c, "try")
    /\ IF procs[c.s].child
       THEN /\ Goes(c, IF c.do = "add" THEN "write" ELSE "insert") /\ UNCHANGED sessions
            /\ crossed' = crossed \cup IF c.do = "add" THEN Lent(c.s) ELSE {}
       ELSE Goes(c, "share") /\ sessions' = Without(c.s) /\ UNCHANGED crossed
    /\ UNCHANGED <<mode, entries, fresh, procs, lock, made>>

(* spawn_workspace_session, which looks at the mode again, and              *)
(* spawn_claude_session; either may fail.                                   *)
KindSpawned(c) == IF c.do = "respawn" THEN "claude" ELSE mode
Spawn(c) ==
    /\ At(c, "spawn")
    /\ \/ Returns(c) /\ UNCHANGED procs
       \/ /\ Len(procs) < MaxProcs
          /\ procs' = Append(procs, [kind |-> KindSpawned(c), of |-> c.of, alive |-> TRUE, child |-> TRUE,
                                     args |-> IF KindSpawned(c) = "codex" THEN c.args ELSE Default,
                                     killed |-> FALSE])
          /\ calls' = (calls \ {c}) \cup
                {[c EXCEPT !.at = CASE c.do = "add" -> "write" [] c.do = "args" -> "replace" [] OTHER -> "insert",
                           !.new = TRUE, !.s = Len(procs')]}
          /\ UNCHANGED lock
    /\ UNCHANGED <<mode, entries, fresh, sessions, made, crossed>>

(* The entry is written to workspaces.json. When that fails, a worktree's   *)
(* stays, and so does the process that was spawned for it.                  *)
Write(c) ==
    /\ At(c, "write")
    /\ \/ entries' = entries \cup {c.of} /\ Goes(c, "insert") /\ UNCHANGED <<procs, lock, crossed>>
       \/ /\ Returns(c)
          /\ IF IsWorktree(c.of)
             THEN entries' = entries \cup {c.of} /\ UNCHANGED procs /\ crossed' = crossed \cup {{"unsaved"}}
             ELSE procs' = (IF c.new THEN Kill(procs, c.s) ELSE procs) /\ UNCHANGED <<entries, crossed>>
    /\ UNCHANGED <<mode, fresh, sessions, made>>
Insert(c) ==
    /\ At(c, "insert") /\ Returns(c)
    /\ sessions' = [sessions EXCEPT ![c.of] = c.s]
    /\ UNCHANGED <<mode, entries, fresh, procs, made, crossed>>

(* New arguments: some session stands for all, and all are replaced.        *)
Current(c) ==
    /\ At(c, "current")
    /\ IF sessions[c.of] = 0 THEN Returns(c)
       ELSE \E s \in Listed : IF procs[s].args = c.args THEN Returns(c)
                              ELSE calls' = (calls \ {c}) \cup {[c EXCEPT !.at = "spawn", !.old = s]} /\ UNCHANGED lock
    /\ UNCHANGED <<mode, entries, fresh, sessions, procs, made, crossed>>
Replace(c) ==
    /\ At(c, "replace") /\ Goes(c, "kill")
    /\ sessions' = [w \in Workspaces |-> IF sessions[w] # 0 THEN c.s ELSE 0]
    /\ crossed' = crossed \cup Lent(c.s)
    /\ UNCHANGED <<mode, entries, fresh, procs, lock, made>>
KillOld(c) ==
    /\ At(c, "kill") /\ Returns(c) /\ procs' = Kill(procs, c.old)
    /\ UNCHANGED <<mode, entries, fresh, sessions, made, crossed>>

(* kill_session_by_id, of the worktrees of a workspace and then of itself,  *)
(* which stays if one of them could not be taken away.                      *)
Nexts(c) == IF c.todo = {c.of} THEN {c.of} ELSE c.todo \ {c.of}
TakeOff(c) ==
    /\ At(c, "take")
    /\ \E w \in Nexts(c) :
        LET s == sessions[w]
            step == IF s = 0 \/ \E v \in Workspaces \ {w} : sessions[v] = s THEN "git" ELSE "stop"
        IN  /\ sessions' = [sessions EXCEPT ![w] = 0]
            /\ calls' = (calls \ {c}) \cup {[c EXCEPT !.at = step, !.s = s, !.now = w, !.todo = @ \ {w}]}
    /\ UNCHANGED <<mode, entries, fresh, procs, lock, made, crossed>>
Stop(c) ==
    /\ At(c, "stop") /\ Goes(c, "git") /\ procs' = Kill(procs, c.s)
    /\ UNCHANGED <<mode, entries, fresh, sessions, lock, made, crossed>>
(* git worktree remove, which may fail; of a main workspace nothing is      *)
(* removed.                                                                *)
Then(c, todo, gone) ==
    calls' = (calls \ {c}) \cup {[c EXCEPT !.at = IF todo = {} THEN "forget" ELSE "take",
                                          !.todo = todo, !.gone = gone]}
Git(c) ==
    /\ At(c, "git")
    /\ \/ Then(c, c.todo, c.gone \cup {c.now}) /\ UNCHANGED lock
       \/ IsWorktree(c.now) /\ IF c.now = c.of THEN Returns(c)
                               ELSE Then(c, c.todo \ {c.of}, c.gone) /\ UNCHANGED lock
    /\ UNCHANGED <<mode, entries, fresh, sessions, procs, made, crossed>>
Forget(c) ==
    /\ At(c, "forget") /\ Returns(c) /\ entries' = entries \ c.gone
    /\ UNCHANGED <<mode, fresh, sessions, procs, made, crossed>>

(* respawn_claude_session                                                   *)
Drop(c) ==
    /\ At(c, "drop") /\ Goes(c, "look") /\ sessions' = [sessions EXCEPT ![c.of] = 0]
    /\ UNCHANGED <<mode, entries, fresh, procs, lock, made, crossed>>
Look(c) ==
    /\ At(c, "look") /\ IF c.of \in entries THEN Goes(c, "spawn") /\ UNCHANGED lock ELSE Returns(c)
    /\ UNCHANGED <<mode, entries, fresh, sessions, procs, made, crossed>>

(* update_app_settings kills what there is, with the map locked.            *)
Drain(c) ==
    /\ At(c, "drain") /\ Returns(c)
    /\ procs' = [s \in DOMAIN procs |-> IF s \in Listed THEN Kill(procs, s)[s] ELSE procs[s]]
    /\ sessions' = [w \in Workspaces |-> 0]
    /\ UNCHANGED <<mode, entries, fresh, made, crossed>>

(* A process exits; the one a Claude session has for a child always does.   *)
Exit(s) ==
    /\ procs[s].alive
    /\ procs' = [procs EXCEPT ![s].alive = FALSE, ![s].child = @ /\ procs[s].kind = "claude"]
    /\ UNCHANGED <<mode, entries, fresh, sessions, lock, calls, made, crossed>>
ChildExit(s) ==
    /\ procs[s].kind = "claude" /\ procs[s].child
    /\ procs' = [procs EXCEPT ![s].child = FALSE]
    /\ UNCHANGED <<mode, entries, fresh, sessions, lock, calls, made, crossed>>

----------------------------------------------------------------------------
Init ==
    /\ mode \in Modes /\ entries = Known /\ fresh = Workspaces \ Known
    /\ sessions = [w \in Workspaces |-> 0] /\ procs = <<>> /\ lock = 0
    /\ calls = {} /\ made = 0 /\ crossed = {}

Next ==
    \/ \E w \in Workspaces : Connect(w) \/ Add(w) \/ Remove(w) \/ Respawn(w) \/ \E a \in Args : SetArgs(w, a)
    \/ SetMode
    \/ \E c \in calls :
        \/ Acquire(c) \/ Own(c) \/ Probe(c) \/ AskMode(c) \/ Take(c) \/ Try(c) \/ Spawn(c)
        \/ Write(c) \/ Insert(c) \/ Current(c) \/ Replace(c) \/ KillOld(c)
        \/ TakeOff(c) \/ Stop(c) \/ Git(c) \/ Forget(c) \/ Drop(c) \/ Look(c) \/ Drain(c)
    \/ \E s \in DOMAIN procs : Exit(s) \/ ChildExit(s)

Spec == Init /\ [][Next]_vars

----------------------------------------------------------------------------
AtRest == calls = {}
Crossed(kind, kinds) == \E k \in kinds : {kind, k} \in crossed
Switched == Crossed("settings", {"connect", "add", "args", "respawn"})
Runs(s) == procs[s].alive

(* One app-server at most serves the workspaces that are connected.         *)
OneServer ==
    AtRest => \A s, r \in Listed :
        (procs[s].kind = "codex" /\ procs[r].kind = "codex" /\ Runs(s) /\ Runs(r)) => s = r

(* An app-server that runs is the session of some workspace: nobody else    *)
(* would ever kill it.                                                     *)
NoStrayServer ==
    AtRest => \/ {"unsaved"} \in crossed \/ Switched \/ Crossed("args", {"remove"})
              \/ \A s \in DOMAIN procs : (procs[s].kind = "codex" /\ Runs(s)) => s \in Listed

(* A connected workspace has an entry.                                      *)
ListedIsKnown ==
    AtRest => \/ Crossed("remove", {"connect", "add", "respawn"})
              \/ \A w \in Workspaces : sessions[w] # 0 => w \in entries

(* A session that runs is of the backend the settings ask for.              *)
OfTheMode ==
    AtRest => \/ Switched
              \/ \A s \in Listed : Runs(s) => procs[s].kind = mode

(* A Claude session serves the workspace it was spawned in the folder of.   *)
OwnFolder ==
    AtRest => \/ {"lent"} \in crossed \/ Switched
              \/ \A w \in Workspaces :
                    sessions[w] # 0 /\ procs[sessions[w]].kind = "claude" => procs[sessions[w]].of = w

(* No workspace is left connected to an app-server the program has killed.  *)
NotKilled ==
    AtRest => \/ Crossed("settings", {"connect", "add"}) \/ Crossed("remove", {"connect", "add"})
              \/ \A s \in Listed : procs[s].kind = "codex" => ~procs[s].killed
=============================================================================
