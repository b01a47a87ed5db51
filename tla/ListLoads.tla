------------------------------ MODULE ListLoads ------------------------------
(***************************************************************************)
(* The hooks that load a list of the active workspace and keep a second     *)
(* request from starting by a flag, inFlight: branches, skills, models,     *)
(* custom prompts, collaboration modes, files.                             *)
(*                                                                         *)
(* A behaviour follows one of them, `hook`.  An answer is taken whatever    *)
(* workspace is active when it comes; lastFetchedWorkspaceId and an effect  *)
(* that depends on the number of entries are what makes a hook ask again.   *)
(* Of a list only its workspace and its length are kept.                   *)
(***************************************************************************)
EXTENDS Naturals

CONSTANTS
    Workspaces, None,
    Lengths,     \* of a list
    MaxRequests, MaxSwitches   \* bounds on the requests and on what the user changes

VARIABLES
    hook,
    props,    \* active workspace, whether it is connected, whether the hook is enabled
    it,       \* the state and the refs of the hook, and its requests under way
    switches, \* how often the props changed
    blame,    \* a request failed; the props changed while one was under way
    same      \* history: the last answer was as long as the list before it

vars == <<hook, props, it, switches, blame, same>>

----------------------------------------------------------------------------
(* The hooks.  gate: whether it can be disabled; again: whether its effect  *)
(* depends on the length, and takes an empty list as not fetched; resets:   *)
(* when the list is emptied; flag: whether a request for one workspace      *)
(* keeps back one for another; fails: whether a failed request is taken as  *)
(* an answer without entries.                                              *)
Plain == [gate |-> FALSE, length |-> TRUE, emptyCounts |-> FALSE, resets |-> "never",
          flag |-> "any", fails |-> "kept"]

(* Asked for without a connection, the branches are emptied.               *)
Branches == [Plain EXCEPT !.resets = "asked"]
Skills == Plain

(* A failed model list is a list of the configured model, if there is one;  *)
(* another backend mode empties the list and asks again.                   *)
Models == [Plain EXCEPT !.resets = "mode", !.fails = "taken"]

(* The effect does not look at the number of prompts.                      *)
Prompts == [Plain EXCEPT !.length = FALSE, !.emptyCounts = TRUE]

Modes == [Plain EXCEPT !.gate = TRUE, !.emptyCounts = TRUE, !.resets = "unavailable"]

(* Another workspace or connection empties the files and forgets requests.  *)
Files == [Plain EXCEPT !.gate = TRUE, !.resets = "switch", !.flag = "own"]

Hooks == {Branches, Skills, Models, Prompts, Modes, Files}

Props == [workspace : Workspaces \cup {None}, connected : BOOLEAN, enabled : BOOLEAN]
Nothing == [of |-> None, length |-> 0]

State == [list : [of : Workspaces \cup {None}, length : Lengths],
          last : Workspaces \cup {None},     \* lastFetchedWorkspaceId
          flight : Workspaces \cup {None},   \* inFlight: the workspace asked for
          calls : SUBSET [id : 1..MaxRequests, workspace : Workspaces],
          requests : 0..MaxRequests]

TypeOK ==
    /\ hook \in Hooks /\ props \in Props /\ it \in State
    /\ hook.flag = "any" => \A c, d \in it.calls : c = d
    /\ switches \in 0..MaxSwitches
    /\ blame \subseteq {"failed", "switched"} /\ same \in BOOLEAN

----------------------------------------------------------------------------
Available(p) == p.workspace # None /\ p.connected /\ p.enabled

(* Mutant: every hook is kept back by a request for its own workspace only. *)
KeptBackByOwn(p, s) == s.flight = p.workspace

KeptBack(p, s) == IF hook.flag = "any" THEN s.flight # None ELSE s.flight = p.workspace

(* refresh, of the render with the props p.                                *)
Refreshed(p, s) ==
    IF ~Available(p) \/ KeptBack(p, s) \/ s.requests = MaxRequests THEN s
    ELSE [s EXCEPT !.flight = p.workspace, !.requests = @ + 1,
             !.calls = @ \cup {[id |-> s.requests + 1, workspace |-> p.workspace]}]

(* The effect that asks for the list if it is not the workspace's.         *)
Effect(p, s) ==
    IF hook.resets = "unavailable" /\ ~Available(p)
    THEN [s EXCEPT !.list = Nothing, !.last = None]
    ELSE IF s.last = p.workspace /\ (s.list.length > 0 \/ hook.emptyCounts) THEN s
    ELSE Refreshed(p, s)

(* What is emptied before, when the props become p.                        *)
Emptied(p) ==
    LET moved == p.workspace # props.workspace
        empty == [it EXCEPT !.list = Nothing, !.last = None]
    IN  CASE hook.resets = "switch" /\ (moved \/ p.connected # props.connected) ->
                [empty EXCEPT !.flight = None]
          [] hook.resets = "unavailable" /\ moved -> empty
          [] OTHER -> it

Blamed == IF it.calls # {} THEN blame \cup {"switched"} ELSE blame

(* Another workspace, a connection made or lost, the hook turned on or off. *)
Switch(p) ==
    /\ p # props /\ switches < MaxSwitches /\ switches' = switches + 1
    /\ hook.gate \/ p.enabled
    /\ p.workspace = None => ~p.connected
    /\ props' = p /\ it' = Effect(p, Emptied(p)) /\ blame' = Blamed
    /\ UNCHANGED <<hook, same>>

(* The backend mode changes.                                               *)
ChangeMode ==
    /\ hook.resets = "mode" /\ switches < MaxSwitches /\ switches' = switches + 1
    /\ it' = Effect(props, [it EXCEPT !.list = Nothing, !.last = None])
    /\ blame' = Blamed
    /\ UNCHANGED <<hook, props, same>>

(* An event of the server, an interval, the end of a branch or prompt       *)
(* command.                                                                *)
Refresh ==
    /\ it' = Refreshed(props, IF hook.resets = "asked" /\ ~Available(props)
                              THEN [it EXCEPT !.list = Nothing] ELSE it)
    /\ it' # it
    /\ UNCHANGED <<hook, props, switches, blame, same>>

(* The selection of a model makes another refreshModels, and the effect run.*)
Select ==
    /\ hook.resets = "mode" /\ it' = Effect(props, it) /\ it' # it
    /\ UNCHANGED <<hook, props, switches, blame, same>>

(* Mutant: finally does not take the flag back.                            *)
ReleasedNot(c) == [it EXCEPT !.calls = @ \ {c}]

(* The request ends, and finally takes the flag back.                      *)
Released(c) ==
    [it EXCEPT !.calls = @ \ {c},
        !.flight = IF hook.flag = "any" \/ @ = c.workspace THEN None ELSE @]

Answered(c, n) ==
    /\ c \in it.calls
    /\ LET s == [Released(c) EXCEPT !.list = [of |-> c.workspace, length |-> n],
                                    !.last = c.workspace]
       IN  it' = IF hook.length /\ n # it.list.length THEN Effect(props, s) ELSE s
    /\ same' = (n = it.list.length)
    /\ blame' = IF c.workspace = props.workspace /\ it.calls = {c} THEN {} ELSE blame
    /\ UNCHANGED <<hook, props, switches>>

Failed(c) ==
    /\ c \in it.calls /\ hook.fails = "kept"
    /\ it' = Released(c) /\ blame' = blame \cup {"failed"}
    /\ UNCHANGED <<hook, props, switches, same>>

----------------------------------------------------------------------------
Init ==
    /\ hook \in Hooks
    /\ props = [workspace |-> None, connected |-> FALSE, enabled |-> TRUE]
    /\ it = [list |-> Nothing, last |-> None, flight |-> None, calls |-> {}, requests |-> 0]
    /\ switches = 0 /\ blame = {} /\ same = FALSE

Next ==
    \/ \E p \in Props : Switch(p)
    \/ ChangeMode \/ Refresh \/ Select
    \/ \E c \in it.calls : Failed(c) \/ \E n \in Lengths : Answered(c, n)

Spec == Init /\ [][Next]_vars

----------------------------------------------------------------------------
(* With no request under way the list shown is that of the active, connected*)
(* workspace, unless a request failed (nothing asks again then) or the      *)
(* workspace changed while one was under way; and even then a hook whose    *)
(* effect looks at the length has asked again, unless the late answer was   *)
(* as long as what it replaced.                                            *)
ListIsOfItsWorkspace ==
    it.calls = {} /\ Available(props) /\ "failed" \notin blame /\ it.requests < MaxRequests =>
        \/ it.list.of = props.workspace
        \/ "switched" \in blame /\ (hook.length => same)

(* What every step keeps: the flag is up for a request under way, the list  *)
(* is that of the workspace fetched last unless branches were asked for     *)
(* without a connection, and a request for another workspace than the       *)
(* active one was there when that changed.                                 *)
IInv ==
    /\ hook \in Hooks /\ props \in Props /\ it \in State /\ same \in BOOLEAN
    /\ hook.flag = "any" => \A c \in it.calls : it.flight = c.workspace /\ it.calls = {c}
    /\ it.flight # None => \E c \in it.calls : c.workspace = it.flight
    /\ it.list.of = it.last \/ (it.list.length = 0 /\ ~hook.emptyCounts)
    /\ \A c \in it.calls : c.workspace # props.workspace => "switched" \in blame
    /\ ListIsOfItsWorkspace
=============================================================================
