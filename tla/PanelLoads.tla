----------------------------- MODULE PanelLoads -----------------------------
(***************************************************************************)
(* The hooks that load what a panel shows and tell a late answer by the     *)
(* number of its request: git status, diffs, log, commit diffs, issues,     *)
(* pull requests with their diffs and comments, the remote, the scan for    *)
(* repositories, the local usage and the settings' default models.          *)
(*                                                                         *)
(* A behaviour follows one of them, `hook`.  They share one shape, refresh, *)
(* answer, an effect for new props, and differ as their records below say.  *)
(* What is shown is told apart by the request that brought it.  Row counts, *)
(* branch names and the order of models are left out.                      *)
(***************************************************************************)
EXTENDS Naturals

CONSTANTS
    Workspaces, None,
    Parts,       \* what is asked of it: a commit, a pull request, a way to diff
    MaxRequests  \* bound on the requests made

VARIABLES
    hook,
    key,      \* the props: active workspace and part, and the refs that follow them
    enabled,  \* the panel is open
    ref,      \* requestIdRef
    view,     \* the state: the request shown (0: nothing), its key, isLoading, error
    cache,    \* key |-> the request cached for it, 0 if none
    calls,    \* requests under way
    stale     \* history: a caller has used the refresh of an earlier render

vars == <<hook, key, enabled, ref, view, cache, calls, stale>>

----------------------------------------------------------------------------
(* The hooks.  part: what else than the workspace the request names, if it  *)
(* does; gate: whether an enabled prop opens and closes it; loads: whether  *)
(* it shows that it loads; switch: what another workspace or part leaves    *)
(* shown; guard: what an answer is held against besides its number; fails:  *)
(* what a failure leaves shown; late: whether refresh is called after an    *)
(* await by a caller of an earlier render.                                 *)
Plain == [part |-> "none", gate |-> TRUE, loads |-> TRUE, switch |-> "clears",
          guard |-> "key", fails |-> "clears", late |-> FALSE]

(* Without an enabled prop; keeps the status of every workspace, shows it   *)
(* again at once, and after a failure with the error beside it.            *)
GitStatus == [Plain EXCEPT !.gate = FALSE, !.loads = FALSE, !.switch = "cached",
                           !.fails = "cached", !.late = TRUE]

(* As asked with or without white space changes; keeps what it loaded.     *)
GitDiffs == [Plain EXCEPT !.part = "always", !.switch = "cached", !.late = TRUE]

GitLog == [Plain EXCEPT !.late = TRUE]

(* Of a commit, of a pull request, when one is selected.                   *)
CommitDiffs == [Plain EXCEPT !.part = "selected"]
PullRequestDiffs == [Plain EXCEPT !.part = "selected"]
PullRequestComments == [Plain EXCEPT !.part = "selected"]

Issues == Plain
PullRequests == Plain

GitRemote == [Plain EXCEPT !.gate = FALSE, !.loads = FALSE]

(* Runs only when asked.                                                   *)
RepoScan == [Plain EXCEPT !.gate = FALSE, !.switch = "asked"]

(* Goes on showing the usage of the workspace before until the answer; an   *)
(* answer counts while the panel is open, whichever workspace it is of.    *)
LocalUsage == [Plain EXCEPT !.switch = "keeps", !.guard = "enabled", !.fails = "keeps"]

(* Connects the first project if need be, then asks for its models.        *)
DefaultModels == [Plain EXCEPT !.gate = FALSE, !.switch = "keeps", !.guard = "connect"]

Hooks == {GitStatus, GitDiffs, GitLog, CommitDiffs, Issues, PullRequests, PullRequestDiffs,
          PullRequestComments, GitRemote, RepoScan, LocalUsage, DefaultModels}

Keys == (Workspaces \cup {None}) \X (Parts \cup {None})
Complete(k) ==
    /\ k[1] # None \/ hook.guard = "enabled"
    /\ hook.part = "selected" => k[2] # None

Empty == [of |-> 0, key |-> <<None, None>>, loading |-> FALSE, error |-> FALSE]

TypeOK ==
    /\ hook \in Hooks /\ key \in Keys /\ enabled \in BOOLEAN /\ ref \in Nat
    /\ view \in [of : Nat, key : Keys, loading : BOOLEAN, error : BOOLEAN]
    /\ cache \in [Keys -> Nat] /\ stale \in BOOLEAN
    /\ calls \subseteq [id : Nat, key : Keys, step : {"connect", "read"}]

----------------------------------------------------------------------------
(* refresh, as the render with the props k made it.  It writes the whole    *)
(* state: r is the request number, v the view it starts from.               *)
Refreshed(k, r, v, step) ==
    IF Complete(k)
    THEN /\ ref' = r + 1
         /\ calls' = calls \cup {[id |-> r + 1, key |-> k, step |-> step]}
         /\ view' = IF hook.loads THEN [v EXCEPT !.loading = TRUE, !.error = FALSE]
                    ELSE v
    ELSE /\ ref' = IF hook.guard = "connect" THEN r + 1 ELSE r
         /\ view' = Empty /\ UNCHANGED calls

(* The first project may have to be connected before its models are read.  *)
Steps == IF hook.guard = "connect" THEN {"connect", "read"} ELSE {"read"}

(* The panel's interval, its button, a change of the files' numbers.       *)
Refresh ==
    /\ ref < MaxRequests /\ (enabled \/ hook.late)
    /\ \E step \in Steps : Refreshed(key, ref, view, step)
    /\ UNCHANGED <<hook, key, enabled, cache, stale>>

RefreshLate(k) ==
    /\ ref < MaxRequests /\ hook.late /\ Complete(k) /\ k # key
    /\ Refreshed(k, ref, view, "read") /\ stale' = TRUE
    /\ UNCHANGED <<hook, key, enabled, cache>>

(* Mutant: the panel keeps what it shows.                                  *)
OnSwitchKept(k) == view

(* What the panel shows at once when its props become k.                   *)
OnSwitch(k) ==
    CASE hook.switch = "keeps" -> view
      [] hook.switch = "cached" /\ k[1] # None /\ cache[k] # 0 ->
            [Empty EXCEPT !.of = cache[k], !.key = k]
      [] OTHER -> Empty

(* Another workspace, or another part of the same: the effects invalidate   *)
(* the requests under way, reset the state and refresh.                     *)
Switch(k) ==
    /\ ref + 1 < MaxRequests /\ k # key
    /\ hook.part = "none" => k[2] = key[2]
    /\ hook.part = "always" => k[2] # None
    /\ key' = k
    /\ LET r == IF hook.switch = "keeps" THEN ref ELSE ref + 1
       IN  IF enabled /\ hook.switch # "asked"
           THEN \E step \in Steps : Refreshed(k, r, OnSwitch(k), step)
           ELSE ref' = r /\ view' = OnSwitch(k) /\ UNCHANGED calls
    /\ UNCHANGED <<hook, enabled, cache, stale>>

(* The panel opens or closes.                                              *)
Toggle ==
    /\ hook.gate /\ ref < MaxRequests /\ enabled' = ~enabled
    /\ IF ~enabled
       THEN Refreshed(key, ref, view, "read")
       ELSE /\ view' = [view EXCEPT !.loading = @ /\ hook.guard # "enabled"]
            /\ UNCHANGED <<ref, calls>>
    /\ UNCHANGED <<hook, key, cache, stale>>

(* Mutant: the number of the request is not looked at.                     *)
CurrentByKey(c) == c.key = key

(* An answer counts if no later request was made and it is of the present   *)
(* props.                                                                  *)
Current(c) ==
    /\ c.id = ref
    /\ hook.guard = "key" => c.key = key
    /\ hook.guard = "enabled" => enabled

Connected(c) ==
    /\ c \in calls /\ c.step = "connect"
    /\ calls' = (calls \ {c}) \cup {d \in {[c EXCEPT !.step = "read"]} : Current(c)}
    /\ UNCHANGED <<hook, key, enabled, ref, view, cache, stale>>

Answered(c) ==
    /\ c \in calls /\ c.step = "read"
    /\ calls' = calls \ {c}
    /\ IF Current(c)
       THEN /\ view' = [of |-> c.id, key |-> c.key, loading |-> FALSE, error |-> FALSE]
            /\ cache' = IF hook.switch = "cached" THEN [cache EXCEPT ![c.key] = c.id] ELSE cache
       ELSE UNCHANGED <<view, cache>>
    /\ UNCHANGED <<hook, key, enabled, ref, stale>>

(* A failure leaves git status with what is cached, the usage with what it  *)
(* shows, every other panel with nothing.                                  *)
OnFailure(c) ==
    CASE hook.fails = "keeps" -> [view EXCEPT !.loading = FALSE, !.error = TRUE]
      [] hook.fails = "cached" /\ cache[c.key] # 0 ->
            [Empty EXCEPT !.of = cache[c.key], !.key = c.key, !.error = TRUE]
      [] OTHER -> [Empty EXCEPT !.error = TRUE]

Failed(c) ==
    /\ c \in calls /\ c.step = "read"
    /\ calls' = calls \ {c}
    /\ view' = IF Current(c) THEN OnFailure(c) ELSE view
    /\ UNCHANGED <<hook, key, enabled, ref, cache, stale>>

(* clear of the scan; a scan under way goes on.                            *)
Clear ==
    /\ hook.switch = "asked"
    /\ view' = [view EXCEPT !.of = 0, !.key = <<None, None>>, !.error = FALSE]
    /\ view' # view
    /\ UNCHANGED <<hook, key, enabled, ref, cache, calls, stale>>

----------------------------------------------------------------------------
Init ==
    /\ hook \in Hooks /\ key = <<None, IF hook.part = "always" THEN CHOOSE p \in Parts : TRUE
                                       ELSE None>>
    /\ enabled = ~hook.gate
    /\ ref = 0 /\ view = Empty /\ cache = [k \in Keys |-> 0] /\ calls = {} /\ stale = FALSE

Next ==
    \/ Refresh \/ Toggle \/ Clear
    \/ \E k \in Keys : Switch(k) \/ RefreshLate(k)
    \/ \E c \in calls : Connected(c) \/ Answered(c) \/ Failed(c)

Spec == Init /\ [][Next]_vars

----------------------------------------------------------------------------
(* A panel shows what belongs to the workspace and the part selected, never *)
(* what belongs to those it came from; and while it says that it loads, a   *)
(* request whose answer will end that is under way.  A caller that uses the *)
(* refresh of an earlier render breaks the second part: it says loading and *)
(* its answer is dropped.                                                  *)
PanelIsOfItsProps ==
    /\ view.of # 0 /\ hook.guard = "key" => view.key = key
    /\ view.loading /\ ~stale => \E c \in calls : c.id = ref /\ Current(c)

(* Of two answers for the same props the later request's stays, in whatever *)
(* order they arrive: an older one never replaces it.                       *)
NewestStays == key' = key /\ view.of # 0 /\ view'.of # 0 => view'.of >= view.of
NewestAnswerStays == [][NewestStays]_vars

(* What every step keeps: besides the first property, no request shown or   *)
(* cached is later than the last one made, and git status shows what is     *)
(* cached for the key it shows.                                            *)
IInv ==
    /\ hook \in Hooks /\ key \in Keys /\ enabled \in BOOLEAN /\ stale \in BOOLEAN
    /\ ref \in Nat /\ cache \in [Keys -> Nat]
    /\ view \in [of : Nat, key : Keys, loading : BOOLEAN, error : BOOLEAN]
    /\ calls \subseteq [id : Nat, key : Keys, step : {"connect", "read"}]
    /\ PanelIsOfItsProps
    /\ ~hook.loads => ~view.loading
    /\ view.of <= ref /\ \A k \in Keys : cache[k] <= ref
    /\ hook.fails = "cached" /\ view.of # 0 => view.of = cache[view.key]
=============================================================================
