---------------------------- MODULE WorkspaceRuns ----------------------------
(***************************************************************************)
(* The runs started from the home of a workspace (useWorkspaceHome,         *)
(* WorkspaceHomeRunControls, WorkspaceHomeHistory): a prompt goes to a new   *)
(* thread of the workspace, or to one new worktree for each model and copy   *)
(* that is selected, one after the other, and any step of any of them may    *)
(* fail.  Meanwhile the user goes on to other workspaces, selections and     *)
(* prompts; a run keeps what was asked when it was submitted.                *)
(***************************************************************************)
EXTENDS Naturals, Sequences, FiniteSets

CONSTANTS
    Workspaces,
    None,
    Models,         \* as a sequence, in the order of their entries
    MaxCount,       \* bound: copies of one model (the code offers 1 to 4)
    MaxRuns,        \* bound: runs submitted
    MaxEdits        \* bound: switches and changes of what is selected

VARIABLES
    at,             \* activeWorkspaceId
    drafts,         \* draftsByWorkspace: whether there is one
    modes,          \* modeByWorkspace
    counts,         \* modelSelectionsByWorkspace
    picked,         \* selectedModelId, of local runs
    errors,         \* errorByWorkspace: whether there is one
    submitting,     \* submittingByWorkspace
    runs,           \* runsByWorkspace
    flows,          \* the calls of startRun that are under way
    titles,         \* metadata of local runs, not answered yet
    threads,        \* history: threads started, with the models they were asked for
    spent

vars == <<at, drafts, modes, counts, picked, errors, submitting, runs, flows, titles, threads, spent>>

RangeOf(s) == {s[i] : i \in 1..Len(s)}
ModelSet == RangeOf(Models)
Ids == 1..MaxRuns
Numbers == 1..(MaxCount * Len(Models))
Threads == Ids \X Numbers
Run == [id : Ids, mode : {"local", "worktree"}, title : {None} \cup Ids, asked : Seq(ModelSet),
        listed : SUBSET Threads, failures : 0..(MaxCount * Len(Models)),
        status : {"pending", "ready", "partial", "failed"}]
Flow == [ws : Workspaces, id : Ids, mode : {"local", "worktree"}, plan : Seq(ModelSet),
         step : {"name", "create", "connect", "setup", "start", "send"},
         listed : SUBSET Threads, failures : 0..(MaxCount * Len(Models))]

TypeOK ==
    /\ at \in Workspaces /\ picked \in ModelSet
    /\ drafts \in [Workspaces -> BOOLEAN] /\ modes \in [Workspaces -> {"local", "worktree"}]
    /\ counts \in [Workspaces -> [ModelSet -> 0..MaxCount]]
    /\ errors \in [Workspaces -> BOOLEAN] /\ submitting \in [Workspaces -> BOOLEAN]
    /\ \A w \in Workspaces : \A i \in 1..Len(runs[w]) : runs[w][i] \in Run
    /\ \A f \in flows : f \in Flow
    /\ titles \subseteq Workspaces \X Ids
    /\ \A t \in DOMAIN threads : t \in Threads /\ threads[t] \in Seq(ModelSet)
    /\ spent \in [runs : 0..MaxRuns, edits : 0..MaxEdits]

----------------------------------------------------------------------------
Editing ==
    /\ spent.edits < MaxEdits /\ spent' = [spent EXCEPT !.edits = @ + 1]
    /\ UNCHANGED <<submitting, runs, flows, titles, threads>>
(* The menu offers one model for local runs, or copies of any for worktrees.*)
Offered(m) == modes[at] = m
(* Every change of what a run would be takes the error of the last one away.*)
Corrected == errors' = [errors EXCEPT ![at] = FALSE]

SwitchTo(w) ==
    /\ w # at /\ at' = w
    /\ UNCHANGED <<drafts, modes, counts, picked, errors>> /\ Editing
SetDraft ==
    /\ ~drafts[at] \/ errors[at]
    /\ drafts' = [drafts EXCEPT ![at] = TRUE]
    /\ Corrected /\ UNCHANGED <<at, modes, counts, picked, submitting, runs, flows, titles, threads, spent>>
SetRunMode(m) ==
    /\ modes[at] # m /\ modes' = [modes EXCEPT ![at] = m]
    /\ Corrected /\ UNCHANGED <<at, drafts, counts, picked>> /\ Editing
ToggleModel(m) ==
    /\ Offered("worktree")
    /\ counts' = [counts EXCEPT ![at][m] = IF @ > 0 THEN 0 ELSE 1]
    /\ Corrected /\ UNCHANGED <<at, drafts, modes, picked>> /\ Editing
SetModelCount(m, n) ==
    /\ Offered("worktree") /\ counts[at][m] # n /\ counts' = [counts EXCEPT ![at][m] = n]
    /\ Corrected /\ UNCHANGED <<at, drafts, modes, picked>> /\ Editing
SelectModel(m) ==
    /\ Offered("local") /\ picked # m /\ picked' = m
    /\ UNCHANGED <<at, drafts, modes, counts, errors>> /\ Editing

----------------------------------------------------------------------------
(* selectedModels: each selected model as often as it is to run.            *)
Copies(c, m) == [i \in 1..c[m] |-> m]
Selected(c) ==
    LET upto[i \in 0..Len(Models)] == IF i = 0 THEN <<>> ELSE upto[i - 1] \o Copies(c, Models[i])
    IN  upto[Len(Models)]

(* The run with an id in its workspace, changed.                            *)
Updated(all, id, F(_)) == [i \in 1..Len(all) |-> IF all[i].id = id THEN F(all[i]) ELSE all[i]]

(* What the run asks for is what is shown when it is submitted.             *)
Plan == IF modes[at] = "local" THEN <<picked>> ELSE Selected(counts[at])
StartRun(connected) ==
    LET id == spent.runs + 1
        run == [id |-> id, mode |-> modes[at], title |-> None, asked |-> Plan,
                listed |-> {}, failures |-> 0, status |-> "pending"]
    IN  /\ drafts[at] /\ ~submitting[at] /\ id <= MaxRuns
        /\ Plan # <<>>
        /\ spent' = [spent EXCEPT !.runs = id]
        /\ submitting' = [submitting EXCEPT ![at] = TRUE]
        /\ Corrected
        /\ runs' = [runs EXCEPT ![at] = <<run>> \o @]
        /\ drafts' = [drafts EXCEPT ![at] = FALSE]
        /\ titles' = IF modes[at] = "local" THEN titles \cup {<<at, id>>} ELSE titles
        /\ flows' = flows \cup {[ws |-> at, id |-> id, mode |-> modes[at], plan |-> Plan,
              step |-> CASE modes[at] = "worktree" -> "name"
                         [] connected -> "start"
                         [] OTHER -> "connect",
              listed |-> {}, failures |-> 0]}
        /\ UNCHANGED <<at, modes, counts, picked, threads>>
(* A worktree run of no model is refused.                                   *)
Refused ==
    /\ drafts[at] /\ ~submitting[at] /\ Plan = <<>>
    /\ errors' = [errors EXCEPT ![at] = TRUE]
    /\ UNCHANGED <<at, drafts, modes, counts, picked, submitting, runs, flows, titles, threads, spent>>

(* generateRunMetadata: a local run does not wait for its title, a worktree  *)
(* run does, and goes on without one.                                       *)
Titled(w, id) == runs' = [runs EXCEPT ![w] = Updated(@, id, LAMBDA r : [r EXCEPT !.title = id])]
TitleComes(e) ==
    /\ titles' = titles \ {e} /\ Titled(e[1], e[2])
    /\ UNCHANGED <<at, drafts, modes, counts, picked, errors, submitting, flows, threads, spent>>
NamesComes(f, ok) ==
    /\ f.step = "name"
    /\ flows' = (flows \ {f}) \cup {[f EXCEPT !.step = "create"]}
    /\ IF ok THEN Titled(f.ws, f.id) ELSE runs' = runs
    /\ UNCHANGED <<at, drafts, modes, counts, picked, errors, submitting, titles, threads, spent>>

(* The instance the run is at, of those it asks for.                        *)
Place(f) == Cardinality(f.listed) + f.failures + 1
Thread(f) == <<f.id, Place(f)>>
ModelFor(f) == f.plan[Place(f)]

(* The run is over: its instances and its status are kept with it.          *)
Status(f) == CASE f.listed = {} -> "failed" [] f.failures > 0 -> "partial" [] OTHER -> "ready"
Finished(f) ==
    /\ runs' = [runs EXCEPT ![f.ws] =
          Updated(@, f.id, LAMBDA r : [r EXCEPT !.listed = f.listed, !.failures = f.failures, !.status = Status(f)])]
    /\ errors' = IF Status(f) = "failed" THEN [errors EXCEPT ![f.ws] = TRUE] ELSE errors
    /\ submitting' = [submitting EXCEPT ![f.ws] = FALSE]
(* After an instance comes the next, or the end.                            *)
After(f, g) ==
    IF Place(g) > Len(g.plan)
    THEN flows' = flows \ {f} /\ Finished(g)
    ELSE flows' = (flows \ {f}) \cup {[g EXCEPT !.step = "create"]} /\ UNCHANGED <<runs, errors, submitting>>

(* A step of the instance is done.  The setup script of a worktree may fail  *)
(* without failing its instance; a new worktree may come connected.         *)
NextStep(f) ==
    CASE f.step = "create" -> {"connect", "setup"}
      [] f.step = "connect" -> {IF f.mode = "local" THEN "start" ELSE "setup"}
      [] f.step = "setup" -> {"start"}
      [] f.step = "start" -> {"send"}
      [] OTHER -> {}
StepDone(f) ==
    /\ \E s \in NextStep(f) : flows' = (flows \ {f}) \cup {[f EXCEPT !.step = s]}
    /\ threads' = IF f.step = "start" THEN [t \in DOMAIN threads \cup {Thread(f)} |->
                                               IF t = Thread(f) THEN <<>> ELSE threads[t]]
                  ELSE threads
    /\ UNCHANGED <<at, drafts, modes, counts, picked, errors, submitting, runs, titles, spent>>
StepFails(f) ==
    /\ f.step \in {"create", "connect", "start"}
    /\ After(f, [f EXCEPT !.failures = @ + 1])
    /\ UNCHANGED <<at, drafts, modes, counts, picked, titles, threads, spent>>
(* sendUserMessageToThread: an instance is listed unless it throws; a         *)
(* message that is refused without an exception counts as sent.              *)
SendEnds(f, thrown) ==
    /\ f.step = "send"
    /\ threads' = [threads EXCEPT ![Thread(f)] = Append(@, ModelFor(f))]
    /\ After(f, IF thrown THEN [f EXCEPT !.failures = @ + 1]
                ELSE [f EXCEPT !.listed = @ \cup {Thread(f)}])
    /\ UNCHANGED <<at, drafts, modes, counts, picked, titles, spent>>

Init ==
    /\ at = CHOOSE w \in Workspaces : TRUE
    /\ drafts = [w \in Workspaces |-> FALSE]
    /\ modes = [w \in Workspaces |-> "local"]
    /\ counts = [w \in Workspaces |-> [m \in ModelSet |-> 0]] /\ picked = Models[1]
    /\ errors = [w \in Workspaces |-> FALSE] /\ submitting = [w \in Workspaces |-> FALSE]
    /\ runs = [w \in Workspaces |-> <<>>] /\ flows = {} /\ titles = {} /\ threads = <<>>
    /\ spent = [runs |-> 0, edits |-> 0]

Next ==
    \/ \E w \in Workspaces : SwitchTo(w)
    \/ \E m \in {"local", "worktree"} : SetRunMode(m)
    \/ \E m \in ModelSet : ToggleModel(m) \/ SelectModel(m) \/ \E n \in 1..MaxCount : SetModelCount(m, n)
    \/ SetDraft \/ Refused \/ \E connected \in BOOLEAN : StartRun(connected)
    \/ \E e \in titles : TitleComes(e)
    \/ \E f \in flows : StepDone(f) \/ StepFails(f) \/ \E b \in BOOLEAN : NamesComes(f, b) \/ SendEnds(f, b)

Spec == Init /\ [][Next]_vars

----------------------------------------------------------------------------
Shown(w) == {runs[w][i] : i \in 1..Len(runs[w])}
ThreadsOf(r) == {t \in DOMAIN threads : t[1] = r.id}

(* Every instance that was asked for when a run was submitted is listed or   *)
(* counted as failed, with the status that says so, once the run is over; it *)
(* is pending, and no other can be submitted there, exactly until then.      *)
RunsAccountedFor ==
    \A w \in Workspaces :
        /\ submitting[w] <=> \E r \in Shown(w) : r.status = "pending"
        /\ \A r \in Shown(w) :
              IF r.status = "pending"
              THEN \E f \in flows : f.ws = w /\ f.id = r.id
              ELSE /\ Cardinality(r.listed) + r.failures = Len(r.asked)
                   /\ (r.status = "ready") <=> (r.failures = 0)
                   /\ (r.status = "failed") <=> (r.listed = {})

(* Each instance has a thread of its own, which was asked once, for the       *)
(* model selected at submission, and no thread of a run is off its list but   *)
(* one whose message failed.                                                 *)
AskedAsSelected ==
    \A w \in Workspaces : \A r \in Shown(w) :
        /\ \A t \in ThreadsOf(r) : threads[t] \in {<<>>, <<r.asked[t[2]]>>}
        /\ \A t \in r.listed : t \in DOMAIN threads /\ threads[t] = <<r.asked[t[2]]>>
        /\ r.status = "ready" => r.listed = ThreadsOf(r)
        /\ r.title \in {None, r.id}
=============================================================================
