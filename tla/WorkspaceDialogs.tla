---------------------------- MODULE WorkspaceDialogs ----------------------------
(***************************************************************************)
(* The dialogs that add and rename workspaces: useClonePrompt,              *)
(* useWorktreePrompt, useWorkspaceFromUrlPrompt, useRenameWorktreePrompt    *)
(* with its question about the upstream branch, and the mobile client's     *)
(* dialog for paths, whose opener awaits a promise (useWorkspaceDialogs).   *)
(*                                                                         *)
(* A busy dialog cannot be cancelled, so one whose operation has ended must *)
(* not stay busy.  Menu commands reach the window over an open dialog and   *)
(* open another in its place.  Of the fields a dialog has it is kept        *)
(* whether they are complete ("ready").                                    *)
(***************************************************************************)
EXTENDS Naturals, FiniteSets

CONSTANTS
    Workspaces, None,
    Worktrees,     \* those of them that are worktrees
    MaxCalls       \* bound: submissions and requests for paths

VARIABLES
    dialog,     \* the dialog of each kind, None if it is closed
    ops,        \* submissions under way
    picking,    \* dialogs whose folder is being chosen
    asked,      \* requests for paths whose promise is not resolved
    resolver,   \* mobileRemoteWorkspacePathResolveRef: whose promise, or None
    active,     \* activeWorkspaceId
    made,       \* calls made
    reopened    \* history: kinds opened anew over their own submission

vars == <<dialog, ops, picking, asked, resolver, active, made, reopened>>

Creating == {"clone", "worktree", "url"}     \* modal, and busy while they submit
Renaming == {"rename", "upstream"}           \* in the popover of the header
Kinds == Creating \cup Renaming \cup {"paths"}
Steps == {"script", "add", "connect", "after"}

Dialog == [of : Workspaces \cup {None}, ready : BOOLEAN, busy : BOOLEAN, saving : BOOLEAN]

TypeOK ==
    /\ dialog \in [Kinds -> Dialog \cup {None}]
    /\ \A op \in ops : op.n \in 1..made /\ op.kind \in Creating \cup Renaming
                       /\ op.of \in Workspaces \cup {None} /\ op.step \in Steps
    /\ picking \subseteq {"clone", "url"} /\ asked \subseteq 1..made
    /\ resolver \in asked \cup {None} /\ active \in Workspaces
    /\ made \in 0..MaxCalls /\ reopened \subseteq Kinds

Init ==
    /\ dialog = [k \in Kinds |-> None] /\ ops = {} /\ picking = {}
    /\ asked = {} /\ resolver = None /\ active \in Workspaces /\ made = 0 /\ reopened = {}

Opened(w) == [of |-> w, ready |-> FALSE, busy |-> FALSE, saving |-> FALSE]
Open(k) == dialog[k] # None
Modal == \E k \in Creating \cup {"paths"} : Open(k)
UnderWay(k) == {op \in ops : op.kind = k}
Close(k) == [dialog EXCEPT ![k] = None]

(* Whatever changes, the dialogs of the header that are not about the       *)
(* active workspace close.                                                 *)
HeaderOf(w, d) ==
    [k \in Kinds |-> IF k \in Renaming /\ d[k] # None /\ d[k].of # w THEN None ELSE d[k]]

----------------------------------------------------------------------------
(* Opening: by a click where no modal covers the window, or from the menu.  *)

OpenCreating(k, w) ==
    /\ k \in Creating
    /\ dialog' = [dialog EXCEPT ![k] = [Opened(IF k = "url" THEN None ELSE w) EXCEPT
                                          !.ready = (k = "worktree")]]
    /\ reopened' = IF UnderWay(k) # {} THEN reopened \cup {k} ELSE reopened
    /\ UNCHANGED <<ops, picking, asked, resolver, active, made>>

Click(k, w) == ~Modal /\ OpenCreating(k, w)

FromMenu(k, w) == OpenCreating(k, w)

OpenRenamePrompt ==
    /\ ~Modal /\ active \in Worktrees
    /\ ~(Open("rename") /\ dialog["rename"].busy)
    /\ dialog' = [dialog EXCEPT !["upstream"] = None, !["rename"] = Opened(active)]
    /\ UNCHANGED <<ops, picking, asked, resolver, active, made, reopened>>

(* Mutant: the promise of the request before is dropped.                   *)
StillAsked(n) == asked \cup {n}

(* A new request answers the one before with no paths.                     *)
AskedBy(n) == (asked \ {resolver}) \cup {n}

RequestMobileRemoteWorkspacePaths ==
    /\ made < MaxCalls /\ made' = made + 1
    /\ asked' = AskedBy(made') /\ resolver' = made'
    /\ dialog' = [dialog EXCEPT !["paths"] = Opened(None)]
    /\ UNCHANGED <<ops, picking, active, reopened>>

----------------------------------------------------------------------------
(* The fields.                                                             *)

Edit(k) ==
    /\ Open(k) /\ k # "upstream" /\ ~(dialog[k].busy /\ k = "rename")
    /\ dialog' = [dialog EXCEPT ![k].ready = ~@]
    /\ UNCHANGED <<ops, picking, asked, resolver, active, made, reopened>>

ChooseFolder(k) ==
    /\ k \in {"clone", "url"} /\ Open(k) /\ k \notin picking /\ ~(k = "clone" /\ dialog[k].busy)
    /\ picking' = picking \cup {k}
    /\ UNCHANGED <<dialog, ops, asked, resolver, active, made, reopened>>

(* The folder goes to the dialog of the kind there is by then.             *)
FolderChosen(k) ==
    /\ k \in picking /\ picking' = picking \ {k}
    /\ dialog' = IF Open(k) THEN [dialog EXCEPT ![k].ready = TRUE] ELSE dialog
    /\ UNCHANGED <<ops, asked, resolver, active, made, reopened>>

Cancel(k) ==
    /\ Open(k) /\ k # "upstream" /\ ~dialog[k].busy
    /\ dialog' = Close(k)
    /\ IF k = "paths" THEN asked' = asked \ {resolver} /\ resolver' = None
       ELSE UNCHANGED <<asked, resolver>>
    /\ UNCHANGED <<ops, picking, active, made, reopened>>

(* The user goes to another workspace.                                     *)
SelectWorkspace(w) ==
    /\ ~Modal /\ w # active /\ active' = w /\ dialog' = HeaderOf(w, dialog)
    /\ UNCHANGED <<ops, picking, asked, resolver, made, reopened>>

----------------------------------------------------------------------------
(* Submitting.                                                             *)

Submit(k, first) ==
    /\ made < MaxCalls /\ made' = made + 1
    /\ ops' = ops \cup {[n |-> made', kind |-> k, of |-> dialog[k].of, step |-> first]}
    /\ dialog' = [dialog EXCEPT ![k].busy = TRUE, ![k].saving = (first = "script")]
    /\ UNCHANGED <<picking, asked, resolver, active, reopened>>

(* The Enter key in the name of a worktree asks for no branch.             *)
CanConfirm(k) == Open(k) /\ ~dialog[k].busy /\ (dialog[k].ready \/ k = "worktree")

(* confirmPrompt of a clone, a worktree or an import from a URL; a setup    *)
(* script that was edited is saved first.                                  *)
ConfirmPrompt(k) ==
    /\ k \in Creating /\ CanConfirm(k)
    /\ \E first \in {"add"} \cup (IF k = "worktree" THEN {"script"} ELSE {}) : Submit(k, first)

ConfirmUpstream == Open("upstream") /\ ~dialog["upstream"].busy /\ Submit("upstream", "add")

(* A name that is not new closes the dialog, no name is an error.          *)
HandleRenameConfirm ==
    /\ Open("rename") /\ ~dialog["rename"].busy
    /\ \/ dialog["rename"].ready /\ Submit("rename", "add")
       \/ /\ ~dialog["rename"].ready /\ dialog' = Close("rename")
          /\ UNCHANGED <<ops, picking, asked, resolver, active, made, reopened>>

SubmitPaths ==
    /\ Open("paths") /\ dialog["paths"].ready /\ dialog' = Close("paths")
    /\ asked' = asked \ {resolver} /\ resolver' = None
    /\ UNCHANGED <<ops, picking, active, made, reopened>>

----------------------------------------------------------------------------
(* The steps of a submission.                                              *)

(* Mutant: only the script's own flag is taken back.                       *)
NoLongerSaving(d) == [d EXCEPT !.saving = FALSE]

(* A failure gives the dialog back to the user.                            *)
GivenBack(d) == [d EXCEPT !.saving = FALSE, !.busy = FALSE]

StepFails(op) ==
    /\ op.step # "after" /\ ops' = ops \ {op}
    /\ dialog' = IF Open(op.kind) THEN [dialog EXCEPT ![op.kind] = GivenBack(@)] ELSE dialog
    /\ UNCHANGED <<picking, asked, resolver, active, made, reopened>>

Goes(op, step) == ops' = (ops \ {op}) \cup {[op EXCEPT !.step = step]}

(* The new workspace is shown, connected unless it is, and then its group's *)
(* folder is kept or its setup script run, whose failure is only logged.   *)
StepDone(op) ==
    /\ CASE op.step = "script" ->
              /\ Goes(op, "add") /\ UNCHANGED active
              /\ dialog' = IF Open(op.kind) THEN [dialog EXCEPT ![op.kind].saving = FALSE]
                           ELSE dialog
         [] op.step = "add" /\ op.kind \in {"clone", "worktree"} ->
              \E w \in Workspaces \ {op.of}, next \in {"connect", "after"} :
                  Goes(op, next) /\ active' = w /\ dialog' = HeaderOf(w, dialog)
         [] op.step = "connect" -> Goes(op, "after") /\ UNCHANGED <<dialog, active>>
         [] OTHER ->
              /\ ops' = ops \ {op} /\ UNCHANGED active
              /\ \/ dialog' = Close(op.kind)
                 \/ op.kind = "rename"     \* and the name it had was pushed
                    /\ dialog' = HeaderOf(active, [dialog EXCEPT
                                   !["rename"] = None, !["upstream"] = Opened(op.of)])
    /\ UNCHANGED <<picking, asked, resolver, made, reopened>>

(* addWorktreeAgent makes nothing of an empty branch name.                 *)
NothingAdded(op) ==
    /\ op.kind = "worktree" /\ op.step = "add"
    /\ ops' = ops \ {op} /\ dialog' = Close(op.kind)
    /\ UNCHANGED <<picking, asked, resolver, active, made, reopened>>

Next ==
    \/ \E k \in Kinds :
          \/ \E w \in Workspaces \ Worktrees : Click(k, w) \/ FromMenu(k, w)
          \/ Edit(k) \/ ChooseFolder(k) \/ FolderChosen(k) \/ Cancel(k) \/ ConfirmPrompt(k)
    \/ OpenRenamePrompt \/ RequestMobileRemoteWorkspacePaths \/ SubmitPaths
    \/ \E w \in Workspaces : SelectWorkspace(w)
    \/ HandleRenameConfirm \/ ConfirmUpstream
    \/ \E op \in ops : StepDone(op) \/ StepFails(op) \/ NothingAdded(op)

Spec == Init /\ [][Next]_vars

----------------------------------------------------------------------------
(* No dialog outlives what it waits for: a busy one, which cannot be        *)
(* cancelled, has a submission under way that gives it back or closes it,   *)
(* a dialog is submitted once at a time unless the menu opened it anew, and *)
(* whoever asked for paths is answered as soon as the dialog no longer is   *)
(* theirs (isSubmitting, isSavingScript, the promise of useWorkspaceDialogs).*)
DialogsEnd ==
    /\ \A k \in Creating \cup Renaming : Open(k) =>
          /\ dialog[k].busy => UnderWay(k) # {}
          /\ dialog[k].saving => \E op \in UnderWay(k) : op.step = "script"
    /\ \A k \in Creating \ reopened : Cardinality(UnderWay(k)) <= 1
    /\ asked = (IF Open("paths") THEN {resolver} ELSE {})
=============================================================================
