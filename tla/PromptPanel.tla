----------------------------- MODULE PromptPanel -----------------------------
(***************************************************************************)
(* The prompts of a workspace and the general ones: PromptPanel with its      *)
(* editor, row menus and delete confirmation, useCustomPrompts, which lists   *)
(* them again after every change, App.tsx between the two, which turns every  *)
(* refusal into an alert, and prompts_core.rs, whose commands look before     *)
(* they write.  A prompt file is known by its directory and name; what it     *)
(* holds is the number of the change that wrote it.  Highlights are left out. *)
(***************************************************************************)
EXTENDS Naturals, FiniteSets

CONSTANTS
    Workspaces, Names, None,
    MaxCalls,       \* bound: changes asked for
    MaxSteps        \* bound: switches, menus and departures of the user

VARIABLES
    active,         \* the workspace that is shown
    prompts,        \* prompts
    load,           \* lastFetchedWorkspaceId, and the listing in flight: of whom, what it read, what it missed
    editor,         \* None when closed; a record of what is edited: a prompt, or None for a new one
    menu,           \* the prompt whose menu is open, or None
    pending,        \* pendingDeletePath
    saving,         \* isSaving
    calls,          \* changes under way
    files,          \* the files
    noted           \* history

vars == <<active, prompts, load, editor, menu, pending, saving, calls, files, noted>>

Global == "global"
Dirs == Workspaces \cup {Global}
Path(f) == <<f.dir, f.name>>
File == [dir : Dirs, name : Names, id : 0..MaxCalls, text : 0..MaxCalls]
Visible(w) == {f \in files : f.dir \in {w, Global}}

TypeOK ==
    /\ active \in Workspaces /\ prompts \subseteq File /\ files \subseteq File
    /\ load.missed \in BOOLEAN /\ load.last \in Workspaces \cup {None} /\ load.of \in Workspaces \cup {None}
    /\ load.got # None => load.got \subseteq File
    /\ (editor # None /\ editor.of # None) => editor.of \in File
    /\ menu # None => menu \in File
    /\ pending # None => pending \in Dirs \X Names
    /\ saving \in BOOLEAN /\ noted.calls \in 0..MaxCalls /\ noted.steps \in 0..MaxSteps
    /\ \A c \in calls :
          /\ c.do \in {"create", "update", "delete", "move"} /\ c.ws \in Workspaces /\ c.n \in 1..MaxCalls
          /\ c.at \in {"sent", "checked", "written", "refused", "listing"} /\ c.mine \in BOOLEAN

----------------------------------------------------------------------------
(* prompts_core.rs.                                                         *)
At(p) == {f \in files : Path(f) = p}
Allowed(c) == c.of.dir \in {c.ws, Global}
Target(c) ==
    CASE c.do = "update" -> <<c.of.dir, c.name>>
      [] c.do = "move" -> <<c.dir, c.of.name>>
      [] OTHER -> <<c.dir, c.name>>
Free(p) == At(p) = {}
Goes(c, at) == calls' = (calls \ {c}) \cup {[c EXCEPT !.at = at]}

CreateAllowed(c) == Free(Target(c))
UpdateAllowed(c) ==
    /\ ~Free(Path(c.of)) /\ Allowed(c)
    /\ Target(c) # Path(c.of) => Free(Target(c))
MoveAllowed(c) ==
    /\ ~Free(Path(c.of)) /\ Allowed(c) /\ Target(c) # Path(c.of) /\ Free(Target(c))
DeleteAllowed(c) == ~Free(Path(c.of)) => Allowed(c)
Checks(c) ==
    /\ c.at = "sent"
    /\ Goes(c, IF CASE c.do = "create" -> CreateAllowed(c) [] c.do = "update" -> UpdateAllowed(c)
                    [] c.do = "move" -> MoveAllowed(c) [] OTHER -> DeleteAllowed(c)
               THEN "checked" ELSE "refused")
    /\ noted' = [noted EXCEPT !.crossed = @ \/ \E d \in calls : d.at = "checked"]
    /\ UNCHANGED <<active, prompts, load, editor, menu, pending, saving, files>>

Written(c, id) == [dir |-> Target(c)[1], name |-> Target(c)[2], id |-> id, text |-> c.n]
Creates(c) ==
    /\ c.do = "create" /\ files' = (files \ At(Target(c))) \cup {Written(c, c.n)}
    /\ noted' = [noted EXCEPT !.alive = @ \cup {c.n}] /\ Goes(c, "written")
Left(c) == Target(c) # Path(c.of) /\ Free(Path(c.of))
(* The new file is written before the old one is removed.                     *)
Updates(c) ==
    /\ c.do = "update"
    /\ files' = (files \ (At(Target(c)) \cup At(Path(c.of)))) \cup {Written(c, c.of.id)}
    /\ noted' = [noted EXCEPT !.alive = @ \cup {c.of.id},
                              !.blind = @ \/ (\E f \in At(Path(c.of)) : f.text # c.of.text),
                              !.behind = @ \/ Left(c)]
    /\ Goes(c, IF Left(c) THEN "refused" ELSE "written")
Moves(c) ==
    /\ c.do = "move" /\ noted' = noted
    /\ IF Free(Path(c.of)) THEN files' = files /\ Goes(c, "refused")
       ELSE /\ files' = (files \ (At(Target(c)) \cup At(Path(c.of))))
                           \cup {[f EXCEPT !.dir = c.dir] : f \in At(Path(c.of))}
            /\ Goes(c, "written")
Deletes(c) ==
    /\ c.do = "delete" /\ files' = files \ At(Path(c.of))
    /\ noted' = [noted EXCEPT !.alive = @ \ {f.id : f \in At(Path(c.of))}] /\ Goes(c, "written")
Writes(c) ==
    /\ c.at = "checked" /\ (Creates(c) \/ Updates(c) \/ Moves(c) \/ Deletes(c))
    /\ load' = [load EXCEPT !.missed = @ \/ load.got # None]
    /\ UNCHANGED <<active, prompts, editor, menu, pending, saving>>

----------------------------------------------------------------------------
(* useCustomPrompts.                                                        *)
Asks(w) == [load EXCEPT !.of = w, !.got = None, !.missed = FALSE]
Listed == load.of = None
ListRead ==
    /\ ~Listed /\ load.got = None /\ load' = [load EXCEPT !.got = Visible(load.of)]
    /\ UNCHANGED <<active, prompts, editor, menu, pending, saving, calls, files, noted>>

(* The end of a change, as PromptPanel sees it, which is told of no refusal;   *)
(* a confirmation is dropped with its row.                                    *)
Closes(c) == c.do \in {"create", "update"} /\ c.mine
Resolves(ended, shown) ==
    /\ calls' = calls \ ended /\ prompts' = shown
    /\ editor' = IF \E c \in ended : Closes(c) THEN None ELSE editor
    /\ saving' = (saving /\ ~\E c \in ended : Closes(c))
    /\ pending' = IF \/ \E c \in ended : c.do = "delete" /\ c.mine /\ Path(c.of) = pending
                     \/ pending \notin {Path(f) : f \in shown}
                  THEN None ELSE pending
    /\ UNCHANGED <<active, menu, files>>

ListAnswered ==
    /\ load.got # None
    /\ Resolves({c \in calls : c.at = "listing"}, load.got)
    /\ load' = [last |-> load.of, of |-> None, got |-> None, missed |-> FALSE]
    /\ noted' = [noted EXCEPT !.behind = load.of # active \/ load.missed]
ListFails ==
    /\ ~Listed /\ load.got = None
    /\ Resolves({c \in calls : c.at = "listing"}, prompts)
    /\ load' = [load EXCEPT !.of = None] /\ noted' = [noted EXCEPT !.behind = TRUE]

(* After a change the prompts are listed, unless a listing is in flight.       *)
RefreshPrompts(c) ==
    /\ c.at = "written"
    /\ IF Listed
       THEN /\ Goes(c, "listing") /\ load' = Asks(c.ws)
            /\ UNCHANGED <<active, prompts, editor, menu, pending, saving, files, noted>>
       ELSE /\ Resolves({c}, prompts) /\ load' = load /\ noted' = [noted EXCEPT !.behind = TRUE]
AlertError(c) ==
    /\ c.at = "refused" /\ Resolves({c}, prompts)
    /\ UNCHANGED <<load, noted>>

----------------------------------------------------------------------------
(* PromptPanel.                                                             *)
Step == noted.steps < MaxSteps
Stepped == [noted EXCEPT !.steps = @ + 1]
Call(do, of, name, dir) ==
    /\ noted.calls < MaxCalls
    /\ calls' = calls \cup {[do |-> do, ws |-> active, of |-> of, name |-> name, dir |-> dir,
                             at |-> "sent", mine |-> TRUE, n |-> noted.calls + 1]}

SwitchTo(w) ==
    /\ Step /\ w # active /\ active' = w
    /\ load' = IF load.last # w /\ Listed THEN Asks(w) ELSE load
    /\ noted' = [Stepped EXCEPT !.behind = @ \/ load.last = w \/ ~Listed]
    /\ UNCHANGED <<prompts, editor, menu, pending, saving, calls, files>>
(* The rows of both sections; the filter and the arguments are left out.       *)
Rows == prompts
StartCreate ==
    /\ editor # [of |-> None] /\ editor' = [of |-> None] /\ pending' = None
    /\ UNCHANGED <<active, prompts, load, menu, saving, calls, files, noted>>
ShowPromptMenu(f) ==
    /\ Step /\ menu = None /\ menu' = f /\ noted' = Stepped
    /\ UNCHANGED <<active, prompts, load, editor, pending, saving, calls, files>>

StartEdit ==
    /\ menu # None /\ menu' = None /\ editor' = [of |-> menu] /\ pending' = None
    /\ noted' = [noted EXCEPT !.old = @ \/ menu \notin prompts \/ calls # {} \/ noted.behind]
    /\ UNCHANGED <<active, prompts, load, saving, calls, files>>
HandleDeleteRequest ==
    /\ menu # None /\ menu' = None
    /\ pending' = IF Path(menu) \in {Path(f) : f \in prompts} THEN Path(menu) ELSE None
    /\ UNCHANGED <<active, prompts, load, editor, saving, calls, files, noted>>
HandleMove ==
    /\ menu # None /\ menu' = None
    /\ Call("move", menu, menu.name, IF menu.dir = Global THEN active ELSE Global)
    /\ noted' = [noted EXCEPT !.calls = @ + 1]
    /\ UNCHANGED <<active, prompts, load, editor, pending, saving, files>>

HandleDeleteConfirm(f) ==
    /\ Path(f) = pending /\ Call("delete", f, f.name, f.dir)
    /\ noted' = [noted EXCEPT !.calls = @ + 1]
    /\ UNCHANGED <<active, prompts, load, editor, menu, pending, saving, files>>
CancelDelete ==
    /\ pending # None /\ pending' = None
    /\ UNCHANGED <<active, prompts, load, editor, menu, saving, calls, files, noted>>

EditorShown == editor # None
HandleSave(name, dir) ==
    /\ EditorShown /\ ~saving /\ saving' = TRUE
    /\ IF editor.of = None THEN Call("create", None, name, dir)
       ELSE dir = Global /\ Call("update", editor.of, name, editor.of.dir)
    /\ noted' = [noted EXCEPT !.calls = @ + 1]
    /\ UNCHANGED <<active, prompts, load, editor, menu, pending, files>>
CancelEdit ==
    /\ EditorShown /\ ~saving /\ editor' = None
    /\ UNCHANGED <<active, prompts, load, menu, pending, saving, calls, files, noted>>

(* Another panel is shown for a while.                                        *)
OtherPanel ==
    /\ Step /\ editor' = None /\ pending' = None /\ saving' = FALSE /\ menu' = None
    /\ calls' = {[c EXCEPT !.mine = FALSE] : c \in calls} /\ noted' = Stepped
    /\ UNCHANGED <<active, prompts, load, files>>

(* One prompt in one workspace, whichever they are.                           *)
Init ==
    /\ active = CHOOSE w \in Workspaces : TRUE
    /\ files = {[dir |-> active, name |-> CHOOSE n \in Names : TRUE, id |-> 0, text |-> 0]}
    /\ prompts = files
    /\ load = [last |-> active, of |-> None, got |-> None, missed |-> FALSE]
    /\ editor = None /\ menu = None /\ pending = None /\ saving = FALSE /\ calls = {}
    /\ noted = [calls |-> 0, steps |-> 0, alive |-> {0}, crossed |-> FALSE, blind |-> FALSE,
                behind |-> FALSE, old |-> FALSE]

Next ==
    \/ \E c \in calls : Checks(c) \/ Writes(c) \/ RefreshPrompts(c) \/ AlertError(c)
    \/ ListRead \/ ListAnswered \/ ListFails
    \/ \E w \in Workspaces : SwitchTo(w)
    \/ StartCreate \/ StartEdit \/ HandleDeleteRequest \/ HandleMove \/ CancelDelete \/ CancelEdit \/ OtherPanel
    \/ \E f \in Rows : ShowPromptMenu(f) \/ HandleDeleteConfirm(f)
    \/ \E name \in Names, dir \in {active, Global} : HandleSave(name, dir)

Spec == Init /\ [][Next]_vars

----------------------------------------------------------------------------
(* When no change and no listing is under way, the panel lists the prompts of  *)
(* the workspace that is shown, unless a listing was passed over, failed, or   *)
(* answered for another workspace.                                           *)
PromptsAreListed ==
    calls = {} /\ Listed /\ ~noted.behind => prompts = Visible(active)

(* Nothing but a deletion makes a prompt disappear, unless two changes looked   *)
(* at the files before either wrote.                                         *)
NoPromptIsLost ==
    noted.crossed \/ noted.alive \subseteq {f.id : f \in files}

(* An edit replaces the text that the editor was opened with, unless it was     *)
(* opened over changes under way, or on a row that was behind.                 *)
EditsWhatIsSeen == noted.blind => noted.old \/ noted.crossed
=============================================================================
