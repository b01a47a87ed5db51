---------------------------- MODULE AgentsSection ----------------------------
(***************************************************************************)
(* The agents of the settings (useSettingsAgentsSection,                    *)
(* SettingsAgentsSection): their list, the form that edits one and the      *)
(* editor of its config file.  The backend answers each change with the     *)
(* whole of its agents.  Buttons of one agent are disabled while that agent *)
(* is being changed; the others are not.                                    *)
(***************************************************************************)
EXTENDS Naturals, FiniteSets

CONSTANTS
    Agents, Names,   \* agents are told apart by what they are; a name can change
    NameOf, NewName, \* the name of each at the start, and the one it can be given
    Opened,          \* the one whose form and file are open at the start
    None,
    MaxCalls, MaxLimit   \* bounds: calls; max threads

VARIABLES
    backend,    \* the agents and limits it has
    settings,   \* what the section shows
    editing,    \* editingName, and the agent whose texts the form has
    editor,     \* configEditorAgentName, whose text it has, configEditorDirty
    calls,      \* calls under way, with what their handler read before
    written,    \* history: whose text each agent's config file was written with
    misled,     \* history: an answer went on with an editor or form opened meanwhile
    asked       \* calls made

vars == <<backend, settings, editing, editor, calls, written, misled, asked>>

NoOne == [name |-> None, of |-> None]
Closed == [name |-> None, of |-> None, dirty |-> FALSE]
Lists == [names : [Agents -> Names \cup {None}], limit : 1..MaxLimit]
First == [names |-> NameOf, limit |-> 1]
Kinds == {"limit", "rename", "delete", "read", "write", "describe", "refresh"}

TypeOK ==
    /\ backend \in Lists /\ settings \in Lists
    /\ editing \in [name : Names \cup {None}, of : Agents \cup {None}]
    /\ editor \in [name : Names \cup {None}, of : Agents \cup {None}, dirty : BOOLEAN]
    /\ calls \subseteq [id : 1..MaxCalls, kind : Kinds, name : Names \cup {None}, to : Names \cup {None},
                        of : Agents \cup {None}, open : Names \cup {None}, limit : 1..MaxLimit,
                        step : {"asked", "done", "failed"}, list : Lists]
    /\ written \in [Agents -> SUBSET (Agents \cup {None})] /\ misled \in BOOLEAN
    /\ asked \in 0..MaxCalls

----------------------------------------------------------------------------
Shown == {a \in Agents : settings.names[a] # None}
Busy(kind, n) == \E c \in calls : c.kind = kind /\ c.name = n
Named(list, n) == {a \in Agents : list.names[a] = n}

Ask(kind, n, to, of, limit) ==
    /\ asked < MaxCalls /\ asked' = asked + 1
    /\ calls' = calls \cup {[id |-> asked', kind |-> kind, name |-> n, to |-> to, of |-> of,
                              open |-> IF kind \in {"rename", "delete"} THEN editor.name ELSE None, limit |-> limit, step |-> "asked", list |-> First]}

(* startEditing.                                                            *)
StartEditing(a) ==
    LET n == settings.names[a]
    IN  /\ a \in Shown /\ ~Busy("rename", n) /\ ~Busy("delete", n)
        /\ editing # [name |-> n, of |-> a]
        /\ editing' = [name |-> n, of |-> a]
        /\ UNCHANGED <<backend, settings, editor, calls, written, misled, asked>>

(* handleUpdateAgent: the open editor's name is read before the call.       *)
Rename ==
    /\ editing.name # None /\ ~Busy("rename", editing.name)
    /\ \E a \in Named(settings, editing.name) :
          \E to \in {editing.name, NewName[a]} : Ask("rename", editing.name, to, editing.of, 1)
    /\ UNCHANGED <<backend, settings, editing, editor, written, misled>>

(* handleDeleteAgent, handleConfirmDeleteAgent.                             *)
Delete(n) ==
    /\ Named(settings, n) # {} /\ ~Busy("rename", n) /\ ~Busy("delete", n)
    /\ Ask("delete", n, None, None, 1)
    /\ UNCHANGED <<backend, settings, editing, editor, written, misled>>

(* handleOpenConfigEditor.                                                  *)
OpenConfig(n) ==
    /\ Named(settings, n) # {} /\ ~Busy("read", n) /\ ~Busy("write", n)
    /\ Ask("read", n, None, None, 1)
    /\ UNCHANGED <<backend, settings, editing, editor, written, misled>>
TypeConfig ==
    /\ editor.name # None /\ Named(settings, editor.name) # {} /\ ~editor.dirty
    /\ editor' = [editor EXCEPT !.dirty = TRUE]
    /\ UNCHANGED <<backend, settings, editing, calls, written, misled, asked>>

(* handleSaveConfigEditor.                                                  *)
SaveConfig ==
    /\ editor.name # None /\ Named(settings, editor.name) # {}
    /\ editor.dirty /\ ~Busy("write", editor.name)
    /\ Ask("write", editor.name, None, editor.of, 1)
    /\ UNCHANGED <<backend, settings, editing, editor, written, misled>>

(* onGenerateEditDescription, for the agent of the form.                    *)
Describe ==
    /\ editing.name # None /\ ~\E c \in calls : c.kind = "describe"
    /\ Ask("describe", editing.name, None, editing.of, 1)
    /\ UNCHANGED <<backend, settings, editing, editor, written, misled>>

(* handleMaxThreadsStep, applyCoreSettings.                                 *)
SetLimit(l) ==
    /\ l # settings.limit /\ ~\E c \in calls : c.kind = "limit"
    /\ Ask("limit", None, None, None, l)
    /\ UNCHANGED <<backend, settings, editing, editor, written, misled>>

----------------------------------------------------------------------------
(* The backend: a name is of one agent; what has none is refused.           *)
Works(c) == CASE c.kind \in {"rename", "delete", "read", "write"} ->
                   /\ Named(backend, c.name) # {}
                   /\ c.kind = "rename" => c.to = c.name \/ Named(backend, c.to) = {}
              [] OTHER -> TRUE
Changed(c) ==
    CASE c.kind = "limit" -> [backend EXCEPT !.limit = c.limit]
      [] c.kind = "rename" -> [backend EXCEPT !.names = [a \in Agents |-> IF @[a] = c.name THEN c.to ELSE @[a]]]
      [] c.kind = "delete" -> [backend EXCEPT !.names = [a \in Agents |-> IF @[a] = c.name THEN None ELSE @[a]]]
      [] OTHER -> backend
Does(c) ==
    /\ c.step = "asked"
    /\ IF Works(c)
       THEN /\ backend' = Changed(c)
            /\ written' = [a \in Agents |-> IF c.kind = "write" /\ backend.names[a] = c.name
                                            THEN written[a] \cup {c.of} ELSE written[a]]
            /\ calls' = (calls \ {c}) \cup {[c EXCEPT !.step = "done",
                            !.list = IF c.kind \in {"limit", "rename", "delete", "refresh"} THEN backend' ELSE @,
                            !.of = IF c.kind = "read" THEN CHOOSE a \in Named(backend, c.name) : TRUE ELSE @]}
       ELSE calls' = (calls \ {c}) \cup {[c EXCEPT !.step = "failed"]} /\ UNCHANGED <<backend, written>>
    /\ UNCHANGED <<settings, editing, editor, misled, asked>>

Ended(c) == calls' = calls \ {c}

LimitSet(c) ==
    /\ c.kind = "limit" /\ c.step = "done" /\ Ended(c)
    /\ settings' = c.list
    /\ UNCHANGED <<backend, editing, editor, written, misled, asked>>

(* The open editor follows the new name: the one open before the call.      *)
Follows(c) == IF c.open = c.name THEN [editor EXCEPT !.name = c.to] ELSE editor
Renamed(c) ==
    /\ c.kind = "rename" /\ c.step = "done" /\ Ended(c)
    /\ settings' = c.list
    /\ editor' = Follows(c)
    /\ editing' = NoOne
    /\ misled' = (misled \/ (editor.name # c.name /\ c.open = c.name)
                         \/ (editor.name = c.name /\ c.open # c.name))
    /\ UNCHANGED <<backend, written, asked>>

(* The editor of a deleted agent is closed: the one open before the call.   *)
Deleted(c) ==
    /\ c.kind = "delete" /\ c.step = "done" /\ Ended(c)
    /\ settings' = c.list
    /\ editor' = IF c.open = c.name THEN Closed ELSE editor
    /\ misled' = (misled \/ (editor.name = c.name /\ c.open # c.name))
    /\ UNCHANGED <<backend, editing, written, asked>>

(* The file read is the one shown, whichever was opened since.              *)
ConfigRead(c) ==
    /\ c.kind = "read" /\ c.step = "done" /\ Ended(c)
    /\ editor' = [name |-> c.name, of |-> c.of, dirty |-> FALSE]
    /\ misled' = (misled \/ settings.names[c.of] # c.name)
    /\ UNCHANGED <<backend, settings, editing, written, asked>>

(* A saved file is followed by a reading of the list.                       *)
ConfigWritten(c) ==
    /\ c.kind = "write" /\ c.step = "done"
    /\ calls' = (calls \ {c}) \cup {[c EXCEPT !.kind = "refresh", !.step = "asked"]}
    /\ UNCHANGED <<backend, settings, editing, editor, written, misled, asked>>
Refreshed(c) ==
    /\ c.kind = "refresh" /\ c.step = "done" /\ Ended(c)
    /\ settings' = c.list
    /\ editor' = [editor EXCEPT !.dirty = FALSE]
    /\ UNCHANGED <<backend, editing, written, misled, asked>>

(* The generated texts are put in the form that is open now.                *)
Described(c) ==
    /\ c.kind = "describe" /\ c.step = "done" /\ Ended(c)
    /\ editing' = IF editing.name # None THEN [editing EXCEPT !.of = c.of] ELSE editing
    /\ misled' = (misled \/ editing.of # c.of)
    /\ UNCHANGED <<backend, settings, editor, written, asked>>

Failed(c) ==
    /\ c.step = "failed" /\ Ended(c)
    /\ UNCHANGED <<backend, settings, editing, editor, written, misled, asked>>

Init ==
    /\ backend = First /\ settings = First
    /\ editing = [name |-> NameOf[Opened], of |-> Opened]
    /\ editor = [name |-> NameOf[Opened], of |-> Opened, dirty |-> FALSE]
    /\ calls = {}
    /\ written = [a \in Agents |-> {}] /\ misled = FALSE /\ asked = 0

Next ==
    \/ \E a \in Agents : StartEditing(a)
    \/ \E n \in Names : Delete(n) \/ OpenConfig(n)
    \/ Rename \/ TypeConfig \/ SaveConfig \/ Describe
    \/ \E l \in 1..MaxLimit : SetLimit(l)
    \/ \E c \in calls : Does(c) \/ LimitSet(c) \/ Renamed(c) \/ Deleted(c) \/ ConfigRead(c)
                        \/ ConfigWritten(c) \/ Refreshed(c) \/ Described(c) \/ Failed(c)

Spec == Init /\ [][Next]_vars

----------------------------------------------------------------------------
(* A config file is written with its own agent's text only, unless an       *)
(* answer went on with what was opened after its call.                      *)
FilesKeepTheirText == ~misled => \A a \in Agents : written[a] \subseteq {a}

(* The form has the texts of the agent it is for.                           *)
FormIsOfItsAgent ==
    ~misled /\ editing.name # None => \A a \in Named(settings, editing.name) : a = editing.of
=============================================================================
