---------------------------- MODULE LaunchEditors ----------------------------
(***************************************************************************)
(* The editors of the launch scripts in the header (MainHeader): that of the *)
(* launch script (useWorkspaceLaunchScript), and those of the further ones    *)
(* and of a new one (useWorkspaceLaunchScripts).  A save sends all settings  *)
(* of its workspace as the window has them, shows them at once, and takes    *)
(* them back when it fails; its answer closes the form of its kind, whichever*)
(* is open by then.                                                         *)
(***************************************************************************)
EXTENDS Naturals, FiniteSets

CONSTANTS
    Workspaces, None,
    Entries,        \* launch scripts there can be, of every workspace
    MaxEdits,       \* bound: texts typed
    MaxCalls,       \* bound: saves
    MaxMoves        \* bound: switches of workspace

VARIABLES
    at,             \* workspace looked at
    shown,          \* settings of each workspace in the window: text of each script, 0 if none
    stored,         \* the same in the backend
    launch, entry, new,     \* the three forms: what is edited, of which workspace
    saving,         \* isSaving of the two hooks
    saves,          \* updateWorkspaceSettings calls under way
    noted,          \* history: calls, texts, and what is not covered
    moves

vars == <<at, shown, stored, launch, entry, new, saving, saves, noted, moves>>

Slots == Entries \cup {"launch"}
Texts == 0..MaxEdits
Settings == [Slots -> Texts]
Hooks == {"one", "many"}
HookOf(kind) == IF kind = "launch" THEN "one" ELSE "many"
Saves == [n : 1..MaxCalls, ws : Workspaces, kind : {"launch", "entry", "new"}, slot : Slots, now : Settings,
          before : Settings, done : BOOLEAN]

TypeOK ==
    /\ at \in Workspaces /\ shown \in [Workspaces -> Settings] /\ stored \in [Workspaces -> Settings]
    /\ launch \in [open : BOOLEAN, ws : Workspaces, text : Texts]
    /\ entry \in [id : Entries \cup {None}, ws : Workspaces, text : Texts]
    /\ new \in [open : BOOLEAN, ws : Workspaces, text : Texts]
    /\ saving \subseteq Hooks
    /\ saves \subseteq Saves
    /\ noted \in [calls : 0..MaxCalls, texts : Texts, last : [Workspaces -> Settings],
                  unsure : SUBSET Workspaces, overlap : BOOLEAN]
    /\ moves \in 0..MaxMoves

Blank == [w \in Workspaces |-> [s \in Slots |-> 0]]
NoEntry(w) == [id |-> None, ws |-> w, text |-> 0]
Shut(w) == [open |-> FALSE, ws |-> w, text |-> 0]
Shows(w) == {i \in Entries : shown[w][i] # 0}

----------------------------------------------------------------------------
(* The effects that follow a change of workspace or of its launch script.    *)
LaunchReset(w, s) == [open |-> FALSE, ws |-> w, text |-> s[w]["launch"]]
Switch(w) ==
    /\ moves < MaxMoves /\ moves' = moves + 1
    /\ w # at /\ at' = w
    /\ launch' = LaunchReset(w, shown) /\ entry' = NoEntry(w) /\ new' = Shut(w)
    /\ UNCHANGED <<shown, stored, saving, saves, noted>>
(* The window shows other settings of a workspace.                           *)
Shown(w, s, closes) ==
    /\ shown' = [shown EXCEPT ![w] = s]
    /\ launch' = IF w = at /\ s["launch"] # shown[w]["launch"] THEN LaunchReset(at, shown')
                 ELSE [launch EXCEPT !.open = @ /\ ~closes]

(* Clicks outside a form close it first: at most one is open, and the one for *)
(* a new script, which is part of the editor of the launch script.           *)
OpenLaunch ==
    /\ ~launch.open /\ launch' = [open |-> TRUE, ws |-> at, text |-> shown[at]["launch"]]
    /\ entry' = NoEntry(at)
    /\ UNCHANGED <<at, shown, stored, new, saving, saves, noted, moves>>
OpenEditor(i) ==
    /\ i \in Shows(at) /\ entry.id # i /\ entry' = [id |-> i, ws |-> at, text |-> shown[at][i]]
    /\ launch' = [launch EXCEPT !.open = FALSE] /\ new' = [new EXCEPT !.open = @ /\ ~launch.open]
   
    /\ UNCHANGED <<at, shown, stored, saving, saves, noted, moves>>
OpenNew ==
    /\ launch.open /\ new' = [open |-> TRUE, ws |-> at, text |-> 0]
    /\ UNCHANGED <<at, shown, stored, launch, entry, saving, saves, noted, moves>>
CloseForms ==
    /\ launch.open \/ entry.id # None
    /\ launch' = [launch EXCEPT !.open = FALSE] /\ new' = [new EXCEPT !.open = @ /\ ~launch.open]
    /\ entry' = [entry EXCEPT !.id = None]
    /\ UNCHANGED <<at, shown, stored, saving, saves, noted, moves>>

Typed == noted.texts < MaxEdits /\ noted' = [noted EXCEPT !.texts = @ + 1]
TypeLaunch ==
    /\ launch.open /\ Typed /\ launch' = [launch EXCEPT !.text = noted'.texts]
    /\ UNCHANGED <<at, shown, stored, entry, new, saving, saves, moves>>
TypeEntry ==
    /\ entry.id # None /\ Typed /\ entry' = [entry EXCEPT !.text = noted'.texts]
    /\ UNCHANGED <<at, shown, stored, launch, new, saving, saves, moves>>
TypeNew ==
    /\ launch.open /\ new.open /\ Typed /\ new' = [new EXCEPT !.text = noted'.texts]
    /\ UNCHANGED <<at, shown, stored, launch, entry, saving, saves, moves>>

----------------------------------------------------------------------------
(* updateWorkspaceSettings with one script of the workspace changed.         *)
Save(kind, slot, text) ==
    LET now == [shown[at] EXCEPT ![slot] = text]
    IN  /\ noted.calls < MaxCalls
        /\ saves' = saves \cup {[n |-> noted.calls + 1, ws |-> at, kind |-> kind, slot |-> slot, now |-> now,
                                 before |-> shown[at], done |-> FALSE]}
        /\ saving' = saving \cup {HookOf(kind)}
        /\ noted' = [noted EXCEPT !.calls = @ + 1, !.last[at][slot] = text,
                                  !.unsure = @ \cup {w \in {at} : shown[w] # noted.last[w]},
                                  !.overlap = @ \/ HookOf(kind) \in saving]
        /\ Shown(at, now, FALSE)
        /\ UNCHANGED <<at, stored, entry, new, moves>>
SaveLaunch == launch.open /\ "one" \notin saving /\ Save("launch", "launch", launch.text)
SaveScript == entry.id # None /\ "many" \notin saving /\ entry.text # 0 /\ Save("entry", entry.id, entry.text)
(* The button that deletes is not held back by a save.                       *)
DeleteScript == entry.id \in Shows(at) /\ Save("entry", entry.id, 0)
CreateNew ==
    /\ launch.open /\ new.open /\ "many" \notin saving /\ new.text # 0
    /\ \E i \in Entries \ Shows(at) : noted.last[at][i] = 0 /\ Save("new", i, new.text)

(* Saves of the same workspace that were made before.                        *)
Earlier(s) == {r \in saves : r.ws = s.ws /\ r.n < s.n}
SaveDone(s) ==
    /\ ~s.done /\ stored' = [stored EXCEPT ![s.ws] = s.now]
    /\ saves' = (saves \ {s}) \cup {[s EXCEPT !.done = TRUE]}
    /\ noted' = [noted EXCEPT !.unsure = @ \cup {r.ws : r \in {o \in Earlier(s) : ~o.done}}]
    /\ UNCHANGED <<at, shown, launch, entry, new, saving, moves>>
SaveAnswered(s) ==
    /\ s.done /\ saves' = saves \ {s}
    /\ Shown(s.ws, s.now, s.kind = "launch")
    /\ entry' = IF s.kind = "entry" THEN [entry EXCEPT !.id = None] ELSE entry
    /\ new' = IF s.kind = "new" THEN [new EXCEPT !.open = FALSE] ELSE new
    /\ saving' = saving \ {HookOf(s.kind)}
    /\ noted' = [noted EXCEPT !.unsure = @ \cup {r.ws : r \in Earlier(s)}]
    /\ UNCHANGED <<at, stored, moves>>
SaveFails(s) ==
    /\ ~s.done /\ saves' = saves \ {s}
    /\ Shown(s.ws, s.before, FALSE)
    /\ saving' = saving \ {HookOf(s.kind)}
    /\ noted' = [noted EXCEPT !.last[s.ws] = s.before,
                              !.unsure = @ \cup {r.ws : r \in {o \in saves \ {s} : o.ws = s.ws}}]
    /\ UNCHANGED <<at, stored, entry, new, moves>>

Init ==
    /\ at = CHOOSE w \in Workspaces : TRUE
    /\ shown = Blank /\ stored = Blank
    /\ launch = Shut(at) /\ entry = NoEntry(at) /\ new = Shut(at) /\ saving = {}
    /\ saves = {} /\ moves = 0
    /\ noted = [calls |-> 0, texts |-> 0, last |-> Blank, unsure |-> {}, overlap |-> FALSE]

Next ==
    \/ \E w \in Workspaces : Switch(w)
    \/ OpenLaunch \/ OpenNew \/ CloseForms \/ TypeLaunch \/ TypeEntry \/ TypeNew
    \/ SaveLaunch \/ SaveScript \/ DeleteScript \/ CreateNew
    \/ \E i \in Entries : OpenEditor(i)
    \/ \E s \in saves : SaveDone(s) \/ SaveAnswered(s) \/ SaveFails(s)

Spec == Init /\ [][Next]_vars

----------------------------------------------------------------------------
(* When all saves are answered, the window shows the scripts that are stored, *)
(* with each text that was saved: but in a workspace where two saves were     *)
(* taken or answered in the other order, where one failed beside another, or *)
(* where one was made while the window showed older settings.                *)
ScriptsSaved ==
    saves = {} => \A w \in Workspaces \ noted.unsure : shown[w] = stored[w] /\ stored[w] = noted.last[w]

(* A form that is open edits a script of the workspace looked at.            *)
FormsAreOfTheWorkspace ==
    /\ launch.open => launch.ws = at
    /\ entry.id # None => entry.ws = at
    /\ new.open => new.ws = at

(* The buttons are held back exactly while a save of theirs is under way: but *)
(* for a script deleted during a save.                                      *)
HeldWhileSaving ==
    ~noted.overlap => \A h \in Hooks : h \in saving <=> \E s \in saves : HookOf(s.kind) = h
=============================================================================
