----------------------------- MODULE WorkspaceStore ----------------------------
(***************************************************************************)
(* The window's list of workspaces (useWorkspaces, useWorkspaceCrud,        *)
(* useWorktreeOps, useWorkspaceGroupOps, handleMoveWorkspace) against the     *)
(* commands that serve its calls (workspaces_core): what the window shows    *)
(* while calls are served in any order, fail after they have changed the      *)
(* backend's entries, and are answered in any order.                         *)
(*                                                                         *)
(* workspaceSettingsRef is rebuilt from the list after every render and     *)
(* written by every update, so it differs from the list only between two    *)
(* updates made in one go: UpdateSettings makes them.  A workspace's        *)
(* settings are the set of the patches in it, one of them the setup script, *)
(* which worktrees take from their parent.  Names are not modelled.         *)
(***************************************************************************)
EXTENDS Naturals, FiniteSets

CONSTANTS
    Ids, None,
    ParentOf,     \* the parent of a worktree, None of the others
    Fields,       \* patches of the settings
    Script,       \* the one among them that sets worktree_setup_script
    Known,        \* workspaces there are when the window opens
    MaxCalls      \* bound

VARIABLES
    server,    \* what the backend has: entries by workspace, None if it has none
    shown,     \* what the window lists, likewise
    twice,     \* workspaces the window lists twice
    active,    \* activeWorkspaceId
    deleting,  \* deletingWorktreeIds
    calls,     \* calls under way
    made,      \* how many were made
    patched,   \* history: the patches of the settings no update failed to make
    crossed,   \* history: calls or answers crossed that must not
    untold     \* history: workspaces the backend changed and no answer has shown since

vars == <<server, shown, twice, active, deleting, calls, made, patched, crossed, untold>>

Entry == [settings : SUBSET Fields, connected : BOOLEAN]
NoEntry == [settings |-> {}, connected |-> FALSE, gone |-> TRUE]
Entries == Entry \cup {NoEntry}
Kinds == {"list", "add", "connect", "update", "rename", "remove", "removeWorktree"}

Existing(entries) == {i \in Ids : entries[i] # NoEntry}
Listed == Existing(shown)
Kids(i) == {w \in Ids : ParentOf[w] = i}

TypeOK ==
    /\ server \in [Ids -> Entries] /\ shown \in [Ids -> Entries]
    /\ twice \subseteq Ids /\ active \in Ids \cup {None} /\ deleting \subseteq Ids
    /\ \A c \in calls :
          /\ c.n \in 1..made /\ c.kind \in Kinds /\ c.id \in Ids \cup {None}
          /\ c.sent \subseteq Fields /\ c.kids \subseteq Ids /\ c.activate \in BOOLEAN
          /\ c.state \in {"sent", "done", "failed"} /\ c.was \in Entries
          /\ c.answer \in [Ids -> Entries]
    /\ made \in 0..MaxCalls /\ patched \in [Ids -> SUBSET Fields] /\ crossed \in BOOLEAN
    /\ untold \subseteq Ids

Fresh == [settings |-> {}, connected |-> FALSE]
NoAnswer == [i \in Ids |-> NoEntry]

Init ==
    /\ server = [i \in Ids |-> IF i \in Known THEN Fresh ELSE NoEntry]
    /\ shown = NoAnswer
    /\ twice = {} /\ active = None /\ deleting = {} /\ calls = {} /\ made = 0
    /\ patched = [i \in Ids |-> {}] /\ crossed = FALSE /\ untold = {}

Call(n, kind, id) ==
    [n |-> n, kind |-> kind, id |-> id, sent |-> {}, kids |-> {}, activate |-> FALSE,
     state |-> "sent", was |-> NoEntry, answer |-> NoAnswer]

Begin(c) == made < MaxCalls /\ made' = made + 1 /\ calls' = calls \cup {c}

----------------------------------------------------------------------------
(* The calls.                                                              *)

RefreshWorkspaces ==
    /\ Begin(Call(made + 1, "list", None))
    /\ UNCHANGED <<server, shown, twice, active, deleting, patched, crossed, untold>>

(* addWorkspaceFromPath, addWorkspaceFromGitUrl, addCloneAgent and          *)
(* addWorktreeAgent, whose workspaces have new ids; a worktree for a run     *)
(* does not become active.                                                 *)
AddWorkspace(i, activate) ==
    /\ i \notin Existing(server) \cup Listed /\ \A c \in calls : ~(c.kind = "add" /\ c.id = i)
    /\ ParentOf[i] # None => ParentOf[i] \in Listed
    /\ Begin([Call(made + 1, "add", i) EXCEPT !.activate = activate])
    /\ UNCHANGED <<server, shown, twice, active, deleting, patched, crossed, untold>>

ConnectWorkspace(i) ==
    /\ i \in Listed /\ ~shown[i].connected
    /\ Begin(Call(made + 1, "connect", i))
    /\ UNCHANGED <<server, shown, twice, active, deleting, patched, crossed, untold>>

(* removeWorkspace notes the children there are; a worktree is marked.     *)
RemoveWorkspace(i) ==
    /\ i \in Listed
    /\ IF ParentOf[i] = None
       THEN /\ Begin([Call(made + 1, "remove", i) EXCEPT !.kids = Kids(i) \cap Listed])
            /\ UNCHANGED deleting
       ELSE /\ i \notin deleting
            /\ Begin(Call(made + 1, "removeWorktree", i)) /\ deleting' = deleting \cup {i}
    /\ UNCHANGED <<server, shown, twice, active, patched, crossed, untold>>

(* Mutant: the second patch is made on the settings of the render.         *)
OnTheRender(settings, first) == settings

(* The second of two patches made in one go finds the first in the ref.    *)
OnTheRef(settings, first) == settings \cup {first}

(* A patch is made on settings that lack one under way: an older answer     *)
(* has undone it.                                                          *)
LacksOneUnderWay(i) ==
    \E c \in calls : c.kind = "update" /\ c.id = i /\ ~(c.sent \subseteq shown[i].settings)

(* updateWorkspaceSettings, once or twice in one go: shown at once.  Moving *)
(* a workspace and the groups' operations are made of these.               *)
UpdateSettings(i, f, g) ==
    /\ i \in Listed /\ f \notin shown[i].settings
    /\ LET old == shown[i].settings
           one == [Call(made + 1, "update", i) EXCEPT !.sent = old \cup {f}, !.was = shown[i]]
           two == [Call(made + 2, "update", i) EXCEPT
                     !.sent = OnTheRef(old, f) \cup {g},
                     !.was = [shown[i] EXCEPT !.settings = old \cup {f}]]
           pair == g # f /\ made + 2 <= MaxCalls
           last == IF pair THEN two ELSE one
       IN  /\ made < MaxCalls
           /\ made' = IF pair THEN made + 2 ELSE made + 1
           /\ calls' = calls \cup {one, last}
           /\ shown' = [shown EXCEPT ![i].settings = last.sent]
           /\ patched' = [patched EXCEPT ![i] = @ \cup {f} \cup (IF pair THEN {g} ELSE {})]
    /\ crossed' = (crossed \/ LacksOneUnderWay(i))
    /\ UNCHANGED <<server, twice, active, deleting, untold>>

(* renameWorktree shows the new name at once; the name is not modelled, the *)
(* entry it restores is.                                                   *)
RenameWorktree(i) ==
    /\ i \in Listed /\ ParentOf[i] # None
    /\ Begin([Call(made + 1, "rename", i) EXCEPT !.was = shown[i]])
    /\ UNCHANGED <<server, shown, twice, active, deleting, patched, crossed, untold>>

----------------------------------------------------------------------------
(* The backend serves its calls in any order, and changes its entries before *)
(* it writes them to a file: what a call may leave in memory.                *)
Found(c) == \* what it is about is there
    IF c.kind = "add" THEN ParentOf[c.id] \in Existing(server) \cup {None}
    ELSE c.kind = "list" \/ c.id \in Existing(server)

(* A worktree starts with the script its parent had, when git began.        *)
Added(c, connected) ==
    LET parent == ParentOf[c.id]
        script == IF parent = None THEN {} ELSE server[parent].settings \cap {Script}
    IN  {[server EXCEPT ![c.id] = [settings |-> s, connected |-> connected]] : s \in SUBSET script}

(* The worktrees of a workspace take its script when it changes.           *)
Updated(c) ==
    LET changed == (Script \in c.sent) # (Script \in server[c.id].settings)
    IN  [i \in Ids |->
            IF i = c.id THEN [server[i] EXCEPT !.settings = c.sent]
            ELSE IF changed /\ i \in Kids(c.id) \cap Existing(server)
            THEN [server[i] EXCEPT !.settings = (@ \ {Script}) \cup (c.sent \cap {Script})]
            ELSE server[i]]

(* Sessions end before folders are removed, and entries go after.           *)
Without(gone, ended) ==
    [i \in Ids |-> IF i \in gone THEN NoEntry
                   ELSE IF i \in ended THEN [server[i] EXCEPT !.connected = FALSE] ELSE server[i]]

Done(c) ==
    CASE c.kind = "add" -> Added(c, TRUE)
      [] c.kind = "connect" -> {[server EXCEPT ![c.id].connected = TRUE]}
      [] c.kind = "update" -> {Updated(c)}
      [] c.kind = "remove" -> {Without({c.id} \cup Kids(c.id), {})}
      [] c.kind = "removeWorktree" -> {Without({c.id}, {})}
      [] OTHER -> {server}

(* A call that fails has done nothing; or all of it, and the file could not  *)
(* be written or the answer was lost; or a part: a worktree without its      *)
(* session, a removal that could not remove some worktree.                  *)
Failed(c) ==
    {server} \cup Done(c) \cup
    CASE c.kind = "add" /\ ParentOf[c.id] # None -> Added(c, FALSE)
      [] c.kind = "remove" -> {Without(gone, Kids(c.id)) : gone \in SUBSET Kids(c.id)}
      [] c.kind = "removeWorktree" -> {Without({}, {c.id})}
      [] OTHER -> {}

(* Those of which the answer tells the window.                              *)
ToldOf(c) ==
    CASE c.kind = "list" -> Ids [] c.kind = "remove" -> {c.id} \cup Kids(c.id) [] OTHER -> {c.id}

OvertakesAnUpdate(c) ==
    c.kind = "update" /\ \E d \in calls :
        d.kind = "update" /\ d.id = c.id /\ d.state = "sent" /\ d.n < c.n

Serve(c) ==
    /\ c.state = "sent"
    /\ \E ok \in BOOLEAN :
          /\ ok => Found(c)
          /\ server' \in IF ok THEN Done(c) ELSE IF Found(c) THEN Failed(c) ELSE {server}
          /\ calls' = (calls \ {c}) \cup
                {IF ok THEN [c EXCEPT !.state = "done", !.answer = server'] ELSE [c EXCEPT !.state = "failed"]}
          /\ untold' = untold \cup
                {i \in Ids \ (IF ok THEN ToldOf(c) ELSE {}) : server'[i] # server[i]}
    /\ crossed' = (crossed \/ OvertakesAnUpdate(c))
    /\ UNCHANGED <<shown, twice, active, deleting, made, patched>>

(* Two answers that must not cross: a listing and anything, a removal and   *)
(* what is done to its workspace or under it, two writers of one entry.    *)
Conflict(c, d) ==
    \/ "list" \in {c.kind, d.kind}
    \/ c.id = d.id /\ {c.kind, d.kind} # {"update"}
    \/ c.kind = "remove" /\ ParentOf[d.id] = c.id
    \/ d.kind = "remove" /\ ParentOf[c.id] = d.id

Crosses(c) ==
    \E d \in calls \ {c} :
        \/ Conflict(c, d)
        \/ c.kind = "update" /\ c.id = d.id /\ (d.n < c.n \/ c.state = "failed")

(* Mutant: the children stay listed.                                       *)
LeavesTheList(c) == {c.id}

(* Those that leave the list: the children too, as listed now.             *)
Leaving(c) == IF c.kind = "remove" THEN {c.id} \cup Kids(c.id) ELSE {c.id}

(* Mutant: what failed stays as it was shown.                              *)
KeptAsShown(c) == shown[c.id]

(* What is shown again when an update or a rename failed.                  *)
RolledBack(c) ==
    IF c.kind = "update" THEN [shown[c.id] EXCEPT !.settings = c.was.settings] ELSE c.was

(* Added last, whatever is listed.                                         *)
Answered(c) ==
    CASE c.kind = "list" ->
            /\ shown' = c.answer /\ twice' = {}
            /\ active' = IF active \in Existing(c.answer) THEN active ELSE None
      [] c.kind = "add" ->
            /\ shown' = [shown EXCEPT ![c.id] = c.answer[c.id]]
            /\ twice' = IF c.id \in Listed THEN twice \cup {c.id} ELSE twice
            /\ active' = IF c.activate THEN c.id ELSE active
      [] c.kind = "connect" ->
            /\ shown' = IF c.id \in Listed
                        THEN [shown EXCEPT ![c.id].connected = TRUE] ELSE shown
            /\ UNCHANGED <<twice, active>>
      [] c.kind \in {"update", "rename"} ->
            /\ shown' = IF c.id \in Listed
                        THEN [shown EXCEPT ![c.id] = c.answer[c.id]] ELSE shown
            /\ UNCHANGED <<twice, active>>
      [] OTHER ->
            /\ shown' = [i \in Ids |-> IF i \in Leaving(c) THEN NoEntry ELSE shown[i]]
            /\ twice' = twice \ Leaving(c)
            /\ active' = IF active \in {c.id} \cup c.kids THEN None ELSE active

HandleAnswer(c) ==
    /\ c.state # "sent" /\ calls' = calls \ {c}
    /\ IF c.state = "done"
       THEN /\ Answered(c)
            /\ patched' = [i \in Ids |-> IF shown'[i] = NoEntry THEN {} ELSE patched[i]]
       ELSE /\ shown' = IF c.kind \in {"update", "rename"} /\ c.id \in Listed
                        THEN [shown EXCEPT ![c.id] = RolledBack(c)] ELSE shown
            /\ patched' = IF c.kind = "update"
                          THEN [patched EXCEPT ![c.id] = @ \cap c.was.settings] ELSE patched
            /\ UNCHANGED <<twice, active>>
    /\ deleting' = IF c.kind = "removeWorktree" THEN deleting \ {c.id} ELSE deleting
    /\ crossed' = (crossed \/ Crosses(c))
    /\ untold' = IF c.state = "done" THEN untold \ {i \in ToldOf(c) : shown'[i] = server[i]} ELSE untold
    /\ UNCHANGED <<server, made>>

(* The user goes to a workspace that is listed, or home.                   *)
SetActiveWorkspace(w) ==
    /\ w \in Listed \cup {None} /\ w # active /\ active' = w
    /\ UNCHANGED <<server, shown, twice, deleting, calls, made, patched, crossed, untold>>

Next ==
    \/ RefreshWorkspaces
    \/ \E i \in Ids :
          \/ \E activate \in BOOLEAN : AddWorkspace(i, activate)
          \/ ConnectWorkspace(i) \/ RemoveWorkspace(i) \/ RenameWorktree(i)
          \/ \E f, g \in Fields : UpdateSettings(i, f, g)
    \/ \E c \in calls : Serve(c) \/ HandleAnswer(c)
    \/ \E w \in Ids \cup {None} : SetActiveWorkspace(w)

Spec == Init /\ [][Next]_vars

----------------------------------------------------------------------------
(* Whatever calls are under way together, unless calls crossed that must not: *)
(* once they are all answered the window lists each workspace once, as the    *)
(* backend has it but for those it changed by a call that failed, or by a     *)
(* parent's script, and has not listed since; every patch that did not fail   *)
(* is shown, and the active workspace is a listed one                       *)
(* (updateWorkspaceSettings with its ref and its rollback, removeWorkspace   *)
(* and the functional updates of the others).                              *)
SettlesOnTheBackend ==
    calls = {} /\ ~crossed /\ Listed # {} =>
        /\ \A i \in Ids \ untold : shown[i] = server[i]
        /\ twice = {}
        /\ \A i \in Listed : patched[i] \subseteq shown[i].settings
        /\ active # None => active \in Listed
        /\ deleting = {}
=============================================================================
