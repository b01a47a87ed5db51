---------------------------- MODULE SettingsStore ----------------------------
(***************************************************************************)
(* The settings of the application (useAppSettings, useUiScaleShortcuts,    *)
(* useMobileServerSetup, useSettingsServerSection).                        *)
(*                                                                         *)
(* They are saved whole.  A save is a snapshot of what the window shows with*)
(* one field changed, and saves are sent one after another.  Some edits are *)
(* shown at once (zoom, the model last chosen), the rest once their save is *)
(* answered.  Adding a remote, and connecting to one, save more than once   *)
(* with a call to the remote in between, from snapshots they took before.   *)
(***************************************************************************)
EXTENDS Naturals, Sequences, FiniteSets

CONSTANTS
    Remotes, First,   \* ids of remote backends, and the one there is at the start
    Hosts,            \* their addresses: naturals from 0, First's
    Latest,           \* bound: versions of a plain field are 0..Latest
    MaxSteps          \* bound: edits and failures

VARIABLES
    settings,   \* useAppSettings' state: what the window shows
    stored,     \* the backend's
    queue,      \* saveQueueRef: saves in their order
    load,       \* the first getAppSettings
    flows,      \* handleAddRemoteBackend and onConnectTest under way
    wanted,     \* history: what the user last asked of each field
    lost,       \* history: the fields the last save had not as wanted
    astray,     \* history: what is shown was never saved, or an older reading
    spent

vars == <<settings, stored, queue, load, flows, wanted, lost, astray, spent>>

Fields == {"zoom", "theme", "remotes"}
RemoteLists == UNION {[1..n -> [id : Remotes, host : Hosts]] : n \in 1..Cardinality(Remotes)}
Settings == [zoom : 0..Latest, theme : 0..Latest,
             remotes : [list : RemoteLists, active : Remotes, host : Hosts]]
Default == [zoom |-> 0, theme |-> 0,
            remotes |-> [list |-> <<[id |-> First, host |-> 0]>>, active |-> First, host |-> 0]]

Idle == [step |-> "none", from |-> Default, to |-> Default]

TypeOK ==
    /\ settings \in Settings /\ stored \in Settings /\ wanted \in Settings
    /\ \A i \in 1..Len(queue) : queue[i] \in
          [snap : Settings, by : Fields \cup {"add", "connect"}, step : {"waits", "written", "refused"}]
    /\ load \in [step : {"asked", "read", "done"}, value : Settings]
    /\ flows \in [{"add", "connect"} ->
          [step : {"none", "saves", "lists", "marks", "undoes"}, from : Settings, to : Settings]]
    /\ lost \subseteq Fields /\ astray \in BOOLEAN
    /\ spent \in 0..MaxSteps

----------------------------------------------------------------------------
At(r, id) == CHOOSE i \in 1..Len(r.list) : r.list[i].id = id
Listed(r, id) == \E i \in 1..Len(r.list) : r.list[i].id = id

NormalizedAsIs(s) == s

(* normalizeRemoteBackends: an active id that is not listed is the first's, *)
(* and the active remote is where the old fields say.                      *)
Normalized(s) ==
    LET r == s.remotes
        a == IF Listed(r, r.active) THEN r.active ELSE r.list[1].id
    IN  [s EXCEPT !.remotes = [list |-> [r.list EXCEPT ![At(r, a)].host = r.host],
                               active |-> a, host |-> r.host]]

(* buildSettingsFromRemoteBackends: the old fields follow the active remote.*)
WithRemotes(s, list, preferred) ==
    LET r == [list |-> list, active |-> preferred, host |-> 0]
        a == CASE Listed(r, preferred) -> preferred
               [] Listed(r, s.remotes.active) -> s.remotes.active
               [] OTHER -> list[1].id
    IN  [s EXCEPT !.remotes = [list |-> list, active |-> a, host |-> list[At(r, a)].host]]

(* queueSaveSettings: a save waits for the ones before it.                  *)
Save(snap, by) ==
    /\ queue' = Append(queue, [snap |-> Normalized(snap), by |-> by, step |-> "waits"])
    /\ lost' = {f \in Fields : Normalized(snap)[f] # wanted'[f]}

Step == spent < MaxSteps /\ spent' = spent + 1

(* handleScaleDelta, handleSelectModel, handleSelectOpenAppId: shown at once.*)
Zoom ==
    /\ Step /\ wanted.zoom < Latest
    /\ wanted' = [wanted EXCEPT !.zoom = @ + 1]
    /\ settings' = [settings EXCEPT !.zoom = wanted'.zoom]
    /\ Save(settings', "zoom")
    /\ UNCHANGED <<stored, load, flows, astray>>

(* A field of a settings section: shown when the save is answered.          *)
Choose ==
    /\ Step /\ wanted.theme < Latest
    /\ wanted' = [wanted EXCEPT !.theme = @ + 1]
    /\ Save([settings EXCEPT !.theme = wanted'.theme], "theme")
    /\ UNCHANGED <<settings, stored, load, flows, astray>>

(* persistRemoteBackends.                                                   *)
Persist(list, preferred) ==
    LET next == WithRemotes(settings, list, preferred)
    IN  /\ next # settings
        /\ wanted' = [wanted EXCEPT !.remotes = next.remotes]
        /\ Save(next, "remotes")
        /\ UNCHANGED <<settings, stored, load, flows, astray>>

(* handleSelectRemoteBackend, handleCommitRemoteHost.                       *)
SelectRemote(id) == Step /\ Listed(settings.remotes, id) /\ Persist(settings.remotes.list, id)
MoveHost(h) ==
    LET r == settings.remotes
    IN  Step /\ Persist([r.list EXCEPT ![At(r, r.active)].host = h], r.active)

(* handleMoveRemoteBackend.                                                 *)
MoveRemote(i) ==
    LET r == settings.remotes
    IN  /\ Step /\ i < Len(r.list)
        /\ Persist([r.list EXCEPT ![i] = r.list[i + 1], ![i + 1] = r.list[i]], r.active)

(* handleDeleteRemoteBackend: the next one is active, never none.           *)
DeleteRemote(id) ==
    LET r == settings.remotes
        left == SelectSeq(r.list, LAMBDA e : e.id # id)
        i == At(r, id)
    IN  /\ Step /\ Len(r.list) > 1 /\ Listed(r, id)
        /\ Persist(left, IF r.active # id THEN r.active
                         ELSE left[IF i < Len(left) THEN i ELSE Len(left)].id)

(* handleAddRemoteBackend: the remote is saved as the active one and tried. *)
AddRemote(id, h) ==
    LET to == WithRemotes(settings, Append(settings.remotes.list, [id |-> id, host |-> h]), id)
    IN  /\ Step /\ flows["add"].step = "none" /\ ~Listed(settings.remotes, id)
        /\ flows' = [flows EXCEPT !["add"] = [step |-> "saves", from |-> settings, to |-> to]]
        /\ wanted' = [wanted EXCEPT !.remotes = to.remotes]
        /\ Save(to, "add")
        /\ UNCHANGED <<settings, stored, load, astray>>

(* useMobileServerSetup's onConnectTest: only the old fields are written.   *)
Connect(h) ==
    LET to == [settings EXCEPT !.remotes.host = h]
    IN  /\ Step /\ flows["connect"].step = "none"
        /\ flows' = [flows EXCEPT !["connect"] = [step |-> "saves", from |-> settings, to |-> Normalized(to)]]
        /\ wanted' = [wanted EXCEPT !.remotes = Normalized(to).remotes]
        /\ Save(to, "connect")
        /\ UNCHANGED <<settings, stored, load, astray>>

(* listWorkspaces answers: the remote is marked as connected, in the        *)
(* settings of the first save.                                             *)
Reached(f) ==
    /\ flows[f].step = "lists"
    /\ flows' = [flows EXCEPT ![f].step = "marks"]
    /\ UNCHANGED wanted
    /\ Save(flows[f].to, f)
    /\ UNCHANGED <<settings, stored, load, astray, spent>>

(* It does not: an added remote is taken back, with the settings of before. *)
Undo ==
    /\ flows' = [flows EXCEPT !["add"].step = "undoes"]
    /\ wanted' = [wanted EXCEPT !.remotes = flows["add"].from.remotes]
    /\ Save(flows["add"].from, "add")
Unreached(f) ==
    /\ flows[f].step = "lists" /\ Step
    /\ IF f = "add" THEN Undo
       ELSE flows' = [flows EXCEPT ![f] = Idle] /\ UNCHANGED <<queue, lost, wanted>>
    /\ UNCHANGED <<settings, stored, load, astray>>

----------------------------------------------------------------------------
(* Only the first of the queue is sent.                                     *)
TurnOfAny(i) == TRUE
Turn(i) == i = 1

(* update_app_settings writes the whole of it.                             *)
Written(i) ==
    /\ queue[i].step = "waits" /\ Turn(i)
    /\ stored' = queue[i].snap
    /\ queue' = [queue EXCEPT ![i].step = "written"]
    /\ UNCHANGED <<settings, load, flows, wanted, lost, astray, spent>>
Refused(i) ==
    /\ queue[i].step = "waits" /\ Turn(i) /\ Step
    /\ queue' = [queue EXCEPT ![i].step = "refused"]
    /\ UNCHANGED <<settings, stored, load, flows, wanted, lost, astray>>

Without(i) == [j \in 1..(Len(queue) - 1) |-> IF j < i THEN queue[j] ELSE queue[j + 1]]

(* What a flow does when its save is answered.                             *)
AfterSave(by) ==
    IF by \notin DOMAIN flows THEN flows
    ELSE [flows EXCEPT ![by] = IF @.step = "saves" THEN [@ EXCEPT !.step = "lists"] ELSE Idle]

(* saveSettings' answer replaces what is shown.                            *)
Answered(i) ==
    /\ queue[i].step = "written"
    /\ settings' = queue[i].snap /\ astray' = FALSE
    /\ queue' = Without(i)
    /\ flows' = AfterSave(queue[i].by)
    /\ UNCHANGED <<stored, load, wanted, lost, spent>>

(* A refused save changes nothing, and what was shown at once stays; a      *)
(* remote whose second save fails is taken back.                           *)
Failed(i) ==
    LET by == queue[i].by
    IN  /\ queue[i].step = "refused"
        /\ astray' = (astray \/ by = "zoom")
        /\ IF by = "add" /\ flows["add"].step = "marks"
           THEN /\ wanted' = [wanted EXCEPT !.remotes = flows["add"].from.remotes]
                /\ flows' = [flows EXCEPT !["add"].step = "undoes"]
                /\ queue' = Append(Without(i), [snap |-> flows["add"].from, by |-> "add", step |-> "waits"])
                /\ lost' = {f \in Fields : flows["add"].from[f] # wanted'[f]}
           ELSE /\ queue' = Without(i)
                /\ flows' = IF by \in DOMAIN flows THEN [flows EXCEPT ![by] = Idle] ELSE flows
                /\ lost' = IF Len(queue) = 1 THEN {f \in Fields : stored[f] # wanted[f]} ELSE lost
                /\ UNCHANGED wanted
        /\ UNCHANGED <<settings, stored, load, spent>>

(* useAppSettings' effect: the settings are read once, whatever was done    *)
(* meanwhile; a failed reading leaves the defaults.                         *)
Read ==
    /\ load.step = "asked" /\ load' = [step |-> "read", value |-> stored]
    /\ UNCHANGED <<settings, stored, queue, flows, wanted, lost, astray, spent>>
Loaded ==
    /\ load.step = "read" /\ load' = [load EXCEPT !.step = "done"]
    /\ settings' = Normalized(load.value)
    /\ astray' = (load.value # stored)
    /\ UNCHANGED <<stored, queue, flows, wanted, lost, spent>>
NotLoaded ==
    /\ load.step = "asked" /\ Step
    /\ load' = [load EXCEPT !.step = "done"] /\ astray' = (settings # stored)
    /\ UNCHANGED <<settings, stored, queue, flows, wanted, lost>>

Init ==
    /\ settings = Default /\ stored \in {Default, [Default EXCEPT !.theme = 1]}
    /\ queue = <<>> /\ load = [step |-> "asked", value |-> Default]
    /\ flows = [f \in {"add", "connect"} |-> Idle]
    /\ wanted = stored /\ lost = {} /\ astray = FALSE
    /\ spent = 0

Next ==
    \/ Zoom \/ Choose
    \/ \E id \in Remotes : SelectRemote(id) \/ DeleteRemote(id)
    \/ \E h \in Hosts : MoveHost(h) \/ Connect(h) \/ \E id \in Remotes : AddRemote(id, h)
    \/ \E i \in 1..Cardinality(Remotes) : MoveRemote(i)
    \/ \E f \in {"add", "connect"} : Reached(f) \/ Unreached(f)
    \/ \E i \in 1..Len(queue) : Written(i) \/ Refused(i) \/ Answered(i) \/ Failed(i)
    \/ Read \/ Loaded \/ NotLoaded

Spec == Init /\ [][Next]_vars

----------------------------------------------------------------------------
Quiet == queue = <<>> /\ load.step = "done"

(* Once every save is answered the window shows what the backend stores,    *)
(* but for what was shown at once and not saved, or read before a save and  *)
(* shown after it.                                                         *)
ShownIsSaved == Quiet /\ ~astray => settings = stored

(* An edit is lost only to a snapshot taken while the window did not show   *)
(* it, or to a save that failed.                                           *)
EditsKept == Quiet /\ ~astray => \A f \in Fields \ lost : stored[f] = wanted[f]

(* The active remote is one of those listed, and is where the calls go.     *)
ActiveIsListed ==
    \A s \in {settings, stored} :
        Listed(s.remotes, s.remotes.active)
        /\ s.remotes.list[At(s.remotes, s.remotes.active)].host = s.remotes.host
=============================================================================
