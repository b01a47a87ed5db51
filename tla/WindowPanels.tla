---------------------------- MODULE WindowPanels ----------------------------
(* Those of the panels of MCWindow about which is proved what they keep,    *)
(* for every value of the constants; the theorems of the window are there.  *)
(* v1 .. v12 are the variables of the panel a behaviour is of.              *)
EXTENDS Naturals, Sequences, TLAPS

CONSTANT None

(* Of the panels that are proved about for every value of their constants.  *)
CONSTANTS
    Workspaces, DiffParts, AppKeys,     \* what panels, lists, apps and files are of
    ListLengths, TextVersions,          \* of lists, of texts
    Consumers, EventThreads, Toasts, Choices,
    ComposerThreads, WorkspaceOf,       \* the threads a composer is of, and the workspace of each
    MaxMoves, MaxSent,
    SettingThreads, SettingOld,         \* the threads there may be, and the workspace of each at the start
    SettingValues, SettingDefault, MaxDraftSends, MaxLooks,
    FollowedThreads, MaxAttempts, MaxLiveMoves, MaxFailures,    \* of the live connection
    MaxClosures, MaxRequests, MaxSwitches, MaxSteps, MaxEvents, MaxListens    \* bounds

ASSUME NoneAssumption == None \notin Workspaces \cup DiffParts \cup AppKeys \cup SettingThreads \cup FollowedThreads
ASSUME PartsAssumption == DiffParts # {}
ASSUME LengthsAssumption == 0 \in ListLengths      \* a list may be empty
ASSUME VersionsAssumption == 0 \in TextVersions    \* what a file holds at first
ASSUME BoundsAssumption ==
    MaxClosures \in Nat /\ MaxRequests \in Nat /\ MaxListens \in Nat /\ MaxMoves \in Nat /\ MaxSent \in Nat
    /\ MaxAttempts \in Nat /\ MaxLiveMoves \in Nat /\ MaxFailures \in Nat
ASSUME ThreadsAssumption ==     \* each thread is in a workspace; a draft and a home are no threads
    /\ WorkspaceOf \in [ComposerThreads -> Workspaces]
    /\ ComposerThreads \cap ({"draft", "home"} \cup (Workspaces \X {"draft", "home"})) = {}
ASSUME SettingsAssumption ==    \* the default is a value, and no value is a mark of an entry
    /\ SettingDefault \in SettingValues /\ {"absent", "unset"} \cap SettingValues = {}
    /\ SettingOld \in [SettingThreads -> Workspaces \cup {None}]
    /\ MaxDraftSends \in Nat /\ MaxLooks \in Nat

VARIABLES v1, v2, v3, v4, v5, v6, v7, v8, v9, v10, v11, v12

Live == INSTANCE LiveConnection WITH
    thread <- v1, connected <- v2, visible <- v3, focused <- v4, hook <- v5, subs <- v6, wire <- v7,
    events <- v8, moves <- v9, failures <- v10, blame <- v11, adrift <- v12, Threads <- FollowedThreads,
    NoThread <- None, MaxMoves <- MaxLiveMoves
Focus == INSTANCE FocusRefresh WITH
    selected <- v1, processing <- v2, live <- v3, visible <- v4, front <- v5, poll <- v6,
    running <- v7, cycle <- v8
Loads == INSTANCE PanelLoads WITH
    hook <- v1, key <- v2, enabled <- v3, ref <- v4, view <- v5, cache <- v6, calls <- v7,
    stale <- v8, Parts <- DiffParts
Lists == INSTANCE ListLoads WITH
    hook <- v1, props <- v2, it <- v3, switches <- v4, blame <- v5, same <- v6,
    Lengths <- ListLengths
Apps == INSTANCE AppsList WITH
    props <- v1, apps <- v2, known <- v3, refs <- v4, requests <- v5, switches <- v6,
    Keys <- AppKeys
File == INSTANCE FileEditor WITH
    key <- v1, content <- v2, loaded <- v3, dirty <- v4, loading <- v5, saving <- v6, request <- v7,
    inFlight <- v8, calls <- v9, file <- v10, behind <- v11, steps <- v12, Keys <- Workspaces,
    Versions <- TextVersions
Hubs == INSTANCE EventHubs WITH
    listeners <- v1, hub <- v2, natives <- v3, wire <- v4, busy <- v5, selected <- v6, toasts <- v7,
    noted <- v8, Threads <- EventThreads
Drafts == INSTANCE ComposerDrafts WITH
    at <- v1, text <- v2, drafts <- v3, images <- v4, picks <- v5, sends <- v6, memory <- v7,
    stored <- v8, runs <- v9, noted <- v10, spent <- v11, Threads <- ComposerThreads
Params == INSTANCE ThreadParams WITH
    kind <- v1, store <- v2, last <- v3, where <- v4, active <- v5, front <- v6, shown <- v7,
    pending <- v8, seeded <- v9, calls <- v10, carried <- v11, spent <- v12,
    Threads <- SettingThreads, Values <- SettingValues, Default <- SettingDefault,
    Old <- SettingOld, MaxSends <- MaxDraftSends, MaxSteps <- MaxLooks

----------------------------------------------------------------------------
(* The poll of the thread looked at.                                        *)
LEMMA FocusInit == Focus!Init => Focus!IInv
  <1> SUFFICES ASSUME Focus!Init PROVE Focus!IInv
    OBVIOUS
  <1>1. v6 \in [closure : Nat, focused : BOOLEAN, timer : BOOLEAN, debounce : BOOLEAN]
    BY DEF Focus!Init
  <1>2. v6.timer <=> Focus!ShouldPoll(v6, v1, v2, v3, v4)
    BY DEF Focus!Init, Focus!ShouldPoll
  <1> QED  BY <1>1, <1>2 DEF Focus!Init, Focus!IInv

LEMMA FocusStep == Focus!IInv /\ [Focus!Next]_(Focus!vars) => Focus!IInv'
  <1> SUFFICES ASSUME Focus!IInv, [Focus!Next]_(Focus!vars) PROVE Focus!IInv'
    OBVIOUS
  <1> USE DEF Focus!IInv, Focus!ShouldPoll
  <1>1. ASSUME NEW sel \in {"none", "offline", "online"}, NEW proc \in BOOLEAN, NEW lv \in BOOLEAN,
               Focus!PropsChange(sel, proc, lv)
        PROVE  Focus!IInv'
    <2>1. CASE UNCHANGED v6
      BY <1>1, <2>1 DEF Focus!PropsChange, Focus!Rerun, Focus!Polling
    <2>2. CASE v6' = Focus!Rerun(sel, proc, lv, v4)
      <3>1. v6' = [closure |-> v6.closure + 1, focused |-> v4, debounce |-> FALSE,
                   timer |-> sel # "none" /\ ~lv /\ ~proc /\ v4]
        BY <2>2 DEF Focus!Rerun, Focus!Polling
      <3>2. v6' \in [closure : Nat, focused : BOOLEAN, timer : BOOLEAN, debounce : BOOLEAN]
        BY <3>1
      <3> QED  BY <1>1, <3>1, <3>2 DEF Focus!PropsChange
    <2> QED  BY <1>1, <2>1, <2>2 DEF Focus!PropsChange
  <1>2. CASE Focus!HandleBlur
    BY <1>2 DEF Focus!HandleBlur, Focus!Polling
  <1>3. CASE Focus!HandleFocus
    BY <1>3 DEF Focus!HandleFocus, Focus!Polling
  <1>4. CASE Focus!HandleVisibilityChange
    BY <1>4 DEF Focus!HandleVisibilityChange, Focus!Polling
  <1>5. CASE Focus!RunRefresh
    BY <1>5 DEF Focus!RunRefresh
  <1>6. CASE Focus!RunRefreshCycle \/ Focus!CycleGoesOn
    BY <1>6 DEF Focus!RunRefreshCycle, Focus!CycleGoesOn
  <1>7. ASSUME NEW c \in 1..MaxClosures, Focus!ConnectEnds(c) \/ Focus!RefreshEnds(c)
        PROVE  Focus!IInv'
    BY <1>7 DEF Focus!ConnectEnds, Focus!RefreshEnds
  <1>8. CASE UNCHANGED Focus!vars
    BY <1>8 DEF Focus!vars
  <1> QED  BY <1>1, <1>2, <1>3, <1>4, <1>5, <1>6, <1>7, <1>8 DEF Focus!Next

----------------------------------------------------------------------------
(* The hubs of events, and their one native listener.                       *)
LEMMA HubInit == Hubs!Init => Hubs!HubInv
  <1> SUFFICES ASSUME Hubs!Init PROVE Hubs!HubInv
    OBVIOUS
  <1>1. v2 \in [unlisten : {0} \cup Hubs!Natives, promise : {0} \cup Hubs!Natives]
    BY DEF Hubs!Init
  <1>2. v3 \in [Hubs!Natives -> Hubs!NativeStates]
    BY DEF Hubs!Init, Hubs!NativeStates
  <1>3. DOMAIN v8 = Hubs!NotedFields
    BY DEF Hubs!Init, Hubs!NotedFields
  <1>4. v8.listens \in Nat /\ v8.deaf \in BOOLEAN
    BY DEF Hubs!Init
  <1>5. \A n \in Hubs!Natives : v3[n] = "gone"
    BY DEF Hubs!Init
  <1> QED  BY <1>1, <1>2, <1>3, <1>4, <1>5 DEF Hubs!Init, Hubs!HubInv

LEMMA HubStep == Hubs!HubInv /\ [Hubs!Next]_(Hubs!vars) => Hubs!HubInv'
  <1> SUFFICES ASSUME Hubs!HubInv, [Hubs!Next]_(Hubs!vars) PROVE Hubs!HubInv'
    OBVIOUS
  <1> USE DEF Hubs!HubInv, Hubs!Natives, Hubs!NativeStates, Hubs!NotedFields, Hubs!Listening, Hubs!Rest
  <1>1. ASSUME NEW c \in Consumers, Hubs!Subscribe(c) PROVE Hubs!HubInv'
    <2>1. CASE Hubs!Listening
      <3>1. UNCHANGED <<v2, v3>> /\ v1' = v1 \cup {c}
            /\ v8' = [v8 EXCEPT !.expected[c] = Hubs!OnTheirWay]
        BY <1>1, <2>1 DEF Hubs!Subscribe, Hubs!Start
      <3>2. v8'.listens = v8.listens /\ v8'.deaf = v8.deaf /\ DOMAIN v8' = DOMAIN v8
        BY <3>1
      <3> QED  BY <2>1, <3>1, <3>2
    <2>2. CASE ~Hubs!Listening
      <3> DEFINE n == v8.listens + 1
      <3>1. n \in 1..MaxListens /\ v1' = v1 \cup {c}
            /\ v2' = [v2 EXCEPT !.promise = n] /\ v3' = [v3 EXCEPT ![n] = "asked"]
        BY <1>1, <2>2, BoundsAssumption DEF Hubs!Subscribe, Hubs!Start
      <3>2. v8' = [[v8 EXCEPT !.expected[c] = Hubs!OnTheirWay] EXCEPT !.listens = @ + 1, !.deaf = FALSE]
        BY <1>1, <2>2 DEF Hubs!Subscribe, Hubs!Start
      <3>3. v8'.listens = n /\ v8'.deaf = FALSE /\ DOMAIN v8' = DOMAIN v8
        BY <3>2
      <3>4. v2.unlisten = 0 /\ v2'.unlisten = 0 /\ v2'.promise = n /\ n # 0
        BY <3>1, <2>2
      <3>5. \A m \in Hubs!Natives : v3[m] = "gone"
        BY <2>2
      <3>6. \A m \in Hubs!Natives : v3'[m] = IF m = n THEN "asked" ELSE "gone"
        BY <3>1, <3>5
      <3>7. v2' \in [unlisten : {0} \cup Hubs!Natives, promise : {0} \cup Hubs!Natives]
            /\ v3' \in [Hubs!Natives -> Hubs!NativeStates]
        BY <3>1
      <3>8. v8'.listens \in Nat
        BY <3>3
      <3> HIDE DEF n
      <3> QED  BY <3>3, <3>4, <3>6, <3>7, <3>8, Zenon
    <2> QED  BY <2>1, <2>2
  <1>2. ASSUME NEW c \in Consumers, Hubs!Unsubscribe(c) PROVE Hubs!HubInv'
    <2>1. v8' = [v8 EXCEPT !.deaf = @ /\ v1' # {}] /\ v1' \subseteq v1
      BY <1>2 DEF Hubs!Unsubscribe
    <2>2. v8'.listens = v8.listens /\ (v8'.deaf <=> v8.deaf /\ v1' # {}) /\ DOMAIN v8' = DOMAIN v8
          /\ v8'.deaf \in BOOLEAN
      BY <2>1, Zenon
    <2>3. CASE v1' = {} /\ v2.unlisten # 0
      <3>1. v3' = [v3 EXCEPT ![v2.unlisten] = "gone"] /\ v2' = [v2 EXCEPT !.unlisten = 0]
        BY <1>2, <2>3 DEF Hubs!Unsubscribe
      <3> QED  BY <2>2, <2>3, <3>1
    <2>4. CASE ~(v1' = {} /\ v2.unlisten # 0)
      <3>1. UNCHANGED <<v2, v3>>
        BY <1>2, <2>4 DEF Hubs!Unsubscribe
      <3> QED  BY <2>1, <2>2, <2>4, <3>1
    <2> QED  BY <2>3, <2>4
  <1>3. ASSUME NEW n \in Hubs!Natives, Hubs!Register(n) PROVE Hubs!HubInv'
    BY <1>3 DEF Hubs!Register
  <1>4. ASSUME NEW n \in Hubs!Natives, Hubs!ListenAnswered(n) PROVE Hubs!HubInv'
    <2>1. CASE v1 = {}
      BY <1>4, <2>1, Zenon DEF Hubs!ListenAnswered
    <2>2. CASE v1 # {}
      <3>1. v2' = [unlisten |-> n, promise |-> 0] /\ v3' = v3 /\ UNCHANGED <<v1, v8>>
        BY <1>4, <2>2 DEF Hubs!ListenAnswered
      <3>2. v2.promise = n /\ v3[n] = "registered" /\ n # 0 /\ v2.unlisten = 0
        BY <1>4 DEF Hubs!ListenAnswered
      <3>3. v2' \in [unlisten : {0} \cup Hubs!Natives, promise : {0} \cup Hubs!Natives]
        BY <3>1
      <3>4. v2'.unlisten = n /\ v2'.promise = 0
        BY <3>1
      <3> QED  BY <2>2, <3>1, <3>2, <3>3, <3>4
    <2> QED  BY <2>1, <2>2
  <1>5. ASSUME NEW n \in Hubs!Natives, Hubs!ListenFails(n) PROVE Hubs!HubInv'
    BY <1>5, Zenon DEF Hubs!ListenFails
  <1>6. ASSUME NEW e \in Hubs!Sent, NEW t \in EventThreads, Hubs!Emit(e, t) PROVE Hubs!HubInv'
    BY <1>6 DEF Hubs!Emit
  <1>7. CASE Hubs!Deliver
    BY <1>7 DEF Hubs!Deliver
  <1>8. ASSUME NEW m \in Hubs!Menus, Hubs!MenuCommand(m) PROVE Hubs!HubInv'
    BY <1>8 DEF Hubs!MenuCommand
  <1>9. ASSUME NEW m \in Hubs!Menus, Hubs!Render(m) PROVE Hubs!HubInv'
    BY <1>9 DEF Hubs!Render
  <1>10. ASSUME NEW x \in Toasts, Hubs!PushErrorToast(x) PROVE Hubs!HubInv'
    BY <1>10 DEF Hubs!PushErrorToast, Hubs!Counted
  <1>11. ASSUME NEW x \in Toasts, Hubs!DismissToast(x) PROVE Hubs!HubInv'
    BY <1>11 DEF Hubs!DismissToast
  <1>12. CASE UNCHANGED Hubs!vars
    BY <1>12 DEF Hubs!vars
  <1> QED  BY <1>1, <1>2, <1>3, <1>4, <1>5, <1>6, <1>7, <1>8, <1>9, <1>10, <1>11, <1>12 DEF Hubs!Next

LEMMA HubOne == Hubs!HubInv => Hubs!OneNativeListener
  <1> SUFFICES ASSUME Hubs!HubInv PROVE Hubs!OneNativeListener
    OBVIOUS
  <1>1. \A m, n \in Hubs!Registered : m = n
    BY DEF Hubs!HubInv, Hubs!Registered, Hubs!Natives
  <1>2. v1 = {} /\ v2.promise = 0 => Hubs!Registered = {}
    BY DEF Hubs!HubInv, Hubs!Registered, Hubs!Natives
  <1>3. v1 # {} /\ ~v8.deaf => Hubs!Listening
    BY DEF Hubs!HubInv
  <1> QED  BY <1>1, <1>2, <1>3 DEF Hubs!OneNativeListener

----------------------------------------------------------------------------
(* The apps of a workspace.                                                 *)
LEMMA AppsInit == Apps!Init => Apps!IInv
  <1> SUFFICES ASSUME Apps!Init PROVE Apps!IInv
    OBVIOUS
  <1>1. v1 \in [key : AppKeys, available : BOOLEAN] /\ v1.available = FALSE
    BY Zenon DEF Apps!Init
  <1>2. v2 \in [of : AppKeys \cup {None}, loaded : BOOLEAN] /\ v2.of = None
    BY DEF Apps!Init
  <1>3. v4 \in [last : AppKeys \cup {None}, visible : AppKeys \cup {None}, flight : AppKeys \cup {None},
                pending : AppKeys \cup {None}, retry : BOOLEAN]
    BY DEF Apps!Init
  <1>4. v4.visible = None /\ v4.last = None
    BY DEF Apps!Init
  <1> QED  BY <1>1, <1>2, <1>3, <1>4 DEF Apps!IInv

LEMMA AppsCleared ==
    ASSUME Apps!IInv, Apps!Cleared, v3' = v3,
           v1' \in [key : AppKeys, available : BOOLEAN], ~v1'.available
    PROVE  Apps!IInv'
  <1> USE NoneAssumption DEF Apps!IInv
  <1>1. v2' \in [of : AppKeys \cup {None}, loaded : BOOLEAN] /\ v2'.of = None
    BY DEF Apps!Cleared
  <1>2. v4' \in [last : AppKeys \cup {None}, visible : AppKeys \cup {None}, flight : AppKeys \cup {None},
                 pending : AppKeys \cup {None}, retry : BOOLEAN]
    BY Zenon DEF Apps!Cleared
  <1>3. v4'.last = None /\ v4'.visible = None
    BY DEF Apps!Cleared
  <1> QED  BY <1>1, <1>2, <1>3

LEMMA AppsEffect ==
    ASSUME Apps!IInv, NEW r, r = v4 \/ r = [v4 EXCEPT !.retry = FALSE],
           v1' \in [key : AppKeys, available : BOOLEAN], Apps!Effect(v1', r), v3' = v3
    PROVE  Apps!IInv'
  <1> USE NoneAssumption DEF Apps!IInv
  <1>1. CASE ~v1'.available
    <2>1. Apps!Cleared
      BY <1>1 DEF Apps!Effect
    <2> QED  BY <1>1, <2>1, AppsCleared
  <1>2. CASE v1'.available
    <2> DEFINE seen == [r EXCEPT !.visible = v1'.key]
    <2>1. seen \in [last : AppKeys \cup {None}, visible : AppKeys \cup {None}, flight : AppKeys \cup {None},
                   pending : AppKeys \cup {None}, retry : BOOLEAN]
          /\ seen.visible = v1'.key /\ seen.last = v4.last /\ seen.flight = v4.flight
      OBVIOUS
    <2>2. v2' \in [of : AppKeys \cup {None}, loaded : BOOLEAN]
          /\ v2'.of = v1'.key /\ (v1'.key \in v3 => v2'.loaded)
      <3>1. v2' = IF v4.visible = v1'.key THEN v2 ELSE [of |-> v1'.key, loaded |-> v1'.key \in v3]
        BY <1>2 DEF Apps!Effect
      <3>2. CASE v4.visible = v1'.key
        BY <1>2, <3>1, <3>2
      <3>3. CASE v4.visible # v1'.key
        BY <1>2, <3>1, <3>3
      <3> QED  BY <3>2, <3>3
    <2>3. CASE v4.last = v1'.key
      <3>1. v4' = seen
        BY <1>2, <2>1, <2>3 DEF Apps!Effect
      <3> HIDE DEF seen
      <3> QED  BY <1>2, <2>1, <2>2, <2>3, <3>1
    <2>4. CASE v4.last # v1'.key
      <3>1. v4' = IF seen.flight # None THEN [seen EXCEPT !.pending = v1'.key]
                  ELSE [seen EXCEPT !.flight = v1'.key]
        BY <1>2, <2>1, <2>4 DEF Apps!Effect, Apps!ExecuteFetch
      <3> HIDE DEF seen
      <3>2. v1'.key \in AppKeys
        OBVIOUS
      <3> QED  BY <1>2, <2>1, <2>2, <3>1, <3>2
    <2> QED  BY <2>3, <2>4
  <1> QED  BY <1>1, <1>2

LEMMA AppsStep == Apps!IInv /\ [Apps!Next]_(Apps!vars) => Apps!IInv'
  <1> SUFFICES ASSUME Apps!IInv, [Apps!Next]_(Apps!vars) PROVE Apps!IInv'
    OBVIOUS
  <1> USE NoneAssumption DEF Apps!IInv
  <1>1. ASSUME NEW p \in [key : AppKeys, available : BOOLEAN], Apps!Switch(p)
        PROVE  Apps!IInv'
    <2>1. v1' = p /\ Apps!Effect(p, v4) /\ v3' = v3
      BY <1>1 DEF Apps!Switch
    <2> QED  BY <2>1, AppsEffect
  <1>2. CASE Apps!RefreshApps
    <2>1. CASE v1.available
      BY <1>2, <2>1 DEF Apps!RefreshApps, Apps!ExecuteFetch
    <2>2. CASE ~v1.available
      <3>1. Apps!Cleared /\ v1' = v1 /\ v3' = v3
        BY <1>2, <2>2 DEF Apps!RefreshApps
      <3> QED  BY <2>2, <3>1, AppsCleared
    <2> QED  BY <2>1, <2>2
  <1>3. CASE Apps!Answered
    BY <1>3, ZenonT(30) DEF Apps!Answered, Apps!NextFetched, Apps!ExecuteFetch, Apps!Wanted
  <1>4. CASE Apps!Failed
    BY <1>4, ZenonT(30) DEF Apps!Failed, Apps!NextFetched, Apps!ExecuteFetch, Apps!Wanted
  <1>5. CASE Apps!Retry
    <2>1. v1' = v1 /\ Apps!Effect(v1, [v4 EXCEPT !.retry = FALSE]) /\ v3' = v3
      BY <1>5 DEF Apps!Retry
    <2> QED  BY <2>1, AppsEffect
  <1>6. CASE Apps!Updated
    BY <1>6, Zenon DEF Apps!Updated
  <1>7. CASE UNCHANGED Apps!vars
    BY <1>7 DEF Apps!vars
  <1> QED  BY <1>1, <1>2, <1>3, <1>4, <1>5, <1>6, <1>7 DEF Apps!Next

LEMMA AppsShown == Apps!IInv => Apps!AppsAreOfTheThread
  BY DEF Apps!IInv, Apps!AppsAreOfTheThread

----------------------------------------------------------------------------
(* The editor of a file.                                                    *)
LEMMA FileInit == File!Init => File!IInv /\ File!SavedInv
  <1> SUFFICES ASSUME File!Init PROVE File!IInv /\ File!SavedInv
    OBVIOUS
  <1>1. v9 = {} /\ v7 = 0 /\ v2 = File!Blank /\ v3 = File!Blank /\ v1 = None
        /\ v4 = FALSE /\ v5 = FALSE /\ v6 = FALSE /\ v11 = FALSE
    BY DEF File!Init
  <1>2. v10 \in [Workspaces -> File!Texts] /\ \A k \in Workspaces : v10[k][1] = k
    BY VersionsAssumption DEF File!Init, File!Texts
  <1> HIDE DEF File!Blank
  <1>3. File!TextsStayHome /\ File!WaitsForAnAnswer
    BY <1>1, <1>2 DEF File!TextsStayHome, File!WaitsForAnAnswer
  <1>4. File!IInv
    BY <1>1, <1>2, <1>3 DEF File!IInv
  <1>5. File!SavedInv
    BY <1>1 DEF File!SavedInv
  <1> QED  BY <1>4, <1>5

(* What becomes of the fields of a call that is made or answered.           *)
LEMMA FileCall ==
    ASSUME NEW c \in File!AnyCalls, NEW s \in {"done", "failed"}
    PROVE  /\ [c EXCEPT !.step = s] \in File!AnyCalls
           /\ [c EXCEPT !.step = s].kind = c.kind /\ [c EXCEPT !.step = s].key = c.key
           /\ [c EXCEPT !.step = s].id = c.id /\ [c EXCEPT !.step = s].text = c.text
           /\ [c EXCEPT !.step = s].step = s
  BY DEF File!AnyCalls

LEMMA FileAsks ==
    ASSUME NEW kind \in {"read", "write"}, NEW k \in Workspaces, NEW n \in Nat,
           NEW text \in File!Texts \cup {File!Blank}
    PROVE  LET a == File!Asks(kind, k, n, text)
           IN  /\ a \in File!AnyCalls /\ a.kind = kind /\ a.key = k /\ a.id = n
               /\ a.text = text /\ a.step = "asked"
  BY DEF File!Asks, File!AnyCalls

LEMMA FileTexts == File!Blank \notin File!Texts /\ \A x \in File!Texts : x[1] \in Workspaces
  BY NoneAssumption DEF File!Texts, File!Blank

LEMMA FileStep == File!IInv /\ [File!Next]_(File!vars) => File!IInv'
  <1> SUFFICES ASSUME File!IInv, [File!Next]_(File!vars) PROVE File!IInv'
    OBVIOUS
  <1> USE NoneAssumption DEF File!IInv, File!TextsStayHome, File!WaitsForAnAnswer, File!Current
  <1>1. ASSUME NEW k \in Workspaces \cup {None}, File!Switch(k) PROVE File!IInv'
    <2>1. v1' = k /\ v2' = File!Blank /\ v3' = File!Blank /\ v4' = FALSE /\ v6' = FALSE
          /\ v11' = FALSE /\ v7' = v7 + 1 /\ v10' = v10 /\ v5' \in BOOLEAN
      BY <1>1 DEF File!Switch, File!Shows
    <2>4. v7' \in Nat
      BY <2>1
    <2>2. CASE k = None
      <3>1. v9' = v9 /\ v5' = FALSE
        BY <1>1, <2>2 DEF File!Switch
      <3>2. File!TextsStayHome' /\ File!WaitsForAnAnswer'
        BY <2>1, <3>1
      <3> HIDE DEF File!TextsStayHome, File!WaitsForAnAnswer
      <3> QED  BY <2>1, <2>2, <2>4, <3>1, <3>2, Zenon
    <2>3. CASE k \in Workspaces
      <3> DEFINE a == File!Asks("read", k, v7 + 1, File!Blank)
      <3>1. v9' = v9 \cup {a}
        BY <1>1, <2>3, <2>1 DEF File!Switch
      <3>2. /\ a \in File!AnyCalls /\ a.kind = "read" /\ a.key = k /\ a.id = v7 + 1
            /\ a.step = "asked"
        <4>1. "read" \in {"read", "write"} /\ v7 + 1 \in Nat /\ File!Blank \in File!Texts \cup {File!Blank}
          BY <1>1
        <4> QED  BY <2>3, <4>1, FileAsks, SMTT(30)
      <3> HIDE DEF a
      <3>3. File!TextsStayHome'
        BY <2>1
      <3>4. File!WaitsForAnAnswer'
        BY <2>1, <3>1, <3>2
      <3>5. v9' \subseteq File!AnyCalls
            /\ \A c \in v9' : c.kind = "write" \/ c.step = "done" => c.text \in File!Texts /\ c.text[1] = c.key
        BY <3>1, <3>2
      <3> HIDE DEF File!TextsStayHome, File!WaitsForAnAnswer
      <3> QED  BY <2>1, <2>3, <2>4, <3>3, <3>4, <3>5, Zenon
    <2> QED  BY <2>2, <2>3
  <1>2. CASE File!Refresh
    <2> DEFINE a == File!Asks("read", v1, v7 + 1, File!Blank)
    <2>1. v5' = TRUE /\ v6 = FALSE /\ v7' = v7 + 1 /\ v9' = v9 \cup {a}
          /\ UNCHANGED <<v1, v2, v3, v4, v6, v10, v11>> /\ v1 \in Workspaces
      BY <1>2 DEF File!Refresh
    <2>2. /\ a \in File!AnyCalls /\ a.kind = "read" /\ a.key = v1 /\ a.id = v7 + 1
          /\ a.step = "asked"
      <3>1. v7 + 1 \in Nat /\ v1 \in Workspaces
        BY <2>1
      <3> QED  BY <3>1, FileAsks
    <2> HIDE DEF a
    <2> QED  BY <2>1, <2>2
  <1>3. CASE File!Save
    <2> DEFINE a == File!Asks("write", v1, v7 + 1, v2)
    <2>1. v6' = TRUE /\ v5 = FALSE /\ v7' = v7 + 1 /\ v9' = v9 \cup {a}
          /\ UNCHANGED <<v1, v2, v3, v4, v5, v10, v11>> /\ v1 \in Workspaces
      BY <1>3 DEF File!Save
    <2>2. v2 \in File!Texts /\ v2[1] = v1
      BY <1>3, FileTexts DEF File!Save
    <2>3. /\ a \in File!AnyCalls /\ a.kind = "write" /\ a.key = v1 /\ a.id = v7 + 1
          /\ a.text = v2
      BY <2>1, <2>2, FileAsks
    <2> HIDE DEF a
    <2> QED  BY <2>1, <2>2, <2>3
  <1>4. ASSUME NEW n \in TextVersions, File!Type(n) PROVE File!IInv'
    BY <1>4 DEF File!Type, File!Shows, File!Texts, File!Blank
  <1>5. ASSUME NEW c \in v9, File!Done(c) PROVE File!IInv'
    <2>1. c \in File!AnyCalls /\ v10[c.key] \in File!Texts /\ v10[c.key][1] = c.key
          /\ UNCHANGED <<v1, v2, v3, v4, v5, v6, v7>> /\ c.key \in Workspaces
      BY <1>5 DEF File!Done, File!AnyCalls
    <2>2. CASE c.kind = "read"
      <3> DEFINE d == [c EXCEPT !.step = "done", !.text = v10[c.key]]
      <3>1. v9' = (v9 \ {c}) \cup {d} /\ v10' = v10 /\ v11' = v11
        BY <1>5, <2>2 DEF File!Done
      <3>2. d \in File!AnyCalls /\ d.kind = c.kind /\ d.key = c.key /\ d.id = c.id
            /\ d.text = v10[c.key]
        BY <2>1 DEF File!AnyCalls
      <3> HIDE DEF d
      <3> QED  BY <2>1, <2>2, <3>1, <3>2
    <2>3. CASE c.kind # "read"
      <3> DEFINE d == [c EXCEPT !.step = "done"]
      <3>1. v9' = (v9 \ {c}) \cup {d} /\ v10' = [v10 EXCEPT ![c.key] = c.text]
            /\ v11' = (v11 \/ (c.key = v1 /\ ~File!Current(c)))
        BY <1>5, <2>3 DEF File!Done
      <3>2. d \in File!AnyCalls /\ d.kind = c.kind /\ d.key = c.key /\ d.id = c.id
            /\ d.text = c.text /\ d.step = "done"
        BY <2>1, FileCall
      <3>3. c.kind = "write" /\ c.text \in File!Texts /\ c.text[1] = c.key
        BY <2>1, <2>3 DEF File!AnyCalls
      <3>4. v10' \in [Workspaces -> File!Texts] /\ \A k \in Workspaces : v10'[k][1] = k
        BY <2>1, <3>1, <3>3
      <3> HIDE DEF d
      <3> QED  BY <2>1, <2>3, <3>1, <3>2, <3>3, <3>4
    <2> QED  BY <2>2, <2>3
  <1>6. ASSUME NEW c \in v9, File!Fails(c) PROVE File!IInv'
    <2> DEFINE d == [c EXCEPT !.step = "failed"]
    <2>1. v9' = (v9 \ {c}) \cup {d} /\ UNCHANGED <<v1, v2, v3, v4, v5, v6, v7, v10, v11>>
          /\ c \in File!AnyCalls
      BY <1>6 DEF File!Fails
    <2>2. d \in File!AnyCalls /\ d.kind = c.kind /\ d.key = c.key /\ d.id = c.id
          /\ d.text = c.text /\ d.step = "failed"
      BY <2>1 DEF File!AnyCalls
    <2> HIDE DEF d
    <2> QED  BY <2>1, <2>2
  <1>7. ASSUME NEW c \in v9, File!ReadAnswered(c) PROVE File!IInv'
    BY <1>7 DEF File!ReadAnswered, File!Shows, File!AnyCalls, File!Texts, File!Blank
  <1>8. ASSUME NEW c \in v9, File!WriteAnswered(c) PROVE File!IInv'
    BY <1>8 DEF File!WriteAnswered
  <1>9. CASE UNCHANGED File!vars
    BY <1>9 DEF File!vars
  <1> QED  BY <1>1, <1>2, <1>3, <1>4, <1>5, <1>6, <1>7, <1>8, <1>9 DEF File!Next

LEMMA FileSavedStep == File!IInv /\ File!SavedInv /\ [File!Next]_(File!vars) => File!SavedInv'
  <1> SUFFICES ASSUME File!IInv, File!SavedInv, [File!Next]_(File!vars) PROVE File!SavedInv'
    OBVIOUS
  <1>0. v7 \in Nat /\ (\A c \in v9 : c \in File!AnyCalls /\ c.id \in Nat /\ c.key \in Workspaces) /\ v4 \in BOOLEAN
        /\ v11 \in BOOLEAN
    BY DEF File!IInv, File!AnyCalls
  <1> USE DEF File!SavedInv, File!CurrentWrite, File!Current
  <1>1. ASSUME NEW k \in Workspaces \cup {None}, File!Switch(k) PROVE File!SavedInv'
    <2>1. v1' = k /\ v2' = File!Blank /\ v3' = File!Blank /\ v7' = v7 + 1
      BY <1>1 DEF File!Switch, File!Shows
    <2>2. CASE k = None
      <3>1. v9' = v9
        BY <1>1, <2>2 DEF File!Switch
      <3> QED  BY <1>0, <2>1, <3>1
    <2>3. CASE k # None
      <3> DEFINE a == File!Asks("read", k, v7 + 1, File!Blank)
      <3>1. v9' = v9 \cup {a}
        BY <1>1, <2>1, <2>3 DEF File!Switch
      <3>2. a.kind = "read" /\ a.id = v7 + 1
        BY DEF File!Asks
      <3> HIDE DEF a
      <3> QED  BY <1>0, <2>1, <3>1, <3>2
    <2> QED  BY <2>2, <2>3
  <1>2. CASE File!Refresh
    <2> DEFINE a == File!Asks("read", v1, v7 + 1, File!Blank)
    <2>1. v6 = FALSE /\ v7' = v7 + 1 /\ v9' = v9 \cup {a}
          /\ UNCHANGED <<v1, v2, v3, v4, v6, v10, v11>>
      BY <1>2 DEF File!Refresh, File!IInv
    <2>2. a.kind = "read" /\ a.id = v7 + 1
      BY DEF File!Asks
    <2> HIDE DEF a
    <2> QED  BY <1>0, <2>1, <2>2
  <1>3. CASE File!Save
    <2> DEFINE a == File!Asks("write", v1, v7 + 1, v2)
    <2>1. v6 = FALSE /\ v6' = TRUE /\ v4 = TRUE /\ v7' = v7 + 1 /\ v9' = v9 \cup {a}
          /\ UNCHANGED <<v1, v2, v3, v4, v10, v11>>
      BY <1>3 DEF File!Save, File!IInv
    <2>2. a.kind = "write" /\ a.id = v7 + 1 /\ a.step = "asked" /\ a.key = v1
      BY DEF File!Asks
    <2> HIDE DEF a
    <2> QED  BY <1>0, <2>1, <2>2
  <1>4. ASSUME NEW n \in TextVersions, File!Type(n) PROVE File!SavedInv'
    <2> DEFINE x == <<v1, n>>
    <2>1. v2' = x /\ UNCHANGED <<v1, v3, v6, v7, v9, v10>>
      BY <1>4 DEF File!Type, File!Shows
    <2>2. (x = v2 /\ v4' = v4) \/ (x # v2 /\ (v4' <=> x # v3))
      BY <1>4 DEF File!Type, File!Shows
    <2>3. v11' <=> v11 \/ (v6 /\ x = v3)
      BY <1>4 DEF File!Type, File!Shows
    <2>4. x # File!Blank
      BY <1>4, NoneAssumption DEF File!Type, File!Blank
    <2> HIDE DEF x
    <2>5. \A c \in v9' : File!CurrentWrite(c)' => v6' /\ (v4' \/ v11')
      BY <1>0, <2>1, <2>2, <2>3
    <2>6. v2' # File!Blank /\ ~v4' /\ ~v11' => v2' = v3'
      BY <2>1, <2>2, <2>3, <2>4
    <2> QED  BY <2>1, <2>3, <2>5, <2>6
  <1>5. ASSUME NEW c \in v9, File!Done(c) PROVE File!SavedInv'
    <2>1. UNCHANGED <<v1, v2, v3, v4, v6, v7>>
      BY <1>5 DEF File!Done
    <2>2. CASE c.kind = "read"
      <3> DEFINE d == [c EXCEPT !.step = "done", !.text = v10[c.key]]
      <3>1. v9' = (v9 \ {c}) \cup {d} /\ v10' = v10 /\ v11' = v11
        BY <1>5, <2>2 DEF File!Done
      <3>2. d.kind = "read" /\ d.id = c.id
        BY <1>0, <2>2 DEF File!AnyCalls
      <3> HIDE DEF d
      <3> QED  BY <1>0, <2>1, <2>2, <3>1, <3>2
    <2>3. CASE c.kind # "read"
      <3> DEFINE d == [c EXCEPT !.step = "done"]
      <3>1. v9' = (v9 \ {c}) \cup {d} /\ v10' = [v10 EXCEPT ![c.key] = c.text]
            /\ v11' = (v11 \/ (c.key = v1 /\ ~File!Current(c))) /\ c.step = "asked"
        BY <1>5, <2>3 DEF File!Done
      <3>2. d.kind = c.kind /\ d.key = c.key /\ d.id = c.id /\ d.text = c.text /\ d.step = "done"
        BY <1>0, FileCall
      <3>3. c.kind = "write"
        BY <1>0, <2>3 DEF File!AnyCalls
      <3>4. \A k \in Workspaces : v10'[k] = IF k = c.key THEN c.text ELSE v10[k]
        BY <3>1 DEF File!IInv
      <3> HIDE DEF d
      <3>5. \A e \in v9' : e.id <= v7 /\ \A f \in v9' : e.id = f.id => e = f
        BY <1>0, <3>1, <3>2
      <3>6. \A e \in v9' : File!CurrentWrite(e)' => v6 /\ (v4 \/ v11')
        BY <1>0, <2>1, <3>1, <3>2, <3>3
      <3>7. \A e \in v9' : File!CurrentWrite(e)' /\ e.step = "done" /\ ~v11' => e.text = v10'[v1]
        BY <1>0, <2>1, <3>1, <3>2, <3>3, <3>4
      <3>8. v3 # File!Blank /\ ~v11' /\ (\A e \in v9' : File!CurrentWrite(e)' => e.step # "done") =>
               v3 = v10'[v1]
        <4>1. CASE c.key = v1 /\ ~File!Current(c)
          BY <3>1, <4>1
        <4>2. CASE File!Current(c)
          BY <2>1, <3>1, <3>2, <3>3, <4>2
        <4>3. CASE c.key # v1
          <5>1. (\A e \in v9' : File!CurrentWrite(e)' => e.step # "done") =>
                   \A e \in v9 : File!CurrentWrite(e) => e.step # "done"
            BY <2>1, <3>1, <3>2, <3>3
          <5>2. v10'[v1] = v10[v1]
            BY <3>1, <4>3
          <5> QED  BY <3>1, <5>1, <5>2
        <4> QED  BY <4>1, <4>2, <4>3
      <3> QED  BY <1>0, <2>1, <3>1, <3>5, <3>6, <3>7, <3>8
    <2> QED  BY <2>2, <2>3
  <1>6. ASSUME NEW c \in v9, File!Fails(c) PROVE File!SavedInv'
    <2> DEFINE d == [c EXCEPT !.step = "failed"]
    <2>1. v9' = (v9 \ {c}) \cup {d} /\ UNCHANGED <<v1, v2, v3, v4, v5, v6, v7, v10, v11>>
          /\ c.step = "asked"
      BY <1>6 DEF File!Fails
    <2>2. d.kind = c.kind /\ d.key = c.key /\ d.id = c.id /\ d.step = "failed"
      BY <1>0, FileCall
    <2> HIDE DEF d
    <2> QED  BY <1>0, <2>1, <2>2
  <1>7. ASSUME NEW c \in v9, File!ReadAnswered(c) PROVE File!SavedInv'
    <2>1. c.kind = "read" /\ v9' = v9 \ {c} /\ UNCHANGED <<v1, v7, v10>>
      BY <1>7 DEF File!ReadAnswered
    <2>2. CASE File!Current(c) /\ c.step = "done"
      <3>1. v3' = c.text /\ v2' = c.text /\ v11' = (c.text # v10[v1])
            /\ v4' = IF c.text = v2 THEN v4 ELSE c.text # c.text
        BY <1>7, <2>2 DEF File!ReadAnswered, File!Shows
      <3> QED  BY <1>0, <2>1, <2>2, <3>1
    <2>3. CASE ~(File!Current(c) /\ c.step = "done")
      <3>1. UNCHANGED <<v2, v3, v4, v6, v11>>
        BY <1>7, <2>3 DEF File!ReadAnswered
      <3> QED  BY <1>0, <2>1, <3>1
    <2> QED  BY <2>2, <2>3
  <1>8. ASSUME NEW c \in v9, File!WriteAnswered(c) PROVE File!SavedInv'
    <2>1. c.kind = "write" /\ v9' = v9 \ {c} /\ UNCHANGED <<v1, v2, v4, v7, v10, v11>>
          /\ v6' = (v6 /\ ~File!Current(c))
          /\ v3' = IF File!Current(c) /\ c.step = "done" THEN c.text ELSE v3
      BY <1>8 DEF File!WriteAnswered
    <2>2. CASE File!Current(c) /\ c.step = "done"
      BY <1>0, <2>1, <2>2
    <2>3. CASE ~(File!Current(c) /\ c.step = "done")
      BY <1>0, <2>1, <2>3
    <2> QED  BY <2>2, <2>3
  <1>9. CASE UNCHANGED File!vars
    BY <1>9 DEF File!vars
  <1> QED  BY <1>1, <1>2, <1>3, <1>4, <1>5, <1>6, <1>7, <1>8, <1>9 DEF File!Next

LEMMA FileShown ==
    File!IInv /\ File!SavedInv => File!TextsStayHome /\ File!WaitsForAnAnswer /\ File!CleanIsSaved
  <1>1. File!IInv => File!TextsStayHome /\ File!WaitsForAnAnswer
    BY DEF File!IInv
  <1>2. File!IInv /\ File!SavedInv => File!CleanIsSaved
    <2> SUFFICES ASSUME File!IInv, File!SavedInv, v9 = {}, v2 # File!Blank, ~v4, ~v11
                 PROVE  v2 = v10[v1]
      BY DEF File!CleanIsSaved
    <2>1. v2 = v3 /\ v3 = v10[v1]
      BY DEF File!SavedInv
    <2> QED  BY <2>1
  <1> QED  BY <1>1, <1>2

----------------------------------------------------------------------------
(* The panels that tell a late answer by its number.                        *)
LEMMA LoadsHooks ==
    ASSUME NEW h \in Loads!Hooks
    PROVE  /\ h.guard = "key" => h.switch # "keeps" /\ h.fails # "keeps"
           /\ h.switch = "cached" => h.guard = "key"
           /\ h.fails = "cached" => h.switch = "cached"
           /\ h.late \in BOOLEAN /\ h.loads \in BOOLEAN /\ h.gate \in BOOLEAN
           /\ h.late => h.guard = "key"
  <1> USE DEF Loads!Plain
  <1>1. CASE h = Loads!GitStatus
    BY <1>1 DEF Loads!GitStatus
  <1>2. CASE h = Loads!GitDiffs
    BY <1>2 DEF Loads!GitDiffs
  <1>3. CASE h = Loads!GitLog
    BY <1>3 DEF Loads!GitLog
  <1>4. CASE h \in {Loads!CommitDiffs, Loads!PullRequestDiffs, Loads!PullRequestComments}
    BY <1>4 DEF Loads!CommitDiffs, Loads!PullRequestDiffs, Loads!PullRequestComments
  <1>5. CASE h = Loads!Issues \/ h = Loads!PullRequests
    <2>1. h = Loads!Plain
      BY <1>5, Zenon DEF Loads!Issues, Loads!PullRequests
    <2> QED  BY <2>1
  <1>6. CASE h = Loads!GitRemote
    BY <1>6 DEF Loads!GitRemote
  <1>7. CASE h = Loads!RepoScan
    BY <1>7 DEF Loads!RepoScan
  <1>8. CASE h = Loads!LocalUsage
    BY <1>8 DEF Loads!LocalUsage
  <1>9. CASE h = Loads!DefaultModels
    BY <1>9 DEF Loads!DefaultModels
  <1> QED  BY <1>1, <1>2, <1>3, <1>4, <1>5, <1>6, <1>7, <1>8, <1>9 DEF Loads!Hooks

LoadsViews == [of : Nat, key : Loads!Keys, loading : BOOLEAN, error : BOOLEAN]
LoadsCalls == [id : Nat, key : Loads!Keys, step : {"connect", "read"}]

LEMMA LoadsEmpty == Loads!Empty \in LoadsViews /\ Loads!Empty.of = 0 /\ Loads!Empty.loading = FALSE
  BY DEF Loads!Empty, LoadsViews, Loads!Keys

(* refresh leaves nothing or what was there, and its call if it says that   *)
(* it loads.                                                               *)
LEMMA LoadsRefreshed ==
    ASSUME v7 \subseteq LoadsCalls, v1.loads \in BOOLEAN,
           NEW k \in Loads!Keys, NEW r \in Nat, NEW v \in LoadsViews, NEW step \in {"connect", "read"},
           ~v1.loads => ~v.loading, Loads!Refreshed(k, r, v, step)
    PROVE  /\ v4' \in Nat /\ v4' >= r /\ v5' \in LoadsViews /\ v7' \subseteq LoadsCalls
           /\ v5'.of = 0 \/ (v5'.of = v.of /\ v5'.key = v.key)
           /\ v5'.loading => v1.loads /\ \E c \in v7' : c.id = v4' /\ c.key = k
  <1>1. CASE Loads!Complete(k)
    <2> DEFINE a == [id |-> r + 1, key |-> k, step |-> step]
    <2>1. v4' = r + 1 /\ v7' = v7 \cup {a}
      BY <1>1 DEF Loads!Refreshed
    <2>2. a \in LoadsCalls /\ a.id = r + 1 /\ a.key = k
      BY DEF LoadsCalls
    <2> HIDE DEF a
    <2>3. CASE v1.loads
      <3>1. v5' = [v EXCEPT !.loading = TRUE, !.error = FALSE]
        BY <1>1, <2>3 DEF Loads!Refreshed
      <3>2. v5' \in LoadsViews /\ v5'.of = v.of /\ v5'.key = v.key
        BY <3>1 DEF LoadsViews
      <3> QED  BY <2>1, <2>2, <2>3, <3>2
    <2>4. CASE ~v1.loads
      <3>1. v5' = v
        BY <1>1, <2>4 DEF Loads!Refreshed
      <3> QED  BY <2>1, <2>2, <2>4, <3>1
    <2> QED  BY <2>3, <2>4
  <1>2. CASE ~Loads!Complete(k)
    <2>1. v4' \in {r, r + 1} /\ v5' = Loads!Empty /\ v7' = v7
      BY <1>2 DEF Loads!Refreshed
    <2> QED  BY <2>1, LoadsEmpty
  <1> QED  BY <1>1, <1>2

LEMMA LoadsInit == Loads!Init => Loads!IInv
  <1> SUFFICES ASSUME Loads!Init PROVE Loads!IInv
    OBVIOUS
  <1>1. v1 \in Loads!Hooks /\ v4 = 0 /\ v5 = Loads!Empty /\ v7 = {} /\ v8 = FALSE
        /\ v6 = [k \in Loads!Keys |-> 0] /\ v3 = ~v1.gate
    BY DEF Loads!Init
  <1>2. v2 \in Loads!Keys
    BY PartsAssumption DEF Loads!Init, Loads!Keys
  <1>3. v3 \in BOOLEAN
    BY <1>1, LoadsHooks
  <1>4. v5 \in LoadsViews /\ v5.of = 0 /\ v5.loading = FALSE
    BY <1>1, LoadsEmpty
  <1>5. v6 \in [Loads!Keys -> Nat] /\ \A k \in Loads!Keys : v6[k] <= v4
    BY <1>1
  <1>6. Loads!PanelIsOfItsProps
    BY <1>4 DEF Loads!PanelIsOfItsProps
  <1>7. v4 \in Nat /\ v5.of <= v4
    BY <1>1, <1>4
  <1>8. v8 \in BOOLEAN /\ v7 \subseteq LoadsCalls /\ v1 \in Loads!Hooks
    BY <1>1, Zenon
  <1> QED  BY <1>2, <1>3, <1>4, <1>5, <1>6, <1>7, <1>8, Zenon
           DEF Loads!IInv, LoadsViews, LoadsCalls

LEMMA LoadsStep == Loads!IInv /\ [Loads!Next]_(Loads!vars) => Loads!IInv'
  <1> SUFFICES ASSUME Loads!IInv, [Loads!Next]_(Loads!vars) PROVE Loads!IInv'
    OBVIOUS
  <1> USE DEF Loads!IInv, Loads!PanelIsOfItsProps, Loads!Current
  <1>0. /\ v5 \in LoadsViews /\ v7 \subseteq LoadsCalls /\ v1.loads \in BOOLEAN
        /\ v1.guard = "key" => v1.switch # "keeps" /\ v1.fails # "keeps"
        /\ v1.switch = "cached" => v1.guard = "key"
        /\ v1.fails = "cached" => v1.switch = "cached"
        /\ v1.late => v1.guard = "key"
    BY LoadsHooks DEF LoadsViews, LoadsCalls
  <1>1. CASE Loads!Refresh
    <2>1. PICK step \in {"connect", "read"} : Loads!Refreshed(v2, v4, v5, step)
      BY <1>1 DEF Loads!Refresh, Loads!Steps
    <2>2. /\ v4' \in Nat /\ v4' >= v4 /\ v5' \in LoadsViews /\ v7' \subseteq LoadsCalls
          /\ v5'.of = 0 \/ (v5'.of = v5.of /\ v5'.key = v5.key)
          /\ v5'.loading => v1.loads /\ \E c \in v7' : c.id = v4' /\ c.key = v2
      BY <1>0, <2>1, LoadsRefreshed
    <2>3. UNCHANGED <<v1, v2, v3, v6, v8>> /\ (v3 \/ v1.late)
      BY <1>1 DEF Loads!Refresh
    <2> QED  BY <1>0, <2>2, <2>3 DEF LoadsViews, LoadsCalls
  <1>2. ASSUME NEW k \in Loads!Keys, Loads!RefreshLate(k) PROVE Loads!IInv'
    <2>1. /\ v4' \in Nat /\ v4' >= v4 /\ v5' \in LoadsViews /\ v7' \subseteq LoadsCalls
          /\ v5'.of = 0 \/ (v5'.of = v5.of /\ v5'.key = v5.key)
          /\ v5'.loading => v1.loads
      <3>1. Loads!Refreshed(k, v4, v5, "read")
        BY <1>2 DEF Loads!RefreshLate
      <3> QED  BY <1>0, <3>1, LoadsRefreshed
    <2>2. UNCHANGED <<v1, v2, v3, v6>> /\ v8' = TRUE
      BY <1>2 DEF Loads!RefreshLate
    <2> QED  BY <1>0, <2>1, <2>2 DEF LoadsViews, LoadsCalls
  <1>3. ASSUME NEW k \in Loads!Keys, Loads!Switch(k) PROVE Loads!IInv'
    <2> DEFINE r == IF v1.switch = "keeps" THEN v4 ELSE v4 + 1
               w == Loads!OnSwitch(k)
    <2>1. v2' = k /\ UNCHANGED <<v1, v3, v6, v8>>
      BY <1>3 DEF Loads!Switch
    <2>2. r \in Nat /\ r >= v4
      OBVIOUS
    <2>3. /\ w \in LoadsViews
          /\ w.of # 0 /\ v1.guard = "key" => w.key = k
          /\ w.loading => v1.switch = "keeps" /\ w = v5
          /\ w.of <= v4 /\ (v1.fails = "cached" /\ w.of # 0 => w.of = v6[w.key])
      <3>1. CASE v1.switch = "keeps"
        BY <1>0, <3>1 DEF Loads!OnSwitch
      <3>2. CASE v1.switch = "cached" /\ k[1] # None /\ v6[k] # 0
        <4>1. w = [Loads!Empty EXCEPT !.of = v6[k], !.key = k]
          BY <3>2 DEF Loads!OnSwitch
        <4>2. w \in LoadsViews /\ w.of = v6[k] /\ w.key = k /\ w.loading = FALSE
          BY <4>1 DEF Loads!Empty, LoadsViews
        <4> HIDE DEF w
        <4> QED  BY <4>2
      <3>3. CASE v1.switch # "keeps" /\ ~(v1.switch = "cached" /\ k[1] # None /\ v6[k] # 0)
        <4>1. w = Loads!Empty
          BY <3>3 DEF Loads!OnSwitch
        <4> HIDE DEF w
        <4> QED  BY <4>1, LoadsEmpty
      <3> QED  BY <3>1, <3>2, <3>3
    <2>4. CASE v3 /\ v1.switch # "asked"
      <3>1. PICK step \in {"connect", "read"} : Loads!Refreshed(k, r, w, step)
        BY <1>3, <2>4 DEF Loads!Switch, Loads!Steps
      <3> HIDE DEF r, w
      <3>2. ~v1.loads => ~w.loading
        BY <2>3
      <3>3. /\ v4' \in Nat /\ v4' >= r /\ v5' \in LoadsViews /\ v7' \subseteq LoadsCalls
            /\ v5'.of = 0 \/ (v5'.of = w.of /\ v5'.key = w.key)
            /\ v5'.loading => v1.loads /\ \E c \in v7' : c.id = v4' /\ c.key = k
        BY <1>0, <2>2, <2>3, <3>1, <3>2, LoadsRefreshed
      <3> QED  BY <1>0, <2>1, <2>2, <2>3, <2>4, <3>3 DEF LoadsViews, LoadsCalls
    <2>5. CASE ~(v3 /\ v1.switch # "asked")
      <3>1. v4' = r /\ v5' = w /\ v7' = v7
        BY <1>3, <2>5 DEF Loads!Switch
      <3>2. w.loading => v4' = v4
        BY <2>3, <3>1
      <3> HIDE DEF r, w
      <3> QED  BY <1>0, <2>1, <2>2, <2>3, <3>1, <3>2 DEF LoadsViews, LoadsCalls
    <2> QED  BY <2>4, <2>5
  <1>4. CASE Loads!Toggle
    <2>1. v3' = ~v3 /\ UNCHANGED <<v1, v2, v6, v8>>
      BY <1>4 DEF Loads!Toggle
    <2>2. CASE v3
      <3>1. v5' = [v5 EXCEPT !.loading = v5.loading /\ v1.guard # "enabled"] /\ UNCHANGED <<v4, v7>>
        BY <1>4, <2>2 DEF Loads!Toggle
      <3>2. v5' \in LoadsViews /\ v5'.of = v5.of /\ v5'.key = v5.key
            /\ (v5'.loading => v5.loading /\ v1.guard # "enabled")
        BY <1>0, <3>1 DEF LoadsViews
      <3> QED  BY <1>0, <2>1, <3>1, <3>2 DEF LoadsViews, LoadsCalls
    <2>3. CASE ~v3
      <3>1. Loads!Refreshed(v2, v4, v5, "read")
        BY <1>4, <2>3 DEF Loads!Toggle
      <3>2. /\ v4' \in Nat /\ v4' >= v4 /\ v5' \in LoadsViews /\ v7' \subseteq LoadsCalls
            /\ v5'.of = 0 \/ (v5'.of = v5.of /\ v5'.key = v5.key)
            /\ v5'.loading => v1.loads /\ \E c \in v7' : c.id = v4' /\ c.key = v2
        BY <1>0, <3>1, LoadsRefreshed
      <3> QED  BY <1>0, <2>1, <2>3, <3>2 DEF LoadsViews, LoadsCalls
    <2> QED  BY <2>2, <2>3
  <1>5. CASE Loads!Clear
    <2>1. v5' = [v5 EXCEPT !.of = 0, !.key = <<None, None>>, !.error = FALSE]
          /\ UNCHANGED <<v1, v2, v3, v4, v6, v7, v8>>
      BY <1>5 DEF Loads!Clear
    <2>2. v5' \in LoadsViews /\ v5'.of = 0 /\ v5'.loading = v5.loading
      BY <1>0, <2>1, Zenon DEF LoadsViews, Loads!Keys
    <2> QED  BY <1>0, <2>1, <2>2 DEF LoadsViews, LoadsCalls
  <1>6. ASSUME NEW c \in v7, Loads!Connected(c) PROVE Loads!IInv'
    <2> DEFINE d == [c EXCEPT !.step = "read"]
    <2>1. v7' \in {v7 \ {c}, (v7 \ {c}) \cup {d}} /\ (Loads!Current(c) => d \in v7')
          /\ UNCHANGED <<v1, v2, v3, v4, v5, v6, v8>>
      BY <1>6 DEF Loads!Connected
    <2>2. d \in LoadsCalls /\ d.id = c.id /\ d.key = c.key
      BY <1>0 DEF LoadsCalls
    <2> HIDE DEF d
    <2> QED  BY <1>0, <2>1, <2>2 DEF LoadsCalls
  <1>7. ASSUME NEW c \in v7, Loads!Answered(c) PROVE Loads!IInv'
    <2>1. v7' = v7 \ {c} /\ UNCHANGED <<v1, v2, v3, v4, v8>> /\ c \in LoadsCalls
      BY <1>0, <1>7 DEF Loads!Answered
    <2>2. CASE Loads!Current(c)
      <3>1. v5' = [of |-> c.id, key |-> c.key, loading |-> FALSE, error |-> FALSE]
            /\ v6' = IF v1.switch = "cached" THEN [v6 EXCEPT ![c.key] = c.id] ELSE v6
        BY <1>7, <2>2 DEF Loads!Answered
      <3>2. v5' \in LoadsViews /\ v5'.of = v4 /\ v5'.key = c.key /\ v5'.loading = FALSE
        BY <2>1, <2>2, <3>1 DEF LoadsViews, LoadsCalls
      <3>3. v6' \in [Loads!Keys -> Nat] /\ (\A k \in Loads!Keys : v6'[k] <= v4)
            /\ (v1.switch = "cached" => v6'[c.key] = c.id)
        BY <2>1, <2>2, <3>1 DEF LoadsCalls
      <3> QED  BY <1>0, <2>1, <2>2, <3>2, <3>3 DEF LoadsViews, LoadsCalls
    <2>3. CASE ~Loads!Current(c)
      <3>1. UNCHANGED <<v5, v6>>
        BY <1>7, <2>3 DEF Loads!Answered
      <3> QED  BY <1>0, <2>1, <2>3, <3>1 DEF LoadsCalls
    <2> QED  BY <2>2, <2>3
  <1>8. ASSUME NEW c \in v7, Loads!Failed(c) PROVE Loads!IInv'
    <2>1. v7' = v7 \ {c} /\ UNCHANGED <<v1, v2, v3, v4, v6, v8>> /\ c \in LoadsCalls
      BY <1>0, <1>8 DEF Loads!Failed
    <2>2. CASE Loads!Current(c)
      <3> DEFINE w == Loads!OnFailure(c)
      <3>1. v5' = w
        BY <1>8, <2>2 DEF Loads!Failed
      <3>2. /\ w \in LoadsViews /\ w.loading = FALSE
            /\ w.of # 0 /\ v1.guard = "key" => w.key = v2
            /\ w.of <= v4 /\ (v1.fails = "cached" /\ w.of # 0 => w.of = v6[w.key])
        <4>1. CASE v1.fails = "keeps"
          <5>1. w = [v5 EXCEPT !.loading = FALSE, !.error = TRUE]
            BY <4>1 DEF Loads!OnFailure
          <5> HIDE DEF w
          <5> QED  BY <1>0, <4>1, <5>1, Zenon DEF LoadsViews
        <4>2. CASE v1.fails = "cached" /\ v6[c.key] # 0
          <5>1. w = [Loads!Empty EXCEPT !.of = v6[c.key], !.key = c.key, !.error = TRUE]
            BY <4>2 DEF Loads!OnFailure
          <5>2. w \in LoadsViews /\ w.of = v6[c.key] /\ w.key = c.key /\ w.loading = FALSE
            BY <2>1, <5>1, Zenon DEF Loads!Empty, LoadsViews, LoadsCalls
          <5> HIDE DEF w
          <5> QED  BY <1>0, <2>1, <2>2, <4>2, <5>2 DEF LoadsCalls
        <4>3. CASE v1.fails # "keeps" /\ ~(v1.fails = "cached" /\ v6[c.key] # 0)
          <5>1. w = [Loads!Empty EXCEPT !.error = TRUE]
            BY <4>3 DEF Loads!OnFailure
          <5>2. w = [of |-> 0, key |-> <<None, None>>, loading |-> FALSE, error |-> TRUE]
            BY <5>1, Zenon DEF Loads!Empty
          <5>3. <<None, None>> \in Loads!Keys
            BY DEF Loads!Keys
          <5>4. w \in LoadsViews /\ w.of = 0 /\ w.loading = FALSE
            BY <5>2, <5>3 DEF LoadsViews
          <5> HIDE DEF w
          <5> QED  BY <5>4
        <4> QED  BY <4>1, <4>2, <4>3, Zenon
      <3> HIDE DEF w
      <3> QED  BY <1>0, <2>1, <3>1, <3>2 DEF LoadsViews, LoadsCalls
    <2>3. CASE ~Loads!Current(c)
      <3>1. v5' = v5
        BY <1>8, <2>3 DEF Loads!Failed
      <3> QED  BY <1>0, <2>1, <2>3, <3>1 DEF LoadsCalls
    <2> QED  BY <2>2, <2>3
  <1>9. CASE UNCHANGED Loads!vars
    BY <1>9 DEF Loads!vars
  <1> QED  BY <1>1, <1>2, <1>3, <1>4, <1>5, <1>6, <1>7, <1>8, <1>9 DEF Loads!Next
LEMMA LoadsNewest == Loads!IInv /\ [Loads!Next]_(Loads!vars) => [Loads!NewestStays]_(Loads!vars)
  <1> SUFFICES ASSUME Loads!IInv, [Loads!Next]_(Loads!vars), v2' = v2, v5.of # 0, v5'.of # 0
               PROVE  v5'.of >= v5.of
    BY DEF Loads!NewestStays
  <1>0. /\ v5 \in LoadsViews /\ v7 \subseteq LoadsCalls /\ v1.loads \in BOOLEAN /\ v4 \in Nat
        /\ v5.of <= v4 /\ v2 \in Loads!Keys /\ v5.of \in Nat
        /\ ~v1.loads => ~v5.loading
        /\ v1.fails = "cached" => v5.of = v6[v5.key]
        /\ v1.guard = "key" => v5.key = v2
        /\ v1.fails = "cached" => v1.guard = "key"
    BY LoadsHooks DEF LoadsViews, LoadsCalls, Loads!IInv, Loads!PanelIsOfItsProps
  <1>1. ASSUME NEW k \in Loads!Keys, NEW step \in {"connect", "read"},
               Loads!Refreshed(k, v4, v5, step)
        PROVE  v5'.of = v5.of
    BY <1>0, <1>1, LoadsRefreshed
  <1>2. CASE Loads!Refresh
    BY <1>0, <1>1, <1>2 DEF Loads!Refresh, Loads!Steps
  <1>3. ASSUME NEW k \in Loads!Keys, Loads!RefreshLate(k) PROVE v5'.of >= v5.of
    BY <1>0, <1>1, <1>3 DEF Loads!RefreshLate
  <1>4. ASSUME NEW k \in Loads!Keys, Loads!Switch(k) PROVE FALSE
    BY <1>4 DEF Loads!Switch
  <1>5. CASE Loads!Toggle
    <2>1. CASE v3
      <3>1. v5' = [v5 EXCEPT !.loading = v5.loading /\ v1.guard # "enabled"]
        BY <1>5, <2>1 DEF Loads!Toggle
      <3> QED  BY <1>0, <3>1 DEF LoadsViews
    <2>2. CASE ~v3
      BY <1>0, <1>1, <1>5, <2>2 DEF Loads!Toggle
    <2> QED  BY <2>1, <2>2
  <1>6. CASE Loads!Clear
    <2>1. v5' = [v5 EXCEPT !.of = 0, !.key = <<None, None>>, !.error = FALSE]
      BY <1>6 DEF Loads!Clear
    <2> QED  BY <1>0, <2>1 DEF LoadsViews
  <1>7. ASSUME NEW c \in v7, Loads!Connected(c) PROVE v5'.of >= v5.of
    BY <1>0, <1>7 DEF Loads!Connected
  <1>8. ASSUME NEW c \in v7, Loads!Answered(c) PROVE v5'.of >= v5.of
    <2>1. CASE Loads!Current(c)
      <3>1. v5' = [of |-> c.id, key |-> c.key, loading |-> FALSE, error |-> FALSE]
        BY <1>8, <2>1 DEF Loads!Answered
      <3> QED  BY <1>0, <2>1, <3>1 DEF Loads!Current
    <2>2. CASE ~Loads!Current(c)
      BY <1>0, <1>8, <2>2 DEF Loads!Answered
    <2> QED  BY <2>1, <2>2
  <1>9. ASSUME NEW c \in v7, Loads!Failed(c) PROVE v5'.of >= v5.of
    <2>1. CASE ~Loads!Current(c)
      BY <1>0, <1>9, <2>1 DEF Loads!Failed
    <2>2. CASE Loads!Current(c)
      <3>1. v5' = Loads!OnFailure(c)
        BY <1>9, <2>2 DEF Loads!Failed
      <3>2. CASE v1.fails = "keeps"
        <4>1. v5' = [v5 EXCEPT !.loading = FALSE, !.error = TRUE]
          BY <3>1, <3>2 DEF Loads!OnFailure
        <4> QED  BY <1>0, <4>1 DEF LoadsViews
      <3>3. CASE v1.fails = "cached" /\ v6[c.key] # 0
        <4>1. v5' = [Loads!Empty EXCEPT !.of = v6[c.key], !.key = c.key, !.error = TRUE]
          BY <3>1, <3>3 DEF Loads!OnFailure
        <4>2. v5'.of = v6[c.key]
          BY <4>1 DEF Loads!Empty
        <4>3. c.key = v5.key
          BY <1>0, <2>2, <3>3 DEF Loads!Current
        <4> QED  BY <1>0, <3>3, <4>2, <4>3
      <3>4. CASE v1.fails # "keeps" /\ ~(v1.fails = "cached" /\ v6[c.key] # 0)
        <4>1. v5' = [Loads!Empty EXCEPT !.error = TRUE]
          BY <3>1, <3>4 DEF Loads!OnFailure
        <4>2. v5'.of = 0
          BY <4>1 DEF Loads!Empty
        <4> QED  BY <4>2
      <3> QED  BY <3>2, <3>3, <3>4
    <2> QED  BY <2>1, <2>2
  <1>10. CASE UNCHANGED Loads!vars
    BY <1>0, <1>10 DEF Loads!vars
  <1> QED  BY <1>2, <1>3, <1>4, <1>5, <1>6, <1>7, <1>8, <1>9, <1>10 DEF Loads!Next

----------------------------------------------------------------------------
(* The lists of a workspace.                                                *)
LEMMA ListsHooks ==
    ASSUME NEW h \in Lists!Hooks
    PROVE  /\ h.flag \in {"any", "own"} /\ h.emptyCounts \in BOOLEAN /\ h.length \in BOOLEAN
           /\ h.resets = "asked" => ~h.emptyCounts
           /\ h.resets = "switch" => h.flag = "own"
  <1> USE DEF Lists!Plain
  <1>1. CASE h = Lists!Branches
    BY <1>1 DEF Lists!Branches
  <1>2. CASE h = Lists!Skills
    <2>1. h = Lists!Plain
      BY <1>2, Zenon DEF Lists!Skills
    <2> QED  BY <2>1
  <1>3. CASE h = Lists!Models
    BY <1>3 DEF Lists!Models
  <1>4. CASE h = Lists!Prompts
    BY <1>4 DEF Lists!Prompts
  <1>5. CASE h = Lists!Modes
    BY <1>5 DEF Lists!Modes
  <1>6. CASE h = Lists!Files
    BY <1>6 DEF Lists!Files
  <1> QED  BY <1>1, <1>2, <1>3, <1>4, <1>5, <1>6 DEF Lists!Hooks

ListsCalls == [id : 1..MaxRequests, workspace : Workspaces]

(* The flag and the calls of a state s of the hook, its list.               *)
ListsFlag(s) ==
    /\ v1.flag = "any" => \A c \in s.calls : s.flight = c.workspace /\ s.calls = {c}
    /\ s.flight # None => \E c \in s.calls : c.workspace = s.flight
ListsOf(s) == s.list.of = s.last \/ (s.list.length = 0 /\ ~v1.emptyCounts)

(* What refresh may do to the state s with the props p.                     *)
LEMMA ListsRefreshed ==
    ASSUME v1 \in Lists!Hooks, NEW s \in Lists!State, NEW p \in Lists!Props, ListsFlag(s), ListsOf(s),
           NEW t, t = Lists!Refreshed(p, s)
    PROVE  /\ t \in Lists!State /\ ListsFlag(t) /\ ListsOf(t)
           /\ t.list = s.list /\ t.last = s.last /\ t.requests >= s.requests
           /\ \A c \in t.calls : c \in s.calls \/ c.workspace = p.workspace
           /\ t.calls = {} /\ Lists!Available(p) => t.requests = MaxRequests
  <1> USE DEF ListsFlag, ListsOf
  <1>1. CASE ~Lists!Available(p) \/ Lists!KeptBack(p, s) \/ s.requests = MaxRequests
    <2>1. t = s
      BY <1>1 DEF Lists!Refreshed
    <2>2. Lists!Available(p) /\ Lists!KeptBack(p, s) => s.calls # {}
      BY DEF Lists!Available, Lists!KeptBack
    <2>3. s.requests >= s.requests
      BY DEF Lists!State
    <2> QED  BY <1>1, <2>1, <2>2, <2>3
  <1>2. CASE Lists!Available(p) /\ ~Lists!KeptBack(p, s) /\ s.requests # MaxRequests
    <2> DEFINE a == [id |-> s.requests + 1, workspace |-> p.workspace]
    <2>1. t = [s EXCEPT !.flight = p.workspace, !.requests = s.requests + 1, !.calls = s.calls \cup {a}]
      BY <1>2 DEF Lists!Refreshed
    <2>2. p.workspace \in Workspaces /\ p.workspace # None
      BY <1>2, NoneAssumption DEF Lists!Available, Lists!Props
    <2>3. s.requests \in 0..MaxRequests /\ s.calls \subseteq ListsCalls
      BY DEF Lists!State, ListsCalls
    <2>4. a \in ListsCalls /\ a.workspace = p.workspace
      BY <1>2, <2>2, <2>3, BoundsAssumption DEF ListsCalls
    <2>5. s.requests + 1 \in 0..MaxRequests /\ s.requests + 1 >= s.requests
      BY <1>2, <2>3, BoundsAssumption
    <2>6. v1.flag = "any" => s.calls = {}
      BY <1>2, NoneAssumption, <2>3 DEF Lists!KeptBack, ListsCalls
    <2> HIDE DEF a
    <2> DEFINE q == s.requests + 1
               cs == s.calls \cup {a}
    <2>a. cs \in SUBSET ListsCalls /\ q \in 0..MaxRequests
      BY <2>3, <2>4, <2>5
    <2>b. t = [s EXCEPT !.flight = p.workspace, !.requests = q, !.calls = cs]
      BY <2>1
    <2> HIDE DEF q, cs
    <2>c. t \in Lists!State
      BY <2>2, <2>a, <2>b, Zenon DEF Lists!State, ListsCalls
    <2>d. /\ t.flight = p.workspace /\ t.calls = cs /\ t.requests = q
          /\ t.list = s.list /\ t.last = s.last
      BY <2>b DEF Lists!State
    <2>7. /\ t.flight = p.workspace /\ t.calls = s.calls \cup {a} /\ t.requests = s.requests + 1
          /\ t.list = s.list /\ t.last = s.last /\ t \in Lists!State
      BY <2>c, <2>d DEF q, cs
    <2>8. ListsFlag(t)
      BY <2>4, <2>6, <2>7
    <2> QED  BY <2>4, <2>5, <2>7, <2>8
  <1> QED  BY <1>1, <1>2

(* The effect asks unless the list is that of the props.                    *)
LEMMA ListsEffect ==
    ASSUME v1 \in Lists!Hooks, NEW s \in Lists!State, NEW p \in Lists!Props, ListsFlag(s), ListsOf(s),
           NEW t, t = Lists!Effect(p, s)
    PROVE  /\ t \in Lists!State /\ ListsFlag(t) /\ ListsOf(t) /\ t.requests >= s.requests
           /\ \A c \in t.calls : c \in s.calls \/ c.workspace = p.workspace
           /\ t.calls = {} /\ Lists!Available(p) /\ t.requests # MaxRequests =>
                  t.list.of = p.workspace
  <1>1. CASE v1.resets = "unavailable" /\ ~Lists!Available(p)
    <2>1. t = [s EXCEPT !.list = Lists!Nothing, !.last = None]
      BY <1>1 DEF Lists!Effect
    <2>a. Lists!Nothing \in [of : Workspaces \cup {None}, length : ListLengths] /\ Lists!Nothing.of = None
      BY LengthsAssumption DEF Lists!Nothing
    <2>b. t.list = Lists!Nothing /\ t.last = None /\ t.calls = s.calls /\ t.flight = s.flight
          /\ t.requests = s.requests
      BY <2>1 DEF Lists!State
    <2>c. t \in Lists!State
      BY <2>1, <2>a, Zenon DEF Lists!State
    <2>2. t \in Lists!State /\ t.list.of = t.last /\ t.calls = s.calls /\ t.flight = s.flight
          /\ t.requests = s.requests
      BY <2>a, <2>b, <2>c
    <2>3. s.requests >= s.requests
      BY DEF Lists!State
    <2> QED  BY <1>1, <2>2, <2>3 DEF ListsFlag, ListsOf
  <1>2. CASE ~(v1.resets = "unavailable" /\ ~Lists!Available(p))
             /\ s.last = p.workspace /\ (s.list.length > 0 \/ v1.emptyCounts)
    <2>1. t = s
      BY <1>2 DEF Lists!Effect
    <2>2. s.list.of = p.workspace /\ s.requests >= s.requests
      BY <1>2 DEF ListsOf, Lists!State
    <2> QED  BY <2>1, <2>2
  <1>3. CASE ~(v1.resets = "unavailable" /\ ~Lists!Available(p))
             /\ ~(s.last = p.workspace /\ (s.list.length > 0 \/ v1.emptyCounts))
    <2>1. t = Lists!Refreshed(p, s)
      BY <1>3 DEF Lists!Effect
    <2> QED  BY <2>1, ListsRefreshed
  <1> QED  BY <1>1, <1>2, <1>3

ListsEmpty(s) == [s EXCEPT !.list = Lists!Nothing, !.last = None]

LEMMA ListsEmptied ==
    ASSUME NEW s \in Lists!State, ListsFlag(s), NEW t, t = ListsEmpty(s)
    PROVE  /\ t \in Lists!State /\ ListsFlag(t) /\ ListsOf(t) /\ t.calls = s.calls
           /\ t.requests = s.requests /\ t.flight = s.flight
  <1>1. Lists!Nothing \in [of : Workspaces \cup {None}, length : ListLengths] /\ Lists!Nothing.of = None
    BY LengthsAssumption DEF Lists!Nothing
  <1>2. t.list = Lists!Nothing /\ t.last = None /\ t.calls = s.calls /\ t.flight = s.flight
        /\ t.requests = s.requests
    BY DEF Lists!State, ListsEmpty
  <1>3. t \in Lists!State
    BY <1>1, Zenon DEF Lists!State, ListsEmpty
  <1> QED  BY <1>1, <1>2, <1>3 DEF ListsFlag, ListsOf

LEMMA ListsInit == Lists!Init => Lists!IInv
  <1> SUFFICES ASSUME Lists!Init PROVE Lists!IInv
    OBVIOUS
  <1>1. /\ v1 \in Lists!Hooks /\ v2 = [workspace |-> None, connected |-> FALSE, enabled |-> TRUE]
        /\ v3 = [list |-> Lists!Nothing, last |-> None, flight |-> None, calls |-> {}, requests |-> 0]
        /\ v6 = FALSE
    BY DEF Lists!Init
  <1>2. Lists!Nothing \in [of : Workspaces \cup {None}, length : ListLengths] /\ Lists!Nothing.of = None
    BY LengthsAssumption DEF Lists!Nothing
  <1>3. v3 \in Lists!State
    BY <1>1, <1>2, BoundsAssumption DEF Lists!State
  <1>4. v2 \in Lists!Props /\ v2.workspace = None
    BY <1>1 DEF Lists!Props
  <1>5. v3.calls = {} /\ v3.flight = None /\ v3.list.of = v3.last
    BY <1>1, <1>2
  <1>6. Lists!ListIsOfItsWorkspace
    BY <1>4 DEF Lists!ListIsOfItsWorkspace, Lists!Available
  <1> QED  BY <1>1, <1>3, <1>4, <1>5, <1>6 DEF Lists!IInv

LEMMA ListsStep == Lists!IInv /\ [Lists!Next]_(Lists!vars) => Lists!IInv'
  <1> SUFFICES ASSUME Lists!IInv, [Lists!Next]_(Lists!vars) PROVE Lists!IInv'
    OBVIOUS
  <1> USE DEF Lists!ListIsOfItsWorkspace
  <1>0. /\ v1 \in Lists!Hooks /\ v2 \in Lists!Props /\ v3 \in Lists!State /\ v6 \in BOOLEAN
        /\ ListsFlag(v3) /\ ListsOf(v3) /\ v3.calls \subseteq ListsCalls
        /\ v3.requests \in 0..MaxRequests
    BY DEF Lists!IInv, ListsFlag, ListsOf, Lists!State, ListsCalls
  (* Any change of the props that ends with the effect.                     *)
  <1>1. ASSUME NEW s \in Lists!State, ListsFlag(s), ListsOf(s), s.calls = v3.calls,
               v2' \in Lists!Props, v3' = Lists!Effect(v2', s), UNCHANGED <<v1, v6>>,
               \/ v5' = Lists!Blamed
               \/ v5' = v5 /\ v2'.workspace = v2.workspace
        PROVE  Lists!IInv'
    <2>1. /\ v3' \in Lists!State /\ ListsFlag(v3') /\ ListsOf(v3')
          /\ \A c \in v3'.calls : c \in v3.calls \/ c.workspace = v2'.workspace
          /\ v3'.calls = {} /\ Lists!Available(v2') /\ v3'.requests # MaxRequests =>
                 v3'.list.of = v2'.workspace
      BY <1>0, <1>1, ListsEffect
    <2>2. \A c \in v3'.calls : c.workspace # v2'.workspace => "switched" \in v5'
      BY <1>1, <2>1 DEF Lists!Blamed, Lists!IInv
    <2>3. v3'.requests \in 0..MaxRequests
      BY <2>1 DEF Lists!State
    <2>4. v3'.requests < MaxRequests => v3'.requests # MaxRequests
      BY <2>3
    <2> QED  BY <1>0, <1>1, <2>1, <2>2, <2>4 DEF Lists!IInv, ListsFlag, ListsOf
  <1>2. ASSUME NEW p \in Lists!Props, Lists!Switch(p) PROVE Lists!IInv'
    <2>1. v2' = p /\ v5' = Lists!Blamed /\ v3' = Lists!Effect(p, Lists!Emptied(p))
          /\ UNCHANGED <<v1, v6>>
      BY <1>2 DEF Lists!Switch
    <2> DEFINE s == Lists!Emptied(p)
    <2>2. s \in Lists!State /\ ListsFlag(s) /\ ListsOf(s) /\ s.calls = v3.calls
      <3> DEFINE e == ListsEmpty(v3)
      <3>1. e \in Lists!State /\ ListsFlag(e) /\ ListsOf(e) /\ e.calls = v3.calls
        BY <1>0, ListsEmptied
      <3>2. CASE v1.resets = "switch" /\ (p.workspace # v2.workspace \/ p.connected # v2.connected)
        <4>1. s = [e EXCEPT !.flight = None]
          BY <3>2 DEF Lists!Emptied, ListsEmpty
        <4>2. v1.flag = "own"
          BY <1>0, <3>2, ListsHooks
        <4> HIDE DEF e, s
        <4>3. s \in Lists!State /\ s.calls = e.calls /\ s.list = e.list /\ s.last = e.last
              /\ s.flight = None
          BY <3>1, <4>1 DEF Lists!State
        <4> QED  BY <3>1, <4>2, <4>3 DEF ListsFlag, ListsOf
      <3>3. CASE v1.resets = "unavailable" /\ p.workspace # v2.workspace
        <4>1. s = e
          BY <3>3 DEF Lists!Emptied, ListsEmpty
        <4> HIDE DEF e, s
        <4> QED  BY <3>1, <4>1
      <3>4. CASE ~(v1.resets = "switch" /\ (p.workspace # v2.workspace \/ p.connected # v2.connected))
                 /\ ~(v1.resets = "unavailable" /\ p.workspace # v2.workspace)
        <4>1. s = v3
          BY <3>4 DEF Lists!Emptied
        <4> HIDE DEF e, s
        <4> QED  BY <1>0, <4>1
      <3> QED  BY <3>2, <3>3, <3>4
    <2> HIDE DEF s
    <2>3. v3' = Lists!Effect(p, s)
      BY <2>1 DEF s
    <2> QED  BY <1>1, <2>1, <2>2, <2>3
  <1>3. CASE Lists!ChangeMode
    <2> DEFINE s == ListsEmpty(v3)
    <2>1. v3' = Lists!Effect(v2, s) /\ v5' = Lists!Blamed /\ UNCHANGED <<v1, v2, v6>>
      BY <1>3 DEF Lists!ChangeMode, ListsEmpty
    <2>2. s \in Lists!State /\ ListsFlag(s) /\ ListsOf(s) /\ s.calls = v3.calls
      BY <1>0, ListsEmptied
    <2> HIDE DEF s
    <2> QED  BY <1>0, <1>1, <2>1, <2>2
  <1>4. CASE Lists!Select
    <2>1. v3' = Lists!Effect(v2, v3) /\ UNCHANGED <<v1, v2, v5, v6>>
      BY <1>4 DEF Lists!Select
    <2> QED  BY <1>0, <1>1, <2>1
  <1>5. CASE Lists!Refresh
    <2> DEFINE s == IF v1.resets = "asked" /\ ~Lists!Available(v2)
                    THEN [v3 EXCEPT !.list = Lists!Nothing] ELSE v3
    <2>1. v3' = Lists!Refreshed(v2, s) /\ UNCHANGED <<v1, v2, v5, v6>>
      BY <1>5 DEF Lists!Refresh
    <2>2. s \in Lists!State /\ ListsFlag(s) /\ ListsOf(s) /\ s.calls = v3.calls
      <3>1. CASE v1.resets = "asked" /\ ~Lists!Available(v2)
        <4>1. s = [v3 EXCEPT !.list = Lists!Nothing]
          BY <3>1
        <4>2. ~v1.emptyCounts
          BY <1>0, <3>1, ListsHooks
        <4>3. Lists!Nothing \in [of : Workspaces \cup {None}, length : ListLengths]
              /\ Lists!Nothing.length = 0
          BY LengthsAssumption DEF Lists!Nothing
        <4> HIDE DEF s
        <4>4. s \in Lists!State
          BY <1>0, <4>1, <4>3 DEF Lists!State
        <4>5. s.calls = v3.calls /\ s.flight = v3.flight /\ s.list = Lists!Nothing
          BY <1>0, <4>1 DEF Lists!State
        <4> QED  BY <1>0, <4>2, <4>3, <4>4, <4>5 DEF ListsFlag, ListsOf
      <3>2. CASE ~(v1.resets = "asked" /\ ~Lists!Available(v2))
        <4>1. s = v3
          BY <3>2
        <4> HIDE DEF s
        <4> QED  BY <1>0, <4>1
      <3> QED  BY <3>1, <3>2
    <2> HIDE DEF s
    <2>3. /\ v3' \in Lists!State /\ ListsFlag(v3') /\ ListsOf(v3')
          /\ \A c \in v3'.calls : c \in s.calls \/ c.workspace = v2.workspace
          /\ v3'.calls = {} /\ Lists!Available(v2) => v3'.requests = MaxRequests
      BY <1>0, <2>1, <2>2, ListsRefreshed
    <2>4. v3'.requests = MaxRequests => ~(v3'.requests < MaxRequests)
      BY BoundsAssumption
    <2> QED  BY <1>0, <2>1, <2>2, <2>3, <2>4 DEF Lists!IInv, ListsFlag, ListsOf
  <1>6. ASSUME NEW c \in v3.calls PROVE
               LET r == Lists!Released(c)
               IN  /\ r \in Lists!State /\ ListsFlag(r) /\ r.list = v3.list /\ r.last = v3.last
                   /\ r.calls = v3.calls \ {c} /\ r.requests = v3.requests
    <2> DEFINE r == Lists!Released(c)
               f == IF v1.flag = "any" \/ v3.flight = c.workspace THEN None ELSE v3.flight
               cs == v3.calls \ {c}
    <2>1. r = [v3 EXCEPT !.calls = cs, !.flight = f]
      BY DEF Lists!Released
    <2>2. f \in Workspaces \cup {None} /\ cs \in SUBSET [id : 1..MaxRequests, workspace : Workspaces]
      BY <1>0 DEF Lists!State
    <2>3. v1.flag = "any" => cs = {}
      BY <1>0 DEF ListsFlag
    <2>4. f # None => v1.flag # "any" /\ f = v3.flight /\ f # c.workspace
      OBVIOUS
    <2>5. v1.flag = "any" => f = None
      OBVIOUS
    <2>6. f # None => \E d \in cs : d.workspace = f
      BY <1>0, <2>4 DEF ListsFlag
    <2> HIDE DEF f, cs, r
    <2>7. r \in Lists!State
      BY <1>0, <2>1, <2>2, Zenon DEF Lists!State
    <2>8. r.calls = cs /\ r.flight = f /\ r.list = v3.list /\ r.last = v3.last /\ r.requests = v3.requests
      BY <1>0, <2>1 DEF Lists!State
    <2>9. ListsFlag(r)
      BY <2>3, <2>5, <2>6, <2>8 DEF ListsFlag
    <2> QED  BY <2>7, <2>8, <2>9 DEF r, cs
  <1>7. ASSUME NEW c \in v3.calls, NEW n \in ListLengths, Lists!Answered(c, n) PROVE Lists!IInv'
    <2> DEFINE r == Lists!Released(c)
               l == [of |-> c.workspace, length |-> n]
               s == [r EXCEPT !.list = l, !.last = c.workspace]
    <2>1. r \in Lists!State /\ ListsFlag(r) /\ r.calls = v3.calls \ {c}
      BY <1>6
    <2>2. /\ v3' = IF v1.length /\ n # v3.list.length THEN Lists!Effect(v2, s) ELSE s
          /\ v6' = (n = v3.list.length) /\ UNCHANGED <<v1, v2>>
          /\ v5' = IF c.workspace = v2.workspace /\ v3.calls = {c} THEN {} ELSE v5
      BY <1>7 DEF Lists!Answered
    <2>3. c.workspace \in Workspaces
      BY <1>0 DEF ListsCalls
    <2>4. l \in [of : Workspaces \cup {None}, length : ListLengths] /\ l.of = c.workspace
      BY <2>3
    <2> HIDE DEF r, l
    <2>5. s \in Lists!State /\ s.calls = v3.calls \ {c} /\ s.flight = r.flight
          /\ s.list = l /\ s.last = c.workspace
      BY <2>1, <2>3, <2>4, Zenon DEF Lists!State
    <2>6. ListsFlag(s) /\ ListsOf(s)
      BY <2>1, <2>4, <2>5 DEF ListsFlag, ListsOf
    <2>7. \A d \in s.calls : d.workspace # v2.workspace => "switched" \in v5'
      <3> SUFFICES ASSUME NEW d \in s.calls, d.workspace # v2.workspace PROVE "switched" \in v5'
        OBVIOUS
      <3>1. d \in v3.calls /\ v3.calls # {c}
        BY <2>5
      <3> QED  BY <2>2, <3>1 DEF Lists!IInv
    <2> HIDE DEF s
    <2>8. CASE v1.length /\ n # v3.list.length
      <3>1. v3' = Lists!Effect(v2, s)
        BY <2>2, <2>8
      <3>2. /\ v3' \in Lists!State /\ ListsFlag(v3') /\ ListsOf(v3')
            /\ \A d \in v3'.calls : d \in s.calls \/ d.workspace = v2.workspace
            /\ v3'.calls = {} /\ Lists!Available(v2) /\ v3'.requests # MaxRequests =>
                   v3'.list.of = v2.workspace
        BY <1>0, <2>5, <2>6, <3>1, ListsEffect
      <3>3. v3'.requests < MaxRequests => v3'.requests # MaxRequests
        BY <3>2 DEF Lists!State
      <3>4. v6' \in BOOLEAN
        BY <2>2
      <3>5. \A d \in v3'.calls : d.workspace # v2.workspace => "switched" \in v5'
        BY <2>7, <3>2
      <3> QED  BY <1>0, <2>2, <3>2, <3>3, <3>4, <3>5 DEF Lists!IInv, ListsFlag, ListsOf
    <2>9. CASE ~(v1.length /\ n # v3.list.length)
      <3>1. v3' = s /\ v6' \in BOOLEAN /\ (v1.length => v6')
        BY <2>2, <2>9
      <3>2. s.calls = {} => s.list.of = v2.workspace \/ "switched" \in v5'
        <4>1. s.calls = {} => v3.calls = {c} /\ s.list.of = c.workspace
          BY <2>4, <2>5
        <4> QED  BY <2>2, <4>1 DEF Lists!IInv
      <3> QED  BY <1>0, <2>2, <2>5, <2>6, <2>7, <3>1, <3>2 DEF Lists!IInv, ListsFlag, ListsOf
    <2> QED  BY <2>8, <2>9
  <1>8. ASSUME NEW c \in v3.calls, Lists!Failed(c) PROVE Lists!IInv'
    <2>1. v3' = Lists!Released(c) /\ v5' = v5 \cup {"failed"} /\ UNCHANGED <<v1, v2, v6>>
      BY <1>8 DEF Lists!Failed
    <2>2. /\ v3' \in Lists!State /\ ListsFlag(v3') /\ v3'.list = v3.list /\ v3'.last = v3.last
          /\ v3'.calls = v3.calls \ {c}
      BY <1>6, <2>1
    <2> QED  BY <1>0, <2>1, <2>2 DEF Lists!IInv, ListsFlag, ListsOf
  <1>9. CASE UNCHANGED Lists!vars
    BY <1>9 DEF Lists!vars, Lists!IInv, Lists!Available
  <1> QED  BY <1>2, <1>3, <1>4, <1>5, <1>7, <1>8, <1>9 DEF Lists!Next

----------------------------------------------------------------------------
(* The composer of a thread or a draft, and the home of a workspace.        *)
LEMMA DraftsPlace ==
    ASSUME NEW p \in Drafts!Places
    PROVE  /\ p[1] \in Workspaces /\ Drafts!Key(p) \in Drafts!Keys
           /\ p[2] \in ComposerThreads => Drafts!Key(p) = p[2] /\ ~Drafts!AtHome(p)
           /\ Drafts!Key(p) \in ComposerThreads => p[2] = Drafts!Key(p)
           /\ Drafts!AtHome(p) => p \in Drafts!Homes /\ Drafts!Key(p) = p
           /\ Drafts!Key(p) \in Drafts!Homes => Drafts!AtHome(p)
           /\ p[2] \in ComposerThreads \/ p[2] \in {"draft", "home"}
  <1> USE ThreadsAssumption
  <1>1. CASE \E t \in ComposerThreads : p = <<WorkspaceOf[t], t>>
    <2>1. PICK t \in ComposerThreads : p = <<WorkspaceOf[t], t>>
      BY <1>1
    <2>2. p[1] = WorkspaceOf[t] /\ p[2] = t /\ WorkspaceOf[t] \in Workspaces /\ t # "home"
      BY <2>1
    <2>3. t \notin Workspaces \X {"home"}
      BY <2>1
    <2> QED  BY <2>2, <2>3 DEF Drafts!Key, Drafts!Keys, Drafts!AtHome, Drafts!Homes
  <1>2. CASE p \in Workspaces \X {"draft", "home"}
    <2>1. p[1] \in Workspaces /\ p[2] \in {"draft", "home"} /\ p = <<p[1], p[2]>>
      BY <1>2
    <2>2. p[2] \notin ComposerThreads /\ p \notin ComposerThreads
      BY <1>2, <2>1
    <2>3. p \in Drafts!Homes <=> p[2] = "home"
      BY <2>1 DEF Drafts!Homes
    <2> QED  BY <2>1, <2>2, <2>3 DEF Drafts!Key, Drafts!Keys, Drafts!AtHome
  <1> QED  BY <1>1, <1>2 DEF Drafts!Places

(* Threads and homes are among the keys.                                    *)
LEMMA DraftsKept == Drafts!Kept \subseteq Drafts!Keys /\ ComposerThreads \subseteq Drafts!Kept
  <1>1. ASSUME NEW t \in ComposerThreads PROVE t \in Drafts!Keys
    <2> DEFINE p == <<WorkspaceOf[t], t>>
    <2>1. p \in Drafts!Places /\ p[2] = t
      BY DEF Drafts!Places
    <2> QED  BY <2>1, DraftsPlace DEF Drafts!Keys
  <1>2. ASSUME NEW h \in Drafts!Homes PROVE h \in Drafts!Keys
    <2>1. h \in Drafts!Places /\ h[2] = "home"
      BY <1>2 DEF Drafts!Homes, Drafts!Places
    <2> QED  BY <2>1, DraftsPlace DEF Drafts!AtHome
  <1> QED  BY <1>1, <1>2 DEF Drafts!Kept

LEMMA DraftsInit == Drafts!Init => Drafts!IInv
  <1> SUFFICES ASSUME Drafts!Init PROVE Drafts!IInv
    OBVIOUS
  <1>1. v1 \in Drafts!Places /\ v1[2] \in ComposerThreads /\ v1[1] \in Workspaces
    BY DraftsPlace DEF Drafts!Init
  <1>2. Drafts!TypeOK
    <2>1. v2 \in [of : Drafts!Texts, past : BOOLEAN]
      BY DEF Drafts!Init, Drafts!Texts
    <2>2. v3 \in [Drafts!Kept -> Drafts!Texts]
      BY DEF Drafts!Init, Drafts!Texts
    <2>5. v4 \in [Drafts!Keys -> SUBSET Drafts!Images]
      BY DEF Drafts!Init
    <2>6. v7 \in [Workspaces -> (SUBSET Drafts!Prompts) \cup {Drafts!Unread}]
      <3>1. v7 = [w \in Workspaces |-> IF w = v1[1] THEN {} ELSE Drafts!Unread]
        BY DEF Drafts!Init
      <3>2. \A w \in Workspaces : (IF w = v1[1] THEN {} ELSE Drafts!Unread) \in (SUBSET Drafts!Prompts) \cup {Drafts!Unread}
        OBVIOUS
      <3> QED  BY <3>1, <3>2, Zenon
    <2>7. v8 \in [Workspaces -> SUBSET Drafts!Prompts]
      BY DEF Drafts!Init
    <2>3. v10 \in [typed : SUBSET Drafts!Kept, attached : SUBSET Drafts!Images,
                   recorded : [Workspaces -> SUBSET Drafts!Prompts],
                   strayed : BOOLEAN, dropped : BOOLEAN, late : BOOLEAN]
      BY <2>7 DEF Drafts!Init
    <2>4. v11 \in [moves : 0..MaxMoves, sent : 0..MaxSent]
      BY BoundsAssumption DEF Drafts!Init
    <2> QED  BY <1>1, <2>1, <2>2, <2>3, <2>4, <2>5, <2>6, <2>7 DEF Drafts!Init, Drafts!TypeOK
  <1>3. ~Drafts!AtHome(v1) /\ v2.of = {} /\ v3[v1[2]] = {}
    BY <1>1, DraftsPlace, DraftsKept DEF Drafts!Init
  <1>4. \A k \in Drafts!Kept : v3[k] = {}
    BY DEF Drafts!Init
  <1>5. v10.typed = {} /\ v10.attached = {} /\ v10.recorded = v8 /\ v6 = {} /\ v9 = {}
    BY DEF Drafts!Init
  <1>6. Drafts!TextIsDraft /\ Drafts!SendsStayHome /\ Drafts!DraftsStayHome
    BY <1>3, <1>4, <1>5 DEF Drafts!TextIsDraft, Drafts!SendsStayHome, Drafts!DraftsStayHome
  <1>7. Drafts!PicturesStayHome /\ Drafts!ImagesStayHome /\ Drafts!QueuedOfThreads
    BY <1>5 DEF Drafts!Init, Drafts!QueuedOfThreads, Drafts!PicturesStayHome, Drafts!ImagesStayHome
  <1>8. Drafts!MemoryOK /\ Drafts!HistoryKept
    BY <1>1, <1>5 DEF Drafts!Init, Drafts!MemoryOK, Drafts!HistoryKept, Drafts!Unread
  <1> QED  BY <1>2, <1>6, <1>7, <1>8 DEF Drafts!IInv

(* Each action keeps the types.                                             *)
LEMMA DraftsType == Drafts!IInv /\ Drafts!Next => Drafts!TypeOK'
  <1> SUFFICES ASSUME Drafts!IInv, Drafts!Next PROVE Drafts!TypeOK'
    OBVIOUS
  <1> DEFINE Noted == [typed : SUBSET Drafts!Kept, attached : SUBSET Drafts!Images,
                       recorded : [Workspaces -> SUBSET Drafts!Prompts],
                       strayed : BOOLEAN, dropped : BOOLEAN, late : BOOLEAN]
             Spent == [moves : 0..MaxMoves, sent : 0..MaxSent]
             Sends == [key : Drafts!Keys, id : Drafts!Prompts, of : Drafts!Texts,
                       with : SUBSET Drafts!Images, queued : BOOLEAN]
             Memories == (SUBSET Drafts!Prompts) \cup {Drafts!Unread}
             Runs == [ws : Workspaces, id : Drafts!Prompts, frozen : Memories]
  <1>0. /\ v1 \in Drafts!Places /\ v2 \in [of : Drafts!Texts, past : BOOLEAN]
        /\ v3 \in [Drafts!Kept -> Drafts!Texts]
        /\ v4 \in [Drafts!Keys -> SUBSET Drafts!Images] /\ v5 \subseteq Drafts!Images
        /\ v6 \subseteq Sends /\ v7 \in [Workspaces -> Memories]
        /\ v8 \in [Workspaces -> SUBSET Drafts!Prompts] /\ v9 \subseteq Runs
        /\ v10 \in Noted /\ v11 \in Spent
    BY DEF Drafts!IInv, Drafts!TypeOK
  <1>a. /\ v1[1] \in Workspaces /\ Drafts!Key(v1) \in Drafts!Keys
        /\ v1[2] \in ComposerThreads => Drafts!Key(v1) = v1[2] /\ v1[2] \in Drafts!Kept
        /\ Drafts!AtHome(v1) => v1 \in Drafts!Kept /\ Drafts!Key(v1) = v1
    BY <1>0, DraftsPlace, DraftsKept DEF Drafts!Kept
  <1>b. {} \in Drafts!Texts /\ {None} \in Drafts!Texts
        /\ \A x \in Drafts!Texts : x \cup {Drafts!Key(v1)} \in Drafts!Texts
    BY <1>a DEF Drafts!Texts
  <1>c. \A p \in 0..MaxSent : p + 1 <= MaxSent => p + 1 \in Drafts!Prompts /\ p + 1 \in 0..MaxSent
    BY BoundsAssumption DEF Drafts!Prompts
  <1>d. v11.sent \in 0..MaxSent /\ v11.moves \in 0..MaxMoves
    BY <1>0
  <1>e. ASSUME NEW of \in Drafts!Texts, NEW past \in BOOLEAN, Drafts!Write(of, past)
        PROVE  v2' \in [of : Drafts!Texts, past : BOOLEAN] /\ v3' \in [Drafts!Kept -> Drafts!Texts]
    <2>1. v2' = [of |-> of, past |-> past]
      BY <1>e DEF Drafts!Write
    <2>2. v3' = IF v1[2] \in ComposerThreads THEN [v3 EXCEPT ![v1[2]] = of] ELSE v3
      BY <1>e DEF Drafts!Write
    <2>3. v3' \in [Drafts!Kept -> Drafts!Texts]
      BY <1>0, <2>2
    <2> QED  BY <2>1, <2>3
  <1>f. v10.typed \subseteq Drafts!Kept /\ v10.attached \subseteq Drafts!Images
        /\ v10.recorded \in [Workspaces -> SUBSET Drafts!Prompts]
        /\ v10.strayed \in BOOLEAN /\ v10.dropped \in BOOLEAN /\ v10.late \in BOOLEAN
    BY <1>0
  <1>g. ASSUME NEW t \in SUBSET Drafts!Kept, NEW a \in SUBSET Drafts!Images, NEW d \in BOOLEAN,
               v10' = [v10 EXCEPT !.typed = t, !.attached = a, !.dropped = d]
        PROVE  v10' \in Noted
    BY <1>0, <1>g
  <1> HIDE DEF Noted, Spent, Sends, Memories, Runs
  <1>1. ASSUME NEW p \in Drafts!Places, Drafts!Go(p) PROVE Drafts!TypeOK'
    <2>1. v1' = p /\ UNCHANGED <<v3, v4, v5, v6, v8>>
      BY <1>1 DEF Drafts!Go
    <2>2. p[1] \in Workspaces /\ \A q \in Drafts!Places : Drafts!Draft(q) \in Drafts!Texts
      <3>1. ASSUME NEW q \in Drafts!Places PROVE Drafts!Draft(q) \in Drafts!Texts
        BY <1>0, <1>b, DraftsKept DEF Drafts!Draft
      <3> QED  BY <3>1, DraftsPlace
    <2>3. v2.of \in Drafts!Texts /\ v2.past \in BOOLEAN
      BY <1>0
    <2>4. v2' \in [of : Drafts!Texts, past : BOOLEAN]
      <3>1. Drafts!Draft(p) \in Drafts!Texts /\ Drafts!ShownText(v1, p) \in Drafts!Texts
        BY <2>2, <2>3 DEF Drafts!ShownText
      <3>2. \A x \in Drafts!Texts : \A b \in BOOLEAN : [of |-> x, past |-> b] \in [of : Drafts!Texts, past : BOOLEAN]
        OBVIOUS
      <3>3. CASE Drafts!AtHome(p)
        <4>1. v2' = [of |-> {}, past |-> FALSE]
          BY <1>1, <3>3 DEF Drafts!Go, Drafts!AtHome
        <4> QED  BY <1>b, <3>2, <4>1
      <3>4. CASE ~Drafts!AtHome(p) /\ Drafts!AtHome(v1)
        <4>1. v2' = [of |-> Drafts!Draft(p), past |-> FALSE]
          BY <1>1, <3>4 DEF Drafts!Go, Drafts!AtHome
        <4> QED  BY <3>1, <3>2, <4>1
      <3>5. CASE ~Drafts!AtHome(p) /\ ~Drafts!AtHome(v1)
        <4>1. v2' = [of |-> Drafts!ShownText(v1, p), past |-> v2.past /\ p[1] = v1[1]]
          BY <1>1, <3>5 DEF Drafts!Go, Drafts!AtHome
        <4>2. (v2.past /\ p[1] = v1[1]) \in BOOLEAN
          OBVIOUS
        <4> QED  BY <3>1, <3>2, <4>1, <4>2
      <3> QED  BY <3>3, <3>4, <3>5
    <2>5. v7' \in [Workspaces -> Memories]
      <3>1. ASSUME NEW m \in [Workspaces -> Memories] PROVE Drafts!ReadAt(m, p[1]) \in [Workspaces -> Memories]
        <4>1. v8[p[1]] \in Memories /\ m[p[1]] \in Memories
          BY <1>0, <2>2 DEF Memories
        <4> QED  BY <2>2, <4>1 DEF Drafts!ReadAt
      <3>2. [w \in Workspaces |-> Drafts!Unread] \in [Workspaces -> Memories]
        BY DEF Memories
      <3>3. v7' = Drafts!ReadAt(v7, p[1]) \/ v7' = Drafts!ReadAt([w \in Workspaces |-> Drafts!Unread], p[1])
        BY <1>1, Zenon DEF Drafts!Go
      <3> QED  BY <1>0, <3>1, <3>2, <3>3
    <2>6. v9' \subseteq Runs
      <3>1. v9' = v9 \/ v9' = {IF r.frozen = Drafts!Unread THEN [r EXCEPT !.frozen = v7[r.ws]] ELSE r : r \in v9}
        BY <1>1, Zenon DEF Drafts!Go
      <3>2. ASSUME NEW r \in v9 PROVE r \in Runs /\ [r EXCEPT !.frozen = v7[r.ws]] \in Runs
        <4>1. r \in Runs /\ v7[r.ws] \in Memories
          BY <1>0 DEF Runs
        <4> QED  BY <4>1 DEF Runs
      <3> QED  BY <1>0, <3>1, <3>2
    <2>7. v10' \in Noted
      BY <1>0, <1>1 DEF Drafts!Go, Noted
    <2>8. v11' \in Spent
      BY <1>0, <1>1, BoundsAssumption DEF Drafts!Go, Spent
    <2> QED  BY <1>0, <2>1, <2>4, <2>5, <2>6, <2>7, <2>8 DEF Drafts!TypeOK, Noted, Spent, Sends, Memories, Runs
  <1>2. CASE Drafts!TypeText
    <2>1. v2' \in [of : Drafts!Texts, past : BOOLEAN] /\ v3' \in [Drafts!Kept -> Drafts!Texts]
      <3>1. v2.of \cup {Drafts!Key(v1)} \in Drafts!Texts
        BY <1>0, <1>b
      <3> QED  BY <1>2, <1>e, <3>1 DEF Drafts!TypeText
    <2>2. v10' \in Noted
      <3>1. v10.typed \cup ({Drafts!Key(v1)} \cap ComposerThreads) \in SUBSET Drafts!Kept
        BY <1>f, DraftsKept
      <3> QED  BY <1>0, <1>2, <3>1 DEF Drafts!TypeText, Noted
    <2> QED  BY <1>0, <1>2, <2>1, <2>2 DEF Drafts!TypeText, Drafts!TypeOK, Noted, Spent, Sends, Memories, Runs
  <1>3. CASE Drafts!Erase
    <2>1. v2' \in [of : Drafts!Texts, past : BOOLEAN] /\ v3' \in [Drafts!Kept -> Drafts!Texts]
      BY <1>3, <1>b, <1>e DEF Drafts!Erase
    <2>2. v10' \in Noted
      BY <1>0, <1>3 DEF Drafts!Erase, Noted
    <2> QED  BY <1>0, <1>3, <2>1, <2>2 DEF Drafts!Erase, Drafts!TypeOK, Noted, Spent, Sends, Memories, Runs
  <1>4. CASE Drafts!Recall
    <2>1. v2' \in [of : Drafts!Texts, past : BOOLEAN] /\ v3' \in [Drafts!Kept -> Drafts!Texts]
      BY <1>4, <1>b, <1>e DEF Drafts!Recall
    <2>2. v10' \in Noted
      BY <1>0, <1>4 DEF Drafts!Recall, Noted
    <2> QED  BY <1>0, <1>4, <2>1, <2>2 DEF Drafts!Recall, Drafts!TypeOK, Noted, Spent, Sends, Memories, Runs
  <1>5. CASE Drafts!TypeAtHome
    <2>1. v3' \in [Drafts!Kept -> Drafts!Texts]
      <3>1. v3[v1] \cup {v1} \in Drafts!Texts /\ v3' = [v3 EXCEPT ![v1] = v3[v1] \cup {v1}]
        BY <1>0, <1>5, <1>a, <1>b DEF Drafts!TypeAtHome
      <3> QED  BY <1>0, <3>1
    <2>2. v10' \in Noted
      <3>1. v10.typed \cup {v1} \in SUBSET Drafts!Kept
        BY <1>5, <1>a, <1>f DEF Drafts!TypeAtHome
      <3> QED  BY <1>0, <1>5, <3>1 DEF Drafts!TypeAtHome, Noted
    <2> QED  BY <1>0, <1>5, <2>1, <2>2 DEF Drafts!TypeAtHome, Drafts!TypeOK, Noted, Spent, Sends, Memories, Runs
  <1>6. CASE Drafts!Insert
    <2> DEFINE k == Drafts!Key(v1)
    <2>1. k \in Drafts!Kept /\ v3[k] \cup {k} \in Drafts!Texts /\ v3' = [v3 EXCEPT ![k] = v3[k] \cup {k}]
      BY <1>0, <1>6, <1>b DEF Drafts!Insert
    <2>2. v3' \in [Drafts!Kept -> Drafts!Texts]
      BY <1>0, <2>1
    <2>3. v2' \in [of : Drafts!Texts, past : BOOLEAN]
      <3>1. v3'[k] \in Drafts!Texts /\ v2.past \in BOOLEAN
        BY <1>0, <2>1, <2>2
      <3>2. v2' = v2 \/ v2' = [of |-> v3'[k], past |-> v2.past]
        BY <1>6 DEF Drafts!Insert
      <3> QED  BY <1>0, <3>1, <3>2
    <2>4. v10' \in Noted
      <3>1. v10.typed \cup {k} \in SUBSET Drafts!Kept
        BY <2>1, <1>f
      <3> QED  BY <1>0, <1>6, <3>1 DEF Drafts!Insert, Noted
    <2> QED  BY <1>0, <1>6, <2>2, <2>3, <2>4 DEF Drafts!Insert, Drafts!TypeOK, Noted, Spent, Sends, Memories, Runs
  <1>h. ASSUME NEW w \in Workspaces, NEW p \in Drafts!Prompts, NEW mem \in SUBSET Drafts!Prompts,
               Drafts!RecordedAs(w, p, mem)
        PROVE  v8' \in [Workspaces -> SUBSET Drafts!Prompts]
    <2>1. mem \cup {p} \in SUBSET Drafts!Prompts
      OBVIOUS
    <2> QED  BY <1>0, <1>h, <2>1 DEF Drafts!RecordedAs
  <1>i. ASSUME NEW w \in Workspaces, NEW p \in Drafts!Prompts, Drafts!Remembered(w, p)
        PROVE  v7' \in [Workspaces -> Memories]
    <2>1. v7[w] = Drafts!Unread \/ v7[w] \in SUBSET Drafts!Prompts
      BY <1>0 DEF Memories
    <2>2. (IF v7[w] = Drafts!Unread THEN {} ELSE v7[w]) \cup {p} \in Memories
      BY <2>1 DEF Memories
    <2> QED  BY <1>0, <1>i, <2>2 DEF Drafts!Remembered
  <1>7. ASSUME NEW queued \in BOOLEAN, Drafts!Send(queued) PROVE Drafts!TypeOK'
    <2> DEFINE k == Drafts!Key(v1)
               p == v11.sent + 1
               s == [key |-> k, id |-> p, of |-> v2.of, with |-> v4[k], queued |-> queued]
    <2>1. p \in Drafts!Prompts /\ p \in 0..MaxSent
      BY <1>7, <1>c, <1>d DEF Drafts!Send
    <2>2. v2' \in [of : Drafts!Texts, past : BOOLEAN] /\ v3' \in [Drafts!Kept -> Drafts!Texts]
      BY <1>7, <1>b, <1>e DEF Drafts!Send
    <2>3. v4[k] \subseteq Drafts!Images /\ v2.of \in Drafts!Texts
      BY <1>0, <1>a
    <2>4. v6' = v6 \cup {s}
      BY <1>7 DEF Drafts!Send
    <2>5. s \in Sends
      BY <1>a, <2>1, <2>3 DEF Sends
    <2>6. v4' \in [Drafts!Keys -> SUBSET Drafts!Images]
      BY <1>0, <1>7, <1>a DEF Drafts!Send
    <2>7. v7[v1[1]] # Drafts!Unread /\ v7[v1[1]] \in SUBSET Drafts!Prompts
      BY <1>0, <1>a DEF Drafts!IInv, Drafts!MemoryOK, Memories
    <2>8. v7' \in [Workspaces -> Memories] /\ v8' \in [Workspaces -> SUBSET Drafts!Prompts]
      BY <1>0, <1>7, <1>a, <1>h, <1>i, <2>1, <2>7 DEF Drafts!Send
    <2>9. v10' \in Noted
      <3>1. v10' = [v10 EXCEPT !.typed = v10.typed \ {k},
                               !.attached = IF queued THEN v10.attached \ v4[k] ELSE v10.attached,
                               !.recorded = [v10.recorded EXCEPT ![v1[1]] =
                                   IF v2.of # {} THEN v10.recorded[v1[1]] \cup {p} ELSE v10.recorded[v1[1]]]]
        BY <1>0, <1>7 DEF Drafts!Send, Noted
      <3>2. [v10.recorded EXCEPT ![v1[1]] = IF v2.of # {} THEN v10.recorded[v1[1]] \cup {p}
                                            ELSE v10.recorded[v1[1]]] \in [Workspaces -> SUBSET Drafts!Prompts]
        BY <1>a, <1>f, <2>1
      <3> HIDE DEF k, p
      <3> QED  BY <1>0, <1>f, <3>1, <3>2 DEF Noted
    <2>10. v11' \in Spent
      BY <1>0, <1>7, <2>1 DEF Drafts!Send, Spent
    <2> HIDE DEF k, p, s
    <2> QED  BY <1>0, <1>7, <2>2, <2>4, <2>5, <2>6, <2>8, <2>9, <2>10
             DEF Drafts!Send, Drafts!TypeOK, Noted, Spent, Sends, Memories, Runs
  <1>8. ASSUME NEW s \in v6, Drafts!Answered(s) PROVE Drafts!TypeOK'
    <2>1. s.key \in Drafts!Keys
      BY <1>0 DEF Sends
    <2>2. v4' = [v4 EXCEPT ![s.key] = {}]
      BY <1>8 DEF Drafts!Answered, Drafts!WhereSent
    <2>3. v10' \in Noted
      BY <1>0, <1>8, <1>f DEF Drafts!Answered, Noted
    <2> QED  BY <1>0, <1>8, <2>1, <2>2, <2>3 DEF Drafts!Answered, Drafts!TypeOK, Noted, Spent, Sends, Memories, Runs
  <1>9. ASSUME NEW s \in v6, Drafts!Flushed(s) PROVE Drafts!TypeOK'
    BY <1>0, <1>9 DEF Drafts!Flushed, Drafts!TypeOK, Noted, Spent, Sends, Memories, Runs
  <1>10. ASSUME NEW s \in v6, Drafts!EditQueued(s) PROVE Drafts!TypeOK'
    <2>1. s.key \in Drafts!Keys /\ s.of \in Drafts!Texts /\ s.with \in SUBSET Drafts!Images
      BY <1>0 DEF Sends
    <2>2. v2' \in [of : Drafts!Texts, past : BOOLEAN] /\ v3' \in [Drafts!Kept -> Drafts!Texts]
      BY <1>10, <1>e, <2>1 DEF Drafts!EditQueued
    <2>3. v4' = [v4 EXCEPT ![s.key] = s.with]
      BY <1>10 DEF Drafts!EditQueued
    <2>4. s.key \in ComposerThreads
      BY <1>10 DEF Drafts!IInv, Drafts!QueuedOfThreads, Drafts!EditQueued
    <2>5. v10' \in Noted
      <3>1. (IF s.key \in s.of THEN v10.typed \cup {s.key} ELSE v10.typed) \in SUBSET Drafts!Kept
        BY <1>f, <2>4, DraftsKept
      <3>2. v10.attached \cup s.with \in SUBSET Drafts!Images
        BY <1>f, <2>1
      <3> QED  BY <1>0, <1>10, <3>1, <3>2 DEF Drafts!EditQueued, Noted
    <2> QED  BY <1>0, <1>10, <2>1, <2>2, <2>3, <2>5 DEF Drafts!EditQueued, Drafts!TypeOK, Noted, Spent, Sends, Memories, Runs
  <1>11. CASE Drafts!Pick
    <2> DEFINE i == <<Drafts!Key(v1), v11.sent + 1>>
    <2>1. v11.sent + 1 \in 1..MaxSent /\ v11.sent + 1 \in 0..MaxSent
      BY <1>11, <1>d, BoundsAssumption DEF Drafts!Pick
    <2>2. i \in Drafts!Images
      BY <1>a, <2>1 DEF Drafts!Images
    <2>3. v11' \in Spent
      BY <1>0, <1>11, <2>1 DEF Drafts!Pick, Spent
    <2>4. v5' = v5 \cup {i}
      BY <1>11 DEF Drafts!Pick
    <2> HIDE DEF i
    <2> QED  BY <1>0, <1>11, <2>2, <2>3, <2>4 DEF Drafts!Pick, Drafts!TypeOK, Noted, Spent, Sends, Memories, Runs
  <1>12. ASSUME NEW i \in v5, Drafts!Picked(i) PROVE Drafts!TypeOK'
    <2>1. i \in Drafts!Images /\ i[1] \in Drafts!Keys
      BY <1>0 DEF Drafts!Images
    <2>2. v4' = [v4 EXCEPT ![i[1]] = v4[i[1]] \cup {i}]
      BY <1>12 DEF Drafts!Picked, Drafts!AttachTo
    <2>4. v4[i[1]] \cup {i} \in SUBSET Drafts!Images
      BY <1>0, <2>1
    <2>5. v4' \in [Drafts!Keys -> SUBSET Drafts!Images]
      BY <1>0, <2>1, <2>2, <2>4
    <2>3. v10' \in Noted
      BY <1>0, <1>12, <2>1 DEF Drafts!Picked, Noted
    <2> QED  BY <1>0, <1>12, <2>3, <2>5 DEF Drafts!Picked, Drafts!TypeOK, Noted, Spent, Sends, Memories, Runs
  <1>13. ASSUME NEW i \in Drafts!Images, Drafts!RemoveImage(i) PROVE Drafts!TypeOK'
    <2>1. v4' \in [Drafts!Keys -> SUBSET Drafts!Images]
      BY <1>0, <1>13, <1>a DEF Drafts!RemoveImage
    <2>2. v10' \in Noted
      BY <1>0, <1>13 DEF Drafts!RemoveImage, Noted
    <2> QED  BY <1>0, <1>13, <2>1, <2>2 DEF Drafts!RemoveImage, Drafts!TypeOK, Noted, Spent, Sends, Memories, Runs
  <1>14. CASE Drafts!Submit
    <2> DEFINE p == v11.sent + 1
               r == [ws |-> v1[1], id |-> p, frozen |-> Drafts!Unread]
    <2>1. p \in Drafts!Prompts /\ p \in 0..MaxSent
      BY <1>14, <1>c, <1>d DEF Drafts!Submit
    <2>2. r \in Runs
      BY <1>a, <2>1 DEF Runs, Memories
    <2>3. v3' \in [Drafts!Kept -> Drafts!Texts]
      BY <1>0, <1>14, <1>b DEF Drafts!Submit
    <2>4. v10' \in Noted
      BY <1>0, <1>14 DEF Drafts!Submit, Noted
    <2>5. v11' \in Spent
      BY <1>0, <1>14, <2>1 DEF Drafts!Submit, Spent
    <2>6. v9' = v9 \cup {r}
      BY <1>14 DEF Drafts!Submit
    <2> HIDE DEF p, r
    <2> QED  BY <1>0, <1>14, <2>2, <2>3, <2>4, <2>5, <2>6 DEF Drafts!Submit, Drafts!TypeOK, Noted, Spent, Sends, Memories, Runs
  <1>15. ASSUME NEW r \in v9, Drafts!RunEnds(r) PROVE Drafts!TypeOK'
    <2>1. r.ws \in Workspaces /\ r.id \in Drafts!Prompts /\ r.frozen \in Memories
      BY <1>0 DEF Runs
    <2> DEFINE Histories == v7' \in [Workspaces -> Memories] /\ v8' \in [Workspaces -> SUBSET Drafts!Prompts]
    <2>2. ASSUME r.frozen = Drafts!Unread PROVE Histories
      <3>1. v7[r.ws] # Drafts!Unread /\ v7[r.ws] \in SUBSET Drafts!Prompts
        BY <1>0, <2>1, <2>2 DEF Drafts!IInv, Drafts!MemoryOK, Memories
      <3>2. Drafts!RecordedAs(r.ws, r.id, v7[r.ws]) /\ Drafts!Remembered(r.ws, r.id)
        BY <1>15, <2>2 DEF Drafts!RunEnds
      <3> QED  BY <1>h, <1>i, <2>1, <3>1, <3>2
    <2>3. ASSUME r.frozen # Drafts!Unread PROVE Histories
      <3>1. Drafts!RecordedAs(r.ws, r.id, r.frozen) /\ v7' = v7 /\ r.frozen \in SUBSET Drafts!Prompts
        BY <1>15, <2>1, <2>3 DEF Drafts!RunEnds, Memories
      <3> QED  BY <1>0, <1>h, <2>1, <3>1
    <2>4. v10' \in Noted
      <3>1. v10' = [v10 EXCEPT !.recorded = [v10.recorded EXCEPT ![r.ws] = v10.recorded[r.ws] \cup {r.id}],
                               !.late = v10.late \/ r.frozen # Drafts!Unread]
        BY <1>0, <1>15 DEF Drafts!RunEnds, Noted
      <3>2. [v10.recorded EXCEPT ![r.ws] = v10.recorded[r.ws] \cup {r.id}] \in [Workspaces -> SUBSET Drafts!Prompts]
        BY <1>f, <2>1
      <3> QED  BY <1>0, <3>1, <3>2 DEF Noted
    <2> QED  BY <1>0, <1>15, <2>2, <2>3, <2>4 DEF Drafts!RunEnds, Drafts!TypeOK, Noted, Spent, Sends, Memories, Runs
  <1> QED  BY <1>1, <1>2, <1>3, <1>4, <1>5, <1>6, <1>7, <1>8, <1>9, <1>10, <1>11, <1>12, <1>13, <1>14, <1>15
           DEF Drafts!Next

(* Images are where their picking began.                                    *)
LEMMA DraftsPictures ==
    Drafts!IInv /\ Drafts!Next => Drafts!PicturesStayHome' /\ Drafts!ImagesStayHome' /\ Drafts!QueuedOfThreads'
  <1> DEFINE Goal == Drafts!PicturesStayHome' /\ Drafts!ImagesStayHome' /\ Drafts!QueuedOfThreads'
  <1> SUFFICES ASSUME Drafts!IInv, Drafts!Next PROVE Goal
    OBVIOUS
  <1>0. /\ v4 \in [Drafts!Keys -> SUBSET Drafts!Images] /\ v5 \subseteq Drafts!Images
        /\ Drafts!Key(v1) \in Drafts!Keys /\ DOMAIN v10 = {"typed", "attached", "recorded", "strayed", "dropped", "late"}
        /\ \A s \in v6 : s.key \in Drafts!Keys /\ s.with \subseteq Drafts!Images
        /\ v10.dropped \in BOOLEAN
    BY DraftsPlace DEF Drafts!IInv, Drafts!TypeOK
  <1>a. /\ \A k \in Drafts!Keys : \A i \in v4[k] : i[1] = k
        /\ \A s \in v6 : \A i \in s.with : i[1] = s.key
        /\ \A s \in v6 : s.queued => s.key \in ComposerThreads
    BY DEF Drafts!IInv, Drafts!PicturesStayHome, Drafts!QueuedOfThreads
  <1>b. ~v10.dropped => \A k \in Drafts!Keys : v4[k] = {i \in v10.attached : i[1] = k}
    BY DEF Drafts!IInv, Drafts!ImagesStayHome
  (* What is to show, image by image.                                      *)
  <1>c. ASSUME v4' \in [Drafts!Keys -> SUBSET Drafts!Images],
               \A k \in Drafts!Keys : \A i \in v4'[k] : i[1] = k,
               \A s \in v6' : (\A i \in s.with : i[1] = s.key) /\ (s.queued => s.key \in ComposerThreads),
               ~v10'.dropped => \A k \in Drafts!Keys : v4'[k] = {i \in v10'.attached : i[1] = k}
        PROVE  Goal
    <2>1. Drafts!PicturesStayHome' /\ Drafts!QueuedOfThreads'
      BY <1>c DEF Drafts!PicturesStayHome, Drafts!QueuedOfThreads
    <2>2. ASSUME ~v10'.dropped PROVE v4' = [k \in Drafts!Keys |-> {i \in v10'.attached : i[1] = k}]
      BY <1>c, <2>2
    <2> QED  BY <2>1, <2>2 DEF Drafts!ImagesStayHome
  <1>d. ASSUME v4' = v4, v6' \subseteq v6, v10'.attached = v10.attached, v10.dropped => v10'.dropped
        PROVE  Goal
    BY <1>0, <1>a, <1>b, <1>c, <1>d
  <1> HIDE DEF Goal
  <1>1. ASSUME NEW p \in Drafts!Places, Drafts!Go(p) PROVE Goal
    BY <1>0, <1>1, <1>d DEF Drafts!Go
  <1>2. CASE Drafts!TypeText \/ Drafts!Erase \/ Drafts!TypeAtHome \/ Drafts!Insert \/ Drafts!Submit
    BY <1>0, <1>2, <1>d DEF Drafts!TypeText, Drafts!Erase, Drafts!TypeAtHome, Drafts!Insert, Drafts!Submit
  <1>3. CASE Drafts!Recall \/ Drafts!Pick
    BY <1>0, <1>3, <1>d DEF Drafts!Recall, Drafts!Pick
  <1>4. ASSUME NEW s \in v6, Drafts!Flushed(s) PROVE Goal
    BY <1>0, <1>4, <1>d DEF Drafts!Flushed
  <1>5. ASSUME NEW r \in v9, Drafts!RunEnds(r) PROVE Goal
    BY <1>0, <1>5, <1>d DEF Drafts!RunEnds
  <1>6. ASSUME NEW queued \in BOOLEAN, Drafts!Send(queued) PROVE Goal
    <2> DEFINE k == Drafts!Key(v1)
               s == [key |-> k, id |-> v11.sent + 1, of |-> v2.of, with |-> v4[k], queued |-> queued]
    <2>1. v6' = v6 \cup {s} /\ v4' = IF queued THEN [v4 EXCEPT ![k] = {}] ELSE v4
      BY <1>6 DEF Drafts!Send
    <2>8. v10'.dropped = v10.dropped /\ v10'.attached = IF queued THEN v10.attached \ v4[k] ELSE v10.attached
      <3>1. v10' = [v10 EXCEPT !.typed = @ \ {k}, !.attached = IF queued THEN @ \ v4[k] ELSE @,
                               !.recorded[v1[1]] = IF v2.of # {} THEN @ \cup {v11.sent + 1} ELSE @]
        BY <1>6 DEF Drafts!Send
      <3> HIDE DEF k
      <3> QED  BY <1>0, <3>1
    <2>2. s.key = k /\ s.with = v4[k] /\ s.queued = queued
      OBVIOUS
    <2>3. queued => k \in ComposerThreads
      BY <1>6 DEF Drafts!Send
    <2>4. k \in Drafts!Keys
      BY <1>0
    <2> HIDE DEF s, k
    <2>5. \A x \in v6' : (\A i \in x.with : i[1] = x.key) /\ (x.queued => x.key \in ComposerThreads)
      BY <1>a, <2>1, <2>2, <2>3, <2>4
    <2>6. v4' \in [Drafts!Keys -> SUBSET Drafts!Images] /\ \A l \in Drafts!Keys : v4'[l] = IF queued /\ l = k THEN {} ELSE v4[l]
      BY <1>0, <2>1, <2>4, Zenon
    <2>7. ASSUME ~v10'.dropped, NEW l \in Drafts!Keys PROVE v4'[l] = {i \in v10'.attached : i[1] = l}
      <3>1. v4[l] = {i \in v10.attached : i[1] = l} /\ v4[k] = {i \in v10.attached : i[1] = k}
        BY <1>b, <2>4, <2>7, <2>8
      <3> QED  BY <2>6, <2>8, <3>1
    <2> QED  BY <1>a, <1>c, <2>5, <2>6, <2>7
  <1>7. ASSUME NEW s \in v6, Drafts!Answered(s) PROVE Goal
    <2>1. v6' \subseteq v6 /\ v4' = [v4 EXCEPT ![s.key] = {}]
          /\ (v10'.dropped <=> v10.dropped \/ ~(v4[s.key] \subseteq s.with))
          /\ v10'.attached = v10.attached \ s.with
      BY <1>0, <1>7 DEF Drafts!Answered, Drafts!WhereSent
    <2>2. s.key \in Drafts!Keys /\ \A i \in s.with : i[1] = s.key
      BY <1>0, <1>a
    <2>3. v4' \in [Drafts!Keys -> SUBSET Drafts!Images] /\ \A l \in Drafts!Keys : v4'[l] = IF l = s.key THEN {} ELSE v4[l]
      BY <1>0, <2>1, <2>2
    <2>4. ASSUME ~v10'.dropped, NEW l \in Drafts!Keys PROVE v4'[l] = {i \in v10'.attached : i[1] = l}
      <3>1. v4[l] = {i \in v10.attached : i[1] = l}
        BY <1>b, <2>1, <2>4
      <3> QED  BY <2>1, <2>2, <2>3, <2>4, <3>1
    <2> QED  BY <1>a, <1>c, <2>1, <2>3, <2>4
  <1>8. ASSUME NEW s \in v6, Drafts!EditQueued(s) PROVE Goal
    <2>1. v6' \subseteq v6 /\ v4' = [v4 EXCEPT ![s.key] = s.with]
          /\ (v10'.dropped <=> v10.dropped \/ v2.of # {} \/ v4[s.key] # {})
          /\ v10'.attached = v10.attached \cup s.with
      BY <1>0, <1>8 DEF Drafts!EditQueued
    <2>2. s.key \in Drafts!Keys /\ s.with \subseteq Drafts!Images /\ \A i \in s.with : i[1] = s.key
      BY <1>0, <1>a
    <2>3. v4' \in [Drafts!Keys -> SUBSET Drafts!Images] /\ \A l \in Drafts!Keys : v4'[l] = IF l = s.key THEN s.with ELSE v4[l]
      BY <1>0, <2>1, <2>2
    <2>4. ASSUME ~v10'.dropped, NEW l \in Drafts!Keys PROVE v4'[l] = {i \in v10'.attached : i[1] = l}
      <3>1. v4[l] = {i \in v10.attached : i[1] = l} /\ v4[s.key] = {}
        BY <1>b, <2>1, <2>4
      <3> QED  BY <2>1, <2>2, <2>3, <2>4, <3>1
    <2> QED  BY <1>a, <1>c, <2>1, <2>2, <2>3, <2>4
  <1>9. ASSUME NEW i \in v5, Drafts!Picked(i) PROVE Goal
    <2>1. v6' = v6 /\ v4' = [v4 EXCEPT ![i[1]] = v4[i[1]] \cup {i}]
          /\ v10'.dropped = v10.dropped /\ v10'.attached = v10.attached \cup {i}
      BY <1>0, <1>9 DEF Drafts!Picked, Drafts!AttachTo
    <2>2. i \in Drafts!Images /\ i[1] \in Drafts!Keys
      BY <1>0 DEF Drafts!Images
    <2>3. v4' \in [Drafts!Keys -> SUBSET Drafts!Images]
          /\ \A l \in Drafts!Keys : v4'[l] = IF l = i[1] THEN v4[l] \cup {i} ELSE v4[l]
      BY <1>0, <2>1, <2>2
    <2>4. ASSUME ~v10'.dropped, NEW l \in Drafts!Keys PROVE v4'[l] = {j \in v10'.attached : j[1] = l}
      <3>1. v4[l] = {j \in v10.attached : j[1] = l}
        BY <1>b, <2>1, <2>4
      <3> QED  BY <2>1, <2>2, <2>3, <2>4, <3>1
    <2> QED  BY <1>a, <1>c, <2>1, <2>3, <2>4
  <1>10. ASSUME NEW i \in Drafts!Images, Drafts!RemoveImage(i) PROVE Goal
    <2> DEFINE k == Drafts!Key(v1)
    <2>1. v6' = v6 /\ v4' = [v4 EXCEPT ![k] = v4[k] \ {i}] /\ i \in v4[k]
          /\ v10'.dropped = v10.dropped /\ v10'.attached = v10.attached \ {i}
      BY <1>0, <1>10 DEF Drafts!RemoveImage
    <2>2. k \in Drafts!Keys
      BY <1>0
    <2> HIDE DEF k
    <2>5. i[1] = k
      BY <1>a, <2>1, <2>2
    <2>3. v4' \in [Drafts!Keys -> SUBSET Drafts!Images]
          /\ \A l \in Drafts!Keys : v4'[l] = IF l = k THEN v4[l] \ {i} ELSE v4[l]
      BY <1>0, <2>1, <2>2
    <2>4. ASSUME ~v10'.dropped, NEW l \in Drafts!Keys PROVE v4'[l] = {j \in v10'.attached : j[1] = l}
      <3>1. v4[l] = {j \in v10.attached : j[1] = l}
        BY <1>b, <2>1, <2>4
      <3> QED  BY <2>1, <2>2, <2>3, <2>4, <2>5, <3>1
    <2> QED  BY <1>a, <1>c, <2>1, <2>3, <2>4
  <1> QED  BY <1>1, <1>2, <1>3, <1>4, <1>5, <1>6, <1>7, <1>8, <1>9, <1>10 DEF Drafts!Next

(* Texts are of where they were written.                                    *)
LEMMA DraftsTexts ==
    Drafts!IInv /\ Drafts!Next =>
        /\ ~v10'.strayed => Drafts!TextIsDraft' /\ Drafts!SendsStayHome'
        /\ Drafts!DraftsStayHome'
  <1> DEFINE Goal == /\ ~v10'.strayed => Drafts!TextIsDraft' /\ Drafts!SendsStayHome'
                     /\ Drafts!DraftsStayHome'
  <1> SUFFICES ASSUME Drafts!IInv, Drafts!Next PROVE Goal
    OBVIOUS
  <1>0. /\ v1 \in Drafts!Places /\ v2 \in [of : Drafts!Texts, past : BOOLEAN]
        /\ v3 \in [Drafts!Kept -> Drafts!Texts]
        /\ DOMAIN v10 = {"typed", "attached", "recorded", "strayed", "dropped", "late"}
        /\ \A s \in v6 : s.key \in Drafts!Keys
        /\ v10.strayed \in BOOLEAN /\ v10.dropped \in BOOLEAN /\ v10.typed \subseteq Drafts!Kept
    BY DEF Drafts!IInv, Drafts!TypeOK
  <1>a. ~v10.strayed =>
        /\ v1[2] \in ComposerThreads => v2.of = v3[v1[2]]
        /\ \A s \in v6 : s.of \subseteq {s.key, None}
        /\ \A k \in Drafts!Kept : v3[k] \subseteq {k, None}
        /\ ~Drafts!AtHome(v1) => v2.of \subseteq {Drafts!Key(v1), None}
        /\ ~v10.dropped => \A k \in v10.typed : k \in v3[k]
    BY DEF Drafts!IInv, Drafts!TextIsDraft, Drafts!SendsStayHome, Drafts!DraftsStayHome
  <1>b. ASSUME ~v10'.strayed =>
                 /\ v1'[2] \in ComposerThreads => v2'.of = v3'[v1'[2]]
                 /\ \A s \in v6' : s.of \subseteq {s.key, None}
                 /\ \A k \in Drafts!Kept : v3'[k] \subseteq {k, None}
                 /\ ~Drafts!AtHome(v1') => v2'.of \subseteq {Drafts!Key(v1'), None}
                 /\ ~v10'.dropped => \A k \in v10'.typed : k \in v3'[k]
        PROVE  Goal
    BY <1>b DEF Drafts!TextIsDraft, Drafts!SendsStayHome, Drafts!DraftsStayHome, Drafts!AtHome, Drafts!Key
  (* Where nothing is written.                                             *)
  <1>c. ASSUME UNCHANGED <<v1, v2, v3>>, v6' \subseteq v6, v10'.strayed = v10.strayed, v10'.typed = v10.typed,
               v10.dropped => v10'.dropped
        PROVE  Goal
    BY <1>a, <1>b, <1>c
  <1>d. /\ Drafts!Key(v1) \in Drafts!Keys
        /\ v1[2] \in ComposerThreads => Drafts!Key(v1) = v1[2] /\ v1[2] \in Drafts!Kept /\ ~Drafts!AtHome(v1)
        /\ Drafts!Key(v1) \in ComposerThreads => v1[2] = Drafts!Key(v1)
        /\ Drafts!AtHome(v1) => v1 \in Drafts!Kept /\ Drafts!Key(v1) = v1
        /\ Drafts!Key(v1) \in Drafts!Kept => v1[2] \in ComposerThreads \/ Drafts!AtHome(v1)
    BY <1>0, DraftsPlace, DraftsKept DEF Drafts!Kept
  (* What is written while the composer shows a thread or a draft of one.  *)
  <1>e. ASSUME v3' = IF v1[2] \in ComposerThreads THEN [v3 EXCEPT ![v1[2]] = v2'.of] ELSE v3,
               v1' = v1, ~Drafts!AtHome(v1), v10'.strayed = v10.strayed,
               ~v10.strayed => v2'.of \subseteq {Drafts!Key(v1), None},
               ~v10.strayed => \A s \in v6' : s.of \subseteq {s.key, None},
               ~v10.strayed /\ ~v10'.dropped => ~v10.dropped,
               ~v10.strayed /\ ~v10'.dropped => \A k \in v10'.typed :
                   (k \in v10.typed /\ k # Drafts!Key(v1)) \/ (v1[2] \in ComposerThreads /\ k = v1[2] /\ k \in v2'.of)
        PROVE  Goal
    <2>2. CASE v1[2] \in ComposerThreads
      <3>1. v3'[v1[2]] = v2'.of /\ \A k \in Drafts!Kept : k # v1[2] => v3'[k] = v3[k]
        BY <1>0, <1>d, <1>e, <2>2
      <3> QED  BY <1>0, <1>a, <1>b, <1>d, <1>e, <2>2, <3>1
    <2>3. CASE v1[2] \notin ComposerThreads
      <3>1. v3' = v3
        BY <1>e, <2>3
      <3> QED  BY <1>0, <1>a, <1>b, <1>d, <1>e, <2>3, <3>1
    <2> QED  BY <2>2, <2>3
  <1> HIDE DEF Goal
  <1>g. ASSUME NEW of, NEW past, Drafts!Write(of, past)
        PROVE  v2'.of = of /\ v3' = IF v1[2] \in ComposerThreads THEN [v3 EXCEPT ![v1[2]] = v2'.of] ELSE v3
    BY <1>g DEF Drafts!Write
  <1>1. ASSUME NEW p \in Drafts!Places, Drafts!Go(p) PROVE Goal
    <2>1. v1' = p /\ UNCHANGED <<v3, v6>> /\ v10'.typed = v10.typed /\ v10'.dropped = v10.dropped
          /\ (v10'.strayed <=> v10.strayed \/ (Drafts!AtHome(v1) = Drafts!AtHome(p) /\ v1[2] = "draft" /\ v2.of # {}))
      BY <1>0, <1>1 DEF Drafts!Go
    <2>2. /\ p[2] \in ComposerThreads => Drafts!Draft(p) = v3[p[2]] /\ Drafts!Key(p) = p[2] /\ p[2] \in Drafts!Kept /\ ~Drafts!AtHome(p)
          /\ p[2] \notin ComposerThreads => Drafts!Draft(p) = {}
      BY DraftsPlace, DraftsKept DEF Drafts!Draft
    <2>3. /\ v1[2] \in ComposerThreads => Drafts!Draft(v1) = v3[v1[2]]
          /\ v1[2] \notin ComposerThreads => Drafts!Draft(v1) = {} /\ v1[2] \in {"draft", "home"}
      BY <1>0, DraftsPlace DEF Drafts!Draft
    <2>4. ASSUME ~v10'.strayed, ~Drafts!AtHome(p) PROVE v2'.of = Drafts!Draft(p)
      <3>1. CASE Drafts!AtHome(v1)
        BY <1>1, <2>4, <3>1 DEF Drafts!Go
      <3>2. CASE ~Drafts!AtHome(v1)
        <4>1. v2'.of = IF Drafts!Draft(p) = Drafts!Draft(v1) THEN v2.of ELSE Drafts!Draft(p)
          BY <1>1, <2>4, <3>2 DEF Drafts!Go, Drafts!ShownText, Drafts!AtHome
        <4>2. v2.of = Drafts!Draft(v1)
          <5>1. CASE v1[2] \in ComposerThreads
            BY <1>a, <2>1, <2>3, <2>4, <5>1
          <5>2. CASE v1[2] \notin ComposerThreads
            <6>1. v1[2] = "draft"
              BY <2>3, <3>2, <5>2 DEF Drafts!AtHome
            <6> QED  BY <2>1, <2>3, <2>4, <3>2, <5>2, <6>1 DEF Drafts!AtHome
          <5> QED  BY <5>1, <5>2
        <4> QED  BY <4>1, <4>2
      <3> QED  BY <3>1, <3>2
    <2> QED  BY <1>a, <1>b, <2>1, <2>2, <2>4
  <1>2. CASE Drafts!TypeText
    <2> DEFINE k == Drafts!Key(v1)
    <2>1. Drafts!Write(v2.of \cup {k}, FALSE) /\ v1' = v1 /\ v6' = v6 /\ ~Drafts!AtHome(v1)
          /\ v10'.strayed = v10.strayed /\ v10'.dropped = v10.dropped
          /\ v10'.typed = v10.typed \cup ({k} \cap ComposerThreads)
      BY <1>0, <1>2 DEF Drafts!TypeText
    <2>2. v2'.of = v2.of \cup {k} /\ v3' = IF v1[2] \in ComposerThreads THEN [v3 EXCEPT ![v1[2]] = v2'.of] ELSE v3
      BY <1>g, <2>1
    <2>3. \A l \in v10'.typed : (l \in v10.typed /\ l # k) \/ (v1[2] \in ComposerThreads /\ l = v1[2] /\ l \in v2'.of)
      BY <1>0, <1>d, <2>1, <2>2
    <2> QED  BY <1>a, <1>e, <2>1, <2>2, <2>3
  <1>3. CASE Drafts!Erase
    <2>1. Drafts!Write({}, FALSE) /\ v1' = v1 /\ v6' = v6 /\ ~Drafts!AtHome(v1)
          /\ v10'.strayed = v10.strayed /\ v10'.dropped = v10.dropped
          /\ v10'.typed = v10.typed \ {Drafts!Key(v1)}
      BY <1>0, <1>3 DEF Drafts!Erase
    <2>2. v2'.of = {} /\ v3' = IF v1[2] \in ComposerThreads THEN [v3 EXCEPT ![v1[2]] = v2'.of] ELSE v3
      BY <1>g, <2>1
    <2> QED  BY <1>a, <1>e, <2>1, <2>2
  <1>4. CASE Drafts!Recall
    <2>1. Drafts!Write({None}, TRUE) /\ v1' = v1 /\ v6' = v6 /\ ~Drafts!AtHome(v1)
          /\ v10'.strayed = v10.strayed /\ v10'.typed = v10.typed
          /\ (v10'.dropped <=> v10.dropped \/ v2.of \cap Drafts!Keys # {})
      BY <1>0, <1>4 DEF Drafts!Recall
    <2>2. ASSUME ~v10.strayed, ~v10'.dropped, NEW k \in v10.typed PROVE k # Drafts!Key(v1)
      <3>1. k \in v3[k] /\ k \in Drafts!Keys /\ k \in Drafts!Kept
        BY <1>0, <1>a, <2>1, <2>2, DraftsKept
      <3>2. SUFFICES ASSUME k = Drafts!Key(v1) PROVE FALSE
        OBVIOUS
      <3>3. v1[2] \in ComposerThreads /\ v2.of = v3[k]
        BY <1>a, <1>d, <2>1, <2>2, <3>1, <3>2
      <3> QED  BY <2>1, <2>2, <3>1, <3>3
    <2>4. v2'.of = {None} /\ v3' = IF v1[2] \in ComposerThreads THEN [v3 EXCEPT ![v1[2]] = v2'.of] ELSE v3
      BY <1>g, <2>1
    <2> QED  BY <1>a, <1>e, <2>1, <2>2, <2>4
  <1>5. CASE Drafts!TypeAtHome
    <2>1. v3' = [v3 EXCEPT ![v1] = v3[v1] \cup {v1}] /\ UNCHANGED <<v1, v2, v6>> /\ Drafts!AtHome(v1)
          /\ v10'.strayed = v10.strayed /\ v10'.dropped = v10.dropped /\ v10'.typed = v10.typed \cup {v1}
      BY <1>0, <1>5 DEF Drafts!TypeAtHome
    <2>2. v1 \in Drafts!Kept /\ v1[2] \notin ComposerThreads
      BY <1>d, <2>1
    <2>3. \A k \in Drafts!Kept : v3'[k] = IF k = v1 THEN v3[k] \cup {v1} ELSE v3[k]
      BY <1>0, <2>1, <2>2
    <2> QED  BY <1>0, <1>a, <1>b, <2>1, <2>2, <2>3
  <1>6. CASE Drafts!Insert
    <2> DEFINE k == Drafts!Key(v1)
    <2>1. v3' = [v3 EXCEPT ![k] = v3[k] \cup {k}] /\ UNCHANGED <<v1, v6>> /\ k \in Drafts!Kept
          /\ v10'.strayed = v10.strayed /\ v10'.dropped = v10.dropped /\ v10'.typed = v10.typed \cup {k}
      BY <1>0, <1>6 DEF Drafts!Insert
    <2>2. ~Drafts!AtHome(v1) => v2'.of = v3'[k] /\ k = v1[2]
      BY <1>6, <1>d DEF Drafts!Insert
    <2>3. \A l \in Drafts!Kept : v3'[l] = IF l = k THEN v3[l] \cup {k} ELSE v3[l]
      BY <1>0, <2>1
    <2>4. v1[2] \in ComposerThreads => k = v1[2] /\ ~Drafts!AtHome(v1)
      BY <1>d
    <2> QED  BY <1>0, <1>a, <1>b, <2>1, <2>2, <2>3, <2>4
  <1>7. ASSUME NEW queued \in BOOLEAN, Drafts!Send(queued) PROVE Goal
    <2> DEFINE k == Drafts!Key(v1)
               s == [key |-> k, id |-> v11.sent + 1, of |-> v2.of, with |-> v4[k], queued |-> queued]
    <2>1. Drafts!Write({}, FALSE) /\ v1' = v1 /\ v6' = v6 \cup {s} /\ ~Drafts!AtHome(v1)
          /\ v10'.strayed = v10.strayed /\ v10'.dropped = v10.dropped /\ v10'.typed = v10.typed \ {k}
      BY <1>0, <1>7 DEF Drafts!Send
    <2>2. s.key = k /\ s.of = v2.of
      OBVIOUS
    <2> HIDE DEF s
    <2>3. ~v10.strayed => \A x \in v6' : x.of \subseteq {x.key, None}
      BY <1>a, <2>1, <2>2
    <2>4. v2'.of = {} /\ v3' = IF v1[2] \in ComposerThreads THEN [v3 EXCEPT ![v1[2]] = v2'.of] ELSE v3
      BY <1>g, <2>1
    <2> QED  BY <1>e, <2>1, <2>3, <2>4
  <1>8. ASSUME NEW s \in v6, Drafts!Answered(s) \/ Drafts!Flushed(s) PROVE Goal
    BY <1>0, <1>8, <1>c DEF Drafts!Answered, Drafts!Flushed
  <1>9. ASSUME NEW s \in v6, Drafts!EditQueued(s) PROVE Goal
    <2>1. Drafts!Write(s.of, FALSE) /\ v1' = v1 /\ v6' \subseteq v6 /\ s.key = v1[2] /\ s.queued
          /\ v10'.strayed = v10.strayed /\ (v10'.dropped <=> v10.dropped \/ v2.of # {} \/ v4[s.key] # {})
          /\ v10'.typed = IF s.key \in s.of THEN v10.typed \cup {s.key} ELSE v10.typed
      BY <1>0, <1>9 DEF Drafts!EditQueued
    <2>2. s.key \in ComposerThreads /\ s.of \in Drafts!Texts
      BY <1>9, <2>1 DEF Drafts!IInv, Drafts!QueuedOfThreads, Drafts!TypeOK
    <2>3. ASSUME ~v10.strayed, ~v10'.dropped, NEW k \in v10.typed PROVE k # Drafts!Key(v1)
      <3>1. k \in v3[k] /\ v2.of = {}
        BY <1>a, <2>1, <2>3
      <3> QED  BY <1>a, <1>d, <2>1, <2>2, <2>3, <3>1
    <2>4. v2'.of = s.of /\ v3' = IF v1[2] \in ComposerThreads THEN [v3 EXCEPT ![v1[2]] = v2'.of] ELSE v3
      BY <1>g, <2>1
    <2>5. v1[2] = s.key /\ Drafts!Key(v1) = s.key /\ ~Drafts!AtHome(v1)
      BY <1>d, <2>1, <2>2
    <2>6. ~v10.strayed => s.of \subseteq {s.key, None} /\ \A x \in v6' : x.of \subseteq {x.key, None}
      BY <1>a, <2>1
    <2>7. ~v10.strayed /\ ~v10'.dropped => \A k \in v10'.typed :
             (k \in v10.typed /\ k # Drafts!Key(v1)) \/ (v1[2] \in ComposerThreads /\ k = v1[2] /\ k \in v2'.of)
      BY <2>1, <2>2, <2>3, <2>4, <2>5
    <2> QED  BY <1>e, <2>1, <2>4, <2>5, <2>6, <2>7
  <1>10. ASSUME NEW i \in Drafts!Images, (i \in v5 /\ Drafts!Picked(i)) \/ Drafts!RemoveImage(i) PROVE Goal
    BY <1>0, <1>10, <1>c DEF Drafts!Picked, Drafts!RemoveImage
  <1>11. CASE Drafts!Pick
    BY <1>0, <1>11, <1>c DEF Drafts!Pick
  <1>12. CASE Drafts!Submit
    <2>1. v3' = [v3 EXCEPT ![v1] = {}] /\ UNCHANGED <<v1, v2, v6>> /\ Drafts!AtHome(v1)
          /\ v10'.strayed = v10.strayed /\ v10'.dropped = v10.dropped /\ v10'.typed = v10.typed \ {v1}
      BY <1>0, <1>12 DEF Drafts!Submit
    <2>2. v1 \in Drafts!Kept /\ v1[2] \notin ComposerThreads
      BY <1>d, <2>1
    <2>3. \A k \in Drafts!Kept : v3'[k] = IF k = v1 THEN {} ELSE v3[k]
      BY <1>0, <2>1, <2>2
    <2> QED  BY <1>0, <1>a, <1>b, <2>1, <2>2, <2>3
  <1>13. ASSUME NEW r \in v9, Drafts!RunEnds(r) PROVE Goal
    BY <1>0, <1>13, <1>c DEF Drafts!RunEnds
  <1> QED  BY <1>1, <1>2, <1>3, <1>4, <1>5, <1>6, <1>7, <1>8, <1>9, <1>10, <1>11, <1>12, <1>13 DEF Drafts!Next

(* Histories are as they were recorded.                                     *)
LEMMA DraftsHistory == Drafts!IInv /\ Drafts!Next => Drafts!MemoryOK' /\ Drafts!HistoryKept'
  <1> DEFINE Goal == Drafts!MemoryOK' /\ Drafts!HistoryKept'
  <1> SUFFICES ASSUME Drafts!IInv, Drafts!Next PROVE Goal
    OBVIOUS
  <1>0. /\ v1[1] \in Workspaces
        /\ v7 \in [Workspaces -> (SUBSET Drafts!Prompts) \cup {Drafts!Unread}]
        /\ v8 \in [Workspaces -> SUBSET Drafts!Prompts]
        /\ \A r \in v9 : r.ws \in Workspaces /\ r.id \in Drafts!Prompts
        /\ v10.recorded \in [Workspaces -> SUBSET Drafts!Prompts]
        /\ DOMAIN v10 = {"typed", "attached", "recorded", "strayed", "dropped", "late"}
        /\ v10.late \in BOOLEAN
    BY DraftsPlace DEF Drafts!IInv, Drafts!TypeOK
  <1>a. /\ v7[v1[1]] # Drafts!Unread
        /\ \A r \in v9 : r.frozen = Drafts!Unread => Drafts!AtHome(v1) /\ v7[r.ws] # Drafts!Unread
        /\ ~v10.late => \A w \in Workspaces : v7[w] \in {Drafts!Unread, v8[w]}
        /\ ~v10.late => v8 = v10.recorded
    BY DEF Drafts!IInv, Drafts!MemoryOK, Drafts!HistoryKept
  <1>b. \A x \in SUBSET Drafts!Prompts : x # Drafts!Unread
    BY DEF Drafts!Prompts, Drafts!Unread
  <1>c. ASSUME UNCHANGED <<v1, v7, v8>>, v9' \subseteq v9, v10'.late = v10.late, v10'.recorded = v10.recorded
        PROVE  Goal
    BY <1>a, <1>c DEF Drafts!MemoryOK, Drafts!HistoryKept, Drafts!AtHome
  (* A prompt of a component that is there is recorded and remembered.     *)
  <1>d. ASSUME NEW w \in Workspaces, NEW p \in Drafts!Prompts, v7[w] # Drafts!Unread, v1' = v1, v9' \subseteq v9,
               Drafts!RecordedAs(w, p, v7[w]), Drafts!Remembered(w, p), v10'.late = v10.late,
               v10'.recorded = [v10.recorded EXCEPT ![w] = v10.recorded[w] \cup {p}]
        PROVE  Goal
    <2>1. v8' = [v8 EXCEPT ![w] = v7[w] \cup {p}] /\ v7' = [v7 EXCEPT ![w] = v7[w] \cup {p}]
      BY <1>d DEF Drafts!RecordedAs, Drafts!Remembered
    <2>2. v7[w] \cup {p} \in SUBSET Drafts!Prompts
      BY <1>0, <1>d
    <2>3. \A u \in Workspaces : v7'[u] = (IF u = w THEN v7[w] \cup {p} ELSE v7[u])
                             /\ v8'[u] = (IF u = w THEN v7[w] \cup {p} ELSE v8[u])
      BY <1>0, <2>1
    <2>4. v7[w] \cup {p} # Drafts!Unread
      BY <1>b, <2>2
    <2>5. Drafts!MemoryOK'
      BY <1>0, <1>a, <1>d, <2>3, <2>4 DEF Drafts!MemoryOK, Drafts!AtHome
    <2>6. ~v10.late => v7[w] = v10.recorded[w] /\ v8 = v10.recorded
      BY <1>a, <1>d
    <2>7. Drafts!HistoryKept'
      BY <1>d, <2>1, <2>6 DEF Drafts!HistoryKept
    <2> QED  BY <2>5, <2>7
  <1> HIDE DEF Goal
  <1>1. ASSUME NEW p \in Drafts!Places, Drafts!Go(p) PROVE Goal
    <2> USE DEF Goal
    <2>1. v1' = p /\ v8' = v8 /\ v10'.late = v10.late /\ v10'.recorded = v10.recorded
      BY <1>0, <1>1 DEF Drafts!Go
    <2>2. p[1] \in Workspaces /\ v8[p[1]] # Drafts!Unread
      BY <1>0, <1>b, DraftsPlace
    <2>3. ASSUME NEW m \in [Workspaces -> (SUBSET Drafts!Prompts) \cup {Drafts!Unread}], v7' = Drafts!ReadAt(m, p[1])
          PROVE  /\ v7'[p[1]] # Drafts!Unread
                 /\ \A w \in Workspaces : m[w] # Drafts!Unread => v7'[w] = m[w]
                 /\ \A w \in Workspaces : m[w] = Drafts!Unread => v7'[w] \in {Drafts!Unread, v8[w]}
      BY <2>2, <2>3 DEF Drafts!ReadAt
    <2>4. CASE Drafts!AtHome(v1) = Drafts!AtHome(p)
      <3>1. v7' = Drafts!ReadAt(v7, p[1]) /\ v9' = v9
        BY <1>1, <2>4 DEF Drafts!Go
      <3>2. /\ v7'[p[1]] # Drafts!Unread
            /\ \A w \in Workspaces : v7[w] # Drafts!Unread => v7'[w] = v7[w]
            /\ \A w \in Workspaces : v7[w] = Drafts!Unread => v7'[w] \in {Drafts!Unread, v8[w]}
        BY <1>0, <2>3, <3>1
      <3>3. \A r \in v9 : r.frozen = Drafts!Unread => Drafts!AtHome(p) /\ v7'[r.ws] # Drafts!Unread
        BY <1>0, <1>a, <2>4, <3>2 DEF Drafts!AtHome
      <3>4. ~v10.late => \A w \in Workspaces : v7'[w] \in {Drafts!Unread, v8[w]}
        BY <1>a, <3>2
      <3> QED  BY <1>a, <2>1, <3>1, <3>2, <3>3, <3>4 DEF Drafts!MemoryOK, Drafts!HistoryKept, Drafts!AtHome
    <2>5. CASE Drafts!AtHome(v1) # Drafts!AtHome(p)
      <3> DEFINE fresh == [w \in Workspaces |-> Drafts!Unread]
      <3>1. v7' = Drafts!ReadAt(fresh, p[1])
            /\ v9' = {IF r.frozen = Drafts!Unread THEN [r EXCEPT !.frozen = v7[r.ws]] ELSE r : r \in v9}
        BY <1>1, <2>5 DEF Drafts!Go
      <3>2. fresh \in [Workspaces -> (SUBSET Drafts!Prompts) \cup {Drafts!Unread}] /\ \A w \in Workspaces : fresh[w] = Drafts!Unread
        OBVIOUS
      <3> HIDE DEF fresh
      <3>3. v7'[p[1]] # Drafts!Unread /\ \A w \in Workspaces : v7'[w] \in {Drafts!Unread, v8[w]}
        BY <2>3, <3>1, <3>2
      <3>4. ASSUME NEW r \in v9, r.frozen = Drafts!Unread PROVE [r EXCEPT !.frozen = v7[r.ws]].frozen # Drafts!Unread
        <4>1. v7[r.ws] # Drafts!Unread
          BY <1>a, <3>4
        <4>2. [r EXCEPT !.frozen = v7[r.ws]].frozen = v7[r.ws]
          BY <3>4 DEF Drafts!IInv, Drafts!TypeOK
        <4> QED  BY <4>1, <4>2
      <3>5. \A r \in v9' : r.frozen # Drafts!Unread
        BY <3>1, <3>4
      <3> QED  BY <1>a, <2>1, <3>3, <3>5 DEF Drafts!MemoryOK, Drafts!HistoryKept
    <2> QED  BY <2>4, <2>5
  <1>2. CASE Drafts!TypeText \/ Drafts!Erase \/ Drafts!Recall \/ Drafts!TypeAtHome \/ Drafts!Insert \/ Drafts!Pick
    BY <1>0, <1>2, <1>c DEF Drafts!TypeText, Drafts!Erase, Drafts!Recall, Drafts!TypeAtHome, Drafts!Insert, Drafts!Pick
  <1>3. ASSUME NEW queued \in BOOLEAN, Drafts!Send(queued) PROVE Goal
    <2> DEFINE p == v11.sent + 1
    <2>1. p \in Drafts!Prompts
      BY <1>3, BoundsAssumption DEF Drafts!Send, Drafts!Prompts, Drafts!IInv, Drafts!TypeOK
    <2>2. v10'.late = v10.late
          /\ v10'.recorded = [v10.recorded EXCEPT ![v1[1]] = IF v2.of # {} THEN v10.recorded[v1[1]] \cup {p} ELSE v10.recorded[v1[1]]]
      BY <1>0, <1>3 DEF Drafts!Send
    <2>3. CASE v2.of # {}
      <3>1. Drafts!RecordedAs(v1[1], p, v7[v1[1]]) /\ Drafts!Remembered(v1[1], p) /\ v1' = v1 /\ v9' = v9
        BY <1>3, <2>3 DEF Drafts!Send
      <3> HIDE DEF p
      <3> QED  BY <1>0, <1>a, <1>d, <2>1, <2>2, <2>3, <3>1
    <2>4. CASE v2.of = {}
      <3>1. UNCHANGED <<v1, v7, v8, v9>>
        BY <1>3, <2>4 DEF Drafts!Send
      <3>2. v10'.recorded = v10.recorded
        BY <1>0, <2>2, <2>4
      <3> QED  BY <1>c, <2>2, <3>1, <3>2
    <2> QED  BY <2>3, <2>4
  <1>4. ASSUME NEW s \in v6, Drafts!Answered(s) \/ Drafts!Flushed(s) \/ Drafts!EditQueued(s) PROVE Goal
    BY <1>0, <1>4, <1>c DEF Drafts!Answered, Drafts!Flushed, Drafts!EditQueued
  <1>5. ASSUME NEW i \in Drafts!Images, (i \in v5 /\ Drafts!Picked(i)) \/ Drafts!RemoveImage(i) PROVE Goal
    BY <1>0, <1>5, <1>c DEF Drafts!Picked, Drafts!RemoveImage
  <1>6. CASE Drafts!Submit
    <2> DEFINE r == [ws |-> v1[1], id |-> v11.sent + 1, frozen |-> Drafts!Unread]
    <2>1. v9' = v9 \cup {r} /\ r.ws = v1[1] /\ UNCHANGED <<v1, v7, v8>> /\ Drafts!AtHome(v1)
          /\ v10'.late = v10.late /\ v10'.recorded = v10.recorded
      BY <1>0, <1>6 DEF Drafts!Submit
    <2> HIDE DEF r
    <2> QED  BY <1>a, <2>1 DEF Goal, Drafts!MemoryOK, Drafts!HistoryKept, Drafts!AtHome
  <1>7. ASSUME NEW r \in v9, Drafts!RunEnds(r) PROVE Goal
    <2>1. r.ws \in Workspaces /\ r.id \in Drafts!Prompts /\ v1' = v1 /\ v9' \subseteq v9
          /\ (v10'.late <=> v10.late \/ r.frozen # Drafts!Unread) /\ v10'.late \in BOOLEAN
          /\ v10'.recorded = [v10.recorded EXCEPT ![r.ws] = v10.recorded[r.ws] \cup {r.id}]
      BY <1>0, <1>7 DEF Drafts!RunEnds
    <2>2. CASE r.frozen = Drafts!Unread
      <3>1. Drafts!RecordedAs(r.ws, r.id, v7[r.ws]) /\ Drafts!Remembered(r.ws, r.id)
        BY <1>7, <2>2 DEF Drafts!RunEnds
      <3> QED  BY <1>0, <1>a, <1>d, <2>1, <2>2, <3>1
    <2>3. CASE r.frozen # Drafts!Unread
      <3>1. v7' = v7 /\ v10'.late
        BY <1>7, <2>1, <2>3 DEF Drafts!RunEnds
      <3> QED  BY <1>a, <2>1, <3>1 DEF Goal, Drafts!MemoryOK, Drafts!HistoryKept, Drafts!AtHome
    <2> QED  BY <2>2, <2>3
  <1> QED  BY <1>1, <1>2, <1>3, <1>4, <1>5, <1>6, <1>7 DEF Drafts!Next

LEMMA DraftsStep == Drafts!IInv /\ [Drafts!Next]_(Drafts!vars) => Drafts!IInv'
  <1> SUFFICES ASSUME Drafts!IInv, [Drafts!Next]_(Drafts!vars) PROVE Drafts!IInv'
    OBVIOUS
  <1>1. CASE Drafts!Next
    BY <1>1, DraftsType, DraftsPictures, DraftsTexts, DraftsHistory DEF Drafts!IInv
  <1>2. CASE UNCHANGED Drafts!vars
    BY <1>2 DEF Drafts!vars, Drafts!IInv, Drafts!TypeOK, Drafts!TextIsDraft, Drafts!QueuedOfThreads,
       Drafts!SendsStayHome, Drafts!PicturesStayHome, Drafts!MemoryOK, Drafts!DraftsStayHome,
       Drafts!ImagesStayHome, Drafts!HistoryKept, Drafts!AtHome, Drafts!Key
  <1> QED  BY <1>1, <1>2

----------------------------------------------------------------------------
(* What a thread is sent with: v1 is the kind of setting, v2 the store, v3  *)
(* the last model, v4 where threads are, v5 the workspace and v6 the threads *)
(* in front, v7 what is shown, v8 the pending seed, v9 what was seeded, v10  *)
(* the sends, v11 the modes carried over, v12 what was spent.               *)
LEMMA ParamsBasis == Params!Basis
  BY NoneAssumption, SettingsAssumption DEF Params!Basis, Params!Absent, Params!Unset

LEMMA ParamsSequence ==
    ASSUME NEW S, NEW n \in Nat, NEW f \in [1..n -> S]
    PROVE  f \in Seq(S) /\ Len(f) = n
  OBVIOUS

LEMMA ParamsTyped ==
    ASSUME Params!IInv
    PROVE  /\ v1 \in Params!Kinds /\ v2 \in [Params!Scopes -> SettingValues \cup {Params!Absent, Params!Unset}]
           /\ v3 \in SettingValues /\ v7 \in SettingValues
           /\ v4 \in [SettingThreads -> Workspaces \cup {None}] /\ v5 \in Workspaces
           /\ v6 \in [Workspaces -> SettingThreads \cup {None}]
           /\ v8 \in [of : Workspaces \cup {None}, value : SettingValues]
           /\ v9 \subseteq Params!Scopes /\ v11 \subseteq SettingThreads
           /\ v12 \in [sends : 0..MaxDraftSends, steps : 0..MaxLooks]
           /\ v10 \in Seq(Params!Sends) /\ Len(v10) \in Nat /\ \A i \in 1..Len(v10) : v10[i] \in Params!Sends
           /\ Params!OwnCalls /\ Params!ListedAtHome /\ Params!SeededHave /\ Params!DraftIsShown
               /\ Params!ShownIsStored
           /\ \A i \in 1..Len(v10) : Params!GivenAsSent(v10[i])
  BY DEF Params!IInv, Params!TypeOK, Params!Looked, Params!AllGivenAsSent

LEMMA ParamsBudget == ASSUME Params!Basis, Params!IInv, Params!Step
    PROVE v12' \in [sends : 0..MaxDraftSends, steps : 0..MaxLooks]
  <1>1. v12 \in [sends : 0..MaxDraftSends, steps : 0..MaxLooks] /\ MaxLooks \in Nat
    BY ParamsTyped DEF Params!Basis
  <1>2. v12.steps < MaxLooks /\ v12' = [v12 EXCEPT !.steps = v12.steps + 1]
    BY DEF Params!Step
  <1> QED  BY <1>1, <1>2

LEMMA ParamsSeed == ASSUME Params!IInv, NEW w PROVE Params!Seed(v8, w) \in SettingValues
  BY DEF Params!IInv, Params!TypeOK, Params!Seed

LEMMA ParamsLooks ==
    ASSUME Params!Basis, Params!IInv, NEW w \in Workspaces, NEW t \in SettingThreads \cup {None},
           Params!Looks(w, t)
    PROVE  /\ v5' = w /\ v6' = [v6 EXCEPT ![w] = t]
           /\ v9' = IF t = None THEN v9 ELSE v9 \cup {<<w, t>>}
           /\ Params!Fresh(w, t) => /\ v2' = [v2 EXCEPT ![<<w, t>>] = Params!Seed(v8, w)]
                                    /\ v8' = IF v8.of = w THEN Params!NoSeed ELSE v8
           /\ ~Params!Fresh(w, t) => v2' = v2 /\ v8' = v8
           /\ v7' = Params!TakenOver(v2, v2', v8', w, t)
           /\ v11' = IF Params!Fresh(w, t) /\ v7' # v2'[<<w, t>>] THEN v11 \cup {t} ELSE v11
  <1>1. CASE Params!Fresh(w, t)
    BY <1>1 DEF Params!Looks, Params!Fresh
  <1>2. CASE ~Params!Fresh(w, t)
    BY <1>2 DEF Params!Looks, Params!Fresh
  <1> QED  BY <1>1, <1>2

LEMMA ParamsCell ==
    ASSUME Params!Basis, Params!IInv, NEW w \in Workspaces, NEW t \in SettingThreads \cup {None},
           NEW v \in SettingValues \cup {Params!Absent, Params!Unset},
           v2' = [v2 EXCEPT ![<<w, t>>] = v]
    PROVE  /\ v2' \in [Params!Scopes -> SettingValues \cup {Params!Absent, Params!Unset}] /\ v2'[<<w, t>>] = v
           /\ \A x \in Workspaces, u \in SettingThreads \cup {None} : <<x, u>> # <<w, t>> =>
                v2'[<<x, u>>] = v2[<<x, u>>]
  BY DEF Params!IInv, Params!TypeOK, Params!Scopes

LEMMA ParamsResolves ==
    ASSUME Params!Basis, NEW st, NEW la, NEW seed, NEW w, NEW t
    PROVE  /\ st[<<w, t>>] \in SettingValues => Params!Resolve(st, la, seed, w, t) = st[<<w, t>>]
           /\ st[<<w, t>>] \notin SettingValues /\ v1 = "model" => Params!Resolve(st, la, seed, w, t) = la
           /\ st[<<w, t>>] \notin SettingValues /\ v1 # "model" /\ t # None /\ seed.of = w =>
                Params!Resolve(st, la, seed, w, t) = seed.value
           /\ st[<<w, t>>] \notin SettingValues /\ v1 # "model" /\ t = None =>
                Params!Resolve(st, la, seed, w, t) = SettingDefault
  BY DEF Params!Resolve

LEMMA ParamsResolved ==
    ASSUME Params!Basis, Params!IInv, NEW st, NEW seed, seed.value \in SettingValues, NEW w, NEW t
    PROVE  Params!Resolve(st, v3, seed, w, t) \in SettingValues
  BY DEF Params!Resolve, Params!IInv, Params!TypeOK, Params!Basis

LEMMA ParamsLose ==
    ASSUME Params!IInv, NEW away \in BOOLEAN
    PROVE  /\ Params!Lose(away) \in Seq(Params!Sends) /\ Len(Params!Lose(away)) = Len(v10)
           /\ \A i \in 1..Len(v10) :
                /\ Params!Lose(away)[i] \in Params!Sends
                /\ Params!Lose(away)[i].of = v10[i].of /\ Params!Lose(away)[i].values = v10[i].values
                /\ Params!Lose(away)[i].thread = v10[i].thread /\ Params!Lose(away)[i].step = v10[i].step
                /\ ~Params!Lose(away)[i].lost =>
                     /\ ~v10[i].lost
                     /\ <<v10[i].of, v10[i].thread>> \in v9' \/ (IF v1 = "model" THEN ~away ELSE v8'.of = v10[i].of)
  <1> DEFINE gone(i) == /\ IF v1 = "model" THEN away ELSE v8'.of # v10[i].of
                        /\ <<v10[i].of, v10[i].thread>> \notin v9'
             e(i) == [v10[i] EXCEPT !.lost = @ \/ gone(i)]
  <1>1. Params!Lose(away) = [i \in 1..Len(v10) |-> e(i)]
    BY DEF Params!Lose
  <1>2. v10 \in Seq(Params!Sends) /\ Len(v10) \in Nat
    BY DEF Params!IInv
  <1>3. ASSUME NEW i \in 1..Len(v10)
        PROVE  /\ e(i) \in Params!Sends /\ e(i).of = v10[i].of /\ e(i).values = v10[i].values
               /\ e(i).thread = v10[i].thread /\ e(i).step = v10[i].step
               /\ e(i).lost = (v10[i].lost \/ gone(i))
    <2>1. v10[i] \in Params!Sends
      BY <1>2, <1>3
    <2>2. e(i) = [v10[i] EXCEPT !.lost = v10[i].lost \/ gone(i)]
      BY <2>1 DEF Params!Sends
    <2>3. (v10[i].lost \/ gone(i)) \in BOOLEAN
      OBVIOUS
    <2> HIDE DEF e, gone
    <2> QED  BY <2>1, <2>2, <2>3 DEF Params!Sends
  <1> HIDE DEF e
  <1>4. [i \in 1..Len(v10) |-> e(i)] \in [1..Len(v10) -> Params!Sends]
    BY <1>3
  <1>5. Params!Lose(away) \in Seq(Params!Sends) /\ Len(Params!Lose(away)) = Len(v10)
    BY <1>1, <1>2, <1>4, ParamsSequence
  <1>6. \A i \in 1..Len(v10) : Params!Lose(away)[i] = e(i)
    BY <1>1
  <1> QED  BY <1>3, <1>5, <1>6

(* What looking at a thread does to what a send of its workspace gives.        *)
LEMMA ParamsLooksTyped ==
    ASSUME Params!Basis, Params!IInv, NEW w \in Workspaces, NEW t \in SettingThreads \cup {None},
           Params!Looks(w, t)
    PROVE  /\ v2' \in [Params!Scopes -> SettingValues \cup {Params!Absent, Params!Unset}]
               /\ v7' \in SettingValues
           /\ v5' \in Workspaces /\ v6' \in [Workspaces -> SettingThreads \cup {None}]
           /\ v8' \in [of : Workspaces \cup {None}, value : SettingValues]
           /\ v9' \subseteq Params!Scopes /\ v9 \subseteq v9' /\ v11' \subseteq SettingThreads
           /\ v6'[w] = t /\ \A x \in Workspaces : x # w => v6'[x] = v6[x]
  <1>1. Params!TypeOK
    BY DEF Params!IInv
  <1>2. <<w, t>> \in Params!Scopes
    BY DEF Params!Scopes
  <1>3. v5' \in Workspaces /\ v6' \in [Workspaces -> SettingThreads \cup {None}]
        /\ v6'[w] = t /\ \A x \in Workspaces : x # w => v6'[x] = v6[x]
    <2>1. v5' = w /\ v6' = [v6 EXCEPT ![w] = t]
      BY ParamsLooks
    <2> QED  BY <2>1, ParamsTyped
  <1>4. v9' \subseteq Params!Scopes /\ v9 \subseteq v9'
    <2>1. v9 \subseteq Params!Scopes
      BY <1>1 DEF Params!TypeOK
    <2>2. v9' = IF t = None THEN v9 ELSE v9 \cup {<<w, t>>}
      BY ParamsLooks
    <2> QED  BY <1>2, <2>1, <2>2
  <1>5. v11' \subseteq SettingThreads
    <2>1. v11 \subseteq SettingThreads
      BY <1>1 DEF Params!TypeOK
    <2>2. Params!Fresh(w, t) => t \in SettingThreads
      BY DEF Params!Fresh
    <2>3. v11' = IF Params!Fresh(w, t) /\ v7' # v2'[<<w, t>>] THEN v11 \cup {t} ELSE v11
      BY ParamsLooks
    <2> QED  BY <2>1, <2>2, <2>3
  <1>6. v2' \in [Params!Scopes -> SettingValues \cup {Params!Absent, Params!Unset}]
          /\ v8' \in [of : Workspaces \cup {None}, value : SettingValues]
    <2>1. CASE Params!Fresh(w, t)
      <3>1. v2' = [v2 EXCEPT ![<<w, t>>] = Params!Seed(v8, w)] /\ v8' = IF v8.of = w THEN Params!NoSeed ELSE v8
        BY <2>1, ParamsLooks
      <3>2. v2' \in [Params!Scopes -> SettingValues \cup {Params!Absent, Params!Unset}]
        BY <3>1, ParamsSeed, ParamsCell
      <3> QED  BY <1>1, <3>1, <3>2 DEF Params!TypeOK, Params!NoSeed, Params!Basis
    <2>2. CASE ~Params!Fresh(w, t)
      <3>1. v2 \in [Params!Scopes -> SettingValues \cup {Params!Absent, Params!Unset}]
              /\ v8 \in [of : Workspaces \cup {None}, value : SettingValues]
        BY <1>1 DEF Params!TypeOK
      <3>2. v2' = v2 /\ v8' = v8
        BY <2>2, ParamsLooks
      <3> QED  BY <3>1, <3>2
    <2> QED  BY <2>1, <2>2
  <1>7. v7' \in SettingValues
    <2>1. v7' = Params!TakenOver(v2, v2', v8', w, t)
      BY ParamsLooks
    <2>2. v8'.value \in SettingValues /\ v8.value \in SettingValues
      BY <1>1, <1>6 DEF Params!TypeOK
    <2> QED  BY <2>1, <2>2, ParamsResolved DEF Params!TakenOver
  <1> QED  BY <1>3, <1>4, <1>5, <1>6, <1>7

LEMMA ParamsLooksShows ==
    ASSUME Params!Basis, Params!IInv, NEW w \in Workspaces, NEW t \in SettingThreads \cup {None},
           Params!Looks(w, t), v1' = v1, v3' = v3
    PROVE  Params!DraftIsShown' /\ Params!ShownIsStored'
  <1>1. /\ v5' = w /\ v6'[w] = t /\ v7' = Params!TakenOver(v2, v2', v8', w, t)
        /\ v2' \in [Params!Scopes -> SettingValues \cup {Params!Absent, Params!Unset}]
    BY ParamsLooks, ParamsLooksTyped
  <1>2. Params!TypeOK /\ Params!DraftIsShown
    BY DEF Params!IInv, Params!Looked
  <1>3. None \notin v11'
    BY ParamsLooksTyped DEF Params!Basis
  <1>4. ASSUME v1 = "model" PROVE \A s \in Params!Scopes : v2'[s] # Params!Unset
    <2>1. CASE Params!Fresh(w, t)
      <3>1. v2' = [v2 EXCEPT ![<<w, t>>] = Params!Seed(v8, w)] /\ Params!Seed(v8, w) # Params!Unset
        BY <2>1, ParamsLooks, ParamsSeed DEF Params!Basis
      <3>2. v2 \in [Params!Scopes -> SettingValues \cup {Params!Absent, Params!Unset}]
              /\ \A s \in Params!Scopes : v2[s] # Params!Unset
        BY <1>2, <1>4 DEF Params!TypeOK, Params!DraftIsShown
      <3> QED  BY <3>1, <3>2
    <2>2. CASE ~Params!Fresh(w, t)
      BY <1>2, <1>4, <2>2, ParamsLooks DEF Params!DraftIsShown
    <2> QED  BY <2>1, <2>2
  <1>5. v1 = "model" => v7' = Params!Resolve(v2', v3, v8', w, t)
    BY <1>1 DEF Params!TakenOver
  <1>6. v1 # "mode" => v7' = Params!Resolve(v2', v3, v8', w, t)
    BY <1>1 DEF Params!TakenOver
  <1>7. (~Params!Fresh(w, t)) => v7' = Params!Resolve(v2', v3, v8', w, t)
    BY <1>1, ParamsLooks DEF Params!TakenOver
  <1>8. t = None => ~Params!Fresh(w, t)
    BY DEF Params!Fresh
  <1>9. ASSUME t = None, v1 # "model" PROVE v7' = (IF v2'[<<w, None>>] \in SettingValues THEN v2'[<<w, None>>] ELSE SettingDefault)
    BY <1>7, <1>8, <1>9, ParamsResolves
  <1>10. Params!DraftIsShown'
    BY <1>1, <1>3, <1>4, <1>5, <1>9 DEF Params!DraftIsShown, Params!OfDraft, Params!Resolve
  <1>11. Params!ShownIsStored'
    <2> SUFFICES ASSUME v2'[<<w, t>>] \in SettingValues, t \notin v11' PROVE v7' = v2'[<<w, t>>]
      BY <1>1 DEF Params!ShownIsStored
    <2>1. CASE Params!Fresh(w, t)
      BY <2>1, ParamsLooks
    <2>2. CASE ~Params!Fresh(w, t)
      BY <1>7, <2>2, ParamsResolves
    <2> QED  BY <2>1, <2>2
  <1> QED  BY <1>10, <1>11

(* A send whose thread is not looked at yet is given, when any thread is,    *)
(* what it was sent with.                                                  *)
LEMMA ParamsLooksGives ==
    ASSUME Params!Basis, Params!IInv, NEW w \in Workspaces, NEW t \in SettingThreads \cup {None},
           Params!Looks(w, t),
           NEW c \in Params!Sends, Params!GivenAsSent(c), c.thread # None, ~c.lost,
           v2'[<<c.of, c.thread>>] # Params!Absent
    PROVE  v2'[<<c.of, c.thread>>] \in c.values
  <1>1. c.of \in Workspaces /\ c.thread \in SettingThreads
    BY DEF Params!Sends
  <1>2. CASE Params!Fresh(w, t)
    <2>1. v2' = [v2 EXCEPT ![<<w, t>>] = Params!Seed(v8, w)]
      BY <1>2, ParamsLooks
    <2>2. /\ v2'[<<w, t>>] = Params!Seed(v8, w)
          /\ \A x \in Workspaces, u \in SettingThreads \cup {None} : <<x, u>> # <<w, t>> =>
               v2'[<<x, u>>] = v2[<<x, u>>]
      <3>1. Params!Seed(v8, w) \in SettingValues \cup {Params!Absent, Params!Unset}
        BY ParamsSeed
      <3>2. PICK v \in SettingValues \cup {Params!Absent, Params!Unset} : v = Params!Seed(v8, w)
        BY <3>1
      <3>3. v2' = [v2 EXCEPT ![<<w, t>>] = v]
        BY <2>1, <3>2
      <3>4. /\ v2'[<<w, t>>] = v
            /\ \A x \in Workspaces, u \in SettingThreads \cup {None} : <<x, u>> # <<w, t>> =>
                 v2'[<<x, u>>] = v2[<<x, u>>]
        <4>1. v2 \in [Params!Scopes -> SettingValues \cup {Params!Absent, Params!Unset}]
          BY ParamsTyped
        <4> QED  BY <3>3, <4>1 DEF Params!Scopes
      <3> QED  BY <3>2, <3>4
    <2>3. CASE <<c.of, c.thread>> = <<w, t>>
      <3>1. Params!Unseeded(c) /\ c.of = w
        BY <1>2, <2>3 DEF Params!Unseeded, Params!Fresh
      <3>2. Params!WillBeSeeded(c)
        BY <3>1 DEF Params!GivenAsSent
      <3>3. Params!Seed(v8, w) \in c.values
        BY <3>1, <3>2 DEF Params!Seed, Params!WillBeSeeded
      <3> QED  BY <2>2, <2>3, <3>3
    <2>4. CASE <<c.of, c.thread>> # <<w, t>>
      BY <1>1, <2>2, <2>4 DEF Params!GivenAsSent
    <2> QED  BY <2>3, <2>4
  <1>3. CASE ~Params!Fresh(w, t)
    BY <1>3, ParamsLooks DEF Params!GivenAsSent
  <1> QED  BY <1>2, <1>3

(* A seed that is still there is the one that was.                          *)
LEMMA ParamsLooksKeepsSeed ==
    ASSUME Params!Basis, Params!IInv, NEW w \in Workspaces, NEW t \in SettingThreads \cup {None},
           Params!Looks(w, t),
           NEW c \in Params!Sends, Params!GivenAsSent(c), Params!Unseeded(c), v1 # "model", v8'.of = c.of
    PROVE  /\ v8'.value \in c.values
           /\ (IF v2'[<<c.of, None>>] \in SettingValues THEN v2'[<<c.of, None>>] ELSE SettingDefault) \in c.values
  <1>1. c.of \in Workspaces /\ c.of # None
    BY DEF Params!Sends, Params!Basis
  <1>2. v8' = v8
    <2>1. CASE Params!Fresh(w, t)
      <3>1. v8' = IF v8.of = w THEN Params!NoSeed ELSE v8
        BY <2>1, ParamsLooks
      <3>2. Params!NoSeed.of = None
        BY DEF Params!NoSeed
      <3> QED  BY <1>1, <3>1, <3>2
    <2>2. CASE ~Params!Fresh(w, t)
      BY <2>2, ParamsLooks
    <2> QED  BY <2>1, <2>2
  <1>3. v8.value \in c.values /\ Params!OfDraft(c.of) \in c.values
    BY <1>2 DEF Params!GivenAsSent, Params!WillBeSeeded
  <1>4. v2'[<<c.of, None>>] = v2[<<c.of, None>>]
    <2>1. CASE Params!Fresh(w, t)
      <3>1. v2' = [v2 EXCEPT ![<<w, t>>] = Params!Seed(v8, w)] /\ t # None
        BY <2>1, ParamsLooks DEF Params!Fresh
      <3>2. <<c.of, None>> # <<w, t>>
        BY <3>1
      <3> QED  BY <1>1, <3>1, <3>2, ParamsSeed, ParamsCell
    <2>2. CASE ~Params!Fresh(w, t)
      BY <2>2, ParamsLooks
    <2> QED  BY <2>1, <2>2
  <1> QED  BY <1>2, <1>3, <1>4 DEF Params!OfDraft

(* The thread that takes the place of its draft: it is given, and the        *)
(* composer shows, what its send was sent with.                            *)
LEMMA ParamsTakesItsPlace ==
    ASSUME Params!Basis, Params!IInv, NEW t \in SettingThreads, Params!Looks(v5, t), v6[v5] \in {None, t},
           NEW c \in Params!Sends, Params!GivenAsSent(c), c.of = v5, c.thread = t, ~c.lost
    PROVE  v2'[<<v5, t>>] \in c.values /\ v7' \in c.values
  <1>1. v5 \in Workspaces /\ t # None /\ v2 \in [Params!Scopes -> SettingValues \cup {Params!Absent, Params!Unset}] /\ c.values \subseteq SettingValues
    BY ParamsTyped DEF Params!Sends, Params!Basis
  <1>2. v7' = Params!TakenOver(v2, v2', v8', v5, t)
    BY <1>1, ParamsLooks
  <1>3. v2'[<<v5, t>>] # Params!Absent
    <2>1. CASE Params!Fresh(v5, t)
      <3>1. v2' = [v2 EXCEPT ![<<v5, t>>] = Params!Seed(v8, v5)] /\ Params!Seed(v8, v5) \in SettingValues
        BY <1>1, <2>1, ParamsLooks, ParamsSeed
      <3> QED  BY <1>1, <3>1 DEF Params!Scopes, Params!Basis
    <2>2. CASE ~Params!Fresh(v5, t)
      <3>1. v2' = v2
        BY <1>1, <2>2, ParamsLooks
      <3>2. \A s \in v9 : v2[s] # Params!Absent
        BY ParamsTyped DEF Params!OwnCalls, Params!SeededHave
      <3> QED  BY <1>1, <2>2, <3>1, <3>2 DEF Params!Fresh
    <2> QED  BY <2>1, <2>2
  <1>4. v2'[<<v5, t>>] \in c.values
    BY <1>1, <1>3, ParamsLooksGives
  <1>5. CASE v1 # "mode" \/ ~Params!Fresh(v5, t)
    <2>1. v7' = Params!Resolve(v2', v3, v8', v5, t) \/ v7' = Params!Resolve(v2', v3, v8, v5, t)
      BY <1>1, <1>2, <1>5, ParamsLooks DEF Params!TakenOver
    <2> QED  BY <1>1, <1>4, <2>1, ParamsResolves
  <1>6. CASE v1 = "mode" /\ Params!Fresh(v5, t)
    <2>1. v7' = Params!Resolve(v2, v3, v8, v5, t)
      BY <1>2, <1>6 DEF Params!TakenOver
    <2>2. v6[v5] = None
      BY <1>1, <1>6, ParamsTyped DEF Params!SeededHave, Params!Fresh
    <2>3. Params!Unseeded(c)
      BY <1>6 DEF Params!Unseeded, Params!Fresh
    <2>4. v8.of = v5 /\ v8.value \in c.values
      BY <1>6, <2>2, <2>3 DEF Params!GivenAsSent, Params!WillBeSeeded
    <2>5. v2[<<v5, t>>] \notin SettingValues
      BY <1>6 DEF Params!Fresh, Params!Basis
    <2>6. v7' = v8.value
      BY <1>1, <1>6, <2>1, <2>4, <2>5, ParamsResolves
    <2> QED  BY <1>4, <2>4, <2>6
  <1> QED  BY <1>5, <1>6

(* What looking at a thread leaves to a send: its seed still waits, or its   *)
(* first thread was the one that came.                                     *)
ParamsComesFrom(d, c) ==
    /\ d \in Params!Sends /\ c \in Params!Sends /\ d.of = c.of /\ d.thread = c.thread /\ d.values = c.values
    /\ ~d.lost => ~c.lost

LEMMA ParamsLooksCall ==
    ASSUME Params!Basis, Params!IInv, NEW w \in Workspaces, NEW t \in SettingThreads \cup {None},
           Params!Looks(w, t), v1' = v1,
           NEW c \in Params!Sends, NEW d \in Params!Sends, ParamsComesFrom(d, c), Params!GivenAsSent(c),
           ~d.lost /\ <<d.of, d.thread>> \notin v9' =>
             \/ v1 # "model" /\ v8'.of = d.of
             \/ /\ w = v5 /\ t # None /\ d.step # "done" /\ c.step # "done" /\ v6[v5] \in {None, t}
                /\ \E j \in 1..Len(v10) : /\ v10[j].thread = t /\ ~v10[j].lost /\ v10[j].of = v5
                                          /\ v10[j].values = c.values
    PROVE  Params!GivenAsSent(d)'
  <1>1. d.of = c.of /\ d.thread = c.thread /\ d.values = c.values /\ (~d.lost => ~c.lost)
    BY DEF ParamsComesFrom
  <1>2. ASSUME d.thread # None, ~d.lost, v2'[<<d.of, d.thread>>] # Params!Absent
        PROVE v2'[<<d.of, d.thread>>] \in d.values
    BY <1>1, <1>2, ParamsLooksGives
  <1>3. ASSUME ~d.lost, <<d.of, d.thread>> \notin v9'
        PROVE Params!WillBeSeeded(d)' /\ (d.thread # None => v2'[<<d.of, d.thread>>] = Params!Absent)
    <2>1. Params!Unseeded(c)
      BY <1>1, <1>3, ParamsLooksTyped DEF Params!Unseeded
    <2>2. Params!WillBeSeeded(c) /\ (c.thread # None => v2[<<c.of, c.thread>>] = Params!Absent)
      BY <2>1 DEF Params!GivenAsSent
    <2>3. d.thread # None => v2'[<<d.of, d.thread>>] = Params!Absent
      <3> SUFFICES ASSUME d.thread # None PROVE v2'[<<d.of, d.thread>>] = Params!Absent
        OBVIOUS
      <3>1. CASE Params!Fresh(w, t)
        <4>1. <<d.of, d.thread>> # <<w, t>>
          BY <1>3, <3>1, ParamsLooks DEF Params!Fresh
        <4>2. v2' = [v2 EXCEPT ![<<w, t>>] = Params!Seed(v8, w)]
          BY <3>1, ParamsLooks
        <4>3. v2 \in [Params!Scopes -> SettingValues \cup {Params!Absent, Params!Unset}]
                /\ <<d.of, d.thread>> \in Params!Scopes
          BY ParamsTyped DEF Params!Sends, Params!Scopes
        <4> QED  BY <1>1, <2>2, <4>1, <4>2, <4>3
      <3>2. CASE ~Params!Fresh(w, t)
        BY <1>1, <2>2, <3>2, ParamsLooks
      <3> QED  BY <3>1, <3>2
    <2>4. CASE v1 # "model" /\ v8'.of = d.of
      <3>1. /\ v8'.value \in c.values
            /\ (IF v2'[<<c.of, None>>] \in SettingValues THEN v2'[<<c.of, None>>] ELSE SettingDefault) \in c.values
        BY <1>1, <2>1, <2>4, ParamsLooksKeepsSeed
      <3> QED  BY <1>1, <2>3, <2>4, <3>1 DEF Params!WillBeSeeded, Params!OfDraft
    <2>5. CASE ~(v1 # "model" /\ v8'.of = d.of)
      <3>1. /\ w = v5 /\ t # None /\ t \in SettingThreads /\ d.step # "done" /\ c.step # "done"
                /\ v6[v5] \in {None, t}
            /\ \E j \in 1..Len(v10) : /\ v10[j].thread = t /\ ~v10[j].lost /\ v10[j].of = v5
                                      /\ v10[j].values = c.values
        BY <1>3, <2>5
      <3>2. PICK j \in 1..Len(v10) : v10[j].thread = t /\ ~v10[j].lost /\ v10[j].of = v5
              /\ v10[j].values = c.values
        BY <3>1
      <3>3. v10[j] \in Params!Sends /\ Params!GivenAsSent(v10[j])
        BY ParamsTyped
      <3>4. v2'[<<v5, t>>] \in c.values /\ v7' \in c.values
        BY <3>1, <3>2, <3>3, ParamsTakesItsPlace
      <3>5. c.of = v5
        <4>1. CASE v1 # "model" /\ v8.of = c.of
          <5>1. v8' # v8
            BY <1>1, <2>5, <4>1
          <5> QED  BY <3>1, <5>1, ParamsLooks, <4>1
        <4>2. CASE ~(v1 # "model" /\ v8.of = c.of)
          BY <2>2, <4>2 DEF Params!WillBeSeeded
        <4> QED  BY <4>1, <4>2
      <3>6. v5' = v5 /\ v6'[v5] = t
        BY <3>1, ParamsLooks, ParamsLooksTyped
      <3>7. (v5 = d.of /\ d.step # "done" /\ v7 \in d.values)'
        BY <1>1, <3>1, <3>4, <3>5, <3>6
      <3>8. (v6[v5] # None /\ v2[<<v5, v6[v5]>>] \in d.values)'
        BY <1>1, <3>1, <3>4, <3>6
      <3> QED  BY <2>3, <2>5, <3>7, <3>8 DEF Params!WillBeSeeded
    <2> QED  BY <2>4, <2>5
  <1> QED  BY <1>2, <1>3 DEF Params!GivenAsSent, Params!Unseeded

LEMMA ParamsLooksHave ==
    ASSUME Params!Basis, Params!IInv, NEW w \in Workspaces, NEW t \in SettingThreads \cup {None},
           Params!Looks(w, t)
    PROVE  Params!SeededHave'
  <1>1. v5' = w /\ v6'[w] = t
    BY ParamsLooks, ParamsLooksTyped
  <1>2. v9' = IF t = None THEN v9 ELSE v9 \cup {<<w, t>>}
    BY ParamsLooks
  <1>3. v2 \in [Params!Scopes -> SettingValues \cup {Params!Absent, Params!Unset}] /\ v9 \subseteq Params!Scopes
    BY ParamsTyped
  <1>4. \A s \in v9 : s[2] # None /\ v2[s] # Params!Absent
    BY ParamsTyped DEF Params!OwnCalls, Params!SeededHave
  <1>5. ASSUME NEW s \in v9' PROVE s[2] # None /\ v2'[s] # Params!Absent
    <2>1. CASE Params!Fresh(w, t)
      <3>1. v2' = [v2 EXCEPT ![<<w, t>>] = Params!Seed(v8, w)] /\ Params!Seed(v8, w) \in SettingValues
              /\ t # None
        BY <2>1, ParamsLooks, ParamsSeed DEF Params!Fresh
      <3>2. <<w, t>> \in Params!Scopes /\ <<w, t>>[2] = t
        BY DEF Params!Scopes
      <3>3. CASE s = <<w, t>>
        BY <1>3, <3>1, <3>2, <3>3 DEF Params!Basis
      <3>4. CASE s # <<w, t>>
        <4>1. s \in v9
          BY <1>2, <1>5, <3>4
        <4> QED  BY <1>3, <1>4, <3>1, <3>4, <4>1
      <3> QED  BY <3>3, <3>4
    <2>2. CASE ~Params!Fresh(w, t)
      <3>1. v2' = v2
        BY <2>2, ParamsLooks
      <3>2. CASE s \in v9
        BY <1>4, <3>1, <3>2
      <3>3. CASE s \notin v9
        BY <1>2, <1>5, <2>2, <3>1, <3>3 DEF Params!Fresh
      <3> QED  BY <3>2, <3>3
    <2> QED  BY <2>1, <2>2
  <1> QED  BY <1>1, <1>2, <1>5 DEF Params!SeededHave

LEMMA ParamsLooked ==
    ASSUME Params!Basis, Params!IInv, NEW w \in Workspaces, NEW t \in SettingThreads \cup {None},
           Params!Looks(w, t), v1' = v1, v3' = v3
    PROVE  Params!Looked'
  BY ParamsLooksShows, ParamsLooksHave DEF Params!Looked

LEMMA ParamsAgain ==
    ASSUME Params!TypeOK', v10' \in Seq(Params!Sends), Params!OwnCalls', Params!ListedAtHome', Params!Looked',
           \A i \in 1..Len(v10') : Params!GivenAsSent(v10[i])'
    PROVE  Params!IInv'
  <1>1. Params!AllGivenAsSent'
    BY DEF Params!AllGivenAsSent
  <1> QED  BY <1>1 DEF Params!IInv

(* The user looks at another thread.                                        *)
LEMMA ParamsOpen ==
    ASSUME Params!Basis, Params!IInv, NEW w \in Workspaces, NEW t \in SettingThreads \cup {None},
           Params!Open(w, t)
    PROVE  Params!IInv'
  <1>1. Params!Looks(w, t) /\ v10' = Params!Lose(TRUE) /\ v1' = v1 /\ v3' = v3 /\ v4' = v4
        /\ (t # None => v4[t] = w) /\ Params!Step
    BY DEF Params!Open
  <1>2. /\ v10' \in Seq(Params!Sends) /\ Len(v10') = Len(v10)
        /\ \A i \in 1..Len(v10) :
             /\ v10'[i] \in Params!Sends
             /\ v10'[i].of = v10[i].of /\ v10'[i].values = v10[i].values
             /\ v10'[i].thread = v10[i].thread /\ v10'[i].step = v10[i].step
             /\ ~v10'[i].lost =>
                  /\ ~v10[i].lost
                  /\ <<v10[i].of, v10[i].thread>> \in v9' \/ (IF v1 = "model" THEN FALSE ELSE v8'.of = v10[i].of)
    BY <1>1, ParamsLose
  <1>3. Params!OwnCalls /\ Params!ListedAtHome
    BY ParamsTyped
  <1>4. Params!OwnCalls'
    BY <1>2, <1>3 DEF Params!OwnCalls
  <1>5. v6 \in [Workspaces -> SettingThreads \cup {None}] /\ v6' = [v6 EXCEPT ![w] = t]
    BY <1>1, ParamsTyped, ParamsLooks
  <1>6. Params!ListedAtHome'
    BY <1>1, <1>2, <1>3, <1>5 DEF Params!ListedAtHome
  <1>7. Params!Looked'
    BY <1>1, ParamsLooked
  <1>8. Params!TypeOK'
    <2>1. v12' \in [sends : 0..MaxDraftSends, steps : 0..MaxLooks]
      BY <1>1, ParamsBudget
    <2>2. v1' \in Params!Kinds /\ v3' \in SettingValues /\ v4' \in [SettingThreads -> Workspaces \cup {None}]
      BY <1>1, ParamsTyped
    <2>3. \A i \in 1..Len(v10') : v10'[i] \in Params!Sends
      BY <1>2
    <2> QED  BY <1>1, <2>1, <2>2, <2>3, ParamsLooksTyped DEF Params!TypeOK, Params!Sends
  <1>9. ASSUME NEW i \in 1..Len(v10') PROVE Params!GivenAsSent(v10[i])'
    <2>1. v10[i] \in Params!Sends /\ v10'[i] \in Params!Sends /\ Params!GivenAsSent(v10[i])
      BY <1>2, <1>9, ParamsTyped
    <2>2. ParamsComesFrom(v10'[i], v10[i])
      BY <1>2, <1>9, <2>1 DEF ParamsComesFrom
    <2>3. ~v10'[i].lost /\ <<v10'[i].of, v10'[i].thread>> \notin v9' => v1 # "model" /\ v8'.of = v10'[i].of
      BY <1>2, <1>9
    <2> QED  BY <1>1, <2>1, <2>2, <2>3, ParamsLooksCall
  <1>10. v10' \in Seq(Params!Sends)
    BY <1>2
  <1> QED  BY <1>4, <1>6, <1>7, <1>8, <1>9, <1>10, ParamsAgain

(* The user chooses: it is stored for the thread in front, and for the       *)
(* sends that may still be given what is shown.                            *)
LEMMA ParamsChosen ==
    ASSUME Params!Basis, Params!IInv, NEW v \in SettingValues, NEW c \in Params!Sends
    PROVE  /\ Params!Chosen(v, c) \in Params!Sends
           /\ Params!Chosen(v, c).of = c.of /\ Params!Chosen(v, c).thread = c.thread
               /\ Params!Chosen(v, c).step = c.step
           /\ v6[v5] # None /\ c.thread = v6[v5] => Params!Chosen(v, c).values = {v}
               /\ ~Params!Chosen(v, c).lost
           /\ ~(v6[v5] # None /\ c.thread = v6[v5]) =>
                /\ Params!Chosen(v, c).lost = c.lost
                /\ c.of = v5 /\ (v6[v5] = None \/ c.step # "done") =>
                     Params!Chosen(v, c).values = c.values \cup {v}
                /\ ~(c.of = v5 /\ (v6[v5] = None \/ c.step # "done")) => Params!Chosen(v, c).values = c.values
  <1>1. CASE v6[v5] # None /\ c.thread = v6[v5]
    <2>1. Params!Chosen(v, c) = [c EXCEPT !.values = {v}, !.lost = FALSE]
      BY <1>1 DEF Params!Chosen
    <2>2. {v} \subseteq SettingValues
      OBVIOUS
    <2>3. PICK s \in SUBSET SettingValues : s = {v}
      BY <2>2
    <2>4. Params!Chosen(v, c) = [c EXCEPT !.values = s, !.lost = FALSE] /\ FALSE \in BOOLEAN
      BY <2>1, <2>3
    <2> HIDE DEF Params!Chosen
    <2>5. Params!Chosen(v, c) \in Params!Sends /\ Params!Chosen(v, c).of = c.of
            /\ Params!Chosen(v, c).thread = c.thread
          /\ Params!Chosen(v, c).step = c.step /\ Params!Chosen(v, c).values = s
              /\ Params!Chosen(v, c).lost = FALSE
      BY <2>4 DEF Params!Sends
    <2> QED  BY <1>1, <2>3, <2>5
  <1>2. CASE ~(v6[v5] # None /\ c.thread = v6[v5]) /\ c.of = v5 /\ (v6[v5] = None \/ c.step # "done")
    <2>1. Params!Chosen(v, c) = [c EXCEPT !.values = c.values \cup {v}]
      BY <1>2 DEF Params!Chosen, Params!Sends
    <2>2. c.values \cup {v} \subseteq SettingValues
      BY DEF Params!Sends
    <2> QED  BY <1>2, <2>1, <2>2 DEF Params!Sends
  <1>3. CASE ~(v6[v5] # None /\ c.thread = v6[v5]) /\ ~(c.of = v5 /\ (v6[v5] = None \/ c.step # "done"))
    BY <1>3 DEF Params!Chosen
  <1> QED  BY <1>1, <1>2, <1>3

LEMMA ParamsGiven ==
    ASSUME NEW d \in Params!Sends,
           ~d.lost /\ <<d.of, d.thread>> \notin v9' /\ v1' # "model" /\ v8'.of = d.of =>
             /\ v8'.value \in d.values
             /\ (IF v2'[<<d.of, None>>] \in SettingValues THEN v2'[<<d.of, None>>] ELSE SettingDefault) \in d.values,
           ~d.lost /\ <<d.of, d.thread>> \notin v9' /\ ~(v1' # "model" /\ v8'.of = d.of) =>
             /\ v5' = d.of /\ d.step # "done" /\ v7' \in d.values
             /\ v1' # "model" => v6'[v5'] # None /\ v2'[<<v5', v6'[v5']>>] \in d.values,
           ~d.lost /\ <<d.of, d.thread>> \notin v9' /\ d.thread # None =>
                   v2'[<<d.of, d.thread>>] = Params!Absent,
           d.thread # None /\ ~d.lost /\ v2'[<<d.of, d.thread>>] # Params!Absent =>
                   v2'[<<d.of, d.thread>>] \in d.values
    PROVE  Params!GivenAsSent(d)'
  <1>1. ~d.lost /\ <<d.of, d.thread>> \notin v9' => Params!WillBeSeeded(d)'
    BY DEF Params!WillBeSeeded, Params!OfDraft
  <1> QED  BY <1>1 DEF Params!GivenAsSent, Params!Unseeded

LEMMA ParamsWaits ==
    ASSUME NEW c \in Params!Sends, Params!GivenAsSent(c)
    PROVE  /\ ~c.lost /\ <<c.of, c.thread>> \notin v9 =>
                /\ v1 # "model" /\ v8.of = c.of => v8.value \in c.values /\ Params!OfDraft(c.of) \in c.values
                /\ ~(v1 # "model" /\ v8.of = c.of) =>
                      /\ v5 = c.of /\ c.step # "done" /\ v7 \in c.values
                      /\ v1 # "model" => v6[v5] # None /\ v2[<<v5, v6[v5]>>] \in c.values
                /\ c.thread # None => v2[<<c.of, c.thread>>] = Params!Absent
           /\ c.thread # None /\ ~c.lost /\ v2[<<c.of, c.thread>>] # Params!Absent =>
                v2[<<c.of, c.thread>>] \in c.values
  BY DEF Params!GivenAsSent, Params!Unseeded, Params!WillBeSeeded

LEMMA ParamsSelectCall ==
    ASSUME Params!Basis, Params!IInv, NEW v \in SettingValues, Params!Select(v), NEW c \in Params!Sends,
           Params!GivenAsSent(c),
           c.thread # None => v4[c.thread] \in {None, c.of},
           NEW d \in Params!Sends, d = Params!Chosen(v, c)
    PROVE  Params!GivenAsSent(d)'
  <1> DEFINE t == v6[v5]
  <1>1. /\ v7' = v /\ v2' = [v2 EXCEPT ![<<v5, t>>] = v]
        /\ v1' = v1 /\ v5' = v5 /\ v6' = v6 /\ v8' = v8 /\ v9' = v9
    BY DEF Params!Select
  <1>2. /\ v5 \in Workspaces /\ t \in SettingThreads \cup {None} /\ <<v5, t>> \in Params!Scopes
        /\ v2 \in [Params!Scopes -> SettingValues \cup {Params!Absent, Params!Unset}]
    BY ParamsTyped DEF Params!Scopes
  <1>3. /\ v2' \in [Params!Scopes -> SettingValues \cup {Params!Absent, Params!Unset}] /\ v2'[<<v5, t>>] = v
        /\ \A s \in Params!Scopes : s # <<v5, t>> => v2'[s] = v2[s]
    BY <1>1, <1>2
  <1>4. d.of = c.of /\ d.thread = c.thread /\ d.step = c.step /\ c.of \in Workspaces
          /\ c.thread \in SettingThreads \cup {None}
    BY ParamsChosen DEF Params!Sends
  <1>5. CASE t # None /\ c.thread = t
    <2>1. d.values = {v} /\ ~d.lost
      BY <1>5, ParamsChosen
    <2>2. Params!ListedAtHome /\ Params!SeededHave
      BY ParamsTyped
    <2>3. c.of = v5
      BY <1>2, <1>5, <2>2 DEF Params!ListedAtHome, Params!Basis
    <2>4. <<d.of, d.thread>> = <<v5, t>> /\ <<v5, t>> \in v9
      BY <1>4, <1>5, <2>2, <2>3 DEF Params!SeededHave
    <2> HIDE DEF t
    <2> QED  BY <1>1, <1>3, <2>1, <2>4, ParamsGiven
  <1>6. CASE ~(t # None /\ c.thread = t)
    <2>1. d.lost = c.lost /\ c.values \subseteq d.values
      BY <1>6, ParamsChosen
    <2>2. c.of = v5 /\ (t = None \/ c.step # "done") => v \in d.values
      BY <1>6, ParamsChosen
    <2>3. c.thread # None => v2'[<<c.of, c.thread>>] = v2[<<c.of, c.thread>>]
      BY <1>2, <1>3, <1>4, <1>6 DEF Params!Scopes
    <2>4. ASSUME ~d.lost, <<d.of, d.thread>> \notin v9', v1 # "model", v8.of = c.of
          PROVE  v8.value \in d.values /\ (IF v2'[<<c.of, None>>] \in SettingValues THEN v2'[<<c.of, None>>] ELSE SettingDefault) \in d.values
      <3>1. v8.value \in d.values /\ Params!OfDraft(c.of) \in d.values
        BY <1>1, <1>4, <2>1, <2>4, ParamsWaits
      <3>2. c.of = v5 /\ t = None => v \in d.values /\ v2'[<<c.of, None>>] = v
        BY <1>3, <2>2
      <3>3. ~(c.of = v5 /\ t = None) => v2'[<<c.of, None>>] = v2[<<c.of, None>>]
        BY <1>2, <1>3, <1>4 DEF Params!Scopes
      <3> QED  BY <3>1, <3>2, <3>3 DEF Params!OfDraft
    <2>5. ASSUME ~d.lost, <<d.of, d.thread>> \notin v9', ~(v1 # "model" /\ v8.of = c.of)
          PROVE  v5 = c.of /\ c.step # "done" /\ v \in d.values /\ (v1 # "model" => t # None)
      <3>1. v5 = c.of /\ c.step # "done" /\ (v1 # "model" => t # None)
        BY <1>1, <1>4, <2>1, <2>5, ParamsWaits
      <3> QED  BY <2>2, <3>1
    <2>6. ~d.lost /\ <<d.of, d.thread>> \notin v9' /\ d.thread # None => v2'[<<d.of, d.thread>>] = Params!Absent
      BY <1>1, <1>4, <2>1, <2>3, ParamsWaits
    <2>7. d.thread # None /\ ~d.lost /\ v2'[<<d.of, d.thread>>] # Params!Absent =>
            v2'[<<d.of, d.thread>>] \in d.values
      BY <1>4, <2>1, <2>3, ParamsWaits
    <2> HIDE DEF t
    <2>8. v6'[v5'] = t /\ v2'[<<v5', t>>] = v
      BY <1>1, <1>3 DEF t
    <2> QED  BY <1>1, <1>4, <2>4, <2>5, <2>6, <2>7, <2>8, ParamsGiven
  <1> QED  BY <1>5, <1>6

LEMMA ParamsSelect ==
    ASSUME Params!Basis, Params!IInv, NEW v \in SettingValues, Params!Select(v)
    PROVE  Params!IInv'
  <1> DEFINE t == v6[v5]
  <1>1. /\ Params!Step /\ v7' = v /\ v2' = [v2 EXCEPT ![<<v5, t>>] = v]
        /\ v3' = (IF v1 = "model" /\ t = None THEN v ELSE v3)
        /\ v11' = v11 \ {t}
        /\ v10' = [i \in 1..Len(v10) |-> Params!Chosen(v, v10[i])]
        /\ v1' = v1 /\ v4' = v4 /\ v5' = v5 /\ v6' = v6 /\ v8' = v8 /\ v9' = v9
    BY DEF Params!Select, Params!Chosen
  <1>2. /\ v5 \in Workspaces /\ t \in SettingThreads \cup {None} /\ <<v5, t>> \in Params!Scopes
        /\ v2 \in [Params!Scopes -> SettingValues \cup {Params!Absent, Params!Unset}]
    BY ParamsTyped DEF Params!Scopes
  <1>3. /\ v2' \in [Params!Scopes -> SettingValues \cup {Params!Absent, Params!Unset}] /\ v2'[<<v5, t>>] = v
        /\ \A s \in Params!Scopes : s # <<v5, t>> => v2'[s] = v2[s]
    BY <1>1, <1>2
  <1>4. /\ v10' \in Seq(Params!Sends) /\ Len(v10') = Len(v10)
        /\ \A i \in 1..Len(v10) : v10'[i] \in Params!Sends /\ v10'[i] = Params!Chosen(v, v10[i])
    <2>1. [i \in 1..Len(v10) |-> Params!Chosen(v, v10[i])] \in [1..Len(v10) -> Params!Sends] /\ Len(v10) \in Nat
      BY ParamsTyped, ParamsChosen
    <2> QED  BY <1>1, <2>1, ParamsSequence
  <1>5. \A i \in 1..Len(v10) : v10'[i].of = v10[i].of /\ v10'[i].thread = v10[i].thread
          /\ v10'[i].step = v10[i].step
    BY <1>4, ParamsTyped, ParamsChosen
  <1>6. Params!OwnCalls /\ Params!ListedAtHome /\ Params!SeededHave
    BY ParamsTyped
  <1>7. Params!OwnCalls' /\ Params!ListedAtHome'
    BY <1>1, <1>4, <1>5, <1>6 DEF Params!OwnCalls, Params!ListedAtHome
  <1>8. Params!SeededHave'
    <2>1. \A s \in v9 : s \in Params!Scopes /\ s[2] # None /\ v2[s] # Params!Absent
      BY <1>6, ParamsTyped DEF Params!SeededHave
    <2>2. \A s \in v9 : v2'[s] # Params!Absent
      BY <1>3, <2>1 DEF Params!Basis
    <2> QED  BY <1>1, <1>6, <2>1, <2>2 DEF Params!SeededHave
  <1>9. Params!DraftIsShown' /\ Params!ShownIsStored'
    <2>1. Params!DraftIsShown
      BY ParamsTyped
    <2>2. None \notin v11'
      BY <1>1, <2>1 DEF Params!DraftIsShown
    <2>3. Params!Resolve(v2', v3', v8', v5, t) = v /\ \A st, la, se : st[<<v5, t>>] = v =>
            Params!Resolve(st, la, se, v5, t) = v
      BY <1>3 DEF Params!Resolve
    <2>4. v1 = "model" => \A s \in Params!Scopes : v2'[s] # Params!Unset
      BY <1>3, <2>1 DEF Params!DraftIsShown, Params!Basis
    <2>5. (v1 = "model" => v7 = Params!Resolve(v2, v3, v8, v5, v6[v5]))'
      BY <1>1, <1>3 DEF Params!Resolve
    <2>6. (v6[v5] = None => v7 = Params!OfDraft(v5))'
      BY <1>1, <1>3 DEF Params!OfDraft
    <2>7. Params!ShownIsStored'
      BY <1>1, <1>3 DEF Params!ShownIsStored
    <2> QED  BY <1>1, <2>2, <2>4, <2>5, <2>6, <2>7 DEF Params!DraftIsShown
  <1>10. Params!TypeOK'
    <2>1. v12' \in [sends : 0..MaxDraftSends, steps : 0..MaxLooks]
      BY <1>1, ParamsBudget
    <2>2. v3' \in SettingValues /\ v11' \subseteq SettingThreads
      BY <1>1, ParamsTyped
    <2> QED  BY <1>1, <1>3, <1>4, <2>1, <2>2, ParamsTyped DEF Params!TypeOK, Params!Sends
  <1>11. ASSUME NEW i \in 1..Len(v10') PROVE Params!GivenAsSent(v10[i])'
    <2>1. v10[i] \in Params!Sends /\ v10'[i] \in Params!Sends /\ v10'[i] = Params!Chosen(v, v10[i])
            /\ Params!GivenAsSent(v10[i])
      BY <1>4, <1>11, ParamsTyped
    <2>2. v10[i].thread # None => v4[v10[i].thread] \in {None, v10[i].of}
      BY <1>4, <1>6, <1>11 DEF Params!ListedAtHome
    <2> QED  BY <2>1, <2>2, ParamsSelectCall
  <1>12. v10' \in Seq(Params!Sends) /\ Params!Looked'
    BY <1>4, <1>8, <1>9 DEF Params!Looked
  <1> QED  BY <1>7, <1>10, <1>11, <1>12, ParamsAgain

(* A message is sent: from a draft as it shows the draft.                    *)
LEMMA ParamsSendCall ==
    ASSUME Params!Basis, Params!IInv, NEW c \in Params!Sends, Params!GivenAsSent(c), NEW d \in Params!Sends,
           ParamsComesFrom(d, c), d.step = c.step,
           v1' = v1, v2' = v2, v5' = v5, v6' = v6, v7' = v7, v9' = v9,
           v8' = IF v6[v5] = None THEN [of |-> v5, value |-> v7] ELSE Params!NoSeed,
           ~d.lost /\ <<d.of, d.thread>> \notin v9' => v1 = "model" \/ v8'.of = d.of
    PROVE  Params!GivenAsSent(d)'
  <1>1. /\ d.of = c.of /\ d.values = c.values /\ d.thread = c.thread
        /\ c.of \in Workspaces /\ None \notin Workspaces
    BY DEF ParamsComesFrom, Params!Sends, Params!Basis
  <1>2. ~d.lost => ~c.lost
    BY DEF ParamsComesFrom
  <1>3. ASSUME ~d.lost, <<d.of, d.thread>> \notin v9', v1 # "model"
        PROVE  v8' = [of |-> v5, value |-> v7] /\ v6[v5] = None /\ c.of = v5
    <2>1. v8'.of = c.of
      BY <1>1, <1>3
    <2>2. Params!NoSeed.of = None
      BY DEF Params!NoSeed
    <2> QED  BY <1>1, <2>1, <2>2
  <1>4. ASSUME ~d.lost, <<d.of, d.thread>> \notin v9', v1 # "model"
        PROVE  v7 \in c.values /\ Params!OfDraft(v5) \in c.values
    <2>1. v7 = Params!OfDraft(v5)
      BY <1>3, <1>4, ParamsTyped DEF Params!DraftIsShown
    <2>2. CASE v8.of = c.of
      BY <1>1, <1>2, <1>3, <1>4, <2>1, <2>2, ParamsWaits
    <2>3. CASE v8.of # c.of
      BY <1>1, <1>2, <1>3, <1>4, <2>1, <2>3, ParamsWaits
    <2> QED  BY <2>2, <2>3
  <1>5. ~d.lost /\ <<d.of, d.thread>> \notin v9' /\ v1' # "model" /\ v8'.of = d.of =>
             /\ v8'.value \in d.values
             /\ (IF v2'[<<d.of, None>>] \in SettingValues THEN v2'[<<d.of, None>>] ELSE SettingDefault) \in d.values
    BY <1>1, <1>3, <1>4 DEF Params!OfDraft
  <1>6. ~d.lost /\ <<d.of, d.thread>> \notin v9' /\ ~(v1' # "model" /\ v8'.of = d.of) =>
             v1 = "model" /\ v5' = d.of /\ d.step # "done" /\ v7' \in d.values
    BY <1>1, <1>2, ParamsWaits
  <1>7. ~d.lost /\ <<d.of, d.thread>> \notin v9' /\ d.thread # None => v2'[<<d.of, d.thread>>] = Params!Absent
    BY <1>1, <1>2, ParamsWaits
  <1>8. d.thread # None /\ ~d.lost /\ v2'[<<d.of, d.thread>>] # Params!Absent =>
          v2'[<<d.of, d.thread>>] \in d.values
    BY <1>1, <1>2, ParamsWaits
  <1> QED  BY <1>5, <1>6, <1>7, <1>8, ParamsGiven

LEMMA ParamsDraft ==
    ASSUME Params!Basis, Params!IInv, v6[v5] = None,
           v1' = v1, v2' = v2, v5' = v5, v6' = v6, v7' = v7, v9' = v9,
           v8' = [of |-> v5, value |-> v7], NEW d \in Params!Sends, d = Params!Draft
    PROVE  Params!GivenAsSent(d)'
  <1>1. d.of = v5 /\ d.values = {v7} /\ d.thread = None /\ d.step = "queued"
    BY DEF Params!Draft
  <1>2. v1 # "model" => v7 = Params!OfDraft(v5)
    BY ParamsTyped DEF Params!DraftIsShown
  <1> QED  BY <1>1, <1>2, ParamsGiven DEF Params!OfDraft

LEMMA ParamsAppended ==
    ASSUME NEW S, NEW l \in Seq(S), NEW e \in S
    PROVE  /\ Append(l, e) \in Seq(S) /\ Len(Append(l, e)) = Len(l) + 1 /\ Append(l, e)[Len(l) + 1] = e
           /\ \A i \in 1..Len(l) : Append(l, e)[i] = l[i]
  OBVIOUS

LEMMA ParamsSend ==
    ASSUME Params!Basis, Params!IInv, Params!Send
    PROVE  Params!IInv'
  <1>1. /\ v1' = v1 /\ v2' = v2 /\ v3' = v3 /\ v4' = v4 /\ v5' = v5 /\ v6' = v6
        /\ v7' = v7 /\ v9' = v9 /\ v11' = v11
        /\ v8' = IF v6[v5] = None THEN [of |-> v5, value |-> v7] ELSE Params!NoSeed
        /\ v6[v5] = None => v10' = Append(Params!Lose(FALSE), Params!Draft) /\ v12.sends < MaxDraftSends
            /\ v12' = [v12 EXCEPT !.sends = @ + 1]
        /\ v6[v5] # None => v10' = Params!Lose(FALSE) /\ v12' = v12
    BY DEF Params!Send, Params!Draft
  <1>2. /\ Params!Lose(FALSE) \in Seq(Params!Sends) /\ Len(Params!Lose(FALSE)) = Len(v10)
        /\ \A i \in 1..Len(v10) :
             /\ Params!Lose(FALSE)[i] \in Params!Sends
             /\ Params!Lose(FALSE)[i].of = v10[i].of /\ Params!Lose(FALSE)[i].values = v10[i].values
             /\ Params!Lose(FALSE)[i].thread = v10[i].thread /\ Params!Lose(FALSE)[i].step = v10[i].step
             /\ ~Params!Lose(FALSE)[i].lost =>
                  /\ ~v10[i].lost
                  /\ <<v10[i].of, v10[i].thread>> \in v9' \/ (IF v1 = "model" THEN TRUE ELSE v8'.of = v10[i].of)
    BY ParamsLose
  <1>3. Params!Draft \in Params!Sends /\ Params!Draft.thread = None /\ Params!Draft.step = "queued"
    <2>1. v5 \in Workspaces /\ {v7} \in SUBSET SettingValues
      BY ParamsTyped
    <2> QED  BY <2>1 DEF Params!Draft, Params!Sends
  <1>4. /\ v10' \in Seq(Params!Sends) /\ Len(v10') \in {Len(v10), Len(v10) + 1} /\ Len(v10) \in Nat
        /\ v6[v5] # None => Len(v10') = Len(v10)
        /\ \A i \in 1..Len(v10) : v10'[i] = Params!Lose(FALSE)[i]
        /\ Len(v10') = Len(v10) + 1 => v10'[Len(v10) + 1] = Params!Draft
    <2>1. Len(v10) \in Nat
      BY ParamsTyped
    <2>2. Params!Lose(FALSE) \in Seq(Params!Sends) /\ Len(Params!Lose(FALSE)) = Len(v10)
      BY <1>2
    <2>3. PICK l \in Seq(Params!Sends) : l = Params!Lose(FALSE)
      BY <2>2
    <2>4. Len(l) = Len(v10) /\ Len(l) \in Nat
      BY <2>1, <2>2, <2>3
    <2>5. CASE v6[v5] = None
      <3>1. v10' = Append(l, Params!Draft)
        BY <1>1, <2>3, <2>5
      <3>2. v10' \in Seq(Params!Sends) /\ Len(v10') = Len(l) + 1 /\ v10'[Len(l) + 1] = Params!Draft
            /\ \A i \in 1..Len(l) : v10'[i] = l[i]
        BY <1>3, <3>1, ParamsAppended
      <3>3. Len(v10') \in {Len(v10), Len(v10) + 1} /\ Len(v10') # Len(v10)
        BY <2>1, <2>4, <3>2
      <3> QED  BY <2>1, <2>3, <2>4, <2>5, <3>2, <3>3
    <2>6. CASE v6[v5] # None
      <3>1. v10' = l
        BY <1>1, <2>3, <2>6
      <3>2. v10' \in Seq(Params!Sends) /\ Len(v10') = Len(v10) /\ Len(v10') # Len(v10) + 1
        BY <2>1, <2>4, <3>1
      <3>3. Len(v10') \in {Len(v10), Len(v10) + 1}
        BY <3>2
      <3> QED  BY <2>1, <2>3, <3>1, <3>2, <3>3
    <2> QED  BY <2>5, <2>6
  <1>5. Params!OwnCalls /\ Params!ListedAtHome /\ Params!SeededHave /\ Params!DraftIsShown
          /\ Params!ShownIsStored
    BY ParamsTyped
  <1>6. ASSUME NEW i \in 1..Len(v10')
        PROVE  \/ i \in 1..Len(v10) /\ v10'[i].thread = v10[i].thread /\ v10'[i].of = v10[i].of
                                     /\ v10'[i].step = v10[i].step
               \/ v10'[i].thread = None /\ v10'[i].step = "queued"
    <2>1. CASE i \in 1..Len(v10)
      BY <1>2, <1>4, <2>1
    <2>2. CASE i \notin 1..Len(v10)
      <3>1. i = Len(v10) + 1 /\ Len(v10') = Len(v10) + 1
        BY <1>4, <1>6, <2>2
      <3> QED  BY <1>3, <1>4, <3>1
    <2> QED  BY <2>1, <2>2
  <1>7. Params!OwnCalls' /\ Params!ListedAtHome'
    BY <1>1, <1>5, <1>6 DEF Params!OwnCalls, Params!ListedAtHome
  <1>8. Params!SeededHave' /\ Params!DraftIsShown' /\ Params!ShownIsStored'
    BY <1>1, <1>5 DEF Params!SeededHave, Params!DraftIsShown, Params!ShownIsStored, Params!OfDraft,
           Params!Resolve
  <1>9. Params!TypeOK'
    <2>1. v8' \in [of : Workspaces \cup {None}, value : SettingValues]
      BY <1>1, ParamsTyped DEF Params!NoSeed, Params!Basis
    <2>2. v12' \in [sends : 0..MaxDraftSends, steps : 0..MaxLooks]
      <3>1. v12 \in [sends : 0..MaxDraftSends, steps : 0..MaxLooks] /\ MaxDraftSends \in Nat
        BY ParamsTyped DEF Params!Basis
      <3>2. CASE v6[v5] = None
        BY <1>1, <3>1, <3>2
      <3>3. CASE v6[v5] # None
        BY <1>1, <3>1, <3>3
      <3> QED  BY <3>2, <3>3
    <2>3. \A i \in 1..Len(v10') : v10'[i] \in Params!Sends
      BY <1>4
    <2>4. v1' \in Params!Kinds /\ v2' \in [Params!Scopes -> SettingValues \cup {Params!Absent, Params!Unset}]
            /\ v3' \in SettingValues /\ v7' \in SettingValues
          /\ v4' \in [SettingThreads -> Workspaces \cup {None}] /\ v5' \in Workspaces
          /\ v6' \in [Workspaces -> SettingThreads \cup {None}] /\ v9' \subseteq Params!Scopes
              /\ v11' \subseteq SettingThreads
      BY <1>1, ParamsTyped
    <2> QED  BY <2>1, <2>2, <2>3, <2>4 DEF Params!TypeOK, Params!Sends
  <1>10. ASSUME NEW i \in 1..Len(v10') PROVE Params!GivenAsSent(v10[i])'
    <2>1. CASE i \in 1..Len(v10)
      <3>1. v10[i] \in Params!Sends /\ v10'[i] \in Params!Sends /\ Params!GivenAsSent(v10[i])
              /\ v10'[i] = Params!Lose(FALSE)[i]
        BY <1>2, <1>4, <2>1, ParamsTyped
      <3>2. ParamsComesFrom(v10'[i], v10[i]) /\ v10'[i].step = v10[i].step
        BY <1>2, <2>1, <3>1 DEF ParamsComesFrom
      <3>3. ~v10'[i].lost /\ <<v10'[i].of, v10'[i].thread>> \notin v9' => v1 = "model" \/ v8'.of = v10'[i].of
        BY <1>2, <2>1, <3>1
      <3> QED  BY <1>1, <3>1, <3>2, <3>3, ParamsSendCall
    <2>2. CASE i \notin 1..Len(v10)
      <3>1. i = Len(v10) + 1 /\ Len(v10') = Len(v10) + 1
        BY <1>4, <1>10, <2>2
      <3>2. v6[v5] = None /\ v10'[i] = Params!Draft /\ v10'[i] \in Params!Sends
        BY <1>3, <1>4, <3>1
      <3> QED  BY <1>1, <3>2, ParamsDraft
    <2> QED  BY <2>1, <2>2
  <1> QED  BY <1>4, <1>7, <1>8, <1>9, <1>10, ParamsAgain DEF Params!Looked

----------------------------------------------------------------------------
(* The steps of a call: nothing else changes, and none is done.              *)
LEMMA ParamsCalls ==
    ASSUME Params!Basis, Params!IInv, Params!NoChange, NEW i \in 1..Len(v10), NEW d \in Params!Sends,
           v10' = [v10 EXCEPT ![i] = d],
           d.of = v10[i].of, d.values = v10[i].values, d.lost = v10[i].lost, d.step # "done",
           d.thread = None <=> d.step \in {"queued", "asked", "failed"},
           \/ d.thread = v10[i].thread
           \/ /\ v10[i].thread = None /\ v4[d.thread] = None
               /\ \A w \in Workspaces : v2[<<w, d.thread>>] = Params!Absent
              /\ \A j \in 1..Len(v10) : v10[j].thread # d.thread
    PROVE  Params!IInv'
  <1>1. /\ v1' = v1 /\ v2' = v2 /\ v3' = v3 /\ v4' = v4 /\ v5' = v5 /\ v6' = v6
        /\ v7' = v7 /\ v9' = v9 /\ v11' = v11 /\ v8' = v8 /\ v12' = v12
    BY DEF Params!NoChange
  <1>2. v10 \in Seq(Params!Sends)
    BY ParamsTyped
  <1>3. v10' \in Seq(Params!Sends) /\ Len(v10') = Len(v10)
          /\ \A j \in 1..Len(v10) : v10'[j] = IF j = i THEN d ELSE v10[j]
    BY <1>2
  <1>4. Params!OwnCalls /\ Params!ListedAtHome /\ Params!SeededHave /\ Params!DraftIsShown
          /\ Params!ShownIsStored
    BY ParamsTyped
  <1>5. Params!OwnCalls'
    BY <1>3, <1>4 DEF Params!OwnCalls
  <1>6. Params!ListedAtHome'
    BY <1>1, <1>3, <1>4 DEF Params!ListedAtHome
  <1>7. Params!SeededHave' /\ Params!DraftIsShown' /\ Params!ShownIsStored'
    BY <1>1, <1>4 DEF Params!SeededHave, Params!DraftIsShown, Params!ShownIsStored, Params!OfDraft,
           Params!Resolve
  <1>8. Params!TypeOK'
    BY <1>1, <1>3, ParamsTyped DEF Params!TypeOK, Params!Sends
  <1>9. ASSUME NEW j \in 1..Len(v10'), j # i PROVE Params!GivenAsSent(v10[j])'
    <2>1. v10'[j] = v10[j] /\ Params!GivenAsSent(v10[j])
      BY <1>3, <1>9, ParamsTyped
    <2> QED  BY <1>1, <2>1 DEF Params!GivenAsSent, Params!Unseeded, Params!WillBeSeeded, Params!OfDraft
  <1>10. Params!GivenAsSent(d)'
    <2>1. v10[i] \in Params!Sends /\ Params!GivenAsSent(v10[i])
      BY ParamsTyped
    <2>2. ASSUME d.thread # v10[i].thread
          PROVE  v2[<<d.of, d.thread>>] = Params!Absent /\ <<d.of, d.thread>> \notin v9
      BY <1>4, <2>1, <2>2 DEF Params!SeededHave, Params!Sends
    <2>3. ASSUME d.thread # v10[i].thread PROVE <<v10[i].of, v10[i].thread>> \notin v9
      <3>1. v10[i].thread = None
        BY <2>3
      <3>2. \A s \in v9 : s[2] # None
        BY <1>4 DEF Params!SeededHave
      <3> QED  BY <3>1, <3>2
    <2>4. ~d.lost /\ <<d.of, d.thread>> \notin v9 => ~v10[i].lost /\ <<v10[i].of, v10[i].thread>> \notin v9
      BY <2>3
    <2>5. ~d.lost /\ <<d.of, d.thread>> \notin v9' /\ v1' # "model" /\ v8'.of = d.of =>
             /\ v8'.value \in d.values
             /\ (IF v2'[<<d.of, None>>] \in SettingValues THEN v2'[<<d.of, None>>] ELSE SettingDefault) \in d.values
      BY <1>1, <2>1, <2>4, ParamsWaits DEF Params!OfDraft
    <2>6. ~d.lost /\ <<d.of, d.thread>> \notin v9' /\ ~(v1' # "model" /\ v8'.of = d.of) =>
             /\ v5' = d.of /\ d.step # "done" /\ v7' \in d.values
             /\ v1' # "model" => v6'[v5'] # None /\ v2'[<<v5', v6'[v5']>>] \in d.values
      BY <1>1, <2>1, <2>4, ParamsWaits
    <2>7. ~d.lost /\ <<d.of, d.thread>> \notin v9' /\ d.thread # None => v2'[<<d.of, d.thread>>] = Params!Absent
      BY <1>1, <2>1, <2>2, <2>4, ParamsWaits
    <2>8. d.thread # None /\ ~d.lost /\ v2'[<<d.of, d.thread>>] # Params!Absent =>
            v2'[<<d.of, d.thread>>] \in d.values
      BY <1>1, <2>1, <2>2, ParamsWaits
    <2> QED  BY <2>5, <2>6, <2>7, <2>8, ParamsGiven
  <1>11. ASSUME NEW j \in 1..Len(v10') PROVE Params!GivenAsSent(v10[j])'
    <2>1. CASE j = i
      <3>1. v10'[j] = d
        BY <1>3, <2>1
      <3> QED  BY <1>10, <3>1
    <2>2. CASE j # i
      BY <1>9, <2>2
    <2> QED  BY <2>1, <2>2
  <1> QED  BY <1>3, <1>5, <1>6, <1>7, <1>8, <1>11, ParamsAgain DEF Params!Looked

LEMMA ParamsSteps ==
    ASSUME Params!Basis, Params!IInv, NEW i \in 1..Len(v10),
           Params!Starts(i) \/ Params!Fails(i) \/ Params!Makes(i)
    PROVE  Params!IInv'
  <1>1. v10 \in Seq(Params!Sends) /\ v10[i] \in Params!Sends /\ Params!NoChange
    BY ParamsTyped DEF Params!Starts, Params!Fails, Params!Makes
  <1>2. v10[i].thread = None <=> v10[i].step \in {"queued", "asked", "failed"}
    BY ParamsTyped DEF Params!OwnCalls, Params!SeededHave
  <1>3. CASE Params!Starts(i)
    <2> DEFINE d == [v10[i] EXCEPT !.step = "asked"]
    <2>1. v10' = [v10 EXCEPT ![i] = d] /\ v10[i].step = "queued"
      BY <1>1, <1>3 DEF Params!Starts
    <2>2. d \in Params!Sends /\ d.of = v10[i].of /\ d.values = v10[i].values /\ d.lost = v10[i].lost
          /\ d.step = "asked" /\ d.thread = v10[i].thread
      BY <1>1 DEF Params!Sends
    <2> HIDE DEF d
    <2> QED  BY <1>1, <1>2, <2>1, <2>2, ParamsCalls
  <1>4. CASE Params!Fails(i)
    <2> DEFINE d == [v10[i] EXCEPT !.step = "failed"]
    <2>1. v10' = [v10 EXCEPT ![i] = d] /\ v10[i].step = "asked"
      BY <1>1, <1>4 DEF Params!Fails
    <2>2. d \in Params!Sends /\ d.of = v10[i].of /\ d.values = v10[i].values /\ d.lost = v10[i].lost
          /\ d.step = "failed" /\ d.thread = v10[i].thread
      BY <1>1 DEF Params!Sends
    <2> HIDE DEF d
    <2> QED  BY <1>1, <1>2, <2>1, <2>2, ParamsCalls
  <1>5. CASE Params!Makes(i)
    <2> DEFINE new == CHOOSE t \in Params!Unmade : TRUE
               d == [v10[i] EXCEPT !.step = "made", !.thread = new]
    <2>1. v10' = [v10 EXCEPT ![i].step = "made", ![i].thread = new] /\ v10[i].step = "asked"
            /\ new \in Params!Unmade
      BY <1>5 DEF Params!Makes
    <2>2. new \in SettingThreads /\ v4[new] = None /\ ~Params!Begun(new)
            /\ \A w \in Workspaces : v2[<<w, new>>] = Params!Absent
      BY <2>1 DEF Params!Unmade
    <2> HIDE DEF new
    <2>3. v10' = [v10 EXCEPT ![i] = d]
      BY <1>1, <2>1
    <2>4. d \in Params!Sends /\ d.of = v10[i].of /\ d.values = v10[i].values /\ d.lost = v10[i].lost
          /\ d.step = "made" /\ d.thread = new
      BY <1>1, <2>2 DEF Params!Sends
    <2>5. new # None /\ v10[i].thread = None /\ \A j \in 1..Len(v10) : v10[j].thread # new
      BY <1>2, <2>1, <2>2 DEF Params!Begun, Params!Basis
    <2> HIDE DEF d
    <2> QED  BY <1>1, <2>2, <2>3, <2>4, <2>5, ParamsCalls
  <1> QED  BY <1>3, <1>4, <1>5

(* A listing or an answer shows what a thread was used with: it is not the    *)
(* one looked at.                                                          *)
LEMMA ParamsMetadataCall ==
    ASSUME Params!Basis, Params!IInv, NEW w \in Workspaces, NEW t \in SettingThreads,
           NEW v \in SettingValues \cup {Params!Unset},
           v2' = [v2 EXCEPT ![<<w, t>>] = v], <<w, t>> # <<v5, v6[v5]>>,
           v7' = IF v1 = "mode" THEN v7 ELSE Params!Resolve(v2', v3, v8, v5, v6[v5]),
           v1' = v1, v5' = v5, v6' = v6, v8' = v8, v9' = v9,
           NEW c \in Params!Sends, Params!GivenAsSent(c), NEW d \in Params!Sends, ParamsComesFrom(d, c),
           d.step = c.step, c.thread = t => d.lost
    PROVE  Params!GivenAsSent(d)'
  <1>1. d.of = c.of /\ d.values = c.values /\ d.thread = c.thread /\ c.of \in Workspaces
          /\ c.thread \in SettingThreads \cup {None}
    BY DEF ParamsComesFrom, Params!Sends
  <1>2. ~d.lost => ~c.lost
    BY DEF ParamsComesFrom
  <1>3. /\ v2 \in [Params!Scopes -> SettingValues \cup {Params!Absent, Params!Unset}]
            /\ v6[v5] \in SettingThreads \cup {None} /\ v5 \in Workspaces
        /\ None \notin SettingThreads
    BY ParamsTyped DEF Params!Basis
  <1>4. v2'[<<v5, v6[v5]>>] = v2[<<v5, v6[v5]>>]
    BY <1>3 DEF Params!Scopes
  <1>5. \A x \in Workspaces : v2'[<<x, None>>] = v2[<<x, None>>]
    BY <1>3 DEF Params!Scopes
  <1>6. ~d.lost => v2'[<<c.of, c.thread>>] = v2[<<c.of, c.thread>>]
    BY <1>1, <1>3 DEF Params!Scopes
  <1>7. ASSUME ~d.lost, <<d.of, d.thread>> \notin v9', ~(v1' # "model" /\ v8'.of = d.of)
        PROVE  v7' \in d.values /\ v5 = c.of /\ c.step # "done"
               /\ (v1 # "model" => v6[v5] # None /\ v2[<<v5, v6[v5]>>] \in d.values)
    <2>1. /\ v5 = c.of /\ c.step # "done" /\ v7 \in c.values
          /\ (v1 # "model" => v6[v5] # None /\ v2[<<v5, v6[v5]>>] \in c.values)
      BY <1>1, <1>2, <1>7, ParamsWaits
    <2>2. CASE v1 = "mode"
      BY <1>1, <2>1, <2>2
    <2>3. CASE v1 = "model"
      <3>1. v7' = Params!Resolve(v2', v3, v8, v5, v6[v5]) /\ v7 = Params!Resolve(v2, v3, v8, v5, v6[v5])
        BY <2>3, ParamsTyped DEF Params!DraftIsShown
      <3>2. v7' = v7
        BY <1>4, <2>3, <3>1 DEF Params!Resolve
      <3> QED  BY <1>1, <2>1, <3>2
    <2>4. CASE v1 \notin {"mode", "model"}
      <3>1. v2'[<<v5, v6[v5]>>] \in SettingValues
        BY <1>4, <2>1, <2>4 DEF Params!Sends
      <3>2. v7' = v2'[<<v5, v6[v5]>>]
        BY <2>4, <3>1, ParamsResolves
      <3> QED  BY <1>1, <1>4, <2>1, <2>4, <3>2
    <2> QED  BY <2>2, <2>3, <2>4
  <1>8. ~d.lost /\ <<d.of, d.thread>> \notin v9' /\ v1' # "model" /\ v8'.of = d.of =>
             /\ v8'.value \in d.values
             /\ (IF v2'[<<d.of, None>>] \in SettingValues THEN v2'[<<d.of, None>>] ELSE SettingDefault) \in d.values
    BY <1>1, <1>2, <1>5, ParamsWaits DEF Params!OfDraft
  <1>9. ~d.lost /\ <<d.of, d.thread>> \notin v9' /\ d.thread # None => v2'[<<d.of, d.thread>>] = Params!Absent
    BY <1>1, <1>2, <1>6, ParamsWaits
  <1>10. d.thread # None /\ ~d.lost /\ v2'[<<d.of, d.thread>>] # Params!Absent =>
          v2'[<<d.of, d.thread>>] \in d.values
    BY <1>1, <1>2, <1>6, ParamsWaits
  <1> QED  BY <1>1, <1>4, <1>7, <1>8, <1>9, <1>10, ParamsGiven

LEMMA ParamsMetadata ==
    ASSUME Params!Basis, Params!IInv, NEW t \in SettingThreads, NEW w \in Workspaces, NEW m \in Params!Detected,
           Params!Metadata(t, w, m)
    PROVE  Params!IInv'
  <1> DEFINE e(i) == [v10[i] EXCEPT !.lost = @ \/ v10[i].thread = t]
  <1>1. /\ v2[<<w, t>>] = Params!Absent \/ (v1 = "model" /\ v2[<<w, t>>] = Params!Unset)
        /\ v1' = v1 /\ v3' = v3 /\ v4' = v4 /\ v5' = v5 /\ v6' = v6 /\ v8' = v8
        /\ v9' = v9 /\ v11' = v11 /\ v12' = v12
        /\ v10' = [i \in 1..Len(v10) |-> e(i)]
    BY DEF Params!Metadata
  <1>2. PICK v \in SettingValues \cup {Params!Unset} : /\ v2' = [v2 EXCEPT ![<<w, t>>] = v]
                                                       /\ v1 = "model" => v # Params!Unset
                                                       /\ v7' = Params!Followed(v2')
    <2> DEFINE x == CASE v1 = "model" -> m [] v1 = "args" -> SettingDefault [] OTHER -> Params!Unset
    <2>1. v2' = [v2 EXCEPT ![<<w, t>>] = x] /\ v7' = Params!Followed([v2 EXCEPT ![<<w, t>>] = x])
      BY DEF Params!Metadata, Params!Rerender
    <2>2. x \in SettingValues \cup {Params!Unset} /\ (v1 = "model" => x \in SettingValues)
      BY DEF Params!Basis, Params!Detected
    <2>3. v1 = "model" => x # Params!Unset
      BY <2>2 DEF Params!Basis
    <2> HIDE DEF x
    <2> QED  BY <2>1, <2>2, <2>3
  <1>3. v7' = IF v1 = "mode" THEN v7 ELSE Params!Resolve(v2', v3, v8, v5, v6[v5])
    BY <1>2 DEF Params!Followed
  <1>4. Params!OwnCalls /\ Params!ListedAtHome /\ Params!SeededHave /\ Params!DraftIsShown
          /\ Params!ShownIsStored
    BY ParamsTyped
  <1>5. /\ v2 \in [Params!Scopes -> SettingValues \cup {Params!Absent, Params!Unset}]
            /\ v6[v5] \in SettingThreads \cup {None} /\ v5 \in Workspaces
        /\ None \notin SettingThreads /\ v9 \subseteq Params!Scopes /\ v7 \in SettingValues
            /\ v8.value \in SettingValues
    BY ParamsTyped DEF Params!Basis
  <1>6. <<w, t>> # <<v5, v6[v5]>>
    <2> SUFFICES ASSUME w = v5, t = v6[v5] PROVE FALSE
      OBVIOUS
    <2>1. <<v5, v6[v5]>> \in v9
      BY <1>4, <1>5 DEF Params!SeededHave
    <2>2. v2[<<v5, v6[v5]>>] # Params!Absent
      BY <1>4, <2>1 DEF Params!SeededHave
    <2>3. v1 = "model" => v2[<<v5, v6[v5]>>] # Params!Unset
      BY <1>4, <1>5 DEF Params!DraftIsShown, Params!Scopes
    <2> QED  BY <1>1, <2>2, <2>3
  <1>7. /\ v2' \in [Params!Scopes -> SettingValues \cup {Params!Absent, Params!Unset}] /\ v2'[<<w, t>>] = v
        /\ \A s \in Params!Scopes : s # <<w, t>> => v2'[s] = v2[s]
    BY <1>2, <1>5 DEF Params!Scopes
  <1>8. v10' \in Seq(Params!Sends) /\ Len(v10') = Len(v10)
        /\ \A i \in 1..Len(v10) : /\ v10'[i] \in Params!Sends /\ ParamsComesFrom(v10'[i], v10[i])
                                      /\ v10'[i].step = v10[i].step
                                  /\ v10[i].thread = t => v10'[i].lost
    <2>1. \A i \in 1..Len(v10) : v10[i] \in Params!Sends /\ Len(v10) \in Nat
      BY ParamsTyped
    <2>2. ASSUME NEW i \in 1..Len(v10)
          PROVE e(i) \in Params!Sends /\ ParamsComesFrom(e(i), v10[i]) /\ e(i).step = v10[i].step
                  /\ (v10[i].thread = t => e(i).lost)
      <3>1. (v10[i].lost \/ v10[i].thread = t) \in BOOLEAN /\ v10[i] \in Params!Sends
        BY <2>1
      <3>2. PICK b \in BOOLEAN : b = (v10[i].lost \/ v10[i].thread = t)
        BY <3>1
      <3>3. e(i) = [v10[i] EXCEPT !.lost = b]
        BY <3>1, <3>2 DEF Params!Sends
      <3> HIDE DEF e
      <3>4. e(i) \in Params!Sends /\ e(i).of = v10[i].of /\ e(i).values = v10[i].values
              /\ e(i).thread = v10[i].thread
            /\ e(i).step = v10[i].step /\ e(i).lost = b
        BY <3>1, <3>3 DEF Params!Sends
      <3> QED  BY <3>1, <3>2, <3>4 DEF ParamsComesFrom
    <2> HIDE DEF e
    <2>3. [i \in 1..Len(v10) |-> e(i)] \in [1..Len(v10) -> Params!Sends] /\ Len(v10) \in Nat
      BY <2>2, ParamsTyped
    <2>4. v10' \in Seq(Params!Sends) /\ Len(v10') = Len(v10)
      BY <1>1, <2>3, ParamsSequence
    <2>5. \A i \in 1..Len(v10) : v10'[i] = e(i)
      BY <1>1
    <2> QED  BY <2>2, <2>4, <2>5
  <1>9. Params!OwnCalls' /\ Params!ListedAtHome'
    BY <1>1, <1>4, <1>8 DEF Params!OwnCalls, Params!ListedAtHome, ParamsComesFrom
  <1>10. Params!SeededHave'
    <2>1. v # Params!Absent
      BY DEF Params!Basis, Params!Absent, Params!Unset
    <2> QED  BY <1>1, <1>4, <1>5, <1>7, <2>1 DEF Params!SeededHave
  <1>11. v2'[<<v5, v6[v5]>>] = v2[<<v5, v6[v5]>>] /\ v2'[<<v5, None>>] = v2[<<v5, None>>]
    BY <1>5, <1>6, <1>7 DEF Params!Scopes
  <1>12. Params!DraftIsShown'
    <2>1. v1 = "model" => \A s \in Params!Scopes : v2'[s] # Params!Unset
      BY <1>2, <1>4, <1>7 DEF Params!DraftIsShown
    <2>2. v1 = "model" => v7' = Params!Resolve(v2', v3, v8, v5, v6[v5])
      BY <1>3
    <2>3. v1 # "model" /\ v6[v5] = None =>
            v7' = (IF v2'[<<v5, None>>] \in SettingValues THEN v2'[<<v5, None>>] ELSE SettingDefault)
      <3>1. v1 = "mode" /\ v6[v5] = None => v7' = v7
              /\ v7 = (IF v2[<<v5, None>>] \in SettingValues THEN v2[<<v5, None>>] ELSE SettingDefault)
        BY <1>3, <1>4 DEF Params!DraftIsShown, Params!OfDraft
      <3>2. v1 \notin {"mode", "model"} /\ v6[v5] = None => v7' = Params!Resolve(v2', v3, v8, v5, None)
        BY <1>3
      <3>3. v1 \notin {"mode", "model"} /\ v6[v5] = None =>
              v7' = (IF v2'[<<v5, None>>] \in SettingValues THEN v2'[<<v5, None>>] ELSE SettingDefault)
        BY <3>2, ParamsResolves
      <3> QED  BY <1>11, <3>1, <3>3
    <2>4. None \notin v11'
      BY <1>1, <1>4 DEF Params!DraftIsShown
    <2>5. (v1 = "model" => v7 = Params!Resolve(v2, v3, v8, v5, v6[v5]))'
      BY <1>1, <2>2 DEF Params!Resolve
    <2> QED  BY <1>1, <2>1, <2>3, <2>4, <2>5 DEF Params!DraftIsShown, Params!OfDraft
  <1>13. Params!ShownIsStored'
    <2> SUFFICES ASSUME v2[<<v5, v6[v5]>>] \in SettingValues, v6[v5] \notin v11
                 PROVE  v7' = v2[<<v5, v6[v5]>>]
      BY <1>1, <1>11 DEF Params!ShownIsStored
    <2>1. v7 = v2[<<v5, v6[v5]>>]
      BY <1>4 DEF Params!ShownIsStored
    <2> QED  BY <1>3, <1>11, <2>1, ParamsResolves
  <1>14. Params!TypeOK'
    <2>1. v7' \in SettingValues
      BY <1>3, <1>5, ParamsResolved
    <2>2. \A i \in 1..Len(v10') : v10'[i] \in Params!Sends
      BY <1>8
    <2>3. /\ v1' \in Params!Kinds /\ v3' \in SettingValues
              /\ v4' \in [SettingThreads -> Workspaces \cup {None}] /\ v5' \in Workspaces
          /\ v6' \in [Workspaces -> SettingThreads \cup {None}] /\ v9' \subseteq Params!Scopes
              /\ v11' \subseteq SettingThreads
          /\ v8' \in [of : Workspaces \cup {None}, value : SettingValues]
          /\ v12' \in [sends : 0..MaxDraftSends, steps : 0..MaxLooks]
      BY <1>1, ParamsTyped
    <2> QED  BY <1>7, <2>1, <2>2, <2>3 DEF Params!TypeOK, Params!Sends
  <1>15. ASSUME NEW i \in 1..Len(v10') PROVE Params!GivenAsSent(v10[i])'
    <2>1. v10[i] \in Params!Sends /\ v10'[i] \in Params!Sends /\ Params!GivenAsSent(v10[i])
            /\ ParamsComesFrom(v10'[i], v10[i])
          /\ v10'[i].step = v10[i].step /\ (v10[i].thread = t => v10'[i].lost)
      BY <1>8, <1>15, ParamsTyped
    <2> QED  BY <1>1, <1>2, <1>3, <1>6, <2>1, ParamsMetadataCall
  <1> QED  BY <1>8, <1>9, <1>10, <1>12, <1>13, <1>14, <1>15, ParamsAgain DEF Params!Looked

----------------------------------------------------------------------------
(* A thread comes to the front of a workspace.                              *)
LEMMA ParamsAway ==
    ASSUME Params!Basis, Params!IInv, NEW w \in Workspaces, w # v5, NEW t \in SettingThreads \cup {None},
           v6' = [v6 EXCEPT ![w] = t], UNCHANGED <<v1, v2, v3, v5, v7, v8, v9, v11>>
    PROVE  /\ Params!Looked' /\ v6'[v5] = v6[v5]
           /\ \A c, d \in Params!Sends : Params!GivenAsSent(c) /\ ParamsComesFrom(d, c)
               /\ (d.step = c.step \/ d.of = w) => Params!GivenAsSent(d)'
  <1>1. /\ v1' = v1 /\ v2' = v2 /\ v3' = v3 /\ v5' = v5 /\ v7' = v7 /\ v8' = v8
        /\ v9' = v9 /\ v11' = v11
    OBVIOUS
  <1>2. v6'[v5] = v6[v5]
    BY ParamsTyped
  <1>3. Params!Looked'
    <2>1. Params!DraftIsShown /\ Params!ShownIsStored /\ Params!SeededHave
      BY ParamsTyped
    <2> QED  BY <1>1, <1>2, <2>1 DEF Params!Looked, Params!DraftIsShown, Params!ShownIsStored,
           Params!SeededHave, Params!OfDraft, Params!Resolve
  <1>4. ASSUME NEW c \in Params!Sends, NEW d \in Params!Sends, Params!GivenAsSent(c), ParamsComesFrom(d, c),
                d.step = c.step \/ d.of = w
        PROVE Params!GivenAsSent(d)'
    <2>1. d.of = c.of /\ d.values = c.values /\ d.thread = c.thread
      BY <1>4 DEF ParamsComesFrom
    <2>2. ~d.lost => ~c.lost
      BY <1>4 DEF ParamsComesFrom
    <2>3. ~d.lost /\ <<d.of, d.thread>> \notin v9' /\ v1' # "model" /\ v8'.of = d.of =>
             /\ v8'.value \in d.values
             /\ (IF v2'[<<d.of, None>>] \in SettingValues THEN v2'[<<d.of, None>>] ELSE SettingDefault) \in d.values
      BY <1>1, <1>4, <2>1, <2>2, ParamsWaits DEF Params!OfDraft
    <2>4. ~d.lost /\ <<d.of, d.thread>> \notin v9' /\ ~(v1' # "model" /\ v8'.of = d.of) =>
             /\ v5' = d.of /\ d.step # "done" /\ v7' \in d.values
             /\ v1' # "model" => v6'[v5'] # None /\ v2'[<<v5', v6'[v5']>>] \in d.values
      BY <1>1, <1>2, <1>4, <2>1, <2>2, ParamsWaits
    <2>5. ~d.lost /\ <<d.of, d.thread>> \notin v9' /\ d.thread # None => v2'[<<d.of, d.thread>>] = Params!Absent
      BY <1>1, <1>4, <2>1, <2>2, ParamsWaits
    <2>6. d.thread # None /\ ~d.lost /\ v2'[<<d.of, d.thread>>] # Params!Absent =>
            v2'[<<d.of, d.thread>>] \in d.values
      BY <1>1, <1>4, <2>1, <2>2, ParamsWaits
    <2> QED  BY <2>3, <2>4, <2>5, <2>6, ParamsGiven
  <1> QED  BY <1>2, <1>3, <1>4

(* What a send may still be given when t comes to the front of the workspace *)
(* the user looks at.                                                      *)
ParamsKept(t, c, d) ==
    \/ v1 # "model" /\ v8'.of = d.of
    \/ /\ t # None /\ d.step # "done" /\ c.step # "done" /\ v6[v5] \in {None, t}
       /\ \E j \in 1..Len(v10) : /\ v10[j].thread = t /\ ~v10[j].lost /\ v10[j].of = v5
                                 /\ v10[j].values = c.values

LEMMA ParamsFronts ==
    ASSUME Params!Basis, Params!IInv, NEW w \in Workspaces, NEW t \in SettingThreads \cup {None},
           Params!Fronts(w, t),
           v1' = v1, v3' = v3, v10' \in Seq(Params!Sends), Len(v10') = Len(v10),
           \A i \in 1..Len(v10) :
             /\ ParamsComesFrom(v10'[i], v10[i])
             /\ w # v5 => v10'[i].step = v10[i].step \/ v10'[i].of = w
             /\ w = v5 /\ ~v10'[i].lost /\ <<v10'[i].of, v10'[i].thread>> \notin v9' =>
                  ParamsKept(t, v10[i], v10'[i]),
           Params!OwnCalls', Params!ListedAtHome', v4' \in [SettingThreads -> Workspaces \cup {None}],
           v12' \in [sends : 0..MaxDraftSends, steps : 0..MaxLooks]
    PROVE  Params!IInv'
  <1>1. \A i \in 1..Len(v10') : v10'[i] \in Params!Sends /\ i \in 1..Len(v10) /\ v10[i] \in Params!Sends
          /\ Params!GivenAsSent(v10[i])
    BY ParamsTyped
  <1>2. v1' \in Params!Kinds /\ v3' \in SettingValues
    BY ParamsTyped
  <1>3. CASE w = v5
    <2>1. Params!Looks(w, t)
      BY <1>3 DEF Params!Fronts
    <2>2. Params!Looked'
      BY <2>1, ParamsLooked
    <2>3. Params!TypeOK'
      BY <1>1, <1>2, <2>1, ParamsLooksTyped DEF Params!TypeOK, Params!Sends
    <2>4. ASSUME NEW i \in 1..Len(v10') PROVE Params!GivenAsSent(v10[i])'
      <3>1. /\ v10'[i] \in Params!Sends /\ v10[i] \in Params!Sends /\ Params!GivenAsSent(v10[i])
                /\ ParamsComesFrom(v10'[i], v10[i])
            /\ ~v10'[i].lost /\ <<v10'[i].of, v10'[i].thread>> \notin v9' => ParamsKept(t, v10[i], v10'[i])
        BY <1>1, <1>3, <2>4
      <3> QED  BY <1>3, <2>1, <3>1, ParamsLooksCall DEF ParamsKept
    <2> QED  BY <2>2, <2>3, <2>4, ParamsAgain
  <1>4. CASE w # v5
    <2>1. v6' = [v6 EXCEPT ![w] = t] /\ UNCHANGED <<v1, v2, v3, v5, v7, v8, v9, v11>>
      BY <1>4 DEF Params!Fronts
    <2>2. /\ Params!Looked'
          /\ \A c, d \in Params!Sends : Params!GivenAsSent(c) /\ ParamsComesFrom(d, c)
              /\ (d.step = c.step \/ d.of = w) => Params!GivenAsSent(d)'
      BY <1>4, <2>1, ParamsAway
    <2>3. Params!TypeOK'
      <3>1. /\ v2' \in [Params!Scopes -> SettingValues \cup {Params!Absent, Params!Unset}]
                /\ v7' \in SettingValues /\ v5' \in Workspaces
            /\ v9' \subseteq Params!Scopes /\ v11' \subseteq SettingThreads
                /\ v8' \in [of : Workspaces \cup {None}, value : SettingValues]
        BY <2>1, ParamsTyped
      <3>2. v6' \in [Workspaces -> SettingThreads \cup {None}]
        BY <2>1, ParamsTyped
      <3> QED  BY <1>1, <1>2, <3>1, <3>2 DEF Params!TypeOK, Params!Sends
    <2>4. ASSUME NEW i \in 1..Len(v10') PROVE Params!GivenAsSent(v10[i])'
      <3>1. /\ v10'[i] \in Params!Sends /\ v10[i] \in Params!Sends /\ Params!GivenAsSent(v10[i])
                /\ ParamsComesFrom(v10'[i], v10[i])
            /\ v10'[i].step = v10[i].step \/ v10'[i].of = w
        BY <1>1, <1>4, <2>4
      <3> QED  BY <2>2, <3>1
    <2> QED  BY <2>2, <2>3, <2>4, ParamsAgain
  <1> QED  BY <1>3, <1>4

(* Only the list of threads changes.                                        *)
LEMMA ParamsListed ==
    ASSUME Params!Basis, Params!IInv, UNCHANGED <<v1, v2, v3, v5, v6, v7, v8, v9, v10, v11>>,
           Params!ListedAtHome', v4' \in [SettingThreads -> Workspaces \cup {None}],
           v12' \in [sends : 0..MaxDraftSends, steps : 0..MaxLooks]
    PROVE  Params!IInv'
  <1>1. /\ v1' = v1 /\ v2' = v2 /\ v3' = v3 /\ v5' = v5 /\ v7' = v7 /\ v8' = v8
        /\ v9' = v9 /\ v11' = v11 /\ v6' = v6 /\ v10' = v10
    OBVIOUS
  <1>2. Params!OwnCalls /\ Params!DraftIsShown /\ Params!ShownIsStored /\ Params!SeededHave
    BY ParamsTyped
  <1>3. Params!OwnCalls' /\ Params!Looked'
    BY <1>1, <1>2 DEF Params!OwnCalls, Params!Looked, Params!DraftIsShown, Params!ShownIsStored,
           Params!SeededHave, Params!OfDraft, Params!Resolve
  <1>4. Params!TypeOK' /\ v10' \in Seq(Params!Sends)
    BY <1>1, ParamsTyped DEF Params!TypeOK, Params!Sends
  <1>5. ASSUME NEW i \in 1..Len(v10') PROVE Params!GivenAsSent(v10[i])'
    <2>1. Params!GivenAsSent(v10[i]) /\ v10'[i] = v10[i]
      BY <1>1, <1>5, ParamsTyped
    <2> QED  BY <1>1, <2>1 DEF Params!GivenAsSent, Params!Unseeded, Params!WillBeSeeded, Params!OfDraft
  <1> QED  BY <1>3, <1>4, <1>5, ParamsAgain

LEMMA ParamsPlaced ==
    ASSUME Params!Basis, Params!IInv, NEW w \in Workspaces, NEW t \in SettingThreads,
           \A j \in 1..Len(v10) : v10[j].thread = t => v10[j].of = w
    PROVE  /\ Params!Placed(t, w) \in Seq(Params!Sends) /\ Len(Params!Placed(t, w)) = Len(v10)
           /\ \A i \in 1..Len(v10) :
                /\ Params!Placed(t, w)[i] \in Params!Sends /\ ParamsComesFrom(Params!Placed(t, w)[i], v10[i])
                    /\ Params!Placed(t, w)[i].step = v10[i].step
                /\ w = v5 /\ ~Params!Placed(t, w)[i].lost /\ <<v10[i].of, v10[i].thread>> \notin v9'
                     /\ (v10[i].of = w /\ v10[i].thread = t => <<v10[i].of, v10[i].thread>> \in v9')
                     /\ v9 \subseteq v9' =>
                   ParamsKept(t, v10[i], Params!Placed(t, w)[i])
  <1>1. t # None
    BY DEF Params!Basis
  <1>2. CASE Params!InItsPlace(t, w)
    <2>1. Params!Placed(t, w) = v10
      BY <1>2 DEF Params!Placed
    <2>2. v10 \in Seq(Params!Sends) /\ \A i \in 1..Len(v10) : v10[i] \in Params!Sends
      BY ParamsTyped
    <2>3. ASSUME NEW i \in 1..Len(v10), w = v5, <<v10[i].of, v10[i].thread>> \notin v9', v9 \subseteq v9'
          PROVE  ParamsKept(t, v10[i], v10[i])
      <3>1. PICK j \in 1..Len(v10) : /\ v10[j].thread = t /\ ~v10[j].lost
                                     /\ v6[v5] \in {None, t}
                                     /\ \A k \in 1..Len(v10) :
                                          /\ v10[k].values = v10[j].values
                                          /\ v10[k].step = "done" => <<v10[k].of, v10[k].thread>> \in v9
        BY <1>2, <2>3 DEF Params!InItsPlace
      <3>2. v10[i].step # "done" /\ v10[i].values = v10[j].values /\ v10[j].of = v5
        BY <2>3, <3>1
      <3> QED  BY <1>1, <3>1, <3>2 DEF ParamsKept
    <2> QED  BY <2>1, <2>2, <2>3 DEF ParamsComesFrom
  <1>3. CASE ~Params!InItsPlace(t, w)
    <2>1. Params!Placed(t, w) = Params!Lose(TRUE)
      BY <1>3 DEF Params!Placed
    <2>2. /\ Params!Lose(TRUE) \in Seq(Params!Sends) /\ Len(Params!Lose(TRUE)) = Len(v10)
          /\ \A i \in 1..Len(v10) :
               /\ Params!Lose(TRUE)[i] \in Params!Sends
               /\ Params!Lose(TRUE)[i].of = v10[i].of /\ Params!Lose(TRUE)[i].values = v10[i].values
               /\ Params!Lose(TRUE)[i].thread = v10[i].thread /\ Params!Lose(TRUE)[i].step = v10[i].step
               /\ ~Params!Lose(TRUE)[i].lost =>
                    /\ ~v10[i].lost
                    /\ <<v10[i].of, v10[i].thread>> \in v9' \/ (IF v1 = "model" THEN FALSE ELSE v8'.of = v10[i].of)
      BY ParamsLose
    <2>3. \A i \in 1..Len(v10) : v10[i] \in Params!Sends
      BY ParamsTyped
    <2> HIDE DEF Params!Lose
    <2> QED  BY <2>1, <2>2, <2>3 DEF ParamsComesFrom, ParamsKept
  <1> QED  BY <1>2, <1>3

LEMMA ParamsArchive ==
    ASSUME Params!Basis, Params!IInv, NEW t \in SettingThreads, NEW next \in SettingThreads \cup {None},
           Params!Archive(t, next)
    PROVE  Params!IInv'
  <1> DEFINE w == v4[t]
  <1>1. /\ w # None /\ Params!Step /\ v4' = [v4 EXCEPT ![t] = None] /\ v1' = v1 /\ v3' = v3
        /\ v6[w] = t => /\ next # None => v4'[next] = w
                        /\ Params!Fronts(w, next) /\ v10' = IF w = v5 THEN Params!Lose(TRUE) ELSE v10
        /\ v6[w] # t => UNCHANGED <<v2, v5, v6, v7, v8, v9, v10, v11>>
    BY DEF Params!Archive
  <1>2. v4 \in [SettingThreads -> Workspaces \cup {None}] /\ w \in Workspaces
          /\ v6 \in [Workspaces -> SettingThreads \cup {None}]
    BY <1>1, ParamsTyped
  <1>3. v4' \in [SettingThreads -> Workspaces \cup {None}] /\ v4'[t] = None /\ \A u \in SettingThreads : u # t =>
          v4'[u] = v4[u]
    BY <1>1, <1>2
  <1>4. v12' \in [sends : 0..MaxDraftSends, steps : 0..MaxLooks]
    BY <1>1, ParamsBudget
  <1>5. Params!OwnCalls /\ Params!ListedAtHome
    BY ParamsTyped
  <1>6. \A i \in 1..Len(v10) : v10[i].thread # None => v4'[v10[i].thread] \in {None, v10[i].of}
    <2>1. \A i \in 1..Len(v10) : v10[i].thread \in SettingThreads \cup {None}
      BY ParamsTyped DEF Params!Sends
    <2> QED  BY <1>3, <1>5, <2>1 DEF Params!ListedAtHome
  <1>7. \A x \in Workspaces : v6[x] # None /\ (x # w \/ v6[w] # t) => v4'[v6[x]] = x
    BY <1>2, <1>3, <1>5 DEF Params!ListedAtHome
  <1>8. CASE v6[w] # t
    <2>1. UNCHANGED <<v1, v2, v3, v5, v6, v7, v8, v9, v10, v11>>
      BY <1>1, <1>8
    <2>2. Params!ListedAtHome'
      BY <1>6, <1>7, <1>8, <2>1 DEF Params!ListedAtHome
    <2> QED  BY <1>3, <1>4, <2>1, <2>2, ParamsListed
  <1>9. CASE v6[w] = t
    <2>1. Params!Fronts(w, next) /\ v10' = (IF w = v5 THEN Params!Lose(TRUE) ELSE v10)
            /\ (next # None => v4'[next] = w)
      BY <1>1, <1>9
    <2>2. v6' = [v6 EXCEPT ![w] = next]
      BY <1>2, <2>1, ParamsLooks DEF Params!Fronts
    <2>3. v10 \in Seq(Params!Sends) /\ \A i \in 1..Len(v10) : v10[i] \in Params!Sends
      BY ParamsTyped
    <2>4. /\ Params!Lose(TRUE) \in Seq(Params!Sends) /\ Len(Params!Lose(TRUE)) = Len(v10)
          /\ \A i \in 1..Len(v10) :
               /\ Params!Lose(TRUE)[i] \in Params!Sends
               /\ Params!Lose(TRUE)[i].of = v10[i].of /\ Params!Lose(TRUE)[i].values = v10[i].values
               /\ Params!Lose(TRUE)[i].thread = v10[i].thread /\ Params!Lose(TRUE)[i].step = v10[i].step
               /\ ~Params!Lose(TRUE)[i].lost =>
                    /\ ~v10[i].lost
                    /\ <<v10[i].of, v10[i].thread>> \in v9' \/ (IF v1 = "model" THEN FALSE ELSE v8'.of = v10[i].of)
      BY ParamsLose
    <2>5. v10' \in Seq(Params!Sends) /\ Len(v10') = Len(v10)
      BY <2>1, <2>3, <2>4
    <2>6. ASSUME NEW i \in 1..Len(v10)
          PROVE  /\ ParamsComesFrom(v10'[i], v10[i]) /\ v10'[i].step = v10[i].step
                 /\ w = v5 /\ ~v10'[i].lost /\ <<v10'[i].of, v10'[i].thread>> \notin v9' =>
                      ParamsKept(next, v10[i], v10'[i])
      <3>1. CASE w = v5
        <4>1. v10' = Params!Lose(TRUE)
          BY <2>1, <3>1
        <4> HIDE DEF Params!Lose, w
        <4> QED  BY <2>3, <2>4, <4>1 DEF ParamsComesFrom, ParamsKept
      <3>2. CASE w # v5
        <4>1. v10' = v10
          BY <2>1, <3>2
        <4> QED  BY <2>3, <3>2, <4>1 DEF ParamsComesFrom
      <3> QED  BY <3>1, <3>2
    <2>7. Params!OwnCalls'
      BY <1>5, <2>5, <2>6 DEF Params!OwnCalls, ParamsComesFrom
    <2>8. Params!ListedAtHome'
      <3>1. \A i \in 1..Len(v10) : v10'[i].thread = v10[i].thread /\ v10'[i].of = v10[i].of
        BY <2>6 DEF ParamsComesFrom
      <3>2. \A x \in Workspaces : v6'[x] # None => v4'[v6'[x]] = x
        BY <1>2, <1>7, <2>1, <2>2
      <3> QED  BY <1>6, <2>5, <3>1, <3>2 DEF Params!ListedAtHome
    <2> HIDE DEF w
    <2> QED  BY <1>1, <1>2, <1>3, <1>4, <2>1, <2>5, <2>6, <2>7, <2>8, ParamsFronts
  <1> QED  BY <1>8, <1>9

(* A thread is listed where it is, and comes to the front or not.            *)
LEMMA ParamsComes ==
    ASSUME Params!Basis, Params!IInv, NEW t \in SettingThreads, NEW w \in Workspaces, v4[t] \in {None, w},
           v4' = [v4 EXCEPT ![t] = w],
           \A j \in 1..Len(v10) : v10[j].thread = t => v10[j].of = w
    PROVE  /\ v4' \in [SettingThreads -> Workspaces \cup {None}]
           /\ \A x \in Workspaces : v6[x] # None => v4'[v6[x]] = x
           /\ v4'[t] = w
           /\ \A i \in 1..Len(v10) : v10[i].thread # None => v4'[v10[i].thread] \in {None, v10[i].of}
  <1>1. v4 \in [SettingThreads -> Workspaces \cup {None}] /\ v6 \in [Workspaces -> SettingThreads \cup {None}]
          /\ Params!ListedAtHome
    BY ParamsTyped
  <1>2. v4'[t] = w /\ \A u \in SettingThreads : u # t => v4'[u] = v4[u]
    BY <1>1
  <1>3. \A i \in 1..Len(v10) : v10[i].thread \in SettingThreads \cup {None}
    BY ParamsTyped DEF Params!Sends
  <1>4. \A i \in 1..Len(v10) : v10[i].thread # None => v4'[v10[i].thread] \in {None, v10[i].of}
    BY <1>1, <1>2, <1>3 DEF Params!ListedAtHome
  <1>5. \A x \in Workspaces : v6[x] # None => v4'[v6[x]] = x
    BY <1>1, <1>2 DEF Params!ListedAtHome, Params!Basis
  <1> QED  BY <1>1, <1>2, <1>4, <1>5

LEMMA ParamsAnnounced ==
    ASSUME Params!Basis, Params!IInv, NEW t \in SettingThreads, NEW w \in Workspaces, Params!Announced(t, w)
    PROVE  Params!IInv'
  <1>1. /\ v4' = [v4 EXCEPT ![t] = w] /\ v1' = v1 /\ v3' = v3
        /\ v6[w] = None => Params!Fronts(w, t) /\ v10' = Params!Placed(t, w)
        /\ v6[w] # None => UNCHANGED <<v2, v5, v6, v7, v8, v9, v10, v11>>
    BY DEF Params!Announced, Params!Placed
  <1>2. v4[t] = None /\ v12' \in [sends : 0..MaxDraftSends, steps : 0..MaxLooks]
        /\ \A j \in 1..Len(v10) : v10[j].thread = t => v10[j].of = w
    <2>1. CASE t \in Params!Unmade /\ Params!Step
      <3>1. v4[t] = None /\ \A j \in 1..Len(v10) : v10[j].thread # t
        BY <2>1 DEF Params!Unmade, Params!Begun
      <3>2. v12' \in [sends : 0..MaxDraftSends, steps : 0..MaxLooks]
        BY <2>1, ParamsBudget
      <3> QED  BY <3>1, <3>2
    <2>2. CASE ~(t \in Params!Unmade /\ Params!Step)
      <3>1. v4[t] = None /\ v12' = v12 /\ \E i \in 1..Len(v10) : v10[i].thread = t /\ v10[i].of = w
        BY <2>2 DEF Params!Announced
      <3>2. Params!OwnCalls /\ t # None
        BY ParamsTyped DEF Params!Basis
      <3>3. \A j \in 1..Len(v10) : v10[j].thread = t => v10[j].of = w
        BY <3>1, <3>2 DEF Params!OwnCalls
      <3> QED  BY <3>1, <3>3, ParamsTyped
    <2> QED  BY <2>1, <2>2
  <1>3. /\ v4' \in [SettingThreads -> Workspaces \cup {None}]
        /\ \A x \in Workspaces : v6[x] # None => v4'[v6[x]] = x
        /\ v4'[t] = w
        /\ \A i \in 1..Len(v10) : v10[i].thread # None => v4'[v10[i].thread] \in {None, v10[i].of}
    BY <1>1, <1>2, ParamsComes
  <1>4. CASE v6[w] # None
    <2>1. UNCHANGED <<v1, v2, v3, v5, v6, v7, v8, v9, v10, v11>>
      BY <1>1, <1>4
    <2>2. Params!ListedAtHome'
      BY <1>3, <2>1 DEF Params!ListedAtHome
    <2> QED  BY <1>2, <1>3, <2>1, <2>2, ParamsListed
  <1>5. CASE v6[w] = None
    <2>1. Params!Fronts(w, t) /\ v10' = Params!Placed(t, w)
      BY <1>1, <1>5
    <2>2. v6' = [v6 EXCEPT ![w] = t]
      BY <2>1, ParamsLooks DEF Params!Fronts
    <2>3. /\ v10' \in Seq(Params!Sends) /\ Len(v10') = Len(v10)
          /\ \A i \in 1..Len(v10) :
                /\ v10'[i] \in Params!Sends /\ ParamsComesFrom(v10'[i], v10[i]) /\ v10'[i].step = v10[i].step
                /\ w = v5 /\ ~v10'[i].lost /\ <<v10[i].of, v10[i].thread>> \notin v9'
                     /\ (v10[i].of = w /\ v10[i].thread = t => <<v10[i].of, v10[i].thread>> \in v9')
                     /\ v9 \subseteq v9' =>
                   ParamsKept(t, v10[i], v10'[i])
      BY <1>2, <2>1, ParamsPlaced
    <2>4. w = v5 => v9 \subseteq v9' /\ <<w, t>> \in v9'
      <3> SUFFICES ASSUME w = v5 PROVE v9 \subseteq v9' /\ <<w, t>> \in v9'
        OBVIOUS
      <3>1. Params!Looks(w, t) /\ t # None
        BY <2>1 DEF Params!Fronts, Params!Basis
      <3> QED  BY <3>1, ParamsLooks
    <2>5. \A i \in 1..Len(v10) :
             /\ ParamsComesFrom(v10'[i], v10[i]) /\ v10'[i].step = v10[i].step
             /\ w = v5 /\ ~v10'[i].lost /\ <<v10'[i].of, v10'[i].thread>> \notin v9' =>
                  ParamsKept(t, v10[i], v10'[i])
      BY <2>3, <2>4 DEF ParamsComesFrom
    <2>6. Params!OwnCalls'
      <3>1. Params!OwnCalls
        BY ParamsTyped
      <3> QED  BY <2>3, <2>5, <3>1 DEF Params!OwnCalls, ParamsComesFrom
    <2>7. Params!ListedAtHome'
      <3>1. \A i \in 1..Len(v10) : v10'[i].thread = v10[i].thread /\ v10'[i].of = v10[i].of
        BY <2>5 DEF ParamsComesFrom
      <3>2. \A x \in Workspaces : v6'[x] # None => v4'[v6'[x]] = x
        BY <1>3, <2>2, ParamsTyped
      <3> QED  BY <1>3, <2>3, <3>1, <3>2 DEF Params!ListedAtHome
    <2> QED  BY <1>1, <1>2, <1>3, <2>1, <2>3, <2>5, <2>6, <2>7, ParamsFronts
  <1> QED  BY <1>4, <1>5

LEMMA ParamsAnswered ==
    ASSUME Params!Basis, Params!IInv, NEW i \in 1..Len(v10), Params!Answered(i)
    PROVE  Params!IInv'
  <1> DEFINE t == v10[i].thread  w == v10[i].of
  <1>1. /\ v10[i].step = "made" /\ v4' = [v4 EXCEPT ![t] = w] /\ Params!Fronts(w, t)
        /\ v10' = [Params!Placed(t, w) EXCEPT ![i].step = "done"] /\ v1' = v1 /\ v3' = v3 /\ v12' = v12
    BY DEF Params!Answered, Params!Placed
  <1>2. Params!OwnCalls /\ Params!ListedAtHome /\ v10[i] \in Params!Sends
    BY ParamsTyped
  <1>3. t \in SettingThreads /\ w \in Workspaces /\ t # None
    BY <1>1, <1>2 DEF Params!OwnCalls, Params!Sends
  <1>4. v4[t] \in {None, w} /\ \A j \in 1..Len(v10) : v10[j].thread = t => j = i
    BY <1>2, <1>3 DEF Params!OwnCalls, Params!ListedAtHome
  <1>5. \A j \in 1..Len(v10) : v10[j].thread = t => v10[j].of = w
    BY <1>4
  <1> HIDE DEF t, w
  <1>6. /\ v4' \in [SettingThreads -> Workspaces \cup {None}]
        /\ \A x \in Workspaces : v6[x] # None => v4'[v6[x]] = x
        /\ v4'[t] = w
        /\ \A j \in 1..Len(v10) : v10[j].thread # None => v4'[v10[j].thread] \in {None, v10[j].of}
    BY <1>1, <1>3, <1>4, <1>5, ParamsComes
  <1>7. /\ Params!Placed(t, w) \in Seq(Params!Sends) /\ Len(Params!Placed(t, w)) = Len(v10)
        /\ \A j \in 1..Len(v10) :
             /\ Params!Placed(t, w)[j] \in Params!Sends /\ ParamsComesFrom(Params!Placed(t, w)[j], v10[j])
                 /\ Params!Placed(t, w)[j].step = v10[j].step
             /\ w = v5 /\ ~Params!Placed(t, w)[j].lost /\ <<v10[j].of, v10[j].thread>> \notin v9'
                  /\ (v10[j].of = w /\ v10[j].thread = t => <<v10[j].of, v10[j].thread>> \in v9')
                  /\ v9 \subseteq v9' =>
                ParamsKept(t, v10[j], Params!Placed(t, w)[j])
    BY <1>3, <1>5, ParamsPlaced
  <1>8. PICK p \in Seq(Params!Sends) : p = Params!Placed(t, w)
    BY <1>7
  <1>9. Len(p) = Len(v10) /\ i \in 1..Len(p) /\ p[i] \in Params!Sends
    BY <1>7, <1>8
  <1>10. PICK d \in Params!Sends : d = [p[i] EXCEPT !.step = "done"]
    BY <1>9 DEF Params!Sends
  <1>11. d.of = p[i].of /\ d.values = p[i].values /\ d.thread = p[i].thread /\ d.lost = p[i].lost
          /\ d.step = "done"
    BY <1>9, <1>10 DEF Params!Sends
  <1>12. v10' = [p EXCEPT ![i] = d]
    BY <1>1, <1>8, <1>9, <1>10
  <1>13. v10' \in Seq(Params!Sends) /\ Len(v10') = Len(v10) /\ v10'[i] = d /\ \A j \in 1..Len(v10) : j # i =>
          v10'[j] = p[j]
    BY <1>9, <1>12
  <1>14. w = v5 => v9 \subseteq v9' /\ <<w, t>> \in v9'
    <2> SUFFICES ASSUME w = v5 PROVE v9 \subseteq v9' /\ <<w, t>> \in v9'
      OBVIOUS
    <2>1. Params!Looks(w, t)
      BY <1>1 DEF Params!Fronts
    <2> QED  BY <1>3, <2>1, ParamsLooks
  <1>15. t = v10[i].thread /\ w = v10[i].of
    BY DEF t, w
  <1>16. ASSUME NEW j \in 1..Len(v10)
         PROVE  /\ ParamsComesFrom(v10'[j], v10[j])
                /\ v10'[j].step = v10[j].step \/ v10'[j].of = w
                /\ w = v5 /\ ~v10'[j].lost /\ <<v10'[j].of, v10'[j].thread>> \notin v9' =>
                     ParamsKept(t, v10[j], v10'[j])
                /\ v10'[j].step = IF j = i THEN "done" ELSE v10[j].step
    <2>1. CASE j = i
      <3>1. ParamsComesFrom(p[i], v10[i])
        BY <1>7, <1>8
      <3>2. ParamsComesFrom(d, v10[i])
        BY <1>11, <3>1 DEF ParamsComesFrom
      <3>3. d.of = w /\ d.thread = t
        BY <1>15, <3>2 DEF ParamsComesFrom
      <3> QED  BY <1>11, <1>13, <1>14, <2>1, <3>2, <3>3
    <2>2. CASE j # i
      <3>1. v10'[j] = p[j] /\ ParamsComesFrom(p[j], v10[j]) /\ p[j].step = v10[j].step
        BY <1>7, <1>8, <1>13, <2>2
      <3>2. w = v5 /\ ~p[j].lost /\ <<v10[j].of, v10[j].thread>> \notin v9'
              /\ (v10[j].of = w /\ v10[j].thread = t => <<v10[j].of, v10[j].thread>> \in v9')
              /\ v9 \subseteq v9' => ParamsKept(t, v10[j], p[j])
        BY <1>7, <1>8
      <3>3. v10[j].thread # t
        BY <1>4, <2>2
      <3> QED  BY <1>14, <2>2, <3>1, <3>2, <3>3 DEF ParamsComesFrom
    <2> QED  BY <2>1, <2>2
  <1>17. Params!OwnCalls'
    <2>1. v10'[i].step = "done" /\ v10'[i].thread # None
      BY <1>3, <1>15, <1>16 DEF ParamsComesFrom
    <2>2. \A j \in 1..Len(v10) : v10'[j].thread = v10[j].thread /\ (j # i => v10'[j].step = v10[j].step)
      BY <1>16 DEF ParamsComesFrom
    <2> QED  BY <1>2, <1>13, <2>1, <2>2 DEF Params!OwnCalls
  <1>18. Params!ListedAtHome'
    <2>1. \A j \in 1..Len(v10) : v10'[j].thread = v10[j].thread /\ v10'[j].of = v10[j].of
      BY <1>16 DEF ParamsComesFrom
    <2>2. v6' = [v6 EXCEPT ![w] = t]
      BY <1>1, <1>3, ParamsLooks DEF Params!Fronts
    <2>3. \A x \in Workspaces : v6'[x] # None => v4'[v6'[x]] = x
      BY <1>3, <1>6, <2>2, ParamsTyped
    <2> QED  BY <1>6, <1>13, <2>1, <2>3 DEF Params!ListedAtHome
  <1>19. v12' \in [sends : 0..MaxDraftSends, steps : 0..MaxLooks]
    BY <1>1, ParamsTyped
  <1> QED  BY <1>1, <1>3, <1>6, <1>13, <1>16, <1>17, <1>18, <1>19, ParamsFronts

----------------------------------------------------------------------------
LEMMA ParamsStart == ASSUME Params!Basis, Params!Init PROVE Params!IInv
  <1>1. PICK old \in {Params!Absent} \cup (SettingValues \ {SettingDefault}),
                draft \in {Params!Absent} \cup (SettingValues \ {SettingDefault}) :
          /\ v2 = [s \in Params!Scopes |-> CASE s = <<v5, None>> -> draft
                                       [] s[2] # None /\ SettingOld[s[2]] = s[1] -> old
                                       [] OTHER -> Params!Absent]
          /\ v7 = IF draft = Params!Absent THEN SettingDefault ELSE draft
    BY DEF Params!Init
  <1>2. /\ v1 \in Params!Kinds /\ v3 = SettingDefault /\ v5 \in Workspaces
        /\ v4 = SettingOld /\ v6 = [w \in Workspaces |-> None]
        /\ v8 = Params!NoSeed /\ v9 = {} /\ v10 = <<>> /\ v11 = {}
        /\ v12 = [sends |-> 0, steps |-> 0]
    BY DEF Params!Init
  <1>3. /\ SettingDefault \in SettingValues /\ Params!Absent \notin SettingValues
            /\ Params!Unset \notin SettingValues /\ Params!Absent # Params!Unset
        /\ SettingOld \in [SettingThreads -> Workspaces \cup {None}] /\ MaxDraftSends \in Nat
            /\ MaxLooks \in Nat
    BY DEF Params!Basis, Params!Absent, Params!Unset
  <1>4. \A s \in Params!Scopes : s = <<v5, None>> => s[2] = None
    OBVIOUS
  <1>5. v2 \in [Params!Scopes -> SettingValues \cup {Params!Absent}]
    <2>1. ASSUME NEW s \in Params!Scopes
          PROVE (CASE s = <<v5, None>> -> draft
                   [] s[2] # None /\ SettingOld[s[2]] = s[1] -> old
                   [] OTHER -> Params!Absent) \in SettingValues \cup {Params!Absent}
      BY <1>4
    <2> QED  BY <1>1, <2>1
  <1>6. <<v5, None>> \in Params!Scopes /\ v2[<<v5, None>>] = draft
    <2>1. <<v5, None>> \in Params!Scopes
      BY <1>2 DEF Params!Scopes
    <2> QED  BY <1>1, <1>4, <2>1
  <1>7. v7 \in SettingValues /\ v7 = (IF v2[<<v5, None>>] \in SettingValues THEN v2[<<v5, None>>] ELSE SettingDefault)
    BY <1>1, <1>3, <1>6
  <1>8. v6[v5] = None
    BY <1>2
  <1>9. v10 \in Seq(Params!Sends) /\ Len(v10) = 0
    BY <1>2
  <1>10. Params!TypeOK
    <2>1. v6 \in [Workspaces -> SettingThreads \cup {None}]
            /\ v8 \in [of : Workspaces \cup {None}, value : SettingValues]
          /\ v12 \in [sends : 0..MaxDraftSends, steps : 0..MaxLooks]
      BY <1>2, <1>3 DEF Params!NoSeed
    <2>2. v2 \in [Params!Scopes -> SettingValues \cup {Params!Absent, Params!Unset}]
      BY <1>5
    <2> QED  BY <1>2, <1>3, <1>7, <1>9, <2>1, <2>2 DEF Params!TypeOK
  <1>11. Params!OwnCalls /\ Params!ListedAtHome /\ Params!SeededHave
    BY <1>2, <1>8, <1>9 DEF Params!OwnCalls, Params!ListedAtHome, Params!SeededHave
  <1>12. Params!DraftIsShown
    <2>1. \A s \in Params!Scopes : v2[s] # Params!Unset
      BY <1>3, <1>5
    <2>2. v1 = "model" => v7 = Params!Resolve(v2, v3, v8, v5, v6[v5])
      BY <1>2, <1>7, <1>8 DEF Params!Resolve
    <2> QED  BY <1>2, <1>7, <2>1, <2>2 DEF Params!DraftIsShown, Params!OfDraft
  <1>13. Params!ShownIsStored
    BY <1>7, <1>8 DEF Params!ShownIsStored
  <1>14. Params!AllGivenAsSent
    BY <1>9 DEF Params!AllGivenAsSent
  <1> QED  BY <1>9, <1>10, <1>11, <1>12, <1>13, <1>14 DEF Params!IInv, Params!Looked

LEMMA ParamsStutters == ASSUME Params!IInv, UNCHANGED Params!vars PROVE Params!IInv'
  <1>1. UNCHANGED <<v1, v2, v3, v4, v5, v6, v7, v8, v9, v10, v11, v12>>
    BY DEF Params!vars
  <1>2. Params!TypeOK /\ v10 \in Seq(Params!Sends) /\ Params!OwnCalls /\ Params!ListedAtHome
          /\ Params!SeededHave /\ Params!DraftIsShown /\ Params!ShownIsStored /\ Params!AllGivenAsSent
    BY DEF Params!IInv, Params!Looked
  <1>3. Params!TypeOK' /\ (v10 \in Seq(Params!Sends))'
    BY <1>1, <1>2 DEF Params!TypeOK, Params!Sends
  <1>4. Params!OwnCalls' /\ Params!ListedAtHome' /\ Params!SeededHave' /\ Params!DraftIsShown'
          /\ Params!ShownIsStored'
    BY <1>1, <1>2 DEF Params!OwnCalls, Params!ListedAtHome, Params!SeededHave, Params!DraftIsShown,
           Params!ShownIsStored, Params!OfDraft, Params!Resolve
  <1>5. Params!AllGivenAsSent'
    BY <1>1, <1>2 DEF Params!AllGivenAsSent, Params!GivenAsSent, Params!Unseeded, Params!WillBeSeeded,
           Params!OfDraft
  <1> QED  BY <1>3, <1>4, <1>5 DEF Params!IInv, Params!Looked

LEMMA ParamsStep == ASSUME Params!Basis, Params!IInv, [Params!Next]_(Params!vars) PROVE Params!IInv'
  <1>1. CASE UNCHANGED Params!vars
    BY <1>1, ParamsStutters
  <1>2. CASE \E w \in Workspaces, t \in SettingThreads \cup {None} : Params!Open(w, t)
    BY <1>2, ParamsOpen
  <1>3. CASE \E v \in SettingValues : Params!Select(v)
    BY <1>3, ParamsSelect
  <1>4. CASE Params!Send
    BY <1>4, ParamsSend
  <1>5. CASE \E t \in SettingThreads, next \in SettingThreads \cup {None} : Params!Archive(t, next)
    BY <1>5, ParamsArchive
  <1>6. CASE \E i \in 1..Len(v10) : Params!Starts(i) \/ Params!Fails(i) \/ Params!Makes(i) \/ Params!Answered(i)
    BY <1>6, ParamsSteps, ParamsAnswered
  <1>7. CASE \E t \in SettingThreads, w \in Workspaces : Params!Announced(t, w) \/ \E v \in Params!Detected : Params!Metadata(t, w, v)
    BY <1>7, ParamsAnnounced, ParamsMetadata
  <1> QED  BY <1>1, <1>2, <1>3, <1>4, <1>5, <1>6, <1>7 DEF Params!Next

LEMMA ParamsShow == ASSUME Params!Basis, Params!IInv PROVE Params!StartedAsSent /\ Params!ShownIsStored
  <1>1. Params!Absent \notin SettingValues
    BY DEF Params!Basis
  <1>2. ASSUME NEW i \in 1..Len(v10), v10[i].thread # None, v2[<<v10[i].of, v10[i].thread>>] # Params!Absent,
                ~v10[i].lost
        PROVE  v2[<<v10[i].of, v10[i].thread>>] \in v10[i].values
    BY <1>2, ParamsTyped DEF Params!GivenAsSent
  <1> QED  BY <1>1, <1>2, ParamsTyped DEF Params!StartedAsSent

----------------------------------------------------------------------------
(* The live connection: v1 the thread selected, v2 whether the workspace is *)
(* connected, v3 and v4 whether the window is seen and has the focus, v5    *)
(* the hook, v6 the threads the daemon has subscribed, v7 the requests to   *)
(* it, v8 its events, v9 and v10 what was spent, v11 what went wrong, v12   *)
(* the threads adrift.                                                      *)
LEMMA LiveBasis == Live!Basis
  BY NoneAssumption, BoundsAssumption DEF Live!Basis

LEMMA LiveAppend ==
    ASSUME NEW S, NEW w \in Seq(S), NEW r \in S
    PROVE  LET x == Append(w, r)
           IN  /\ x \in Seq(S) /\ Len(w) \in Nat /\ Len(x) = Len(w) + 1 /\ x[Len(w) + 1] = r
               /\ \A p \in 1..Len(w) : p \in 1..Len(x) /\ x[p] = w[p]
               /\ \A p \in 1..Len(x) : p \in 1..Len(w) \/ p = Len(w) + 1
  <1> DEFINE x == Append(w, r)
  <1>1. x \in Seq(S) /\ Len(w) \in Nat /\ Len(x) = Len(w) + 1 /\ x[Len(w) + 1] = r
        /\ \A p \in 1..Len(w) : x[p] = w[p]
    OBVIOUS
  <1> HIDE DEF x
  <1>2. \A p \in 1..Len(w) : p \in 1..Len(x)
    BY <1>1
  <1>3. \A p \in 1..Len(x) : p \in 1..Len(w) \/ p = Len(w) + 1
    BY <1>1
  <1> QED  BY <1>1, <1>2, <1>3 DEF x

LEMMA LiveConcat ==
    ASSUME NEW S, NEW w \in Seq(S), NEW s \in Seq(S)
    PROVE  LET x == w \o s
           IN  /\ x \in Seq(S) /\ Len(w) \in Nat /\ Len(s) \in Nat /\ Len(x) = Len(w) + Len(s)
               /\ \A p \in 1..Len(w) : p \in 1..Len(x) /\ x[p] = w[p]
               /\ \A p \in 1..Len(s) : Len(w) + p \in 1..Len(x) /\ x[Len(w) + p] = s[p]
               /\ \A p \in 1..Len(x) : p \in 1..Len(w) \/ (p - Len(w) \in 1..Len(s) /\ x[p] = s[p - Len(w)])
  <1> DEFINE x == w \o s
  <1>1. x \in Seq(S) /\ Len(w) \in Nat /\ Len(s) \in Nat /\ Len(x) = Len(w) + Len(s)
        /\ \A p \in 1..Len(x) : x[p] = IF p <= Len(w) THEN w[p] ELSE s[p - Len(w)]
    OBVIOUS
  <1> HIDE DEF x
  <1>2. \A p \in 1..Len(w) : p \in 1..Len(x) /\ x[p] = w[p]
    BY <1>1
  <1>3. \A p \in 1..Len(s) : Len(w) + p \in 1..Len(x) /\ x[Len(w) + p] = s[p]
    BY <1>1, SMTT(60)
  <1>4. \A p \in 1..Len(x) : p \in 1..Len(w) \/ (p - Len(w) \in 1..Len(s) /\ x[p] = s[p - Len(w)])
    BY <1>1
  <1> QED  BY <1>1, <1>2, <1>3, <1>4 DEF x

LEMMA LiveConcatAppend ==
    ASSUME NEW S, NEW w \in Seq(S), NEW s \in Seq(S), NEW r \in S
    PROVE  w \o Append(s, r) = Append(w \o s, r)
  OBVIOUS

LEMMA LiveTyped ==
    ASSUME Live!IInv
    PROVE  /\ v1 \in Live!Keys /\ v2 \in BOOLEAN /\ v3 \in BOOLEAN /\ v4 \in BOOLEAN
           /\ v5 \in Live!Hooks /\ v5.sent = <<>> /\ Len(v5.attempts) <= MaxAttempts /\ Len(v5.attempts) \in Nat
           /\ v6 \subseteq FollowedThreads /\ v12 \subseteq FollowedThreads
           /\ v7 \in Seq(Live!Request) /\ v8 \in Seq(Live!Event)
           /\ v9 \in 0..MaxLiveMoves /\ v10 \in 0..MaxFailures /\ v11 \subseteq {"refused", "misled"}
           /\ v5.attempts \in Seq(Live!Attempt) /\ v5.active \in Live!Keys /\ v5.desired \in Live!Keys
           /\ v5.sequence \in Nat /\ \A i \in 1..Len(v5.attempts) : v5.attempts[i] \in Live!Attempt
           /\ Live!Line(v5) = v7 /\ Live!HookOK(v5, v7)
  BY DEF Live!IInv, Live!TypeOK, Live!Hooks, Live!Line

(* What a handler keeps of the attempts but one, and of the line.           *)
LiveRetains(h, g, i) ==
    /\ Len(h.attempts) <= Len(g.attempts) /\ h.sequence <= g.sequence
    /\ \A j \in 1..Len(h.attempts) :
          /\ j \in 1..Len(g.attempts)
          /\ g.attempts[j].key = h.attempts[j].key /\ g.attempts[j].seq = h.attempts[j].seq
          /\ j # i => g.attempts[j].step = h.attempts[j].step
    /\ \A j \in 1..Len(g.attempts) : g.attempts[j].step = "refused" =>
          j \in 1..Len(h.attempts) /\ h.attempts[j].step = "refused"
    /\ \A p \in 1..Len(Live!Line(h)) : p \in 1..Len(Live!Line(g)) /\ Live!Line(g)[p] = Live!Line(h)[p]

LEMMA LiveLine ==
    ASSUME v7 \in Seq(Live!Request), NEW h \in Live!Hooks
    PROVE  /\ Live!Line(h) \in Seq(Live!Request) /\ Len(Live!Line(h)) \in Nat
           /\ \A p \in 1..Len(v7) : p \in 1..Len(Live!Line(h)) /\ Live!Line(h)[p] = v7[p]
           /\ \A p \in 1..Len(Live!Line(h)) : Live!Line(h)[p] \in Live!Request
           /\ h.attempts \in Seq(Live!Attempt) /\ Len(h.attempts) \in Nat /\ h.sequence \in Nat
           /\ \A j \in 1..Len(h.attempts) : h.attempts[j] \in Live!Attempt
  <1>1. h.sent \in Seq(Live!Request) /\ h.attempts \in Seq(Live!Attempt) /\ h.sequence \in Nat
    BY DEF Live!Hooks
  <1>2. v7 \o h.sent \in Seq(Live!Request)
        /\ \A p \in 1..Len(v7) : p \in 1..Len(v7 \o h.sent) /\ (v7 \o h.sent)[p] = v7[p]
    BY <1>1, LiveConcat
  <1>3. \A p \in 1..Len(Live!Line(h)) : Live!Line(h)[p] \in Live!Request
    BY <1>2 DEF Live!Line
  <1>4. Len(h.attempts) \in Nat /\ \A j \in 1..Len(h.attempts) : h.attempts[j] \in Live!Attempt
    BY <1>1
  <1>5. Len(Live!Line(h)) \in Nat
    BY <1>2 DEF Live!Line
  <1> QED  BY <1>1, <1>2, <1>3, <1>4, <1>5 DEF Live!Line

LEMMA LiveSends ==
    ASSUME v7 \in Seq(Live!Request), NEW h \in Live!Hooks, NEW g \in Live!Hooks, NEW r \in Live!Request,
           g.sent = Append(h.sent, r)
    PROVE  /\ Live!Line(g) = Append(Live!Line(h), r) /\ Len(Live!Line(g)) = Len(Live!Line(h)) + 1
               /\ Live!Line(g)[Len(Live!Line(h)) + 1] = r
           /\ \A p \in 1..Len(Live!Line(h)) : p \in 1..Len(Live!Line(g)) /\ Live!Line(g)[p] = Live!Line(h)[p]
           /\ \A p \in 1..Len(Live!Line(g)) : p \in 1..Len(Live!Line(h)) \/ p = Len(Live!Line(h)) + 1
  <1>1. h.sent \in Seq(Live!Request)
    BY DEF Live!Hooks
  <1>2. Live!Line(g) = Append(Live!Line(h), r)
    BY <1>1, LiveConcatAppend DEF Live!Line
  <1>3. Live!Line(h) \in Seq(Live!Request)
    BY LiveLine
  <1> QED  BY <1>2, <1>3, LiveAppend

(* A request nobody waits for.                                              *)
LEMMA LiveUnsubscribe ==
    ASSUME Live!Basis, v7 \in Seq(Live!Request), NEW h \in Live!Hooks, Live!HookOK(h, Live!Line(h)),
           NEW key \in FollowedThreads
    PROVE  LET g == Live!Unsubscribe(h, key, 0)
               r == [op |-> "unsubscribe", key |-> key, by |-> 0]
           IN  /\ g = [h EXCEPT !.sent = Append(h.sent, r)] /\ g \in Live!Hooks /\ Live!HookOK(g, Live!Line(g))
               /\ LiveRetains(h, g, 0)
               /\ \E p \in 1..Len(Live!Line(g)) : Live!Line(g)[p].key = key
  <1> DEFINE r == [op |-> "unsubscribe", key |-> key, by |-> 0]
             g == [h EXCEPT !.sent = Append(h.sent, r)]
  <1>1. g = Live!Unsubscribe(h, key, 0)
    BY DEF Live!Unsubscribe
  <1>2. r \in Live!Request /\ r.by = 0 /\ r.op = "unsubscribe" /\ r.key = key
    BY DEF Live!Request, Live!Basis
  <1> HIDE DEF r
  <1>31. Append(h.sent, r) \in Seq(Live!Request)
    BY <1>2 DEF Live!Hooks
  <1>3. g \in Live!Hooks /\ g.sent = Append(h.sent, r) /\ g.attempts = h.attempts /\ g.sequence = h.sequence
        /\ g.inFlight = h.inFlight /\ g.inFlightSeq = h.inFlightSeq
    BY <1>31 DEF Live!Hooks
  <1> HIDE DEF g
  <1>4. /\ Live!Line(g) = Append(Live!Line(h), r) /\ Len(Live!Line(g)) = Len(Live!Line(h)) + 1
            /\ Live!Line(g)[Len(Live!Line(h)) + 1] = r
        /\ \A p \in 1..Len(Live!Line(h)) : p \in 1..Len(Live!Line(g)) /\ Live!Line(g)[p] = Live!Line(h)[p]
        /\ \A p \in 1..Len(Live!Line(g)) : p \in 1..Len(Live!Line(h)) \/ p = Len(Live!Line(h)) + 1
    BY <1>2, <1>3, LiveSends
  <1>5. Len(Live!Line(h)) \in Nat /\ Len(h.attempts) \in Nat /\ h.sequence \in Nat
    BY LiveLine
  <1>6. \A p \in 1..Len(Live!Line(g)) : Live!WaitedFor(Live!Line(g)[p], g)
    BY <1>2, <1>3, <1>4 DEF Live!HookOK, Live!RequestsOK, Live!WaitedFor
  <1>7. \A p, q \in 1..Len(Live!Line(g)) : Live!Line(g)[p].by = Live!Line(g)[q].by /\ Live!Line(g)[p].by # 0 =>
          p = q
    BY <1>2, <1>4 DEF Live!HookOK, Live!RequestsOK
  <1>8. Live!HookOK(g, Live!Line(g))
    BY <1>3, <1>6, <1>7 DEF Live!HookOK, Live!RequestsOK, Live!NumbersOK, Live!FlightOK
  <1>9. LiveRetains(h, g, 0)
    BY <1>3, <1>4, <1>5 DEF LiveRetains
  <1>10. Len(Live!Line(h)) + 1 \in 1..Len(Live!Line(g))
    BY <1>4, <1>5
  <1> QED  BY <1>1, <1>2, <1>3, <1>4, <1>8, <1>9, <1>10 DEF g, r

(* An attempt goes on, and may ask for something.                           *)
LEMMA LiveSetStep ==
    ASSUME NEW h \in Live!Hooks, NEW i \in 1..Len(h.attempts),
           NEW s \in {"connecting", "refreshing", "detaching", "attaching", "attached", "detached", "refused",
                      "cleaning", "done"}
    PROVE  LET g == Live!SetStep(h, i, s)
           IN  /\ g \in Live!Hooks /\ Len(g.attempts) = Len(h.attempts) /\ g.attempts[i].step = s
               /\ g.attempts \in Seq(Live!Attempt)
               /\ \A j \in 1..Len(h.attempts) : /\ g.attempts[j].key = h.attempts[j].key
                                                /\ g.attempts[j].seq = h.attempts[j].seq
                                                /\ j # i => g.attempts[j].step = h.attempts[j].step
               /\ g.sent = h.sent /\ g.sequence = h.sequence /\ g.inFlight = h.inFlight
               /\ g.inFlightSeq = h.inFlightSeq /\ g.active = h.active /\ g.desired = h.desired
               /\ g.ignoring = h.ignoring /\ g.conn = h.conn
  <1> DEFINE a == [h.attempts EXCEPT ![i].step = s]
             g == [h EXCEPT !.attempts = a]
  <1>1. h.attempts \in Seq(Live!Attempt)
    BY DEF Live!Hooks
  <1>2. a \in Seq(Live!Attempt) /\ Len(a) = Len(h.attempts)
        /\ \A j \in 1..Len(h.attempts) : a[j] = IF j = i THEN [h.attempts[i] EXCEPT !.step = s] ELSE h.attempts[j]
    <2>1. h.attempts[i] \in Live!Attempt
      BY <1>1
    <2>2. [h.attempts[i] EXCEPT !.step = s] \in Live!Attempt
      BY <2>1 DEF Live!Attempt
    <2> QED  BY <1>1, <2>2
  <1>3. \A j \in 1..Len(h.attempts) : a[j].key = h.attempts[j].key /\ a[j].seq = h.attempts[j].seq
                                      /\ (j # i => a[j].step = h.attempts[j].step)
    BY <1>1, <1>2 DEF Live!Attempt
  <1>4. a[i].step = s
    BY <1>1, <1>2 DEF Live!Attempt
  <1>5. g = Live!SetStep(h, i, s)
    BY DEF Live!SetStep
  <1> HIDE DEF a
  <1>6. g \in Live!Hooks
    BY <1>2 DEF Live!Hooks
  <1>7. /\ g.attempts = a /\ g.sent = h.sent /\ g.sequence = h.sequence /\ g.inFlight = h.inFlight
        /\ g.inFlightSeq = h.inFlightSeq /\ g.active = h.active /\ g.desired = h.desired
        /\ g.ignoring = h.ignoring /\ g.conn = h.conn
    BY DEF Live!Hooks
  <1> HIDE DEF g
  <1> QED  BY <1>2, <1>3, <1>4, <1>5, <1>6, <1>7

LiveWaiting == {"attaching", "detaching", "cleaning"}
LiveSteps == {"connecting", "refreshing", "detaching", "attaching", "attached", "detached", "refused", "cleaning",
              "done"}

LEMMA LiveSame ==
    ASSUME v7 \in Seq(Live!Request), NEW h \in Live!Hooks, NEW g \in Live!Hooks, Live!HookOK(h, Live!Line(h)),
           g.attempts = h.attempts, g.sequence = h.sequence, g.sent = h.sent, g.inFlight = h.inFlight,
           g.inFlightSeq = h.inFlightSeq
    PROVE  Live!HookOK(g, Live!Line(g)) /\ LiveRetains(h, g, 0)
  <1>1. Live!Line(g) = Live!Line(h)
    BY DEF Live!Line
  <1>2. Live!HookOK(g, Live!Line(g))
    BY <1>1 DEF Live!HookOK, Live!RequestsOK, Live!WaitedFor, Live!NumbersOK, Live!FlightOK
  <1> QED  BY <1>1, <1>2, LiveLine DEF LiveRetains

LEMMA LiveRetainsBoth ==
    ASSUME NEW h \in Live!Hooks, NEW g \in Live!Hooks, NEW k \in Live!Hooks, NEW i, v7 \in Seq(Live!Request),
           LiveRetains(h, g, 0) \/ LiveRetains(h, g, i), LiveRetains(g, k, 0) \/ LiveRetains(g, k, i),
           i \in 1..Len(h.attempts) \cup {0}
    PROVE  LiveRetains(h, k, i)
  <1>1. h.sequence \in Nat /\ g.sequence \in Nat /\ k.sequence \in Nat
        /\ Len(h.attempts) \in Nat /\ Len(g.attempts) \in Nat /\ Len(k.attempts) \in Nat
    BY LiveLine
  <1>2. \A j \in 1..Len(h.attempts) : j # 0
    BY <1>1
  <1> QED  BY <1>1, <1>2 DEF LiveRetains

(* An attempt asks for something, and waits.                                *)
LiveAsked(h, i, op, s) ==
    Live!SetStep([h EXCEPT !.sent = Append(@, [op |-> op, key |-> h.attempts[i].key, by |-> i])], i, s)

LEMMA LiveAsks ==
    ASSUME Live!Basis, v7 \in Seq(Live!Request), NEW h \in Live!Hooks, Live!HookOK(h, Live!Line(h)),
           NEW i \in 1..Len(h.attempts), i \in 0..MaxAttempts, h.attempts[i].step \notin LiveWaiting,
           NEW op, NEW s, \/ op = "subscribe" /\ s = "attaching"
                          \/ op = "unsubscribe" /\ s \in {"detaching", "cleaning"}
    PROVE  LET g == LiveAsked(h, i, op, s)
           IN  /\ g \in Live!Hooks /\ Live!HookOK(g, Live!Line(g)) /\ LiveRetains(h, g, i)
               /\ g.attempts[i].step = s /\ Len(g.attempts) = Len(h.attempts)
               /\ g.sequence = h.sequence /\ g.active = h.active /\ g.desired = h.desired
               /\ g.inFlight = h.inFlight /\ g.inFlightSeq = h.inFlightSeq
               /\ \E p \in 1..Len(Live!Line(g)) : Live!Line(g)[p].key = h.attempts[i].key
  <1> DEFINE r == [op |-> op, key |-> h.attempts[i].key, by |-> i]
             k == [h EXCEPT !.sent = Append(@, r)]
             g == LiveAsked(h, i, op, s)
  <1>0. g = Live!SetStep(k, i, s)
    BY DEF LiveAsked
  <1> HIDE DEF g
  <1>1. h.attempts[i] \in Live!Attempt /\ Len(h.attempts) \in Nat /\ h.sequence \in Nat
          /\ Len(Live!Line(h)) \in Nat
    BY LiveLine
  <1>2. r \in Live!Request /\ r.by = i /\ r.op = op /\ r.key = h.attempts[i].key
    BY <1>1 DEF Live!Request, Live!Attempt
  <1> HIDE DEF r
  <1>3. Append(h.sent, r) \in Seq(Live!Request)
    BY <1>2 DEF Live!Hooks
  <1>4. k \in Live!Hooks /\ k.sent = Append(h.sent, r) /\ k.attempts = h.attempts /\ k.sequence = h.sequence
        /\ k.inFlight = h.inFlight /\ k.inFlightSeq = h.inFlightSeq /\ k.active = h.active
            /\ k.desired = h.desired
    BY <1>3 DEF Live!Hooks
  <1> HIDE DEF k
  <1>5. s \in LiveSteps /\ i \in 1..Len(k.attempts) /\ s \in LiveWaiting
    BY <1>4 DEF LiveSteps, LiveWaiting
  <1>6. /\ g \in Live!Hooks /\ Len(g.attempts) = Len(h.attempts) /\ g.attempts[i].step = s
        /\ \A j \in 1..Len(h.attempts) : /\ g.attempts[j].key = h.attempts[j].key
                                         /\ g.attempts[j].seq = h.attempts[j].seq
                                         /\ j # i => g.attempts[j].step = h.attempts[j].step
        /\ g.sent = k.sent /\ g.sequence = h.sequence /\ g.inFlight = h.inFlight
        /\ g.inFlightSeq = h.inFlightSeq /\ g.active = h.active /\ g.desired = h.desired
    <2>1. s \in {"connecting", "refreshing", "detaching", "attaching", "attached", "detached", "refused",
                 "cleaning", "done"}
      BY <1>5 DEF LiveSteps
    <2>2. k \in Live!Hooks /\ i \in 1..Len(k.attempts)
      BY <1>4, <1>5
    <2>4. g \in Live!Hooks
      BY <1>0, <2>1, <2>2, LiveSetStep
    <2>5. /\ Len(g.attempts) = Len(k.attempts) /\ g.attempts[i].step = s
          /\ g.sent = k.sent /\ g.sequence = k.sequence /\ g.inFlight = k.inFlight
          /\ g.inFlightSeq = k.inFlightSeq /\ g.active = k.active /\ g.desired = k.desired
      BY <1>0, <2>1, <2>2, LiveSetStep
    <2>6. \A j \in 1..Len(k.attempts) : /\ g.attempts[j].key = k.attempts[j].key
                                        /\ g.attempts[j].seq = k.attempts[j].seq
                                        /\ j # i => g.attempts[j].step = k.attempts[j].step
      BY <1>0, <2>1, <2>2, LiveSetStep
    <2> QED  BY <1>4, <2>4, <2>5, <2>6
  <1>7. /\ Len(Live!Line(g)) = Len(Live!Line(h)) + 1 /\ Live!Line(g)[Len(Live!Line(h)) + 1] = r
        /\ \A p \in 1..Len(Live!Line(h)) : p \in 1..Len(Live!Line(g)) /\ Live!Line(g)[p] = Live!Line(h)[p]
        /\ \A p \in 1..Len(Live!Line(g)) : p \in 1..Len(Live!Line(h)) \/ p = Len(Live!Line(h)) + 1
    BY <1>2, <1>4, <1>6, LiveSends
  <1>8. \A p \in 1..Len(Live!Line(h)) : Live!Line(h)[p].by # i
    BY <1>1 DEF Live!HookOK, Live!RequestsOK, Live!WaitedFor, LiveWaiting
  <1>81. \A p \in 1..Len(Live!Line(h)) : Live!Line(h)[p] \in Live!Request
    BY LiveLine
  <1>9. ASSUME NEW p \in 1..Len(Live!Line(g)) PROVE Live!WaitedFor(Live!Line(g)[p], g)
    <2>1. CASE p \in 1..Len(Live!Line(h))
      <3>1. Live!WaitedFor(Live!Line(h)[p], h) /\ Live!Line(h)[p].by # i /\ Live!Line(h)[p].by \in Nat
        BY <2>1, <1>8, <1>81 DEF Live!HookOK, Live!RequestsOK, Live!Request, Live!Basis
      <3> QED  BY <2>1, <3>1, <1>1, <1>6, <1>7 DEF Live!WaitedFor
    <2>2. CASE p = Len(Live!Line(h)) + 1
      <3>1. Live!Line(g)[p] = r /\ i # 0 /\ i <= Len(g.attempts) /\ g.attempts[i].key = r.key
        BY <2>2, <1>1, <1>2, <1>6, <1>7
      <3> QED  BY <3>1, <1>2, <1>6 DEF Live!WaitedFor
    <2> QED  BY <2>1, <2>2, <1>7
  <1>10. \A p, q \in 1..Len(Live!Line(g)) : Live!Line(g)[p].by = Live!Line(g)[q].by /\ Live!Line(g)[p].by # 0 =>
          p = q
    BY <1>2, <1>7, <1>8 DEF Live!HookOK, Live!RequestsOK
  <1>11. Live!NumbersOK(g) /\ Live!FlightOK(g)
    <2>1. s # "done"
      BY <1>5 DEF LiveWaiting
    <2>2. h.inFlight \in Nat
      BY DEF Live!Hooks, Live!Basis
    <2> QED  BY <1>1, <1>6, <2>1, <2>2, SMTT(60) DEF Live!HookOK, Live!NumbersOK, Live!FlightOK
  <1>12. Live!HookOK(g, Live!Line(g))
    BY <1>9, <1>10, <1>11 DEF Live!HookOK, Live!RequestsOK
  <1>13. LiveRetains(h, g, i)
    BY <1>1, <1>5, <1>6, <1>7 DEF LiveRetains, LiveWaiting
  <1>14. Len(Live!Line(h)) + 1 \in 1..Len(Live!Line(g))
          /\ Live!Line(g)[Len(Live!Line(h)) + 1].key = h.attempts[i].key
    BY <1>1, <1>2, <1>7
  <1> QED  BY <1>6, <1>12, <1>13, <1>14 DEF g

(* An attempt is over.                                                      *)
LEMMA LiveSettled ==
    ASSUME Live!Basis, v7 \in Seq(Live!Request), NEW h \in Live!Hooks, Live!HookOK(h, Live!Line(h)),
           NEW i \in 1..Len(h.attempts), h.attempts[i].step \notin LiveWaiting
    PROVE  LET g == Live!Settled(h, i)
           IN  /\ g \in Live!Hooks /\ Live!HookOK(g, Live!Line(g)) /\ LiveRetains(h, g, i)
               /\ g.attempts[i].step = "done" /\ Len(g.attempts) = Len(h.attempts) /\ g.sent = h.sent
               /\ g.sequence = h.sequence /\ g.active = h.active /\ g.desired = h.desired
  <1> DEFINE k == Live!SetStep(h, i, "done")
             g == IF k.inFlight = i THEN [k EXCEPT !.inFlight = 0, !.inFlightSeq = 0] ELSE k
  <1>1. Len(h.attempts) \in Nat /\ h.sequence \in Nat
          /\ \A p \in 1..Len(Live!Line(h)) : Live!Line(h)[p] \in Live!Request
    BY LiveLine
  <1>2. /\ k \in Live!Hooks /\ Len(k.attempts) = Len(h.attempts) /\ k.attempts[i].step = "done"
        /\ \A j \in 1..Len(h.attempts) : /\ k.attempts[j].key = h.attempts[j].key
                                         /\ k.attempts[j].seq = h.attempts[j].seq
                                         /\ j # i => k.attempts[j].step = h.attempts[j].step
        /\ k.sent = h.sent /\ k.sequence = h.sequence /\ k.inFlight = h.inFlight
        /\ k.inFlightSeq = h.inFlightSeq /\ k.active = h.active /\ k.desired = h.desired
    BY LiveSetStep
  <1>3. g = Live!Settled(h, i)
    BY DEF Live!Settled
  <1> HIDE DEF k
  <1>4. /\ g \in Live!Hooks /\ g.attempts = k.attempts /\ g.sent = h.sent /\ g.sequence = h.sequence
        /\ g.inFlight = (IF h.inFlight = i THEN 0 ELSE h.inFlight)
        /\ (h.inFlight # i => g.inFlightSeq = h.inFlightSeq) /\ g.active = h.active /\ g.desired = h.desired
    <2>1. CASE k.inFlight = i
      <3>1. 0 \in 0..MaxAttempts /\ 0 \in Nat
        BY DEF Live!Basis
      <3>2. g = [k EXCEPT !.inFlight = 0, !.inFlightSeq = 0]
        BY <2>1
      <3>3. [k EXCEPT !.inFlight = 0, !.inFlightSeq = 0] \in Live!Hooks
        BY <1>2, <3>1 DEF Live!Hooks
      <3>4. /\ g.attempts = k.attempts /\ g.sent = k.sent /\ g.sequence = k.sequence /\ g.inFlight = 0
            /\ g.active = k.active /\ g.desired = k.desired
        BY <1>2, <3>2 DEF Live!Hooks
      <3> QED  BY <1>2, <2>1, <3>2, <3>3, <3>4
    <2>2. CASE k.inFlight # i
      BY <1>2, <2>2
    <2> QED  BY <2>1, <2>2
  <1> HIDE DEF g
  <1>5. Live!Line(g) = Live!Line(h)
    BY <1>4 DEF Live!Line
  <1>6. \A p \in 1..Len(Live!Line(h)) : Live!Line(h)[p].by # i
    BY <1>1 DEF Live!HookOK, Live!RequestsOK, Live!WaitedFor, LiveWaiting
  <1>7. ASSUME NEW p \in 1..Len(Live!Line(g)) PROVE Live!WaitedFor(Live!Line(g)[p], g)
    <2>1. Live!WaitedFor(Live!Line(h)[p], h) /\ Live!Line(h)[p].by # i /\ Live!Line(h)[p].by \in Nat
      BY <1>1, <1>5, <1>6 DEF Live!HookOK, Live!RequestsOK, Live!Request, Live!Basis
    <2> QED  BY <2>1, <1>1, <1>2, <1>4, <1>5 DEF Live!WaitedFor
  <1>8. Live!NumbersOK(g) /\ Live!FlightOK(g)
    <2>1. h.inFlight \in Nat
      BY DEF Live!Hooks, Live!Basis
    <2> QED  BY <1>1, <1>2, <1>4, <2>1 DEF Live!HookOK, Live!NumbersOK, Live!FlightOK
  <1>9. Live!HookOK(g, Live!Line(g))
    BY <1>5, <1>7, <1>8 DEF Live!HookOK, Live!RequestsOK
  <1>10. LiveRetains(h, g, i)
    BY <1>1, <1>2, <1>4, <1>5 DEF LiveRetains
  <1> QED  BY <1>2, <1>3, <1>4, <1>9, <1>10 DEF g

(* What a handler makes of the refs is in order, and keeps what it should.  *)
LiveHandles(h, g, i) == g \in Live!Hooks /\ Live!HookOK(g, Live!Line(g)) /\ LiveRetains(h, g, i)

LEMMA LiveRefreshes ==
    ASSUME Live!Basis, v7 \in Seq(Live!Request), NEW h \in Live!Hooks, Live!HookOK(h, Live!Line(h)),
           NEW i \in 1..Len(h.attempts), h.attempts[i].step \notin LiveWaiting
    PROVE  LET g == Live!SetStep(h, i, "refreshing")
           IN  /\ LiveHandles(h, g, i) /\ Len(g.attempts) = Len(h.attempts)
               /\ g.sequence = h.sequence /\ g.active = h.active /\ g.desired = h.desired /\ g.sent = h.sent
               /\ g.attempts[i].step = "refreshing"
  <1> DEFINE g == Live!SetStep(h, i, "refreshing")
  <1>1. Len(h.attempts) \in Nat /\ h.sequence \in Nat
          /\ \A p \in 1..Len(Live!Line(h)) : Live!Line(h)[p] \in Live!Request
    BY LiveLine
  <1>2. /\ g \in Live!Hooks /\ Len(g.attempts) = Len(h.attempts) /\ g.attempts[i].step = "refreshing"
        /\ \A j \in 1..Len(h.attempts) : /\ g.attempts[j].key = h.attempts[j].key
                                         /\ g.attempts[j].seq = h.attempts[j].seq
                                         /\ j # i => g.attempts[j].step = h.attempts[j].step
        /\ g.sent = h.sent /\ g.sequence = h.sequence /\ g.inFlight = h.inFlight
        /\ g.inFlightSeq = h.inFlightSeq /\ g.active = h.active /\ g.desired = h.desired
    BY LiveSetStep
  <1> HIDE DEF g
  <1>3. Live!Line(g) = Live!Line(h)
    BY <1>2 DEF Live!Line
  <1>4. \A p \in 1..Len(Live!Line(h)) : Live!Line(h)[p].by # i
    BY <1>1 DEF Live!HookOK, Live!RequestsOK, Live!WaitedFor, LiveWaiting
  <1>5. ASSUME NEW p \in 1..Len(Live!Line(g)) PROVE Live!WaitedFor(Live!Line(g)[p], g)
    <2>1. Live!WaitedFor(Live!Line(h)[p], h) /\ Live!Line(h)[p].by # i /\ Live!Line(h)[p].by \in Nat
      BY <1>1, <1>3, <1>4 DEF Live!HookOK, Live!RequestsOK, Live!Request, Live!Basis
    <2> QED  BY <2>1, <1>1, <1>2, <1>3 DEF Live!WaitedFor
  <1>6. Live!NumbersOK(g) /\ Live!FlightOK(g)
    <2>1. h.inFlight \in Nat
      BY DEF Live!Hooks, Live!Basis
    <2>2. Live!NumbersOK(g)
      BY <1>1, <1>2 DEF Live!HookOK, Live!NumbersOK
    <2>3. Live!FlightOK(g)
      BY <1>1, <1>2, <2>1 DEF Live!HookOK, Live!FlightOK
    <2> QED  BY <2>2, <2>3
  <1>7. Live!HookOK(g, Live!Line(g))
    BY <1>3, <1>5, <1>6 DEF Live!HookOK, Live!RequestsOK
  <1>8. LiveRetains(h, g, i)
    BY <1>1, <1>2, <1>3 DEF LiveRetains
  <1> QED  BY <1>2, <1>7, <1>8 DEF g, LiveHandles

LEMMA LiveAttach ==
    ASSUME Live!Basis, v7 \in Seq(Live!Request), NEW h \in Live!Hooks, Live!HookOK(h, Live!Line(h)),
           NEW i \in 1..Len(h.attempts), i \in 0..MaxAttempts, h.attempts[i].step \notin LiveWaiting
    PROVE  LET g == Live!Attach(h, i)
           IN  /\ LiveHandles(h, g, i) /\ Len(g.attempts) = Len(h.attempts)
               /\ g.sequence = h.sequence /\ g.active = h.active /\ g.desired = h.desired
               /\ g.attempts[i].step \in LiveWaiting
  <1>1. h.attempts[i] \in Live!Attempt /\ Len(h.attempts) \in Nat /\ h.sequence \in Nat
    BY LiveLine
  <1>2. CASE h.active = h.attempts[i].key
    <2> DEFINE k == [h EXCEPT !.ignoring = @ \cup {h.attempts[i].key}]
    <2>1. h.attempts[i].key \in FollowedThreads
      BY <1>1 DEF Live!Attempt
    <2>2. k \in Live!Hooks /\ k.attempts = h.attempts /\ k.sequence = h.sequence /\ k.sent = h.sent
          /\ k.inFlight = h.inFlight /\ k.inFlightSeq = h.inFlightSeq /\ k.active = h.active
          /\ k.desired = h.desired
      BY <2>1 DEF Live!Hooks
    <2>3. Live!Attach(h, i) = LiveAsked(k, i, "unsubscribe", "detaching")
      BY <1>2, <2>2 DEF Live!Attach, Live!Unsubscribe, LiveAsked
    <2> HIDE DEF k
    <2>4. Live!HookOK(k, Live!Line(k)) /\ LiveRetains(h, k, 0)
      BY <2>2, LiveSame
    <2>5. i \in 1..Len(k.attempts) /\ k.attempts[i].step \notin LiveWaiting
      BY <2>2
    <2> DEFINE g == Live!Attach(h, i)
    <2> HIDE DEF g
    <2>7. g = LiveAsked(k, i, "unsubscribe", "detaching")
      BY <2>3 DEF g
    <2>8. /\ g \in Live!Hooks /\ Live!HookOK(g, Live!Line(g)) /\ LiveRetains(k, g, i)
          /\ g.attempts[i].step = "detaching" /\ Len(g.attempts) = Len(k.attempts)
          /\ g.sequence = k.sequence /\ g.active = k.active /\ g.desired = k.desired
      BY <2>2, <2>4, <2>5, <2>7, LiveAsks
    <2>9. LiveRetains(h, g, i)
      BY <2>2, <2>4, <2>8, LiveRetainsBoth
    <2> QED  BY <2>2, <2>8, <2>9 DEF LiveHandles, LiveWaiting, g
  <1>3. CASE h.active # h.attempts[i].key
    <2> DEFINE g == Live!Attach(h, i)
    <2>1. g = LiveAsked(h, i, "subscribe", "attaching")
      BY <1>3 DEF Live!Attach, Live!Subscribe, LiveAsked
    <2> HIDE DEF g
    <2>3. /\ g \in Live!Hooks /\ Live!HookOK(g, Live!Line(g)) /\ LiveRetains(h, g, i)
          /\ g.attempts[i].step = "attaching" /\ Len(g.attempts) = Len(h.attempts)
          /\ g.sequence = h.sequence /\ g.active = h.active /\ g.desired = h.desired
      BY <2>1, LiveAsks
    <2> QED  BY <2>3 DEF LiveHandles, LiveWaiting, g
  <1> QED  BY <1>2, <1>3

LEMMA LiveProceed ==
    ASSUME Live!Basis, v7 \in Seq(Live!Request), NEW h \in Live!Hooks, Live!HookOK(h, Live!Line(h)),
           NEW i \in 1..Len(h.attempts), i \in 0..MaxAttempts, h.attempts[i].step \notin LiveWaiting
    PROVE  LET g == Live!Proceed(h, i)
           IN  /\ LiveHandles(h, g, i) /\ Len(g.attempts) = Len(h.attempts)
               /\ g.sequence = h.sequence /\ g.active = h.active /\ g.desired = h.desired
               /\ g.attempts[i].step \in LiveWaiting \cup {"refreshing"}
  <1>1. CASE h.attempts[i].resume
    <2>1. Live!Proceed(h, i) = Live!SetStep(h, i, "refreshing")
      BY <1>1 DEF Live!Proceed
    <2> QED  BY <2>1, LiveRefreshes
  <1>2. CASE ~h.attempts[i].resume
    <2>1. Live!Proceed(h, i) = Live!Attach(h, i)
      BY <1>2 DEF Live!Proceed
    <2> QED  BY <2>1, LiveAttach
  <1> QED  BY <1>1, <1>2

(* A new attempt, or the one under way: of the key, and the only current.   *)
LEMMA LiveReconnect ==
    ASSUME Live!Basis, v7 \in Seq(Live!Request), NEW h \in Live!Hooks, Live!HookOK(h, Live!Line(h)),
           Len(h.attempts) < MaxAttempts,
           NEW key \in FollowedThreads, NEW resume \in BOOLEAN, NEW keep \in BOOLEAN, NEW c \in BOOLEAN
    PROVE  LET g == Live!Reconnect(h, key, resume, keep, c)
           IN  /\ LiveHandles(h, g, 0) /\ Len(g.attempts) <= MaxAttempts /\ g.active = h.active
               /\ Live!Going(g, key)
               /\ \A j \in 1..Len(g.attempts) : g.attempts[j].seq = g.sequence => g.attempts[j].key = key
  <1> DEFINE g == Live!Reconnect(h, key, resume, keep, c)
  <1>1. Len(h.attempts) \in Nat /\ h.sequence \in Nat /\ MaxAttempts \in Nat /\ h.inFlight \in Nat
        /\ h.attempts \in Seq(Live!Attempt)
    BY LiveLine DEF Live!Basis, Live!Hooks
  <1>2. CASE Live!Joins(h, key)
    <2>1. g = [h EXCEPT !.desired = key]
      BY <1>2 DEF Live!Reconnect
    <2> HIDE DEF g
    <2>2. key \in Live!Keys
      BY DEF Live!Keys
    <2>3. g \in Live!Hooks /\ g.attempts = h.attempts /\ g.sequence = h.sequence /\ g.sent = h.sent
          /\ g.inFlight = h.inFlight /\ g.inFlightSeq = h.inFlightSeq /\ g.active = h.active
      BY <2>1, <2>2 DEF Live!Hooks
    <2>4. Live!HookOK(g, Live!Line(g)) /\ LiveRetains(h, g, 0)
      BY <2>3, LiveSame
    <2>5. h.inFlight \in 1..Len(h.attempts) /\ h.attempts[h.inFlight].step # "done"
          /\ h.attempts[h.inFlight].key = key /\ h.attempts[h.inFlight].seq = h.sequence
      BY <1>1, <1>2 DEF Live!HookOK, Live!FlightOK, Live!Joins
    <2>6. Live!Going(g, key)
      BY <2>3, <2>5 DEF Live!Going
    <2>7. \A j \in 1..Len(h.attempts) : h.attempts[j].seq = h.sequence => j = h.inFlight
      BY <2>5 DEF Live!HookOK, Live!NumbersOK
    <2>8. \A j \in 1..Len(g.attempts) : g.attempts[j].seq = g.sequence => g.attempts[j].key = key
      BY <2>3, <2>5, <2>7
    <2> QED  BY <1>1, <2>3, <2>4, <2>6, <2>8 DEF g, LiveHandles
  <1>3. CASE ~Live!Joins(h, key)
    <2> DEFINE id == Len(h.attempts) + 1
               new == [key |-> key, seq |-> h.sequence + 1, resume |-> resume, keep |-> keep, step |-> "connecting"]
               conn == IF ~c THEN "disconnected" ELSE IF resume \/ ~keep THEN "polling" ELSE "live"
               k == [h EXCEPT !.desired = key, !.sequence = @ + 1, !.inFlight = id, !.inFlightSeq = h.sequence + 1,
                              !.attempts = Append(@, new), !.conn = conn]
    <2>1. g = IF c THEN Live!Proceed(k, id) ELSE k
      BY <1>3 DEF Live!Reconnect
    <2> HIDE DEF g
    <2>2. new \in Live!Attempt /\ new.key = key /\ new.seq = h.sequence + 1 /\ new.step = "connecting"
      BY <1>1 DEF Live!Attempt
    <2> HIDE DEF new
    <2>3. conn \in {"live", "polling", "disconnected"}
      OBVIOUS
    <2> HIDE DEF conn
    <2>4. id \in 0..MaxAttempts /\ id \in 1..id /\ h.sequence + 1 \in Nat /\ key \in Live!Keys /\ id # 0
            /\ id \in Nat
      BY <1>1 DEF Live!Keys
    <2>5. /\ Append(h.attempts, new) \in Seq(Live!Attempt) /\ Len(Append(h.attempts, new)) = id
          /\ Append(h.attempts, new)[id] = new
          /\ \A j \in 1..Len(h.attempts) : j \in 1..id /\ Append(h.attempts, new)[j] = h.attempts[j]
          /\ \A j \in 1..id : j \in 1..Len(h.attempts) \/ j = id
      BY <1>1, <2>2, <2>4, LiveAppend
    <2>6. k \in Live!Hooks
      BY <2>3, <2>4, <2>5 DEF Live!Hooks
    <2>7. k.attempts = Append(h.attempts, new) /\ k.sequence = h.sequence + 1 /\ k.inFlight = id
          /\ k.inFlightSeq = h.sequence + 1 /\ k.sent = h.sent /\ k.active = h.active
      BY DEF Live!Hooks
    <2> HIDE DEF k
    <2>8. Len(k.attempts) = id /\ k.attempts[id] = new
          /\ \A j \in 1..Len(h.attempts) : j \in 1..id /\ k.attempts[j] = h.attempts[j]
      BY <2>5, <2>7
    <2>9. Live!Line(k) = Live!Line(h)
      BY <2>7 DEF Live!Line
    <2>10. \A p \in 1..Len(Live!Line(h)) : Live!Line(h)[p] \in Live!Request /\ Live!Line(h)[p].by \in Nat
      BY LiveLine DEF Live!Request, Live!Basis
    <2>11. ASSUME NEW p \in 1..Len(Live!Line(k)) PROVE Live!WaitedFor(Live!Line(k)[p], k)
      <3>1. Live!WaitedFor(Live!Line(h)[p], h) /\ Live!Line(h)[p].by \in Nat
        BY <2>9, <2>10 DEF Live!HookOK, Live!RequestsOK
      <3>2. CASE Live!Line(h)[p].by = 0
        BY <3>1, <3>2, <2>9 DEF Live!WaitedFor
      <3>3. CASE Live!Line(h)[p].by # 0
        <4>1. Live!Line(h)[p].by \in 1..Len(h.attempts)
          BY <1>1, <3>1, <3>3 DEF Live!WaitedFor
        <4>2. k.attempts[Live!Line(h)[p].by] = h.attempts[Live!Line(h)[p].by]
                /\ Live!Line(h)[p].by <= Len(k.attempts)
          BY <4>1, <2>4, <2>8
        <4> QED  BY <3>1, <3>3, <4>2, <2>9 DEF Live!WaitedFor
      <3> QED  BY <3>2, <3>3
    <2>12. \A p, q \in 1..Len(Live!Line(k)) : Live!Line(k)[p].by = Live!Line(k)[q].by /\ Live!Line(k)[p].by # 0 =>
            p = q
      BY <2>9 DEF Live!HookOK, Live!RequestsOK
    <2>13. \A j \in 1..Len(h.attempts) : h.attempts[j].seq \in Nat /\ h.attempts[j].seq <= h.sequence
      <3>1. \A j \in 1..Len(h.attempts) : h.attempts[j] \in Live!Attempt
        BY LiveLine
      <3> QED  BY <3>1 DEF Live!HookOK, Live!NumbersOK, Live!Attempt
    <2>14. Live!NumbersOK(k)
      <3> SUFFICES ASSUME NEW j \in 1..Len(k.attempts), NEW l \in 1..Len(k.attempts)
                   PROVE  /\ k.attempts[j].seq <= k.sequence
                          /\ k.attempts[j].seq = k.attempts[l].seq => j = l
        BY DEF Live!NumbersOK
      <3>1. CASE j \in 1..Len(h.attempts) /\ l \in 1..Len(h.attempts)
        <4>1. k.attempts[j] = h.attempts[j] /\ k.attempts[l] = h.attempts[l]
          BY <3>1, <2>8
        <4>2. h.attempts[j].seq \in Nat /\ h.attempts[j].seq <= h.sequence
          BY <3>1, <2>13
        <4>3. k.attempts[j].seq <= k.sequence
          BY <1>1, <2>7, <4>1, <4>2
        <4>4. k.attempts[j].seq = k.attempts[l].seq => j = l
          BY <3>1, <4>1 DEF Live!HookOK, Live!NumbersOK
        <4> QED  BY <4>3, <4>4
      <3>2. CASE j = id \/ l = id
        <4>1. k.attempts[j].seq <= k.sequence
          BY <1>1, <2>2, <2>5, <2>7, <2>8, <2>13
        <4>2. k.attempts[j].seq = k.attempts[l].seq => j = l
          BY <3>2, <1>1, <2>2, <2>5, <2>7, <2>8, <2>13
        <4> QED  BY <4>1, <4>2
      <3> QED  BY <2>5, <2>8, <3>1, <3>2
    <2>15. Live!FlightOK(k)
      <3>1. id <= Len(k.attempts)
        BY <2>4, <2>8
      <3> QED  BY <3>1, <2>2, <2>7, <2>8 DEF Live!FlightOK
    <2>16. Live!HookOK(k, Live!Line(k))
      BY <2>11, <2>12, <2>14, <2>15 DEF Live!HookOK, Live!RequestsOK
    <2>17. id \in 1..Len(k.attempts) /\ k.attempts[id].step \notin LiveWaiting
      BY <2>2, <2>4, <2>8 DEF LiveWaiting
    <2>18. /\ LiveHandles(k, g, id) /\ Len(g.attempts) = id /\ g.sequence = k.sequence /\ g.active = h.active
           /\ g.attempts[id].step # "done" /\ g.attempts[id].step # "refused"
      <3>1. CASE c
        <4>1. g = Live!Proceed(k, id)
          BY <2>1, <3>1
        <4>2. /\ LiveHandles(k, g, id) /\ Len(g.attempts) = Len(k.attempts)
              /\ g.sequence = k.sequence /\ g.active = k.active
              /\ g.attempts[id].step \in LiveWaiting \cup {"refreshing"}
          BY <4>1, <2>4, <2>6, <2>16, <2>17, LiveProceed
        <4> QED  BY <4>2, <2>7, <2>8 DEF LiveWaiting
      <3>2. CASE ~c
        <4>1. g = k
          BY <2>1, <3>2
        <4>2. LiveRetains(k, k, id)
          <5>1. k.sequence \in Nat /\ Len(k.attempts) \in Nat
            BY <2>6, LiveLine
          <5> QED  BY <5>1 DEF LiveRetains
        <4> QED  BY <4>1, <4>2, <2>2, <2>6, <2>7, <2>8, <2>16 DEF LiveHandles
      <3> QED  BY <3>1, <3>2
    <2>19. LiveRetains(h, g, 0)
      <3>1. \A j \in 1..Len(h.attempts) :
               /\ j \in 1..Len(g.attempts) /\ g.attempts[j].key = h.attempts[j].key
               /\ g.attempts[j].seq = h.attempts[j].seq /\ g.attempts[j].step = h.attempts[j].step
        BY <1>1, <2>8, <2>18 DEF LiveHandles, LiveRetains
      <3>2. \A j \in 1..Len(g.attempts) : g.attempts[j].step = "refused" => j \in 1..Len(h.attempts)
        BY <2>5, <2>8, <2>18
      <3>3. \A p \in 1..Len(Live!Line(h)) : p \in 1..Len(Live!Line(g)) /\ Live!Line(g)[p] = Live!Line(h)[p]
        BY <2>9, <2>18 DEF LiveHandles, LiveRetains
      <3>4. Len(h.attempts) <= Len(g.attempts) /\ h.sequence <= g.sequence
        BY <1>1, <2>7, <2>18
      <3> QED  BY <3>1, <3>2, <3>3, <3>4 DEF LiveRetains
    <2>20. g.attempts[id].key = key /\ g.attempts[id].seq = g.sequence /\ id \in 1..Len(g.attempts)
      BY <2>2, <2>7, <2>8, <2>17, <2>18 DEF LiveHandles, LiveRetains
    <2>21. Live!Going(g, key)
      BY <2>18, <2>20 DEF Live!Going
    <2>22. \A j \in 1..Len(g.attempts) : g.attempts[j].seq = g.sequence => g.attempts[j].key = key
      BY <2>18, <2>20 DEF LiveHandles, Live!HookOK, Live!NumbersOK
    <2>23. Len(g.attempts) <= MaxAttempts
      BY <1>1, <2>4, <2>18
    <2> QED  BY <2>18, <2>19, <2>21, <2>22, <2>23 DEF g, LiveHandles
  <1> QED  BY <1>2, <1>3

LEMMA LiveReconcile ==
    ASSUME v7 \in Seq(Live!Request), NEW h \in Live!Hooks, Live!HookOK(h, Live!Line(h)), NEW c \in BOOLEAN
    PROVE  LET g == Live!Reconcile(h, c)
           IN  /\ LiveHandles(h, g, 0) /\ g.attempts = h.attempts /\ g.sequence = h.sequence /\ g.sent = h.sent
               /\ g.active = h.active
  <1> DEFINE g == Live!Reconcile(h, c)
  <1>1. /\ g \in Live!Hooks /\ g.attempts = h.attempts /\ g.sequence = h.sequence /\ g.sent = h.sent
        /\ g.inFlight = h.inFlight /\ g.inFlightSeq = h.inFlightSeq /\ g.active = h.active
    BY DEF Live!Reconcile, Live!Hooks
  <1> HIDE DEF g
  <1>2. Live!HookOK(g, Live!Line(g)) /\ LiveRetains(h, g, 0)
    BY <1>1, LiveSame
  <1> QED  BY <1>1, <1>2 DEF LiveHandles, g

(* The hook lets go of the thread that was followed, and asks so.           *)
LEMMA LiveLeaves ==
    ASSUME Live!Basis, v7 \in Seq(Live!Request), NEW h \in Live!Hooks, Live!HookOK(h, Live!Line(h)),
           h.active # None,
           NEW k \in Live!Hooks, k.attempts = h.attempts, k.sequence = h.sequence, k.sent = h.sent,
           k.inFlight = h.inFlight, k.inFlightSeq = h.inFlightSeq
    PROVE  LET g == Live!Unsubscribe(k, h.active, 0)
           IN  /\ LiveHandles(h, g, 0) /\ g.attempts = h.attempts /\ g.sequence = h.sequence
               /\ g.active = k.active
               /\ \E p \in 1..Len(Live!Line(g)) : Live!Line(g)[p].key = h.active
  <1> DEFINE g == Live!Unsubscribe(k, h.active, 0)
  <1>1. h.active \in FollowedThreads
    BY DEF Live!Hooks, Live!Keys
  <1>2. Live!HookOK(k, Live!Line(k)) /\ LiveRetains(h, k, 0)
    BY LiveSame
  <1>3. /\ g \in Live!Hooks /\ Live!HookOK(g, Live!Line(g)) /\ LiveRetains(k, g, 0)
        /\ \E p \in 1..Len(Live!Line(g)) : Live!Line(g)[p].key = h.active
    BY <1>1, <1>2, LiveUnsubscribe
  <1>4. g.attempts = k.attempts /\ g.sequence = k.sequence /\ g.active = k.active
    BY DEF Live!Unsubscribe, Live!Hooks
  <1> HIDE DEF g
  <1>5. LiveRetains(h, g, 0)
    BY <1>2, <1>3, LiveRetainsBoth
  <1> QED  BY <1>3, <1>4, <1>5 DEF LiveHandles, g

LEMMA LiveKeyChanged ==
    ASSUME Live!Basis, v7 \in Seq(Live!Request), v3 \in BOOLEAN, NEW h \in Live!Hooks,
           Live!HookOK(h, Live!Line(h)),
           Len(h.attempts) < MaxAttempts,
           NEW key \in Live!Keys, NEW c \in BOOLEAN, NEW resume \in BOOLEAN
    PROVE  LET g == Live!KeyChanged(h, key, c, resume)
           IN  /\ LiveHandles(h, g, 0) /\ Len(g.attempts) <= MaxAttempts
               /\ g.active = (IF h.active = key THEN key ELSE None)
               /\ \/ h.active \in {g.active, None}
                  \/ \E p \in 1..Len(Live!Line(g)) : Live!Line(g)[p].key = h.active
               /\ \/ /\ key = None \/ ~v3 \/ (g.active = key /\ c)
                     /\ g.attempts = h.attempts /\ g.sequence = h.sequence
                  \/ /\ key # None /\ v3 /\ Live!Going(g, key)
                     /\ \A j \in 1..Len(g.attempts) : g.attempts[j].seq = g.sequence => g.attempts[j].key = key
  <1> DEFINE left == h.active # None /\ h.active # key
             h1 == [h EXCEPT !.desired = key, !.active = IF left THEN None ELSE @]
             h2 == IF left THEN Live!Unsubscribe(h1, h.active, 0) ELSE h1
             g == Live!KeyChanged(h, key, c, resume)
  <1>1. g = (IF key = None \/ ~v3 THEN Live!Reconcile(h2, c)
             ELSE IF h2.active = key /\ h2.conn # "disconnected" /\ c THEN h2
             ELSE Live!Reconnect(h2, key, resume, TRUE, c))
    BY DEF Live!KeyChanged
  <1> HIDE DEF g
  <1>2. None \in Live!Keys /\ h.active \in Live!Keys /\ Len(h.attempts) \in Nat /\ MaxAttempts \in Nat
    BY LiveLine DEF Live!Hooks, Live!Keys, Live!Basis
  <1>3. /\ h1 \in Live!Hooks /\ h1.attempts = h.attempts /\ h1.sequence = h.sequence /\ h1.sent = h.sent
        /\ h1.inFlight = h.inFlight /\ h1.inFlightSeq = h.inFlightSeq
        /\ h1.active = (IF left THEN None ELSE h.active)
    BY <1>2 DEF Live!Hooks
  <1> HIDE DEF h1
  <1>4. /\ LiveHandles(h, h2, 0) /\ h2.attempts = h.attempts /\ h2.sequence = h.sequence
        /\ h2.active = (IF h.active = key THEN key ELSE None)
        /\ \/ h.active \in {h2.active, None}
           \/ \E p \in 1..Len(Live!Line(h2)) : Live!Line(h2)[p].key = h.active
    <2>1. CASE left
      <3>1. h2 = Live!Unsubscribe(h1, h.active, 0)
        BY <2>1
      <3>2. /\ LiveHandles(h, h2, 0) /\ h2.attempts = h.attempts /\ h2.sequence = h.sequence
            /\ h2.active = h1.active
            /\ \E p \in 1..Len(Live!Line(h2)) : Live!Line(h2)[p].key = h.active
        BY <1>3, <2>1, <3>1, LiveLeaves
      <3> QED  BY <1>3, <2>1, <3>2
    <2>2. CASE ~left
      <3>1. h2 = h1
        BY <2>2
      <3>2. LiveHandles(h, h1, 0)
        BY <1>3, LiveSame DEF LiveHandles
      <3> QED  BY <1>3, <2>2, <3>1, <3>2
    <2> QED  BY <2>1, <2>2
  <1> HIDE DEF h2
  <1>5. h2 \in Live!Hooks /\ Live!HookOK(h2, Live!Line(h2)) /\ LiveRetains(h, h2, 0)
          /\ Len(h2.attempts) < MaxAttempts
    BY <1>4 DEF LiveHandles
  <1>6. CASE key = None \/ ~v3
    <2>1. g = Live!Reconcile(h2, c)
      BY <1>1, <1>6
    <2>2. /\ LiveHandles(h2, g, 0) /\ g.attempts = h2.attempts /\ g.sequence = h2.sequence
          /\ g.sent = h2.sent /\ g.active = h2.active
      BY <1>5, <2>1, LiveReconcile
    <2>3. LiveRetains(h, g, 0) /\ Live!Line(g) = Live!Line(h2)
      BY <1>5, <2>2, LiveRetainsBoth DEF LiveHandles, Live!Line
    <2> QED  BY <1>2, <1>4, <1>5, <1>6, <2>2, <2>3 DEF LiveHandles, g
  <1>7. CASE key # None /\ v3 /\ h2.active = key /\ h2.conn # "disconnected" /\ c
    <2>1. g = h2
      BY <1>1, <1>7
    <2>2. LiveHandles(h, g, 0) /\ Len(g.attempts) <= MaxAttempts /\ g.active = key /\ h.active = key
          /\ g.attempts = h.attempts /\ g.sequence = h.sequence
      BY <1>2, <1>4, <1>5, <1>7, <2>1
    <2> QED  BY <1>7, <2>2 DEF g
  <1>8. CASE key # None /\ v3 /\ ~(h2.active = key /\ h2.conn # "disconnected" /\ c)
    <2>1. g = Live!Reconnect(h2, key, resume, TRUE, c) /\ key \in FollowedThreads
      BY <1>1, <1>8 DEF Live!Keys
    <2>2. /\ LiveHandles(h2, g, 0) /\ Len(g.attempts) <= MaxAttempts /\ g.active = h2.active
          /\ Live!Going(g, key)
          /\ \A j \in 1..Len(g.attempts) : g.attempts[j].seq = g.sequence => g.attempts[j].key = key
      <3>1. h2 \in Live!Hooks /\ Live!HookOK(h2, Live!Line(h2)) /\ Len(h2.attempts) < MaxAttempts
              /\ key \in FollowedThreads
            /\ TRUE \in BOOLEAN
        BY <1>5, <2>1
      <3>2. \A keep \in BOOLEAN :
               LET k == Live!Reconnect(h2, key, resume, keep, c)
               IN  /\ LiveHandles(h2, k, 0) /\ Len(k.attempts) <= MaxAttempts /\ k.active = h2.active
                   /\ Live!Going(k, key)
                   /\ \A j \in 1..Len(k.attempts) : k.attempts[j].seq = k.sequence => k.attempts[j].key = key
        BY <3>1, LiveReconnect
      <3> QED  BY <2>1, <3>1, <3>2, Zenon
    <2>3. LiveRetains(h, g, 0)
      BY <1>5, <2>2, LiveRetainsBoth DEF LiveHandles
    <2>4. \A p \in 1..Len(Live!Line(h2)) : p \in 1..Len(Live!Line(g)) /\ Live!Line(g)[p] = Live!Line(h2)[p]
      BY <2>2 DEF LiveHandles, LiveRetains
    <2>5. \/ h.active \in {g.active, None}
          \/ \E p \in 1..Len(Live!Line(g)) : Live!Line(g)[p].key = h.active
      BY <1>4, <2>2, <2>4
    <2> QED  BY <1>4, <1>8, <2>2, <2>3, <2>5 DEF LiveHandles, g
  <1> QED  BY <1>6, <1>7, <1>8

(* The window is left: whatever is under way is stale.                      *)
LEMMA LiveBlurred ==
    ASSUME Live!Basis, v7 \in Seq(Live!Request), v2 \in BOOLEAN, NEW h \in Live!Hooks,
           Live!HookOK(h, Live!Line(h))
    PROVE  LET g == Live!Blurred(h)
           IN  /\ LiveHandles(h, g, 0) /\ g.attempts = h.attempts /\ g.active = None
               /\ \A j \in 1..Len(g.attempts) : g.attempts[j].seq # g.sequence
               /\ h.active # None => \E p \in 1..Len(Live!Line(g)) : Live!Line(g)[p].key = h.active
  <1> DEFINE h1 == [h EXCEPT !.sequence = @ + 1, !.desired = None, !.active = None]
             h2 == Live!Unsubscribe(h1, h.active, 0)
             g == Live!Blurred(h)
  <1>1. g = IF h.active = None THEN h1 ELSE Live!Reconcile(h2, v2)
    BY DEF Live!Blurred
  <1> HIDE DEF g
  <1>2. h.sequence \in Nat /\ Len(h.attempts) \in Nat /\ h.sequence + 1 \in Nat
        /\ \A j \in 1..Len(h.attempts) : h.attempts[j] \in Live!Attempt
    BY LiveLine
  <1>3. None \in Live!Keys
    BY DEF Live!Keys
  <1>4. /\ h1 \in Live!Hooks /\ h1.attempts = h.attempts /\ h1.sequence = h.sequence + 1 /\ h1.sent = h.sent
        /\ h1.inFlight = h.inFlight /\ h1.inFlightSeq = h.inFlightSeq /\ h1.active = None
    BY <1>2, <1>3 DEF Live!Hooks
  <1> HIDE DEF h1
  <1>5. \A j \in 1..Len(h.attempts) : h.attempts[j].seq \in Nat /\ h.attempts[j].seq <= h.sequence
    BY <1>2 DEF Live!HookOK, Live!NumbersOK, Live!Attempt
  <1>6. Live!HookOK(h1, Live!Line(h1)) /\ LiveRetains(h, h1, 0) /\ Live!Line(h1) = Live!Line(h)
    <2>1. Live!Line(h1) = Live!Line(h)
      BY <1>4 DEF Live!Line
    <2>2. Live!RequestsOK(h1, Live!Line(h1))
      BY <1>4, <2>1 DEF Live!HookOK, Live!RequestsOK, Live!WaitedFor
    <2>3. Live!NumbersOK(h1)
      BY <1>2, <1>4, <1>5 DEF Live!HookOK, Live!NumbersOK
    <2>4. Live!FlightOK(h1)
      BY <1>4 DEF Live!HookOK, Live!FlightOK
    <2>5. LiveRetains(h, h1, 0)
      BY <1>2, <1>4, <2>1 DEF LiveRetains
    <2> QED  BY <2>1, <2>2, <2>3, <2>4, <2>5 DEF Live!HookOK
  <1>7. \A j \in 1..Len(h.attempts) : h.attempts[j].seq # h.sequence + 1
    BY <1>2, <1>5
  <1>8. CASE h.active = None
    <2>1. g = h1
      BY <1>1, <1>8
    <2> QED  BY <1>4, <1>6, <1>7, <1>8, <2>1 DEF LiveHandles, g
  <1>9. CASE h.active # None
    <2>1. g = Live!Reconcile(h2, v2) /\ h.active \in FollowedThreads
      BY <1>1, <1>9 DEF Live!Hooks, Live!Keys
    <2>2. /\ h2 \in Live!Hooks /\ Live!HookOK(h2, Live!Line(h2)) /\ LiveRetains(h1, h2, 0)
          /\ \E p \in 1..Len(Live!Line(h2)) : Live!Line(h2)[p].key = h.active
      BY <1>4, <1>6, <2>1, LiveUnsubscribe
    <2>3. h2.attempts = h.attempts /\ h2.sequence = h.sequence + 1 /\ h2.active = None
      BY <1>4 DEF Live!Unsubscribe, Live!Hooks
    <2> HIDE DEF h2
    <2>4. /\ LiveHandles(h2, g, 0) /\ g.attempts = h2.attempts /\ g.sequence = h2.sequence
          /\ g.sent = h2.sent /\ g.active = h2.active
      BY <2>1, <2>2, LiveReconcile
    <2>5. Live!Line(g) = Live!Line(h2)
      BY <2>4 DEF Live!Line
    <2>6. LiveRetains(h, h2, 0)
      BY <1>4, <1>6, <2>2, LiveRetainsBoth
    <2>7. LiveRetains(h, g, 0)
      BY <2>2, <2>4, <2>6, LiveRetainsBoth DEF LiveHandles
    <2> QED  BY <1>7, <2>2, <2>3, <2>4, <2>5, <2>7 DEF LiveHandles, g
  <1> QED  BY <1>8, <1>9

(* What goes onto the wire.  What the hook lets go of is adrift, or asked   *)
(* about, or held again.                                                    *)
LEMMA LiveLetsGo ==
    ASSUME Live!Basis, Live!IInv, NEW g, NEW i, LiveHandles(v5, g, i), Len(g.attempts) <= MaxAttempts,
           NEW drops \in SUBSET FollowedThreads, Live!LetsGo(g, drops)
    PROVE  /\ v5' \in Live!Hooks /\ v5'.sent = <<>> /\ Len(v5'.attempts) <= MaxAttempts
           /\ v5'.attempts = g.attempts /\ v5'.sequence = g.sequence /\ v5'.active = g.active
           /\ v7' \in Seq(Live!Request) /\ v12' \subseteq FollowedThreads /\ Live!HookOK(v5', v7')
           /\ LiveRetains(v5, g, i) /\ v7' = Live!Line(g)
           /\ \A key : Live!Asked(key) => Live!Asked(key)'
           /\ \A key : (\E p \in 1..Len(Live!Line(g)) : Live!Line(g)[p].key = key) => Live!Asked(key)'
           /\ \A key \in v12 \cup drops : key \in v12' \/ Live!Asked(key)' \/ key = g.active
  <1>1. g \in Live!Hooks /\ Live!HookOK(g, Live!Line(g)) /\ LiveRetains(v5, g, i) /\ v7 \in Seq(Live!Request)
        /\ v12 \subseteq FollowedThreads /\ Live!Line(v5) = v7
    BY LiveTyped DEF LiveHandles
  <1>2. v5' = [g EXCEPT !.sent = <<>>] /\ v7' = Live!Line(g)
        /\ v12' = ((v12 \cup drops) \ {g.sent[q].key : q \in 1..Len(g.sent)}) \ {g.active}
    BY DEF Live!LetsGo, Live!Line
  <1>3. /\ v5' \in Live!Hooks /\ v5'.sent = <<>> /\ v5'.attempts = g.attempts /\ v5'.sequence = g.sequence
        /\ v5'.active = g.active /\ v5'.inFlight = g.inFlight /\ v5'.inFlightSeq = g.inFlightSeq
    <2>1. g \in Live!Hooks /\ <<>> \in Seq(Live!Request)
      BY <1>1
    <2> QED  BY <1>2, <2>1 DEF Live!Hooks
  <1>4. v7' \in Seq(Live!Request)
    BY <1>1, <1>2, LiveLine
  <1>5. Live!HookOK(v5', v7')
    BY <1>1, <1>2, <1>3 DEF Live!HookOK, Live!RequestsOK, Live!WaitedFor, Live!NumbersOK, Live!FlightOK
  <1>6. \A key : Live!Asked(key) => Live!Asked(key)'
    BY <1>1, <1>2 DEF Live!Asked, LiveRetains
  <1>7. \A key : (\E p \in 1..Len(Live!Line(g)) : Live!Line(g)[p].key = key) => Live!Asked(key)'
    BY <1>2 DEF Live!Asked
  <1>8. \A q \in 1..Len(g.sent) : \E p \in 1..Len(Live!Line(g)) : Live!Line(g)[p].key = g.sent[q].key
    <2>1. g.sent \in Seq(Live!Request)
      BY <1>1 DEF Live!Hooks
    <2>2. \A q \in 1..Len(g.sent) : Len(v7) + q \in 1..Len(v7 \o g.sent)
            /\ (v7 \o g.sent)[Len(v7) + q] = g.sent[q]
      BY <1>1, <2>1, LiveConcat
    <2> QED  BY <2>2 DEF Live!Line
  <1>9. \A key \in v12 \cup drops : key \in v12' \/ Live!Asked(key)' \/ key = g.active
    BY <1>2, <1>7, <1>8
  <1>10. v12' \subseteq FollowedThreads
    BY <1>1, <1>2
  <1> QED  BY <1>1, <1>2, <1>3, <1>4, <1>5, <1>6, <1>7, <1>9, <1>10

(* A subscription is still held or adrift, or somebody will deal with it.   *)
LEMMA LiveSubscribed ==
    ASSUME Live!Basis, Live!IInv, NEW g, NEW i, LiveHandles(v5, g, i), Len(g.attempts) <= MaxAttempts,
           NEW drops \in SUBSET FollowedThreads, Live!LetsGo(g, drops), v6' \subseteq v6, "refused" \in v11 =>
                   "refused" \in v11',
           \/ v5.active \in {g.active, None} \cup drops
           \/ v5.active \notin v6' \/ \E p \in 1..Len(Live!Line(g)) : Live!Line(g)[p].key = v5.active,
           i \in 1..Len(v5.attempts) /\ v5.attempts[i].step = "attached" =>
              \/ v5.attempts[i].key \in {g.active} \cup drops
              \/ v5.attempts[i].key \notin v6'
              \/ \E p \in 1..Len(Live!Line(g)) : Live!Line(g)[p].key = v5.attempts[i].key
    PROVE  Live!SubscriptionsOK' /\ Live!RefusedOK'
  <1>1. /\ v5'.attempts = g.attempts /\ v5'.active = g.active /\ LiveRetains(v5, g, i)
        /\ \A key : Live!Asked(key) => Live!Asked(key)'
        /\ \A key : (\E p \in 1..Len(Live!Line(g)) : Live!Line(g)[p].key = key) => Live!Asked(key)'
        /\ \A key \in v12 \cup drops : key \in v12' \/ Live!Asked(key)' \/ key = g.active
    BY LiveLetsGo
  <1>2. Live!SubscriptionsOK /\ Live!RefusedOK /\ v6 \subseteq FollowedThreads /\ None \notin v6
    BY LiveTyped DEF Live!IInv, Live!Basis
  <1>3. ASSUME "refused" \notin v11', NEW key \in v6'
        PROVE  Live!Asked(key)' \/ key = v5'.active \/ key \in v12' \/ Live!InStep(key, "attached")'
    <2>1. /\ key \in v6 /\ key # None
          /\ Live!Asked(key) \/ key = v5.active \/ key \in v12 \/ Live!InStep(key, "attached")
      BY <1>2, <1>3 DEF Live!SubscriptionsOK
    <2>2. CASE Live!Asked(key)
      BY <1>1, <2>2
    <2>3. CASE key = v5.active
      BY <1>1, <1>3, <2>1, <2>3
    <2>4. CASE key \in v12
      BY <1>1, <2>4
    <2>5. CASE Live!InStep(key, "attached")
      <3>1. PICK j \in 1..Len(v5.attempts) : v5.attempts[j].key = key /\ v5.attempts[j].step = "attached"
        BY <2>5 DEF Live!InStep
      <3>2. CASE j = i
        BY <1>1, <1>3, <3>1, <3>2
      <3>3. CASE j # i
        <4>1. j \in 1..Len(v5'.attempts) /\ v5'.attempts[j].key = key /\ v5'.attempts[j].step = "attached"
          BY <1>1, <3>1, <3>3 DEF LiveRetains
        <4> QED  BY <4>1 DEF Live!InStep
      <3> QED  BY <3>2, <3>3
    <2> QED  BY <2>1, <2>2, <2>3, <2>4, <2>5
  <1>4. Live!SubscriptionsOK'
    BY <1>3 DEF Live!SubscriptionsOK
  <1>5. Live!RefusedOK'
    BY <1>1, <1>2 DEF Live!RefusedOK, LiveRetains
  <1> QED  BY <1>4, <1>5

(* A thread is still followed, or somebody will tell or deal with it.       *)
LEMMA LiveTended ==
    ASSUME Live!Basis, Live!IInv, NEW g, NEW i, LiveHandles(v5, g, i), Len(g.attempts) <= MaxAttempts,
           NEW drops \in SUBSET FollowedThreads, Live!LetsGo(g, drops), v6 \subseteq v6',
           NEW key, Live!Told(key, v8) => Live!Told(key, v8)', Live!Tended(key),
           i \in 1..Len(v5.attempts) /\ v5.attempts[i].step = "detached" =>
              \E p \in 1..Len(Live!Line(g)) : Live!Line(g)[p].key = v5.attempts[i].key,
           Live!Going(v5, key) => Live!Going(g, key)
    PROVE  Live!Tended(key)'
  <1>1. /\ v5'.attempts = g.attempts /\ v5'.sequence = g.sequence /\ LiveRetains(v5, g, i)
        /\ \A k : Live!Asked(k) => Live!Asked(k)'
        /\ \A k : (\E p \in 1..Len(Live!Line(g)) : Live!Line(g)[p].key = k) => Live!Asked(k)'
    BY LiveLetsGo
  <1>2. CASE ~Live!Lost(key, v8)
    <2>1. key \in v6' \/ Live!Asked(key)' \/ Live!Told(key, v8)'
      BY <1>1, <1>2 DEF Live!Lost
    <2> QED  BY <2>1 DEF Live!Tended, Live!Lost
  <1>3. CASE Live!InStep(key, "detached")
    <2>1. PICK j \in 1..Len(v5.attempts) : v5.attempts[j].key = key /\ v5.attempts[j].step = "detached"
      BY <1>3 DEF Live!InStep
    <2>2. CASE j = i
      <3>1. Live!Asked(key)'
        BY <1>1, <2>1, <2>2
      <3> QED  BY <3>1 DEF Live!Tended, Live!Lost
    <2>3. CASE j # i
      <3>1. j \in 1..Len(v5'.attempts) /\ v5'.attempts[j].key = key /\ v5'.attempts[j].step = "detached"
        BY <1>1, <2>1, <2>3 DEF LiveRetains
      <3>2. Live!InStep(key, "detached")'
        BY <3>1 DEF Live!InStep
      <3> QED  BY <3>2 DEF Live!Tended
    <2> QED  BY <2>2, <2>3
  <1>4. CASE Live!Going(v5, key)
    <2>1. Live!Going(v5, key)'
      BY <1>1, <1>4 DEF Live!Going
    <2> QED  BY <2>1 DEF Live!Tended
  <1> QED  BY <1>2, <1>3, <1>4 DEF Live!Tended

(* An attempt under way for a key is enough.                                *)
LEMMA LiveUnderWay ==
    ASSUME NEW g, NEW key, Live!Going(g, key), v5'.attempts = g.attempts, v5'.sequence = g.sequence
    PROVE  Live!Tended(key)'
  <1>1. Live!Going(v5, key)'
    BY DEF Live!Going
  <1> QED  BY <1>1 DEF Live!Tended

(* A current attempt that does not come to its end stays under way.         *)
LEMMA LiveGoesOn ==
    ASSUME NEW h, NEW g, NEW i, LiveRetains(h, g, i), g.sequence = h.sequence,
           i \in 1..Len(h.attempts) => g.attempts[i].step # "done" \/ h.attempts[i].seq # h.sequence,
           NEW key, Live!Going(h, key)
    PROVE  Live!Going(g, key)
  <1>1. PICK j \in 1..Len(h.attempts) :
           h.attempts[j].seq = h.sequence /\ h.attempts[j].key = key /\ h.attempts[j].step # "done"
    BY DEF Live!Going
  <1>2. j \in 1..Len(g.attempts) /\ g.attempts[j].seq = g.sequence /\ g.attempts[j].key = key
    BY <1>1 DEF LiveRetains
  <1>3. g.attempts[j].step # "done"
    BY <1>1 DEF LiveRetains
  <1> QED  BY <1>2, <1>3 DEF Live!Going

(* No attempt begins, and none becomes stale.                               *)
LEMMA LiveStays ==
    ASSUME Live!IInv, NEW g, NEW i, LiveRetains(v5, g, i), Len(g.attempts) = Len(v5.attempts),
           g.sequence = v5.sequence,
           v5'.attempts = g.attempts, v5'.sequence = g.sequence, v5'.active \in {v5.active, None},
           v1' = v1, v3' = v3
    PROVE  Live!CurrentOK' /\ Live!ActiveOK'
  <1>1. Live!CurrentOK /\ Live!ActiveOK
    BY DEF Live!IInv
  <1>2. \A j \in 1..Len(v5'.attempts) : /\ j \in 1..Len(v5.attempts) /\ v5'.attempts[j].key = v5.attempts[j].key
                                        /\ Live!Current(j)' => Live!Current(j)
    BY DEF LiveRetains, Live!Current
  <1>3. Live!CurrentOK'
    BY <1>1, <1>2 DEF Live!CurrentOK
  <1>4. Live!ActiveOK'
    BY <1>1, <1>2 DEF Live!ActiveOK
  <1> QED  BY <1>3, <1>4

(* The effect on the key: another thread, or another connection.            *)
LEMMA LiveKeyStep ==
    ASSUME Live!Basis, Live!IInv, Len(v5.attempts) < MaxAttempts, NEW resume \in BOOLEAN,
           v1' \in Live!Keys, v2' \in BOOLEAN, v3' = v3, v4' = v4,
           v11' = v11,
           Live!Becomes(Live!KeyChanged(v5, v1', v2', resume)),
           v6' = v6 \/ (v6' = {} /\ ~v2'),
           \A key : Live!Told(key, v8) => Live!Told(key, v8)',
           v8' \in Seq(Live!Event), v9' \in 0..MaxLiveMoves, v10' = v10
    PROVE  Live!IInv'
  <1> DEFINE g == Live!KeyChanged(v5, v1', v2', resume)
  <1>1. /\ v5 \in Live!Hooks /\ v7 \in Seq(Live!Request) /\ v3 \in BOOLEAN /\ Live!HookOK(v5, Live!Line(v5))
        /\ v6 \subseteq FollowedThreads /\ None \notin FollowedThreads
    BY LiveTyped DEF Live!Basis
  <1>2. /\ LiveHandles(v5, g, 0) /\ Len(g.attempts) <= MaxAttempts
        /\ g.active = (IF v5.active = v1' THEN v1' ELSE None)
        /\ \/ v5.active \in {g.active, None}
           \/ \E p \in 1..Len(Live!Line(g)) : Live!Line(g)[p].key = v5.active
        /\ \/ /\ v1' = None \/ ~v3 \/ (g.active = v1' /\ v2')
              /\ g.attempts = v5.attempts /\ g.sequence = v5.sequence
           \/ /\ v1' # None /\ v3 /\ Live!Going(g, v1')
              /\ \A j \in 1..Len(g.attempts) : g.attempts[j].seq = g.sequence => g.attempts[j].key = v1'
    BY <1>1, LiveKeyChanged
  <1>3. Live!LetsGo(g, {}) /\ {} \in SUBSET FollowedThreads
    BY DEF Live!Becomes
  <1> HIDE DEF g
  <1>4. /\ v5' \in Live!Hooks /\ v5'.sent = <<>> /\ Len(v5'.attempts) <= MaxAttempts
        /\ v5'.attempts = g.attempts /\ v5'.sequence = g.sequence /\ v5'.active = g.active
        /\ v7' \in Seq(Live!Request) /\ v12' \subseteq FollowedThreads /\ Live!HookOK(v5', v7')
    BY <1>2, <1>3, LiveLetsGo
  <1>5. Live!TypeOK'
    BY <1>1, <1>4, LiveTyped DEF Live!TypeOK
  <1>6. v6' \subseteq v6
    OBVIOUS
  <1>7. 0 \notin 1..Len(v5.attempts)
    BY LiveTyped
  <1>8. Live!SubscriptionsOK' /\ Live!RefusedOK'
    BY <1>2, <1>3, <1>6, <1>7, LiveSubscribed, <1>1
  <1>9. Live!CurrentOK /\ Live!ActiveOK /\ Live!TendedOK
    BY DEF Live!IInv
  <1>10. Live!CurrentOK'
    <2> SUFFICES ASSUME NEW j \in 1..Len(v5'.attempts), Live!Current(j)'
                 PROVE  v3' /\ v1' \in {v5'.attempts[j].key, None}
      BY DEF Live!CurrentOK
    <2>1. g.attempts[j].seq = g.sequence /\ j \in 1..Len(g.attempts)
      BY <1>4 DEF Live!Current
    <2>2. CASE g.attempts = v5.attempts /\ g.sequence = v5.sequence
               /\ (v1' = None \/ ~v3 \/ (g.active = v1' /\ v2'))
      <3>1. v3 /\ v1 \in {v5.attempts[j].key, None}
        BY <1>9, <2>1, <2>2 DEF Live!CurrentOK, Live!Current
      <3>2. CASE v1' = None
        BY <3>1, <3>2
      <3>3. CASE v1' # None
        <4>1. v5.active = v1'
          BY <1>2, <2>2, <3>1, <3>3
        <4>2. v1' = v5.attempts[j].key
          BY <1>9, <2>1, <2>2, <3>1, <3>3, <4>1 DEF Live!ActiveOK, Live!Current
        <4> QED  BY <1>4, <2>2, <3>1, <4>2
      <3> QED  BY <3>2, <3>3
    <2>3. CASE /\ v3
               /\ \A l \in 1..Len(g.attempts) : g.attempts[l].seq = g.sequence => g.attempts[l].key = v1'
      BY <1>4, <2>1, <2>3
    <2> QED  BY <1>2, <2>2, <2>3
  <1>11. Live!ActiveOK'
    BY <1>2, <1>4 DEF Live!ActiveOK
  <1>0. PICK t \in Live!Keys : t = v1'
    OBVIOUS
  <1>12. ASSUME v11 = {}, v3, t # None, v2' \/ v5'.active # None
         PROVE  Live!Tended(t)'
    <2>1. CASE Live!Going(g, t)
      BY <1>4, <2>1, LiveUnderWay
    <2>2. CASE g.active = t /\ v2' /\ g.attempts = v5.attempts /\ g.sequence = v5.sequence
      <3>1. v5.active = t /\ v6 \subseteq v6'
        BY <1>0, <1>2, <1>12, <2>2
      <3>2. Live!Tended(t)
        BY <1>9, <1>12, <3>1 DEF Live!TendedOK
      <3>3. Live!Going(v5, t) => Live!Going(g, t)
        BY <2>2 DEF Live!Going
      <3> QED  BY <1>2, <1>3, <1>7, <3>1, <3>2, <3>3, LiveTended
    <2> QED  BY <1>0, <1>2, <1>4, <1>12, <2>1, <2>2
  <1>13. Live!TendedOK'
    <2> SUFFICES ASSUME v11' = {}, v3'
                 PROVE  /\ v5'.active # None => Live!Tended(v5.active)'
                        /\ v2' /\ v4' /\ v1' # None => Live!Tended(v1)'
      BY DEF Live!TendedOK
    <2>1. v5'.active # None => v5'.active = t /\ t # None
      BY <1>0, <1>2, <1>4
    <2>2. v5'.active # None => Live!Tended(t)'
      BY <1>12, <2>1
    <2>3. v5'.active # None => Live!Tended(v5.active)'
      BY <2>1, <2>2
    <2>4. v2' /\ t # None => Live!Tended(t)'
      BY <1>12
    <2>5. v2' /\ v1' # None => Live!Tended(v1)'
      BY <1>0, <2>4
    <2> QED  BY <2>3, <2>5
  <1> QED  BY <1>4, <1>5, <1>8, <1>10, <1>11, <1>13 DEF Live!IInv

LEMMA LiveAppendEvent ==
    ASSUME NEW evs \in Seq(Live!Event), NEW e \in Live!Event
    PROVE  Append(evs, e) \in Seq(Live!Event) /\ \A key : Live!Told(key, evs) => Live!Told(key, Append(evs, e))
  <1>1. \A p \in 1..Len(evs) : p \in 1..Len(Append(evs, e)) /\ Append(evs, e)[p] = evs[p]
    BY LiveAppend
  <1> QED  BY <1>1 DEF Live!Told

LEMMA LiveSelect ==
    ASSUME Live!Basis, Live!IInv, NEW t \in Live!Keys, Live!Select(t)
    PROVE  Live!IInv'
  <1>1. PICK resume \in BOOLEAN : Live!Becomes(Live!KeyChanged(v5, t, v2, resume))
    BY DEF Live!Select
  <1>2. /\ v1' = t /\ v2' = v2 /\ v3' = v3 /\ v4' = v4 /\ v6' = v6
        /\ v8' = v8 /\ v10' = v10 /\ v11' = v11 /\ Len(v5.attempts) < MaxAttempts
        /\ v9 < MaxLiveMoves /\ v9' = v9 + 1
    BY DEF Live!Select, Live!Room, Live!Move
  <1>3. v9' \in 0..MaxLiveMoves /\ v8' \in Seq(Live!Event) /\ v2' \in BOOLEAN
    BY <1>2, LiveTyped DEF Live!Basis
  <1>4. \A key : Live!Told(key, v8) => Live!Told(key, v8)'
    BY <1>2 DEF Live!Told
  <1>5. Live!Becomes(Live!KeyChanged(v5, v1', v2', resume))
    BY <1>1, <1>2
  <1> QED  BY <1>2, <1>3, <1>4, <1>5, LiveKeyStep

LEMMA LiveDisconnect ==
    ASSUME Live!Basis, Live!IInv, Live!Disconnect
    PROVE  Live!IInv'
  <1>1. PICK resume \in BOOLEAN : Live!Becomes(Live!KeyChanged(v5, v1, FALSE, resume))
    BY DEF Live!Disconnect
  <1>2. /\ v1' = v1 /\ v2' = FALSE /\ v3' = v3 /\ v4' = v4 /\ v6' = {}
        /\ v8' = v8 /\ v10' = v10 /\ v11' = v11 /\ Len(v5.attempts) < MaxAttempts
        /\ v9 < MaxLiveMoves /\ v9' = v9 + 1
    BY DEF Live!Disconnect, Live!Room, Live!Move
  <1>31. v9' \in 0..MaxLiveMoves /\ v8' \in Seq(Live!Event) /\ v1' \in Live!Keys
    BY <1>2, LiveTyped DEF Live!Basis
  <1>3. v9' \in 0..MaxLiveMoves /\ v8' \in Seq(Live!Event) /\ v2' \in BOOLEAN /\ v1' \in Live!Keys
    BY <1>2, <1>31
  <1>4. \A key : Live!Told(key, v8) => Live!Told(key, v8)'
    BY <1>2 DEF Live!Told
  <1>5. Live!Becomes(Live!KeyChanged(v5, v1', v2', resume))
    BY <1>1, <1>2
  <1> QED  BY <1>2, <1>3, <1>4, <1>5, LiveKeyStep

LEMMA LiveConnect ==
    ASSUME Live!Basis, Live!IInv, Live!Connect
    PROVE  Live!IInv'
  <1>1. PICK resume \in BOOLEAN : Live!Becomes(Live!KeyChanged(v5, v1, TRUE, resume))
    BY DEF Live!Connect
  <1> DEFINE e == [kind |-> "connected", key |-> None]
  <1>2. /\ v1' = v1 /\ v2' = TRUE /\ v3' = v3 /\ v4' = v4 /\ v6' = v6
        /\ v8' = Append(v8, e) /\ v10' = v10 /\ v11' = v11
        /\ Len(v5.attempts) < MaxAttempts /\ v9' = v9
    BY DEF Live!Connect, Live!Room
  <1>3. v9' \in 0..MaxLiveMoves /\ v8 \in Seq(Live!Event) /\ v2' \in BOOLEAN /\ v1' \in Live!Keys
    BY <1>2, LiveTyped DEF Live!Basis
  <1>4. e \in Live!Event
    BY DEF Live!Event, Live!Keys
  <1> HIDE DEF e
  <1>5. v8' \in Seq(Live!Event) /\ \A key : Live!Told(key, v8) => Live!Told(key, v8')
    BY <1>2, <1>3, <1>4, LiveAppendEvent
  <1>6. \A key : Live!Told(key, v8) => Live!Told(key, v8)'
    BY <1>5 DEF Live!Told
  <1>7. Live!Becomes(Live!KeyChanged(v5, v1', v2', resume))
    BY <1>1, <1>2
  <1> QED  BY <1>2, <1>3, <1>5, <1>6, <1>7, LiveKeyStep

(* The window is looked at again.                                           *)
LEMMA LiveFocusStep ==
    ASSUME Live!Basis, Live!IInv, Len(v5.attempts) < MaxAttempts, Live!Becomes(Live!Focused(v5)),
           v1' = v1, v2' = v2, v3' = TRUE, v4' \in BOOLEAN, v3 \/ ~v4',
           v6' = v6, v8' = v8, v11' = v11, v10' = v10, v9' \in 0..MaxLiveMoves
    PROVE  Live!IInv'
  <1> DEFINE g == Live!Focused(v5)
  <1>1. /\ v5 \in Live!Hooks /\ v7 \in Seq(Live!Request) /\ v2 \in BOOLEAN /\ Live!HookOK(v5, Live!Line(v5))
        /\ v1 \in Live!Keys /\ Len(v5.attempts) \in Nat /\ v5.sequence \in Nat /\ MaxAttempts \in Nat
    BY LiveTyped DEF Live!Basis
  <1>2. Live!CurrentOK /\ Live!ActiveOK /\ Live!TendedOK
    BY DEF Live!IInv
  <1>3. /\ LiveHandles(v5, g, 0) /\ Len(g.attempts) <= MaxAttempts /\ g.active = v5.active
        /\ \/ v1 = None /\ g = v5
           \/ /\ v1 # None /\ Live!Going(g, v1)
              /\ \A j \in 1..Len(g.attempts) : g.attempts[j].seq = g.sequence => g.attempts[j].key = v1
    <2>1. CASE v1 = None
      <3>1. g = v5
        BY <2>1 DEF Live!Focused
      <3>2. LiveHandles(v5, v5, 0)
        BY <1>1 DEF LiveHandles, LiveRetains
      <3> QED  BY <1>1, <2>1, <3>1, <3>2
    <2>2. CASE v1 # None
      <3>1. g = Live!Reconnect(v5, v1, TRUE, FALSE, v2) /\ v1 \in FollowedThreads
        BY <1>1, <2>2 DEF Live!Focused, Live!Keys
      <3> HIDE DEF g
      <3>2. \A resume, keep \in BOOLEAN :
               LET k == Live!Reconnect(v5, v1, resume, keep, v2)
               IN  /\ LiveHandles(v5, k, 0) /\ Len(k.attempts) <= MaxAttempts /\ k.active = v5.active
                   /\ Live!Going(k, v1)
                   /\ \A j \in 1..Len(k.attempts) : k.attempts[j].seq = k.sequence => k.attempts[j].key = v1
        <4> TAKE resume, keep \in BOOLEAN
        <4>1. v1 \in FollowedThreads /\ Len(v5.attempts) < MaxAttempts
          BY <3>1
        <4> QED  BY <1>1, <4>1, LiveReconnect
      <3>3. TRUE \in BOOLEAN /\ FALSE \in BOOLEAN
        OBVIOUS
      <3>4. LET k == Live!Reconnect(v5, v1, TRUE, FALSE, v2)
            IN  /\ LiveHandles(v5, k, 0) /\ Len(k.attempts) <= MaxAttempts /\ k.active = v5.active
                /\ Live!Going(k, v1)
                /\ \A j \in 1..Len(k.attempts) : k.attempts[j].seq = k.sequence => k.attempts[j].key = v1
        BY <3>2, <3>3, Zenon
      <3> QED  BY <2>2, <3>1, <3>4
    <2> QED  BY <2>1, <2>2
  <1>4. Live!LetsGo(g, {}) /\ {} \in SUBSET FollowedThreads
    BY DEF Live!Becomes
  <1> HIDE DEF g
  <1>5. /\ v5' \in Live!Hooks /\ v5'.sent = <<>> /\ Len(v5'.attempts) <= MaxAttempts
        /\ v5'.attempts = g.attempts /\ v5'.sequence = g.sequence /\ v5'.active = g.active
        /\ v7' \in Seq(Live!Request) /\ v12' \subseteq FollowedThreads /\ Live!HookOK(v5', v7')
    BY <1>3, <1>4, LiveLetsGo
  <1>6. Live!TypeOK'
    <2>1. v3' \in BOOLEAN
      OBVIOUS
    <2> QED  BY <1>5, <2>1, LiveTyped DEF Live!TypeOK
  <1>7. 0 \notin 1..Len(v5.attempts) /\ v6' \subseteq v6 /\ v6 \subseteq v6'
    BY <1>1
  <1>8. Live!SubscriptionsOK' /\ Live!RefusedOK'
    BY <1>3, <1>4, <1>7, LiveSubscribed
  <1>9. Live!CurrentOK'
    <2> SUFFICES ASSUME NEW j \in 1..Len(v5'.attempts), Live!Current(j)'
                 PROVE  v1 \in {v5'.attempts[j].key, None}
      BY DEF Live!CurrentOK
    <2> QED  BY <1>3, <1>5 DEF Live!Current
  <1>10. Live!ActiveOK'
    <2>1. v1' # None => v5'.active \in {v1', None}
      BY <1>2, <1>3, <1>5 DEF Live!ActiveOK
    <2>2. ASSUME v1' = None, v5'.active # None, NEW j \in 1..Len(v5'.attempts), Live!Current(j)'
          PROVE  v5'.attempts[j].key = v5'.active
      <3>1. g = v5
        BY <1>3, <2>2
      <3> QED  BY <1>2, <1>5, <2>2, <3>1 DEF Live!ActiveOK, Live!Current
    <2> QED  BY <2>1, <2>2 DEF Live!ActiveOK
  <1>11. Live!TendedOK'
    <2> SUFFICES ASSUME v11' = {}, v3'
                 PROVE  /\ v5'.active # None => Live!Tended(v5.active)'
                        /\ v2' /\ v4' /\ v1' # None => Live!Tended(v1)'
      BY DEF Live!TendedOK
    <2>1. CASE v1 # None
      <3>1. Live!Tended(v1)'
        <4>1. PICK t : t = v1
          OBVIOUS
        <4>2. Live!Going(g, t)
          BY <1>3, <2>1, <4>1
        <4>3. Live!Tended(t)'
          BY <1>5, <4>2, LiveUnderWay
        <4> QED  BY <4>1, <4>3
      <3>2. v5'.active # None => v5'.active = v1'
        BY <1>2, <1>3, <1>5, <2>1 DEF Live!ActiveOK
      <3> QED  BY <3>1, <3>2
    <2>2. CASE v1 = None
      <3>1. PICK a : a = v5.active
        OBVIOUS
      <3>2. ASSUME v5'.active # None PROVE Live!Tended(a)'
        <4>1. v3 /\ v5.active # None
          BY <1>2, <1>3, <1>5, <2>2, <3>2 DEF Live!ActiveOK
        <4>2. Live!Tended(a)
          BY <1>2, <3>1, <4>1 DEF Live!TendedOK
        <4>3. Live!Told(a, v8) => Live!Told(a, v8)'
          BY DEF Live!Told
        <4>4. Live!Going(v5, a) => Live!Going(g, a)
          BY <1>3, <2>2
        <4> QED  BY <1>3, <1>4, <1>7, <4>2, <4>3, <4>4, LiveTended
      <3>3. v5'.active = a
        BY <1>3, <1>5, <3>1
      <3> QED  BY <2>2, <3>2, <3>3
    <2> QED  BY <2>1, <2>2
  <1> QED  BY <1>5, <1>6, <1>8, <1>9, <1>10, <1>11 DEF Live!IInv

(* The window is left.                                                      *)
LEMMA LiveBlurStep ==
    ASSUME Live!Basis, Live!IInv, Live!Becomes(Live!Blurred(v5)),
           v1' = v1, v2' = v2, v3' \in BOOLEAN, v4' \in BOOLEAN, ~(v3' /\ v4'),
           v6' = v6, v8' = v8, v11' = v11, v10' = v10, v9' \in 0..MaxLiveMoves
    PROVE  Live!IInv'
  <1> DEFINE g == Live!Blurred(v5)
  <1>1. /\ v5 \in Live!Hooks /\ v7 \in Seq(Live!Request) /\ v2 \in BOOLEAN /\ Live!HookOK(v5, Live!Line(v5))
        /\ v1 \in Live!Keys /\ Len(v5.attempts) \in Nat /\ Len(v5.attempts) <= MaxAttempts
    BY LiveTyped
  <1>2. /\ LiveHandles(v5, g, 0) /\ g.attempts = v5.attempts /\ g.active = None
        /\ \A j \in 1..Len(g.attempts) : g.attempts[j].seq # g.sequence
        /\ v5.active # None => \E p \in 1..Len(Live!Line(g)) : Live!Line(g)[p].key = v5.active
    BY <1>1, LiveBlurred
  <1>3. Live!LetsGo(g, {}) /\ {} \in SUBSET FollowedThreads
    BY DEF Live!Becomes
  <1> HIDE DEF g
  <1>4. /\ v5' \in Live!Hooks /\ v5'.sent = <<>> /\ Len(v5'.attempts) <= MaxAttempts
        /\ v5'.attempts = g.attempts /\ v5'.sequence = g.sequence /\ v5'.active = g.active
        /\ v7' \in Seq(Live!Request) /\ v12' \subseteq FollowedThreads /\ Live!HookOK(v5', v7')
    BY <1>1, <1>2, <1>3, LiveLetsGo
  <1>5. Live!TypeOK'
    BY <1>4, LiveTyped DEF Live!TypeOK
  <1>6. 0 \notin 1..Len(v5.attempts) /\ v6' \subseteq v6
    BY <1>1
  <1>7. Live!SubscriptionsOK' /\ Live!RefusedOK'
    BY <1>1, <1>2, <1>3, <1>6, LiveSubscribed
  <1>8. Live!CurrentOK' /\ Live!ActiveOK'
    BY <1>2, <1>4 DEF Live!CurrentOK, Live!ActiveOK, Live!Current
  <1>9. Live!TendedOK'
    BY <1>2, <1>4 DEF Live!TendedOK
  <1> QED  BY <1>4, <1>5, <1>7, <1>8, <1>9 DEF Live!IInv

LEMMA LiveFocus ==
    ASSUME Live!Basis, Live!IInv, Live!Focus
    PROVE  Live!IInv'
  <1>1. /\ v1' = v1 /\ v2' = v2 /\ v3' = v3 /\ v3 /\ v4' = TRUE
        /\ Len(v5.attempts) < MaxAttempts /\ Live!Becomes(Live!Focused(v5)) /\ v9 < MaxLiveMoves /\ v9' = v9 + 1
        /\ v6' = v6 /\ v8' = v8 /\ v10' = v10 /\ v11' = v11
    BY DEF Live!Focus, Live!Room, Live!Move
  <1>2. v9' \in 0..MaxLiveMoves
    BY <1>1, LiveTyped DEF Live!Basis
  <1>3. v3' = TRUE /\ v4' \in BOOLEAN
    BY <1>1, LiveTyped
  <1> QED  BY <1>1, <1>2, <1>3, LiveFocusStep

LEMMA LiveBlur ==
    ASSUME Live!Basis, Live!IInv, Live!Blur
    PROVE  Live!IInv'
  <1>1. /\ v1' = v1 /\ v2' = v2 /\ v3' = v3 /\ v4' = FALSE
        /\ Live!Becomes(Live!Blurred(v5)) /\ v9 < MaxLiveMoves /\ v9' = v9 + 1
        /\ v6' = v6 /\ v8' = v8 /\ v10' = v10 /\ v11' = v11
    BY DEF Live!Blur, Live!Move
  <1>2. v9' \in 0..MaxLiveMoves
    BY <1>1, LiveTyped DEF Live!Basis
  <1>3. v3' \in BOOLEAN /\ v4' \in BOOLEAN /\ ~(v3' /\ v4')
    BY <1>1, LiveTyped
  <1> QED  BY <1>1, <1>2, <1>3, LiveBlurStep

LEMMA LiveVisibility ==
    ASSUME Live!Basis, Live!IInv, Live!VisibilityChange
    PROVE  Live!IInv'
  <1>1. /\ v1' = v1 /\ v2' = v2 /\ v3' = ~v3 /\ v4' = v4 /\ ~v4
        /\ Len(v5.attempts) < MaxAttempts /\ v9 < MaxLiveMoves /\ v9' = v9 + 1
        /\ v6' = v6 /\ v8' = v8 /\ v10' = v10 /\ v11' = v11
        /\ Live!Becomes(IF v3' THEN Live!Focused(v5) ELSE Live!Blurred(v5))
    BY DEF Live!VisibilityChange, Live!Room, Live!Move
  <1>2. v9' \in 0..MaxLiveMoves
    BY <1>1, LiveTyped DEF Live!Basis
  <1>3. v3' \in BOOLEAN /\ v4' \in BOOLEAN /\ ~v4'
    BY <1>1, LiveTyped
  <1>4. CASE v3'
    <2>1. Live!Becomes(Live!Focused(v5)) /\ v3' = TRUE
      BY <1>1, <1>4
    <2> QED  BY <1>1, <1>2, <1>3, <2>1, LiveFocusStep
  <1>5. CASE ~v3'
    <2>1. Live!Becomes(Live!Blurred(v5))
      BY <1>1, <1>5
    <2> QED  BY <1>1, <1>2, <1>3, <1>5, <2>1, LiveBlurStep
  <1> QED  BY <1>4, <1>5

(* An attempt goes on, and nobody else.                                     *)
LEMMA LiveAttemptStep ==
    ASSUME Live!Basis, Live!IInv, NEW i \in 1..Len(v5.attempts), NEW g, LiveHandles(v5, g, i),
           Len(g.attempts) = Len(v5.attempts), g.sequence = v5.sequence, g.active \in {v5.active, None},
           NEW drops \in SUBSET FollowedThreads, Live!LetsGo(g, drops),
           v1' = v1, v2' = v2, v3' = v3, v4' = v4,
           v6' = v6, v8' = v8, v9' = v9, v10' \in 0..MaxFailures,
           v11 \subseteq v11', v11' \subseteq {"refused", "misled"},
           v5.active \in {g.active, None} \cup drops \/ v5.active \notin v6,
           v5.attempts[i].step = "attached" =>
              \/ v5.attempts[i].key \in drops \/ v5.attempts[i].key \notin v6
              \/ \E p \in 1..Len(Live!Line(g)) : Live!Line(g)[p].key = v5.attempts[i].key,
           v5.attempts[i].step = "detached" =>
                   \E p \in 1..Len(Live!Line(g)) : Live!Line(g)[p].key = v5.attempts[i].key,
           g.attempts[i].step # "done" \/ v5.attempts[i].seq # v5.sequence \/ v11' # {}
    PROVE  Live!IInv'
  <1>1. /\ v5' \in Live!Hooks /\ v5'.sent = <<>> /\ Len(v5'.attempts) <= MaxAttempts
        /\ v5'.attempts = g.attempts /\ v5'.sequence = g.sequence /\ v5'.active = g.active
        /\ v7' \in Seq(Live!Request) /\ v12' \subseteq FollowedThreads /\ Live!HookOK(v5', v7')
            /\ LiveRetains(v5, g, i)
    <2>1. Len(g.attempts) <= MaxAttempts
      BY LiveTyped
    <2> QED  BY <2>1, LiveLetsGo
  <1>2. Live!TypeOK'
    BY <1>1, LiveTyped DEF Live!TypeOK
  <1>3. v6' \subseteq v6 /\ v6 \subseteq v6' /\ ("refused" \in v11 => "refused" \in v11')
        /\ Len(g.attempts) <= MaxAttempts
    BY LiveTyped
  <1>4. Live!SubscriptionsOK' /\ Live!RefusedOK'
    <2>1. \/ v5.active \in {g.active, None} \cup drops
          \/ v5.active \notin v6' \/ \E p \in 1..Len(Live!Line(g)) : Live!Line(g)[p].key = v5.active
      OBVIOUS
    <2>2. i \in 1..Len(v5.attempts) /\ v5.attempts[i].step = "attached" =>
              \/ v5.attempts[i].key \in {g.active} \cup drops
              \/ v5.attempts[i].key \notin v6'
              \/ \E p \in 1..Len(Live!Line(g)) : Live!Line(g)[p].key = v5.attempts[i].key
      OBVIOUS
    <2> QED  BY <1>3, <2>1, <2>2, LiveSubscribed
  <1>5. Live!CurrentOK' /\ Live!ActiveOK'
    BY <1>1, LiveStays
  <1>6. ASSUME v11' = {}, NEW key, Live!Tended(key) PROVE Live!Tended(key)'
    <2>1. Live!Told(key, v8) => Live!Told(key, v8)'
      BY DEF Live!Told
    <2>2. Live!Going(v5, key) => Live!Going(g, key)
      BY <1>1, <1>6, LiveGoesOn
    <2> QED  BY <1>3, <1>6, <2>1, <2>2, LiveTended
  <1>7. Live!TendedOK'
    <2> SUFFICES ASSUME v11' = {}, v3'
                 PROVE  /\ v5'.active # None => Live!Tended(v5.active)'
                        /\ v2' /\ v4' /\ v1' # None => Live!Tended(v1)'
      BY DEF Live!TendedOK
    <2>1. Live!TendedOK /\ v11 = {}
      BY DEF Live!IInv
    <2>2. PICK a, t : a = v5.active /\ t = v1
      OBVIOUS
    <2>3. v5'.active # None => v5'.active = a /\ Live!Tended(a)
      BY <1>1, <2>1, <2>2 DEF Live!TendedOK
    <2>4. v5'.active # None => Live!Tended(a)'
      BY <1>6, <2>3
    <2>5. v2' /\ v4' /\ v1' # None => Live!Tended(t)'
      BY <1>6, <2>1, <2>2 DEF Live!TendedOK
    <2> QED  BY <2>2, <2>3, <2>4, <2>5
  <1> QED  BY <1>1, <1>2, <1>4, <1>5, <1>7 DEF Live!IInv

LEMMA LiveResolved ==
    ASSUME Live!Basis, Live!IInv, NEW i \in 1..MaxAttempts, Live!Resolved(i)
    PROVE  Live!IInv'
  <1>1. i \in 1..Len(v5.attempts) /\ v5.attempts[i].step \in {"connecting", "refreshing"}
    BY DEF Live!Resolved, Live!At
  <1>2. /\ v1' = v1 /\ v2' = v2 /\ v3' = v3 /\ v4' = v4
        /\ v6' = v6 /\ v8' = v8 /\ v9' = v9 /\ v10' = v10 /\ v11' = v11
    BY DEF Live!Resolved, Live!Awaiting
  <1>3. PICK g : g = (IF ~Live!Current(i) THEN Live!Settled(v5, i)
                      ELSE IF Live!At(i, "connecting") THEN Live!Proceed(v5, i) ELSE Live!Attach(v5, i))
    OBVIOUS
  <1>4. Live!LetsGo(g, {}) /\ {} \in SUBSET FollowedThreads
    BY <1>3 DEF Live!Resolved, Live!Becomes
  <1>5. v5 \in Live!Hooks /\ Live!HookOK(v5, Live!Line(v5)) /\ v7 \in Seq(Live!Request)
          /\ v5.attempts[i].step \notin LiveWaiting
        /\ i \in 0..MaxAttempts
    BY <1>1, LiveTyped DEF LiveWaiting
  <1>6. /\ LiveHandles(v5, g, i) /\ Len(g.attempts) = Len(v5.attempts) /\ g.sequence = v5.sequence
        /\ g.active = v5.active /\ (g.attempts[i].step # "done" \/ v5.attempts[i].seq # v5.sequence)
    <2>1. CASE ~Live!Current(i)
      <3>1. g = Live!Settled(v5, i)
        BY <1>3, <2>1
      <3> QED  BY <1>1, <1>5, <2>1, <3>1, LiveSettled DEF LiveHandles, Live!Current
    <2>2. CASE Live!Current(i) /\ Live!At(i, "connecting")
      <3>1. g = Live!Proceed(v5, i)
        BY <1>3, <2>2
      <3> QED  BY <1>1, <1>5, <3>1, LiveProceed DEF LiveWaiting
    <2>3. CASE Live!Current(i) /\ ~Live!At(i, "connecting")
      <3>1. g = Live!Attach(v5, i)
        BY <1>3, <2>3
      <3> QED  BY <1>1, <1>5, <3>1, LiveAttach DEF LiveWaiting
    <2> QED  BY <2>1, <2>2, <2>3
  <1>7. v10' \in 0..MaxFailures /\ v11 \subseteq v11' /\ v11' \subseteq {"refused", "misled"}
    BY <1>2, LiveTyped
  <1>8. v5.attempts[i].step # "attached" /\ v5.attempts[i].step # "detached"
    BY <1>1
  <1> QED  BY <1>1, <1>2, <1>4, <1>6, <1>7, <1>8, LiveAttemptStep

LEMMA LiveRejected ==
    ASSUME Live!Basis, Live!IInv, NEW i \in 1..MaxAttempts, Live!Rejected(i)
    PROVE  Live!IInv'
  <1>1. i \in 1..Len(v5.attempts) /\ v5.attempts[i].step \in {"connecting", "refreshing", "refused"}
    BY DEF Live!Rejected, Live!At
  <1>2. /\ v1' = v1 /\ v2' = v2 /\ v3' = v3 /\ v4' = v4
        /\ v6' = v6 /\ v8' = v8 /\ v9' = v9
    BY DEF Live!Rejected, Live!Awaiting
  <1>3. PICK g : g = (IF Live!Current(i) THEN Live!Reconcile(Live!Settled(v5, i), v2) ELSE Live!Settled(v5, i))
    OBVIOUS
  <1>4. Live!LetsGo(g, {}) /\ {} \in SUBSET FollowedThreads
    BY <1>3 DEF Live!Rejected, Live!Becomes
  <1>5. v5 \in Live!Hooks /\ Live!HookOK(v5, Live!Line(v5)) /\ v7 \in Seq(Live!Request)
          /\ v5.attempts[i].step \notin LiveWaiting
        /\ v2 \in BOOLEAN
    BY <1>1, LiveTyped DEF LiveWaiting
  <1>6. /\ LiveHandles(v5, g, i) /\ Len(g.attempts) = Len(v5.attempts) /\ g.sequence = v5.sequence
        /\ g.active = v5.active
    <2>1. PICK k : k = Live!Settled(v5, i)
      OBVIOUS
    <2>2. /\ k \in Live!Hooks /\ Live!HookOK(k, Live!Line(k)) /\ LiveRetains(v5, k, i)
              /\ Len(k.attempts) = Len(v5.attempts)
          /\ k.sequence = v5.sequence /\ k.active = v5.active
      BY <1>1, <1>5, <2>1, LiveSettled
    <2>3. CASE Live!Current(i)
      <3>1. g = Live!Reconcile(k, v2)
        BY <1>3, <2>1, <2>3
      <3>2. LiveHandles(k, g, 0) /\ g.attempts = k.attempts /\ g.sequence = k.sequence /\ g.active = k.active
        BY <1>5, <2>2, <3>1, LiveReconcile
      <3>3. LiveRetains(v5, g, i)
        BY <1>1, <1>5, <2>2, <3>2, LiveRetainsBoth DEF LiveHandles
      <3> QED  BY <2>2, <3>2, <3>3 DEF LiveHandles
    <2>4. CASE ~Live!Current(i)
      <3>1. g = k
        BY <1>3, <2>1, <2>4
      <3> QED  BY <2>2, <3>1 DEF LiveHandles
    <2> QED  BY <2>3, <2>4
  <1>7. v10' \in 0..MaxFailures /\ v11 \subseteq v11' /\ v11' \subseteq {"refused", "misled"}
        /\ "refused" \in v11'
    <2>1. CASE v5.attempts[i].step = "refused" /\ v10' = v10 /\ v11' = v11
      BY <1>1, <2>1, LiveTyped DEF Live!IInv, Live!RefusedOK
    <2>2. CASE v10 < MaxFailures /\ v10' = v10 + 1 /\ v11' = v11 \cup {"refused"}
      BY <2>2, LiveTyped DEF Live!Basis
    <2> QED  BY <2>1, <2>2 DEF Live!Rejected, Live!At
  <1>8. v5.attempts[i].step # "attached" /\ v5.attempts[i].step # "detached" /\ v11' # {}
    BY <1>1, <1>7
  <1> QED  BY <1>1, <1>2, <1>4, <1>6, <1>7, <1>8, LiveAttemptStep

LEMMA LiveDetached ==
    ASSUME Live!Basis, Live!IInv, NEW i \in 1..MaxAttempts, Live!Detached(i)
    PROVE  Live!IInv'
  <1>1. i \in 1..Len(v5.attempts) /\ v5.attempts[i].step = "detached"
    BY DEF Live!Detached, Live!At
  <1>2. /\ v1' = v1 /\ v2' = v2 /\ v3' = v3 /\ v4' = v4
        /\ v6' = v6 /\ v8' = v8 /\ v9' = v9 /\ v10' = v10 /\ v11' = v11
    BY DEF Live!Detached, Live!Awaiting
  <1>3. PICK k : k = [v5 EXCEPT !.active = None]
    OBVIOUS
  <1>4. PICK g : g = LiveAsked(k, i, "subscribe", "attaching")
    OBVIOUS
  <1>5. v5 \in Live!Hooks /\ Live!HookOK(v5, Live!Line(v5)) /\ v7 \in Seq(Live!Request)
          /\ v5.attempts[i].step \notin LiveWaiting
        /\ i \in 0..MaxAttempts /\ None \in Live!Keys
    BY <1>1, LiveTyped DEF LiveWaiting, Live!Keys
  <1>6. /\ k \in Live!Hooks /\ k.attempts = v5.attempts /\ k.sequence = v5.sequence /\ k.sent = v5.sent
        /\ k.inFlight = v5.inFlight /\ k.inFlightSeq = v5.inFlightSeq /\ k.active = None
    BY <1>3, <1>5 DEF Live!Hooks
  <1>7. Live!HookOK(k, Live!Line(k)) /\ LiveRetains(v5, k, 0)
    BY <1>5, <1>6, LiveSame
  <1>8. Live!LetsGo(g, {v5.active} \cap v6) /\ {v5.active} \cap v6 \in SUBSET FollowedThreads
    <2>1. g = Live!SetStep(Live!Subscribe(k, v5.attempts[i].key, i), i, "attaching")
      BY <1>4, <1>6 DEF LiveAsked, Live!Subscribe
    <2>2. Live!LetsGo(g, {v5.active} \cap v6)
      BY <1>3, <2>1 DEF Live!Detached
    <2> QED  BY <2>2, LiveTyped
  <1>9. /\ g \in Live!Hooks /\ Live!HookOK(g, Live!Line(g)) /\ LiveRetains(k, g, i)
            /\ g.attempts[i].step = "attaching"
        /\ Len(g.attempts) = Len(k.attempts) /\ g.sequence = k.sequence /\ g.active = k.active
        /\ \E p \in 1..Len(Live!Line(g)) : Live!Line(g)[p].key = k.attempts[i].key
    <2>1. i \in 1..Len(k.attempts) /\ k.attempts[i].step \notin LiveWaiting
      BY <1>1, <1>5, <1>6
    <2> QED  BY <1>4, <1>5, <1>6, <1>7, <2>1, LiveAsks
  <1>10. LiveHandles(v5, g, i)
    BY <1>1, <1>5, <1>6, <1>7, <1>9, LiveRetainsBoth DEF LiveHandles
  <1>11. /\ Len(g.attempts) = Len(v5.attempts) /\ g.sequence = v5.sequence
         /\ g.active \in {v5.active, None} /\ g.attempts[i].step # "done"
         /\ \E p \in 1..Len(Live!Line(g)) : Live!Line(g)[p].key = v5.attempts[i].key
    BY <1>6, <1>9
  <1>12. v10' \in 0..MaxFailures /\ v11 \subseteq v11' /\ v11' \subseteq {"refused", "misled"}
    BY <1>2, LiveTyped
  <1>13. v5.attempts[i].step # "attached"
         /\ (v5.active \in {g.active, None} \cup ({v5.active} \cap v6) \/ v5.active \notin v6)
    BY <1>1
  <1> QED  BY <1>1, <1>2, <1>8, <1>10, <1>11, <1>12, <1>13, LiveAttemptStep

LEMMA LiveHolds ==
    ASSUME Live!Basis, v7 \in Seq(Live!Request), v5 \in Live!Hooks, Live!HookOK(v5, Live!Line(v5)),
           NEW i \in 1..Len(v5.attempts), v5.attempts[i].step = "attached"
    PROVE  LET g == Live!Holds(i)
           IN  /\ LiveHandles(v5, g, i) /\ Len(g.attempts) = Len(v5.attempts) /\ g.sequence = v5.sequence
               /\ g.active = v5.attempts[i].key
  <1>1. PICK k : k = Live!Settled(v5, i)
    OBVIOUS
  <1>2. /\ k \in Live!Hooks /\ Live!HookOK(k, Live!Line(k)) /\ LiveRetains(v5, k, i)
            /\ Len(k.attempts) = Len(v5.attempts)
        /\ k.sequence = v5.sequence
    <2>1. v5.attempts[i].step \notin LiveWaiting
      BY DEF LiveWaiting
    <2> QED  BY <1>1, <2>1, LiveSettled
  <1> DEFINE a == v5.attempts[i]
             conn == IF a.resume \/ ~a.keep THEN "polling" ELSE "live"
             g == [k EXCEPT !.active = a.key, !.conn = conn]
  <1>3. a.key \in Live!Keys /\ conn \in {"live", "polling", "disconnected"}
    <2>1. a \in Live!Attempt
      BY LiveLine
    <2> QED  BY <2>1 DEF Live!Attempt, Live!Keys
  <1>4. g = Live!Holds(i)
    BY <1>1 DEF Live!Holds
  <1> HIDE DEF a, conn
  <1>5. /\ g \in Live!Hooks /\ g.attempts = k.attempts /\ g.sequence = k.sequence /\ g.sent = k.sent
        /\ g.inFlight = k.inFlight /\ g.inFlightSeq = k.inFlightSeq /\ g.active = a.key
    BY <1>2, <1>3 DEF Live!Hooks
  <1> HIDE DEF g
  <1>6. Live!HookOK(g, Live!Line(g)) /\ LiveRetains(k, g, 0)
    BY <1>2, <1>5, LiveSame
  <1>7. LiveRetains(v5, g, i)
    BY <1>2, <1>5, <1>6, LiveRetainsBoth
  <1>8. LiveHandles(v5, g, i) /\ Len(g.attempts) = Len(v5.attempts) /\ g.sequence = v5.sequence
        /\ g.active = v5.attempts[i].key
    BY <1>2, <1>5, <1>6, <1>7 DEF LiveHandles, a
  <1> QED  BY <1>4, <1>8

LEMMA LiveAttached ==
    ASSUME Live!Basis, Live!IInv, NEW i \in 1..MaxAttempts, Live!Attached(i)
    PROVE  Live!IInv'
  <1>1. i \in 1..Len(v5.attempts) /\ v5.attempts[i].step = "attached"
    BY DEF Live!Attached, Live!At
  <1>2. /\ v1' = v1 /\ v2' = v2 /\ v3' = v3 /\ v4' = v4
        /\ v6' = v6 /\ v8' = v8 /\ v9' = v9 /\ v10' = v10
    BY DEF Live!Attached, Live!Awaiting
  <1>3. PICK key : key = v5.attempts[i].key
    OBVIOUS
  <1>4. v11' = v11 \cup (IF Live!Current(i) /\ Live!Lost(key, v8) THEN {"misled"} ELSE {})
    BY <1>3 DEF Live!Attached, Live!Misled
  <1>5. v10' \in 0..MaxFailures /\ v11 \subseteq v11' /\ v11' \subseteq {"refused", "misled"}
    BY <1>2, <1>4, LiveTyped
  <1>6. /\ v5 \in Live!Hooks /\ Live!HookOK(v5, Live!Line(v5)) /\ v7 \in Seq(Live!Request)
            /\ v5.attempts[i].step \notin LiveWaiting
        /\ i \in 0..MaxAttempts /\ Len(v5.attempts) <= MaxAttempts /\ v6 \subseteq FollowedThreads
    BY <1>1, LiveTyped DEF LiveWaiting
  <1>7. CASE ~Live!Current(i) /\ v5.desired = key
    <2>1. PICK g : g = Live!Settled(v5, i)
      OBVIOUS
    <2>2. Live!LetsGo(g, {key} \cap v6) /\ {key} \cap v6 \in SUBSET FollowedThreads
      BY <1>3, <1>6, <1>7, <2>1 DEF Live!Attached
    <2>3. /\ LiveHandles(v5, g, i) /\ Len(g.attempts) = Len(v5.attempts) /\ g.sequence = v5.sequence
          /\ g.active = v5.active
      BY <1>1, <1>6, <2>1, LiveSettled DEF LiveHandles
    <2>4. v5.attempts[i].step # "detached" /\ v5.attempts[i].seq # v5.sequence
          /\ (v5.attempts[i].key \in {key} \cap v6 \/ v5.attempts[i].key \notin v6)
      BY <1>1, <1>3, <1>7 DEF Live!Current
    <2> QED  BY <1>1, <1>2, <1>5, <2>2, <2>3, <2>4, LiveAttemptStep
  <1>8. CASE ~Live!Current(i) /\ v5.desired # key
    <2>1. PICK g : g = LiveAsked(v5, i, "unsubscribe", "cleaning")
      OBVIOUS
    <2>2. Live!LetsGo(g, {}) /\ {} \in SUBSET FollowedThreads
      BY <1>3, <1>8, <2>1 DEF Live!Attached, Live!Becomes, LiveAsked, Live!Unsubscribe
    <2>3. /\ LiveHandles(v5, g, i) /\ Len(g.attempts) = Len(v5.attempts) /\ g.sequence = v5.sequence
          /\ g.active = v5.active /\ g.attempts[i].step = "cleaning"
          /\ \E p \in 1..Len(Live!Line(g)) : Live!Line(g)[p].key = v5.attempts[i].key
      BY <1>1, <1>6, <2>1, LiveAsks DEF LiveHandles
    <2>4. v5.attempts[i].step # "detached" /\ g.attempts[i].step # "done"
      BY <1>1, <2>3
    <2> QED  BY <1>1, <1>2, <1>5, <2>2, <2>3, <2>4, LiveAttemptStep
  <1>9. CASE Live!Current(i)
    <2>1. PICK g : g = Live!Holds(i)
      OBVIOUS
    <2>2. Live!LetsGo(g, {}) /\ {} \in SUBSET FollowedThreads
      BY <1>9, <2>1 DEF Live!Attached, Live!Becomes
    <2>3. /\ LiveHandles(v5, g, i) /\ Len(g.attempts) = Len(v5.attempts) /\ g.sequence = v5.sequence
          /\ g.active = key
      BY <1>1, <1>3, <1>6, <2>1, LiveHolds
    <2>4. Len(g.attempts) <= MaxAttempts
      BY <1>6, <2>3
    <2>5. /\ v5' \in Live!Hooks /\ v5'.sent = <<>> /\ Len(v5'.attempts) <= MaxAttempts
          /\ v5'.attempts = g.attempts /\ v5'.sequence = g.sequence /\ v5'.active = g.active
          /\ v7' \in Seq(Live!Request) /\ v12' \subseteq FollowedThreads /\ Live!HookOK(v5', v7')
              /\ LiveRetains(v5, g, i)
          /\ \A k : Live!Asked(k) => Live!Asked(k)'
      BY <2>2, <2>3, <2>4, LiveLetsGo
    <2>6. Live!TypeOK'
      BY <1>2, <1>5, <2>5, LiveTyped DEF Live!TypeOK
    <2>7. Live!CurrentOK /\ Live!ActiveOK /\ Live!TendedOK
      BY DEF Live!IInv
    <2>8. v3 /\ v1 \in {key, None}
      BY <1>1, <1>3, <1>9, <2>7 DEF Live!CurrentOK
    <2>9. v5.active \in {key, None}
      BY <1>1, <1>3, <1>9, <2>7, <2>8 DEF Live!ActiveOK
    <2>10. Live!SubscriptionsOK' /\ Live!RefusedOK'
      <3>1. v5.active \in {g.active, None} \cup {} /\ v5.attempts[i].key \in {g.active} \cup {}
        BY <1>3, <2>3, <2>9
      <3>2. v6' \subseteq v6 /\ ("refused" \in v11 => "refused" \in v11')
        BY <1>2, <1>5
      <3> QED  BY <2>2, <2>3, <2>4, <3>1, <3>2, LiveSubscribed
    <2>11. \A j \in 1..Len(v5'.attempts) : Live!Current(j)' => j = i /\ v5'.attempts[j].key = key
      <3>1. \A j \in 1..Len(v5'.attempts) : j \in 1..Len(v5.attempts)
              /\ v5'.attempts[j].key = v5.attempts[j].key
                                              /\ v5'.attempts[j].seq = v5.attempts[j].seq
        BY <2>3, <2>5 DEF LiveRetains
      <3>2. \A j \in 1..Len(v5.attempts) : v5.attempts[j].seq = v5.attempts[i].seq => j = i
        BY <1>1, <1>6 DEF Live!HookOK, Live!NumbersOK
      <3> QED  BY <1>3, <1>9, <2>3, <2>5, <3>1, <3>2 DEF Live!Current
    <2>12. Live!CurrentOK' /\ Live!ActiveOK'
      BY <1>2, <2>3, <2>5, <2>8, <2>11 DEF Live!CurrentOK, Live!ActiveOK
    <2>13. ASSUME v11' = {} PROVE Live!Tended(key)'
      <3>1. ~Live!Lost(key, v8)
        BY <1>4, <1>9, <2>13
      <3>2. ~Live!Lost(key, v8)'
        BY <1>2, <2>5, <3>1 DEF Live!Lost, Live!Told
      <3> QED  BY <3>2 DEF Live!Tended
    <2>14. Live!TendedOK'
      <3> SUFFICES ASSUME v11' = {}, v3'
                   PROVE  /\ v5'.active # None => Live!Tended(v5.active)'
                          /\ v2' /\ v4' /\ v1' # None => Live!Tended(v1)'
        BY DEF Live!TendedOK
      <3>1. v5'.active = key /\ (v1' # None => v1' = key)
        BY <1>2, <2>3, <2>5, <2>8
      <3>2. Live!Tended(key)'
        BY <2>13
      <3> QED  BY <3>1, <3>2
    <2> QED  BY <2>5, <2>6, <2>10, <2>12, <2>14 DEF Live!IInv
  <1> QED  BY <1>7, <1>8, <1>9

LEMMA LiveTail ==
    ASSUME NEW S, NEW w \in Seq(S), w # <<>>
    PROVE  /\ Tail(w) \in Seq(S) /\ Head(w) \in S /\ Head(w) = w[1] /\ 1 \in 1..Len(w)
           /\ \A p \in 1..Len(Tail(w)) : p + 1 \in 1..Len(w) /\ Tail(w)[p] = w[p + 1]
           /\ \A p \in 1..Len(w) : p = 1 \/ (p - 1 \in 1..Len(Tail(w)) /\ Tail(w)[p - 1] = w[p])
  <1>1. /\ Tail(w) \in Seq(S) /\ Head(w) \in S /\ Len(w) \in Nat /\ Len(w) > 0 /\ Len(Tail(w)) = Len(w) - 1
        /\ Head(w) = w[1] /\ \A p \in 1..Len(Tail(w)) : Tail(w)[p] = w[p + 1]
    OBVIOUS
  <1>2. \A p \in 1..Len(Tail(w)) : p + 1 \in 1..Len(w)
    BY <1>1
  <1>3. \A p \in 1..Len(w) : p = 1 \/ (p - 1 \in 1..Len(Tail(w)) /\ Tail(w)[p - 1] = w[p])
    <2> SUFFICES ASSUME NEW p \in 1..Len(w), p # 1 PROVE p - 1 \in 1..Len(Tail(w)) /\ Tail(w)[p - 1] = w[p]
      OBVIOUS
    <2>1. p - 1 \in 1..Len(Tail(w)) /\ p = (p - 1) + 1
      BY <1>1
    <2> QED  BY <1>1, <2>1
  <1> QED  BY <1>1, <1>2, <1>3

LEMMA LiveNextEvent ==
    ASSUME NEW evs \in Seq(Live!Event), evs # <<>>
    PROVE  /\ Tail(evs) \in Seq(Live!Event) /\ Head(evs) \in Live!Event
           /\ \A key : Live!Told(key, evs) =>
                Live!Told(key, Tail(evs)) \/ (Head(evs).kind = "detached" /\ Head(evs).key = key)
  <1>1. /\ Tail(evs) \in Seq(Live!Event) /\ Head(evs) \in Live!Event /\ Head(evs) = evs[1]
        /\ \A p \in 1..Len(evs) : p = 1 \/ (p - 1 \in 1..Len(Tail(evs)) /\ Tail(evs)[p - 1] = evs[p])
    BY LiveTail
  <1> QED  BY <1>1 DEF Live!Told

(* An event is dropped.                                                     *)
LEMMA LiveUnheard ==
    ASSUME Live!Basis, Live!IInv, v8 # <<>>, v8' = Tail(v8), v1 = None \/ Head(v8).key # v1,
           UNCHANGED <<v5, v7, v12, v1, v2, v3, v4, v6, v9, v10>>,
           Live!Misled(/\ \/ Head(v8).kind = "attached" /\ Head(v8).key = v1
                          \/ Head(v8).kind = "detached" /\ Live!Unheard(Head(v8).key)
                       /\ Live!Lost(Head(v8).key, Tail(v8))),
           Head(v8).kind # "connected" \/ v1 = None
    PROVE  Live!IInv'
  <1>1. Live!TypeOK /\ Live!HookOK(v5, v7) /\ Live!CurrentOK /\ Live!ActiveOK /\ Live!RefusedOK
          /\ Live!SubscriptionsOK /\ Live!TendedOK
    BY DEF Live!IInv
  <1>2. /\ Tail(v8) \in Seq(Live!Event)
        /\ \A key : Live!Told(key, v8) => Live!Told(key, v8') \/ (Head(v8).kind = "detached" /\ Head(v8).key = key)
    BY LiveTyped, LiveNextEvent
  <1>3. v11 \subseteq v11' /\ v11' \subseteq {"refused", "misled"} /\ ("refused" \in v11' => "refused" \in v11)
    BY LiveTyped DEF Live!Misled
  <1>4. Live!TypeOK'
    BY <1>1, <1>2, <1>3 DEF Live!TypeOK
  <1>5. Live!HookOK(v5, v7)' /\ Live!CurrentOK' /\ Live!ActiveOK'
    BY <1>1 DEF Live!HookOK, Live!RequestsOK, Live!WaitedFor, Live!NumbersOK, Live!FlightOK, Live!CurrentOK,
           Live!ActiveOK, Live!Current
  <1>6. Live!RefusedOK' /\ Live!SubscriptionsOK'
    BY <1>1, <1>3 DEF Live!RefusedOK, Live!SubscriptionsOK, Live!Asked, Live!InStep
  <1>7. ASSUME NEW key, Live!Tended(key), Live!Told(key, v8) => Live!Told(key, v8') PROVE Live!Tended(key)'
    <2>1. Live!Going(v5, key) => Live!Going(v5, key)'
      BY DEF Live!Going
    <2>2. Live!InStep(key, "detached") => Live!InStep(key, "detached")'
      BY DEF Live!InStep
    <2>3. ~Live!Lost(key, v8) => ~Live!Lost(key, v8)'
      BY <1>7 DEF Live!Lost, Live!Asked, Live!Told
    <2> QED  BY <1>7, <2>1, <2>2, <2>3 DEF Live!Tended
  <1>8. Live!TendedOK'
    <2> SUFFICES ASSUME v11' = {}, v3'
                 PROVE  /\ v5'.active # None => Live!Tended(v5.active)'
                        /\ v2' /\ v4' /\ v1' # None => Live!Tended(v1)'
      BY DEF Live!TendedOK
    <2>1. v11 = {} /\ ~(Head(v8).kind = "detached" /\ Live!Unheard(Head(v8).key)
                        /\ Live!Lost(Head(v8).key, Tail(v8)))
      BY <1>3 DEF Live!Misled
    <2>2. PICK a, t : a = v5.active /\ t = v1
      OBVIOUS
    <2>3. ASSUME a # None PROVE Live!Tended(a)'
      <3>1. Live!Tended(a)
        BY <1>1, <2>1, <2>2, <2>3 DEF Live!TendedOK
      <3>2. CASE Live!Told(a, v8) => Live!Told(a, v8')
        BY <1>7, <3>1, <3>2
      <3>3. CASE Head(v8).kind = "detached" /\ Head(v8).key = a
        <4>1. a # v1
          BY <2>2, <2>3, <3>3
        <4>2. Live!Unheard(a)
          BY <2>2, <4>1 DEF Live!Unheard
        <4>3. ~Live!Lost(a, Tail(v8))
          BY <2>1, <3>3, <4>2
        <4>4. ~Live!Lost(a, v8)'
          BY <4>3 DEF Live!Lost, Live!Asked, Live!Told
        <4> QED  BY <4>4 DEF Live!Tended
      <3> QED  BY <1>2, <3>2, <3>3
    <2>4. ASSUME v2, v4, t # None PROVE Live!Tended(t)'
      <3>1. Live!Tended(t)
        BY <1>1, <2>1, <2>2, <2>4 DEF Live!TendedOK
      <3>2. Live!Told(t, v8) => Live!Told(t, v8')
        BY <1>2, <2>2, <2>4
      <3> QED  BY <1>7, <3>1, <3>2
    <2> QED  BY <2>2, <2>3, <2>4
  <1> QED  BY <1>4, <1>5, <1>6, <1>8 DEF Live!IInv

(* An event of the selected thread is heard.                                *)
LEMMA LiveHeard ==
    ASSUME Live!Basis, Live!IInv, v8 # <<>>, v8' = Tail(v8), v1 # None,
           UNCHANGED <<v1, v2, v3, v4, v6, v9, v10>>,
           v11 \subseteq v11', v11' \subseteq v11 \cup {"misled"},
           NEW g, LiveHandles(v5, g, 0), Len(g.attempts) <= MaxAttempts,
           NEW drops \in SUBSET FollowedThreads, Live!LetsGo(g, drops),
           g.active \in {v5.active, v1, None},
           g.active = None => v5.active \in {None} \cup drops \/ v5.active \notin v6,
           \/ g.attempts = v5.attempts /\ g.sequence = v5.sequence
           \/ /\ v3
              /\ \A j \in 1..Len(g.attempts) : g.attempts[j].seq = g.sequence => g.attempts[j].key = v1,
           v11' = {} /\ v3 /\ (g.active # None \/ (v2 /\ v4)) =>
              \/ Live!Going(g, v1) \/ Live!InStep(v1, "detached") \/ ~Live!Lost(v1, Tail(v8))
              \/ /\ Head(v8).kind # "detached" /\ g.attempts = v5.attempts /\ g.sequence = v5.sequence
                 /\ g.active \in {v5.active, None}
    PROVE  Live!IInv'
  <1>1. /\ v5' \in Live!Hooks /\ v5'.sent = <<>> /\ Len(v5'.attempts) <= MaxAttempts
        /\ v5'.attempts = g.attempts /\ v5'.sequence = g.sequence /\ v5'.active = g.active
        /\ v7' \in Seq(Live!Request) /\ v12' \subseteq FollowedThreads /\ Live!HookOK(v5', v7')
            /\ LiveRetains(v5, g, 0)
        /\ \A k : Live!Asked(k) => Live!Asked(k)'
    BY LiveLetsGo
  <1>2. /\ Tail(v8) \in Seq(Live!Event)
        /\ \A key : Live!Told(key, v8) => Live!Told(key, v8') \/ (Head(v8).kind = "detached" /\ Head(v8).key = key)
    BY LiveTyped, LiveNextEvent
  <1>3. v11' \subseteq {"refused", "misled"} /\ ("refused" \in v11 => "refused" \in v11')
    BY LiveTyped
  <1>4. Live!TypeOK'
    BY <1>1, <1>2, <1>3, LiveTyped DEF Live!TypeOK
  <1>5. Live!CurrentOK /\ Live!ActiveOK /\ Live!TendedOK /\ 0 \notin 1..Len(v5.attempts)
    BY LiveTyped DEF Live!IInv
  <1>6. v5.active \in {v1, None}
    BY <1>5 DEF Live!ActiveOK
  <1>7. Live!SubscriptionsOK' /\ Live!RefusedOK'
    <2>1. \/ v5.active \in {g.active, None} \cup drops
          \/ v5.active \notin v6' \/ \E p \in 1..Len(Live!Line(g)) : Live!Line(g)[p].key = v5.active
      BY <1>6
    <2>2. v6' \subseteq v6
      OBVIOUS
    <2> QED  BY <1>3, <1>5, <2>1, <2>2, LiveSubscribed
  <1>8. Live!CurrentOK'
    BY <1>1, <1>5 DEF Live!CurrentOK, Live!Current
  <1>9. Live!ActiveOK'
    BY <1>1, <1>6 DEF Live!ActiveOK
  <1>10. PICK t : t = v1
    OBVIOUS
  <1>11. ASSUME v11' = {}, v3, g.active # None \/ (v2 /\ v4) PROVE Live!Tended(t)'
    <2>1. CASE Live!Going(g, t)
      BY <1>1, <2>1, LiveUnderWay
    <2>2. CASE Live!InStep(t, "detached")
      <3>1. PICK j \in 1..Len(v5.attempts) : v5.attempts[j].key = t /\ v5.attempts[j].step = "detached"
        BY <2>2 DEF Live!InStep
      <3>2. j \in 1..Len(v5'.attempts) /\ v5'.attempts[j].key = t /\ v5'.attempts[j].step = "detached"
        BY <1>1, <1>5, <3>1 DEF LiveRetains
      <3>3. Live!InStep(t, "detached")'
        BY <3>2 DEF Live!InStep
      <3> QED  BY <3>3 DEF Live!Tended
    <2>3. CASE ~Live!Lost(t, Tail(v8))
      <3>1. ~Live!Lost(t, v8)'
        BY <1>1, <2>3 DEF Live!Lost, Live!Told
      <3> QED  BY <3>1 DEF Live!Tended
    <2>4. CASE Head(v8).kind # "detached" /\ g.attempts = v5.attempts /\ g.sequence = v5.sequence
               /\ g.active \in {v5.active, None}
      <3>1. v11 = {} /\ Live!Tended(t)
        BY <1>5, <1>6, <1>10, <1>11, <2>4 DEF Live!TendedOK
      <3>2. Live!Told(t, v8) => Live!Told(t, v8)'
        BY <1>2, <2>4 DEF Live!Told
      <3>3. Live!Going(v5, t) => Live!Going(g, t)
        BY <2>4 DEF Live!Going
      <3>4. v6 \subseteq v6'
        OBVIOUS
      <3> QED  BY <1>5, <3>1, <3>2, <3>3, <3>4, LiveTended
    <2>5. \/ Live!Going(g, v1) \/ Live!InStep(v1, "detached") \/ ~Live!Lost(v1, Tail(v8))
          \/ /\ Head(v8).kind # "detached" /\ g.attempts = v5.attempts /\ g.sequence = v5.sequence
             /\ g.active \in {v5.active, None}
      BY <1>11
    <2>6. \/ Live!Going(g, t) \/ Live!InStep(t, "detached") \/ ~Live!Lost(t, Tail(v8))
          \/ /\ Head(v8).kind # "detached" /\ g.attempts = v5.attempts /\ g.sequence = v5.sequence
             /\ g.active \in {v5.active, None}
      BY <1>10, <2>5
    <2> QED  BY <2>1, <2>2, <2>3, <2>4, <2>6
  <1>12. Live!TendedOK'
    <2> SUFFICES ASSUME v11' = {}, v3'
                 PROVE  /\ v5'.active # None => Live!Tended(v5.active)'
                        /\ v2' /\ v4' /\ v1' # None => Live!Tended(v1)'
      BY DEF Live!TendedOK
    <2>1. v5'.active # None => v5'.active = t /\ Live!Tended(t)'
      BY <1>1, <1>6, <1>10, <1>11
    <2>2. v2' /\ v4' => Live!Tended(t)'
      BY <1>11
    <2> QED  BY <1>10, <2>1, <2>2
  <1> QED  BY <1>1, <1>4, <1>7, <1>8, <1>9, <1>12 DEF Live!IInv

LEMMA LiveHandleEvent ==
    ASSUME Live!Basis, Live!IInv, Live!HandleEvent
    PROVE  Live!IInv'
  <1>1. /\ v1' = v1 /\ v2' = v2 /\ v3' = v3 /\ v4' = v4
        /\ v6' = v6 /\ v9' = v9 /\ v10' = v10
        /\ v8 # <<>> /\ v8' = Tail(v8) /\ Len(v5.attempts) < MaxAttempts
    BY DEF Live!HandleEvent, Live!Room
  <1>2. PICK e : e = Head(v8)
    OBVIOUS
  <1>3. PICK k : k = [v5 EXCEPT !.active = None]
    OBVIOUS
  <1>4. PICK released : released = Live!Reconcile(k, v2)
    OBVIOUS
  <1>5. Live!Misled(/\ \/ e.kind = "attached" /\ e.key = v1
                       \/ e.kind = "detached" /\ Live!Unheard(e.key)
                    /\ Live!Lost(e.key, Tail(v8)))
    BY <1>2 DEF Live!HandleEvent
  <1>6. /\ v11 \subseteq v11' /\ v11' \subseteq v11 \cup {"misled"}
        /\ v11' = {} => ~(/\ \/ e.kind = "attached" /\ e.key = v1
                             \/ e.kind = "detached" /\ Live!Unheard(e.key)
                          /\ Live!Lost(e.key, Tail(v8)))
    BY <1>5 DEF Live!Misled
  <1>7. /\ v5 \in Live!Hooks /\ Live!HookOK(v5, Live!Line(v5)) /\ v7 \in Seq(Live!Request) /\ v3 \in BOOLEAN
        /\ v2 \in BOOLEAN /\ v1 \in Live!Keys /\ Len(v5.attempts) <= MaxAttempts /\ None \in Live!Keys
        /\ {} \in SUBSET FollowedThreads /\ {v5.active} \cap v6 \in SUBSET FollowedThreads
    BY LiveTyped DEF Live!Keys
  <1>8. \/ /\ v1 = None \/ (e.key # v1 /\ e.kind # "connected")
           /\ UNCHANGED <<v5, v7, v12>>
        \/ /\ v1 # None /\ e.kind = "connected"
           /\ Live!Becomes(IF v3 THEN Live!Reconnect(v5, v1, FALSE, FALSE, v2) ELSE v5)
        \/ /\ v1 # None /\ e.kind = "attached" /\ e.key = v1
           /\ Live!Becomes([v5 EXCEPT !.active = v1,
                                   !.conn = IF @ = "polling" THEN "polling" ELSE "live"])
        \/ /\ v1 # None /\ e.kind = "activity" /\ e.key = v1
           /\ Live!Becomes([v5 EXCEPT !.conn = "live"])
        \/ /\ v1 # None /\ e.kind = "detached" /\ e.key = v1
           /\ IF v1 \in v5.ignoring
              THEN Live!Becomes([v5 EXCEPT !.ignoring = @ \ {v1}])
              ELSE Live!LetsGo(IF v3 /\ v4
                          THEN Live!Reconnect(released, v1, TRUE, FALSE, v2) ELSE released,
                          {v5.active} \cap v6)
    BY <1>2, <1>3, <1>4 DEF Live!HandleEvent
  <1>9. ASSUME v1 # None, NEW h, LiveHandles(v5, h, 0), Len(h.attempts) < MaxAttempts, NEW resume \in BOOLEAN
        PROVE  LET g == Live!Reconnect(h, v1, resume, FALSE, v2)
               IN  /\ LiveHandles(v5, g, 0) /\ Len(g.attempts) <= MaxAttempts /\ g.active = h.active
                   /\ Live!Going(g, v1)
                   /\ \A j \in 1..Len(g.attempts) : g.attempts[j].seq = g.sequence => g.attempts[j].key = v1
    <2>1. h \in Live!Hooks /\ Live!HookOK(h, Live!Line(h)) /\ LiveRetains(v5, h, 0) /\ v1 \in FollowedThreads
      BY <1>7, <1>9 DEF LiveHandles, Live!Keys
    <2>2. PICK keep \in BOOLEAN : keep = FALSE
      OBVIOUS
    <2>3. PICK g : g = Live!Reconnect(h, v1, resume, keep, v2)
      OBVIOUS
    <2>4. /\ LiveHandles(h, g, 0) /\ Len(g.attempts) <= MaxAttempts /\ g.active = h.active
          /\ Live!Going(g, v1)
          /\ \A j \in 1..Len(g.attempts) : g.attempts[j].seq = g.sequence => g.attempts[j].key = v1
      BY <1>7, <1>9, <2>1, <2>3, LiveReconnect
    <2>5. LiveRetains(v5, g, 0)
      BY <1>7, <2>1, <2>4, LiveRetainsBoth DEF LiveHandles
    <2>6. LiveHandles(v5, g, 0)
      BY <2>4, <2>5 DEF LiveHandles
    <2> QED  BY <2>2, <2>3, <2>4, <2>6, Zenon
  <1>10. LiveHandles(v5, v5, 0)
    BY <1>7, LiveSame DEF LiveHandles
  <1>11. CASE /\ v1 = None \/ (e.key # v1 /\ e.kind # "connected")
              /\ UNCHANGED <<v5, v7, v12>>
    BY <1>1, <1>2, <1>5, <1>11, LiveUnheard
  <1>12. CASE /\ v1 # None /\ e.kind = "connected"
              /\ Live!Becomes(IF v3 THEN Live!Reconnect(v5, v1, FALSE, FALSE, v2) ELSE v5)
    <2>1. PICK g : g = (IF v3 THEN Live!Reconnect(v5, v1, FALSE, FALSE, v2) ELSE v5)
      OBVIOUS
    <2>2. Live!LetsGo(g, {})
      BY <1>12, <2>1 DEF Live!Becomes
    <2>3. /\ LiveHandles(v5, g, 0) /\ Len(g.attempts) <= MaxAttempts /\ g.active = v5.active
          /\ \/ ~v3 /\ g = v5
             \/ /\ v3 /\ Live!Going(g, v1)
                /\ \A j \in 1..Len(g.attempts) : g.attempts[j].seq = g.sequence => g.attempts[j].key = v1
      <3>1. CASE v3
        <4>1. PICK resume \in BOOLEAN : resume = FALSE
          OBVIOUS
        <4>2. g = Live!Reconnect(v5, v1, resume, FALSE, v2)
          BY <2>1, <3>1, <4>1, Zenon
        <4> QED  BY <1>1, <1>9, <1>10, <1>12, <3>1, <4>2
      <3>2. CASE ~v3
        BY <1>7, <1>10, <2>1, <3>2
      <3> QED  BY <3>1, <3>2
    <2> QED  BY <1>1, <1>6, <1>7, <1>12, <2>2, <2>3, LiveHeard
  <1>13. CASE /\ v1 # None /\ e.kind = "attached" /\ e.key = v1
              /\ Live!Becomes([v5 EXCEPT !.active = v1,
                                      !.conn = IF @ = "polling" THEN "polling" ELSE "live"])
    <2>1. PICK g : g = [v5 EXCEPT !.active = v1, !.conn = IF @ = "polling" THEN "polling" ELSE "live"]
      OBVIOUS
    <2>2. Live!LetsGo(g, {})
      BY <1>13, <2>1 DEF Live!Becomes
    <2>3. /\ g \in Live!Hooks /\ g.attempts = v5.attempts /\ g.sequence = v5.sequence /\ g.sent = v5.sent
          /\ g.inFlight = v5.inFlight /\ g.inFlightSeq = v5.inFlightSeq /\ g.active = v1
      BY <1>7, <2>1 DEF Live!Hooks
    <2>4. LiveHandles(v5, g, 0) /\ Len(g.attempts) <= MaxAttempts
      BY <1>7, <2>3, LiveSame DEF LiveHandles
    <2>5. v11' = {} => ~Live!Lost(v1, Tail(v8))
      BY <1>6, <1>13
    <2> QED  BY <1>1, <1>6, <1>7, <1>13, <2>2, <2>3, <2>4, <2>5, LiveHeard
  <1>14. CASE /\ v1 # None /\ e.kind = "activity" /\ e.key = v1
              /\ Live!Becomes([v5 EXCEPT !.conn = "live"])
    <2>1. PICK g : g = [v5 EXCEPT !.conn = "live"]
      OBVIOUS
    <2>2. Live!LetsGo(g, {})
      BY <1>14, <2>1 DEF Live!Becomes
    <2>3. /\ g \in Live!Hooks /\ g.attempts = v5.attempts /\ g.sequence = v5.sequence /\ g.sent = v5.sent
          /\ g.inFlight = v5.inFlight /\ g.inFlightSeq = v5.inFlightSeq /\ g.active = v5.active
      BY <1>7, <2>1 DEF Live!Hooks
    <2>4. LiveHandles(v5, g, 0) /\ Len(g.attempts) <= MaxAttempts
      BY <1>7, <2>3, LiveSame DEF LiveHandles
    <2>5. Head(v8).kind # "detached"
      BY <1>2, <1>14
    <2> QED  BY <1>1, <1>6, <1>7, <1>14, <2>2, <2>3, <2>4, <2>5, LiveHeard
  <1>15. CASE /\ v1 # None /\ e.kind = "detached" /\ e.key = v1 /\ v1 \in v5.ignoring
              /\ Live!Becomes([v5 EXCEPT !.ignoring = @ \ {v1}])
    <2>1. PICK g : g = [v5 EXCEPT !.ignoring = @ \ {v1}]
      OBVIOUS
    <2>2. Live!LetsGo(g, {})
      BY <1>15, <2>1 DEF Live!Becomes
    <2>3. /\ g \in Live!Hooks /\ g.attempts = v5.attempts /\ g.sequence = v5.sequence /\ g.sent = v5.sent
          /\ g.inFlight = v5.inFlight /\ g.inFlightSeq = v5.inFlightSeq /\ g.active = v5.active
      BY <1>7, <2>1 DEF Live!Hooks
    <2>4. LiveHandles(v5, g, 0) /\ Len(g.attempts) <= MaxAttempts
      BY <1>7, <2>3, LiveSame DEF LiveHandles
    <2>5. v11' = {} => Live!InStep(v1, "detached") \/ ~Live!Lost(v1, Tail(v8))
      BY <1>6, <1>15 DEF Live!Unheard, Live!At, Live!InStep
    <2> QED  BY <1>1, <1>6, <1>7, <1>15, <2>2, <2>3, <2>4, <2>5, LiveHeard
  <1>16. CASE /\ v1 # None /\ e.kind = "detached" /\ e.key = v1
              /\ Live!LetsGo(IF v3 /\ v4 THEN Live!Reconnect(released, v1, TRUE, FALSE, v2) ELSE released,
                        {v5.active} \cap v6)
    <2>1. PICK g : g = (IF v3 /\ v4 THEN Live!Reconnect(released, v1, TRUE, FALSE, v2) ELSE released)
      OBVIOUS
    <2>2. Live!LetsGo(g, {v5.active} \cap v6)
      BY <1>16, <2>1
    <2>3. /\ k \in Live!Hooks /\ k.attempts = v5.attempts /\ k.sequence = v5.sequence /\ k.sent = v5.sent
          /\ k.inFlight = v5.inFlight /\ k.inFlightSeq = v5.inFlightSeq /\ k.active = None
      BY <1>3, <1>7 DEF Live!Hooks
    <2>4. Live!HookOK(k, Live!Line(k)) /\ LiveRetains(v5, k, 0)
      BY <1>7, <2>3, LiveSame
    <2>5. /\ LiveHandles(k, released, 0) /\ released.attempts = k.attempts /\ released.sequence = k.sequence
          /\ released.active = k.active
      BY <1>4, <1>7, <2>3, <2>4, LiveReconcile
    <2>6. LiveHandles(v5, released, 0)
      BY <1>7, <2>3, <2>4, <2>5, LiveRetainsBoth DEF LiveHandles
    <2>7. /\ LiveHandles(v5, g, 0) /\ Len(g.attempts) <= MaxAttempts /\ g.active = None
          /\ \/ ~(v3 /\ v4) /\ g.attempts = v5.attempts /\ g.sequence = v5.sequence
             \/ /\ v3 /\ Live!Going(g, v1)
                /\ \A j \in 1..Len(g.attempts) : g.attempts[j].seq = g.sequence => g.attempts[j].key = v1
      <3>1. CASE v3 /\ v4
        <4>1. PICK resume \in BOOLEAN : resume = TRUE
          OBVIOUS
        <4>2. g = Live!Reconnect(released, v1, resume, FALSE, v2)
          BY <2>1, <3>1, <4>1, Zenon
        <4>3. Len(released.attempts) < MaxAttempts
          BY <1>1, <2>3, <2>5
        <4> QED  BY <1>9, <1>16, <2>3, <2>5, <2>6, <3>1, <4>2, <4>3
      <3>2. CASE ~(v3 /\ v4)
        BY <1>7, <2>1, <2>3, <2>5, <2>6, <3>2
      <3> QED  BY <3>1, <3>2
    <2>8. v5.active \in {None} \cup ({v5.active} \cap v6) \/ v5.active \notin v6
      OBVIOUS
    <2> QED  BY <1>1, <1>6, <1>7, <1>16, <2>2, <2>7, <2>8, LiveHeard
  <1> QED  BY <1>8, <1>11, <1>12, <1>13, <1>14, <1>15, <1>16

(* The answer to the oldest request; nobody else waits for it.              *)
LEMMA LiveAnswered ==
    ASSUME Live!Basis, Live!IInv, v7 # <<>>, v7' = Tail(v7), NEW r, r = Head(v7),
           NEW s \in {"attached", "detached", "refused", "cleaned"}, Live!Answered(r.by, s)
    PROVE  /\ r \in Live!Request /\ Live!WaitedFor(r, v5)
           /\ v5' \in Live!Hooks /\ v5'.sent = <<>> /\ Len(v5'.attempts) = Len(v5.attempts)
           /\ v5'.sequence = v5.sequence /\ v5'.active = v5.active
           /\ \A j \in 1..Len(v5.attempts) :
                 /\ v5'.attempts[j].key = v5.attempts[j].key /\ v5'.attempts[j].seq = v5.attempts[j].seq
                 /\ j # r.by => v5'.attempts[j].step = v5.attempts[j].step
                 /\ j = r.by => v5'.attempts[j].step = (IF s = "cleaned" THEN "done" ELSE s)
           /\ v7' \in Seq(Live!Request) /\ Live!HookOK(v5', v7')
           /\ \A key : Live!Asked(key) => Live!Asked(key)' \/ key = r.key
  <1>1. /\ v5 \in Live!Hooks /\ v5.sent = <<>> /\ v7 \in Seq(Live!Request) /\ Live!HookOK(v5, v7)
        /\ Len(v5.attempts) \in Nat /\ v5.sequence \in Nat
    BY LiveTyped
  <1>2. /\ v7' \in Seq(Live!Request) /\ r \in Live!Request /\ r = v7[1] /\ 1 \in 1..Len(v7)
        /\ \A p \in 1..Len(v7') : p + 1 \in 1..Len(v7) /\ v7'[p] = v7[p + 1]
        /\ \A p \in 1..Len(v7) : p = 1 \/ (p - 1 \in 1..Len(v7') /\ v7'[p - 1] = v7[p])
    BY <1>1, LiveTail
  <1>3. Live!WaitedFor(r, v5) /\ r.by \in 0..MaxAttempts
    BY <1>1, <1>2 DEF Live!HookOK, Live!RequestsOK, Live!Request
  <1>4. r.by # 0 => r.by \in 1..Len(v5.attempts)
    BY <1>1, <1>3 DEF Live!WaitedFor, Live!Basis
  <1>5. /\ v5' \in Live!Hooks /\ v5'.sent = <<>> /\ Len(v5'.attempts) = Len(v5.attempts)
        /\ v5'.sequence = v5.sequence /\ v5'.active = v5.active
        /\ \A j \in 1..Len(v5.attempts) :
              /\ v5'.attempts[j].key = v5.attempts[j].key /\ v5'.attempts[j].seq = v5.attempts[j].seq
              /\ j # r.by => v5'.attempts[j].step = v5.attempts[j].step
              /\ j = r.by => v5'.attempts[j].step = (IF s = "cleaned" THEN "done" ELSE s)
        /\ Live!FlightOK(v5')
    <2>1. CASE r.by = 0
      <3>1. v5' = v5
        BY <2>1 DEF Live!Answered
      <3>2. \A j \in 1..Len(v5.attempts) : j # r.by
        BY <2>1
      <3> QED  BY <1>1, <3>1, <3>2 DEF Live!HookOK
    <2>2. CASE r.by # 0 /\ s # "cleaned"
      <3>1. v5' = Live!SetStep(v5, r.by, s)
        BY <2>2 DEF Live!Answered
      <3>2. /\ v5' \in Live!Hooks /\ Len(v5'.attempts) = Len(v5.attempts) /\ v5'.attempts[r.by].step = s
            /\ \A j \in 1..Len(v5.attempts) : /\ v5'.attempts[j].key = v5.attempts[j].key
                                              /\ v5'.attempts[j].seq = v5.attempts[j].seq
                                              /\ j # r.by => v5'.attempts[j].step = v5.attempts[j].step
            /\ v5'.sent = v5.sent /\ v5'.sequence = v5.sequence /\ v5'.inFlight = v5.inFlight
            /\ v5'.inFlightSeq = v5.inFlightSeq /\ v5'.active = v5.active
        <4>1. r.by \in 1..Len(v5.attempts)
          BY <1>4, <2>2
        <4>2. s \in {"connecting", "refreshing", "detaching", "attaching", "attached", "detached", "refused",
                     "cleaning", "done"}
          BY <2>2
        <4>3. PICK g : g = Live!SetStep(v5, r.by, s)
          OBVIOUS
        <4>41. g \in Live!Hooks /\ Len(g.attempts) = Len(v5.attempts) /\ g.attempts[r.by].step = s
          BY <1>1, <4>1, <4>2, <4>3, LiveSetStep
        <4>42. \A j \in 1..Len(v5.attempts) : /\ g.attempts[j].key = v5.attempts[j].key
                                              /\ g.attempts[j].seq = v5.attempts[j].seq
                                              /\ j # r.by => g.attempts[j].step = v5.attempts[j].step
          <5>1. PICK i \in 1..Len(v5.attempts) : i = r.by
            BY <4>1
          <5>2. v5 \in Live!Hooks /\ g = Live!SetStep(v5, i, s)
            BY <1>1, <4>3, <5>1
          <5>3. \A j \in 1..Len(v5.attempts) : /\ g.attempts[j].key = v5.attempts[j].key
                                               /\ g.attempts[j].seq = v5.attempts[j].seq
                                               /\ j # i => g.attempts[j].step = v5.attempts[j].step
            BY <4>2, <5>2, LiveSetStep
          <5> QED  BY <5>1, <5>3
        <4>43. /\ g.sent = v5.sent /\ g.sequence = v5.sequence /\ g.inFlight = v5.inFlight
               /\ g.inFlightSeq = v5.inFlightSeq /\ g.active = v5.active
          BY <1>1, <4>1, <4>2, <4>3, LiveSetStep
        <4>5. v5' = g
          BY <3>1, <4>3
        <4> QED  BY <4>41, <4>42, <4>43, <4>5
      <3>3. Live!FlightOK(v5')
        <4>1. v5.inFlight \in Nat
          BY <1>1 DEF Live!Hooks, Live!Basis
        <4> QED  BY <1>1, <2>2, <3>2, <4>1 DEF Live!HookOK, Live!FlightOK
      <3> QED  BY <1>1, <2>2, <3>2, <3>3
    <2>3. CASE r.by # 0 /\ s = "cleaned"
      <3>1. v5' = Live!Settled(v5, r.by)
        BY <2>3 DEF Live!Answered
      <3>2. PICK k : k = Live!SetStep(v5, r.by, "done")
        OBVIOUS
      <3>3. /\ k \in Live!Hooks /\ Len(k.attempts) = Len(v5.attempts) /\ k.attempts[r.by].step = "done"
            /\ \A j \in 1..Len(v5.attempts) : /\ k.attempts[j].key = v5.attempts[j].key
                                              /\ k.attempts[j].seq = v5.attempts[j].seq
                                              /\ j # r.by => k.attempts[j].step = v5.attempts[j].step
            /\ k.sent = v5.sent /\ k.sequence = v5.sequence /\ k.inFlight = v5.inFlight
            /\ k.inFlightSeq = v5.inFlightSeq /\ k.active = v5.active
        <4>1. r.by \in 1..Len(v5.attempts)
          BY <1>4, <2>3
        <4>2. "done" \in {"connecting", "refreshing", "detaching", "attaching", "attached", "detached", "refused",
                          "cleaning", "done"}
          OBVIOUS
        <4>3. PICK i \in 1..Len(v5.attempts) : i = r.by
          BY <4>1
        <4>4. v5 \in Live!Hooks /\ k = Live!SetStep(v5, i, "done")
          BY <1>1, <3>2, <4>3
        <4>5. k \in Live!Hooks /\ Len(k.attempts) = Len(v5.attempts) /\ k.attempts[i].step = "done"
          BY <4>2, <4>4, LiveSetStep
        <4>6. \A j \in 1..Len(v5.attempts) : /\ k.attempts[j].key = v5.attempts[j].key
                                             /\ k.attempts[j].seq = v5.attempts[j].seq
                                             /\ j # i => k.attempts[j].step = v5.attempts[j].step
          BY <4>2, <4>4, LiveSetStep
        <4>7. /\ k.sent = v5.sent /\ k.sequence = v5.sequence /\ k.inFlight = v5.inFlight
              /\ k.inFlightSeq = v5.inFlightSeq /\ k.active = v5.active
          BY <4>2, <4>4, LiveSetStep
        <4> QED  BY <4>3, <4>5, <4>6, <4>7
      <3>4. v5' = IF k.inFlight = r.by THEN [k EXCEPT !.inFlight = 0, !.inFlightSeq = 0] ELSE k
        BY <3>1, <3>2 DEF Live!Settled
      <3>5. /\ v5' \in Live!Hooks /\ v5'.attempts = k.attempts /\ v5'.sent = k.sent /\ v5'.sequence = k.sequence
            /\ v5'.active = k.active
            /\ \/ v5'.inFlight = 0
               \/ v5'.inFlight = k.inFlight /\ v5'.inFlightSeq = k.inFlightSeq /\ k.inFlight # r.by
        <4>1. CASE k.inFlight = r.by
          <5>1. v5' = [k EXCEPT !.inFlight = 0, !.inFlightSeq = 0]
            BY <3>4, <4>1
          <5>2. 0 \in 0..MaxAttempts /\ 0 \in Nat
            BY DEF Live!Basis
          <5>3. [k EXCEPT !.inFlight = 0, !.inFlightSeq = 0] \in Live!Hooks
            BY <3>3, <5>2 DEF Live!Hooks
          <5> QED  BY <3>3, <5>1, <5>3 DEF Live!Hooks
        <4>2. CASE k.inFlight # r.by
          BY <3>3, <3>4, <4>2
        <4> QED  BY <4>1, <4>2
      <3>6. Live!FlightOK(v5')
        <4>1. v5.inFlight \in Nat
          BY <1>1 DEF Live!Hooks, Live!Basis
        <4> QED  BY <1>1, <3>3, <3>5, <4>1 DEF Live!HookOK, Live!FlightOK
      <3> QED  BY <1>1, <2>3, <3>3, <3>5, <3>6
    <2> QED  BY <2>1, <2>2, <2>3
  <1>6. ASSUME NEW p \in 1..Len(v7') PROVE Live!WaitedFor(v7'[p], v5')
    <2>1. PICK x : x = v7'[p]
      OBVIOUS
    <2>2. p + 1 \in 1..Len(v7) /\ x = v7[p + 1] /\ p + 1 # 1
      BY <1>2, <2>1
    <2>3. Live!WaitedFor(x, v5) /\ x \in Live!Request
      BY <1>1, <2>2 DEF Live!HookOK, Live!RequestsOK
    <2>4. x.by # 0 => x.by # r.by
      BY <1>1, <1>2, <2>2 DEF Live!HookOK, Live!RequestsOK
    <2>5. CASE x.by = 0
      BY <2>1, <2>3, <2>5 DEF Live!WaitedFor
    <2>6. CASE x.by # 0
      <3>1. x.by \in 1..Len(v5.attempts)
        BY <1>1, <2>3, <2>6 DEF Live!WaitedFor, Live!Request, Live!Basis
      <3>2. /\ v5'.attempts[x.by].key = v5.attempts[x.by].key
            /\ v5'.attempts[x.by].step = v5.attempts[x.by].step
        BY <1>5, <2>4, <2>6, <3>1
      <3>3. Len(v5'.attempts) = Len(v5.attempts)
        BY <1>5
      <3> QED  BY <2>1, <2>3, <2>6, <3>2, <3>3 DEF Live!WaitedFor
    <2> QED  BY <2>5, <2>6
  <1>7. ASSUME NEW p \in 1..Len(v7'), NEW q \in 1..Len(v7'), v7'[p].by = v7'[q].by, v7'[p].by # 0
        PROVE  p = q
    <2>1. p + 1 \in 1..Len(v7) /\ q + 1 \in 1..Len(v7) /\ v7[p + 1].by = v7[q + 1].by /\ v7[p + 1].by # 0
      BY <1>2, <1>7
    <2>2. p + 1 = q + 1
      BY <1>1, <2>1 DEF Live!HookOK, Live!RequestsOK
    <2>3. p \in Nat /\ q \in Nat
      BY <1>2
    <2> QED  BY <2>2, <2>3
  <1>8. Live!NumbersOK(v5')
    BY <1>1, <1>5 DEF Live!HookOK, Live!NumbersOK
  <1>9. Live!HookOK(v5', v7')
    BY <1>5, <1>6, <1>7, <1>8 DEF Live!HookOK, Live!RequestsOK
  <1>10. \A key : Live!Asked(key) => Live!Asked(key)' \/ key = r.key
    BY <1>2 DEF Live!Asked
  <1> QED  BY <1>2, <1>3, <1>5, <1>9, <1>10

(* The keys are as they were, and so is what is current.                    *)
LEMMA LiveNoneMoves ==
    ASSUME Live!IInv, v5'.active = v5.active, v5'.sequence = v5.sequence, v1' = v1, v3' = v3,
           Len(v5'.attempts) = Len(v5.attempts),
           \A j \in 1..Len(v5.attempts) :
              v5'.attempts[j].key = v5.attempts[j].key /\ v5'.attempts[j].seq = v5.attempts[j].seq
    PROVE  Live!CurrentOK' /\ Live!ActiveOK'
  <1>1. Live!CurrentOK /\ Live!ActiveOK
    BY DEF Live!IInv
  <1>2. \A j \in 1..Len(v5'.attempts) : /\ j \in 1..Len(v5.attempts) /\ v5'.attempts[j].key = v5.attempts[j].key
                                        /\ Live!Current(j)' => Live!Current(j)
    BY DEF Live!Current
  <1> QED  BY <1>1, <1>2 DEF Live!CurrentOK, Live!ActiveOK

LEMMA LiveIgnoreExpires ==
    ASSUME Live!Basis, Live!IInv, Live!IgnoreExpires
    PROVE  Live!IInv'
  <1>1. /\ v5' = [v5 EXCEPT !.ignoring = {}]
        /\ UNCHANGED <<v1, v2, v3, v4, v6, v7, v8, v9, v10, v11, v12>>
    BY DEF Live!IgnoreExpires
  <1>2. /\ v5' \in Live!Hooks /\ v5'.attempts = v5.attempts /\ v5'.sequence = v5.sequence
        /\ v5'.active = v5.active /\ v5'.sent = v5.sent /\ v5'.inFlight = v5.inFlight
        /\ v5'.inFlightSeq = v5.inFlightSeq
    BY <1>1, LiveTyped DEF Live!Hooks
  <1>3. Live!TypeOK'
    BY <1>1, <1>2, LiveTyped DEF Live!TypeOK
  <1>4. Live!HookOK(v5', v7')
    BY <1>1, <1>2, LiveTyped DEF Live!HookOK, Live!RequestsOK, Live!WaitedFor, Live!NumbersOK, Live!FlightOK
  <1>5. Live!CurrentOK' /\ Live!ActiveOK'
    BY <1>1, <1>2, LiveNoneMoves
  <1>6. Live!RefusedOK' /\ Live!SubscriptionsOK'
    BY <1>1, <1>2 DEF Live!IInv, Live!RefusedOK, Live!SubscriptionsOK, Live!Asked, Live!InStep
  <1>7. \A key : Live!Tended(key) => Live!Tended(key)'
    BY <1>1, <1>2 DEF Live!Tended, Live!Lost, Live!Asked, Live!Told, Live!InStep, Live!Going
  <1>8. Live!TendedOK'
    <2> SUFFICES ASSUME v11' = {}, v3'
                 PROVE  /\ v5'.active # None => Live!Tended(v5.active)'
                        /\ v2' /\ v4' /\ v1' # None => Live!Tended(v1)'
      BY DEF Live!TendedOK
    <2>1. PICK a, t : a = v5.active /\ t = v1
      OBVIOUS
    <2>2. a # None => Live!Tended(a)'
      BY <1>1, <1>7, <2>1 DEF Live!IInv, Live!TendedOK
    <2>3. v2 /\ v4 /\ t # None => Live!Tended(t)'
      BY <1>1, <1>7, <2>1 DEF Live!IInv, Live!TendedOK
    <2> QED  BY <1>1, <1>2, <2>1, <2>2, <2>3
  <1> QED  BY <1>3, <1>4, <1>5, <1>6, <1>8 DEF Live!IInv

(* The daemon does not answer as it should.                                 *)
LEMMA LiveBlamed ==
    ASSUME Live!Basis, Live!IInv, v7 # <<>>, v7' = Tail(v7), NEW r, r = Head(v7),
           NEW s \in {"attached", "detached", "refused", "cleaned"}, Live!Answered(r.by, s),
           v11' = v11 \cup {"refused"}, v10' \in 0..MaxFailures,
           UNCHANGED <<v1, v2, v3, v4, v6, v8, v9, v12>>
    PROVE  Live!IInv'
  <1>1. /\ v5' \in Live!Hooks /\ v5'.sent = <<>> /\ Len(v5'.attempts) = Len(v5.attempts)
        /\ v5'.sequence = v5.sequence /\ v5'.active = v5.active
        /\ \A j \in 1..Len(v5.attempts) :
              v5'.attempts[j].key = v5.attempts[j].key /\ v5'.attempts[j].seq = v5.attempts[j].seq
        /\ v7' \in Seq(Live!Request) /\ Live!HookOK(v5', v7')
    BY LiveAnswered
  <1>2. Live!TypeOK'
    BY <1>1, LiveTyped DEF Live!TypeOK
  <1>3. Live!CurrentOK' /\ Live!ActiveOK'
    BY <1>1, LiveNoneMoves
  <1>4. Live!RefusedOK' /\ Live!SubscriptionsOK' /\ Live!TendedOK'
    BY DEF Live!RefusedOK, Live!SubscriptionsOK, Live!TendedOK
  <1> QED  BY <1>1, <1>2, <1>3, <1>4 DEF Live!IInv

(* It does.                                                                 *)
LEMMA LiveServed ==
    ASSUME Live!Basis, Live!IInv, v7 # <<>>, v7' = Tail(v7), NEW r, r = Head(v7),
           NEW s, s = (IF r.op = "subscribe" THEN "attached"
                       ELSE IF r.by # 0
                               /\ Live!At(r.by, "cleaning") THEN "cleaned" ELSE "detached"), Live!Answered(r.by, s),
           v6' = (IF r.op = "subscribe" THEN v6 \cup {r.key} ELSE v6 \ {r.key}),
           NEW told, told = [kind |-> IF r.op = "subscribe" THEN "attached" ELSE "detached", key |-> r.key],
           v8' = Append(v8, told),
           UNCHANGED <<v1, v2, v3, v4, v9, v10, v12, v11>>
    PROVE  Live!IInv'
  <1>1. s \in {"attached", "detached", "refused", "cleaned"} /\ (r.op = "subscribe" => s = "attached")
        /\ s # "refused"
    OBVIOUS
  <1>2. /\ r \in Live!Request /\ Live!WaitedFor(r, v5)
        /\ v5' \in Live!Hooks /\ v5'.sent = <<>> /\ Len(v5'.attempts) = Len(v5.attempts)
        /\ v5'.sequence = v5.sequence /\ v5'.active = v5.active
        /\ \A j \in 1..Len(v5.attempts) :
              /\ v5'.attempts[j].key = v5.attempts[j].key /\ v5'.attempts[j].seq = v5.attempts[j].seq
              /\ j # r.by => v5'.attempts[j].step = v5.attempts[j].step
              /\ j = r.by => v5'.attempts[j].step = (IF s = "cleaned" THEN "done" ELSE s)
        /\ v7' \in Seq(Live!Request) /\ Live!HookOK(v5', v7')
        /\ \A key : Live!Asked(key) => Live!Asked(key)' \/ key = r.key
    BY <1>1, LiveAnswered
  <1>3. r.key \in FollowedThreads /\ r.op \in {"subscribe", "unsubscribe"} /\ r.by \in Nat
    BY <1>2 DEF Live!Request, Live!Basis
  <1>4. told \in Live!Event /\ told.key = r.key /\ (r.op = "unsubscribe" => told.kind = "detached")
          /\ v8 \in Seq(Live!Event)
    BY <1>3, LiveTyped DEF Live!Event, Live!Keys
  <1>5. v8' \in Seq(Live!Event) /\ v8'[Len(v8) + 1] = told /\ Len(v8) + 1 \in 1..Len(v8')
    BY <1>4, LiveAppend
  <1>6. \A key : Live!Told(key, v8) => Live!Told(key, v8')
    BY <1>4, LiveAppendEvent
  <1>7. r.op = "unsubscribe" => Live!Told(r.key, v8')
    BY <1>4, <1>5 DEF Live!Told
  <1>8. r.by # 0 => r.by \in 1..Len(v5.attempts) /\ v5.attempts[r.by].key = r.key
    <2>1. Len(v5.attempts) \in Nat
      BY LiveTyped
    <2> QED  BY <1>2, <1>3, <2>1 DEF Live!WaitedFor
  <1>9. Live!TypeOK'
    <2>1. v6' \subseteq FollowedThreads
      BY <1>3, LiveTyped
    <2> QED  BY <1>2, <1>5, <2>1, LiveTyped DEF Live!TypeOK
  <1>10. Live!CurrentOK' /\ Live!ActiveOK'
    BY <1>2, LiveNoneMoves
  <1>11. Live!RefusedOK'
    BY <1>1, <1>2 DEF Live!IInv, Live!RefusedOK
  <1>12. ASSUME NEW j \in 1..Len(v5.attempts), v5.attempts[j].key # r.key
         PROVE  j \in 1..Len(v5'.attempts) /\ v5'.attempts[j].key = v5.attempts[j].key
                /\ v5'.attempts[j].seq = v5.attempts[j].seq /\ v5'.attempts[j].step = v5.attempts[j].step
    BY <1>2, <1>8, <1>12
  <1>13. \A key, step : key # r.key /\ Live!InStep(key, step) => Live!InStep(key, step)'
    BY <1>12 DEF Live!InStep
  <1>14. \A key : key # r.key /\ Live!Going(v5, key) => Live!Going(v5, key)'
    BY <1>2, <1>12 DEF Live!Going
  <1>15. Live!SubscriptionsOK'
    <2> SUFFICES ASSUME "refused" \notin v11', NEW key \in v6'
                 PROVE  Live!Asked(key)' \/ key = v5'.active \/ key \in v12' \/ Live!InStep(key, "attached")'
      BY DEF Live!SubscriptionsOK
    <2>1. CASE key = r.key
      <3>1. r.op = "subscribe" /\ r.by # 0
        BY <1>2, <1>3, <2>1 DEF Live!WaitedFor
      <3>2. r.by \in 1..Len(v5'.attempts) /\ v5'.attempts[r.by].key = key
              /\ v5'.attempts[r.by].step = "attached"
        BY <1>1, <1>2, <1>8, <2>1, <3>1
      <3> QED  BY <3>2 DEF Live!InStep
    <2>2. CASE key # r.key
      <3>1. key \in v6
        BY <2>2
      <3>2. Live!Asked(key) \/ key = v5.active \/ key \in v12 \/ Live!InStep(key, "attached")
        BY <3>1 DEF Live!IInv, Live!SubscriptionsOK
      <3> QED  BY <1>2, <1>13, <2>2, <3>2
    <2> QED  BY <2>1, <2>2
  <1>16. ASSUME NEW key, Live!Tended(key) PROVE Live!Tended(key)'
    <2>1. CASE key = r.key
      <3>1. key \in v6' \/ Live!Told(key, v8)'
        BY <1>3, <1>7, <2>1 DEF Live!Told
      <3> QED  BY <3>1 DEF Live!Tended, Live!Lost
    <2>2. CASE key # r.key
      <3>1. ~Live!Lost(key, v8) => ~Live!Lost(key, v8)'
        BY <1>2, <1>6, <2>2 DEF Live!Lost, Live!Told
      <3> QED  BY <1>13, <1>14, <1>16, <2>2, <3>1 DEF Live!Tended
    <2> QED  BY <2>1, <2>2
  <1>17. Live!TendedOK'
    <2> SUFFICES ASSUME v11' = {}, v3'
                 PROVE  /\ v5'.active # None => Live!Tended(v5.active)'
                        /\ v2' /\ v4' /\ v1' # None => Live!Tended(v1)'
      BY DEF Live!TendedOK
    <2>1. PICK a, t : a = v5.active /\ t = v1
      OBVIOUS
    <2>2. a # None => Live!Tended(a)'
      BY <1>16, <2>1 DEF Live!IInv, Live!TendedOK
    <2>3. v2 /\ v4 /\ t # None => Live!Tended(t)'
      BY <1>16, <2>1 DEF Live!IInv, Live!TendedOK
    <2> QED  BY <1>2, <2>1, <2>2, <2>3
  <1> QED  BY <1>2, <1>9, <1>10, <1>11, <1>15, <1>17 DEF Live!IInv

LEMMA LiveServe ==
    ASSUME Live!Basis, Live!IInv, Live!Serve
    PROVE  Live!IInv'
  <1>1. PICK r : r = Head(v7)
    OBVIOUS
  <1>2. PICK s : s = (IF r.op = "subscribe" THEN "attached"
                      ELSE IF r.by # 0 /\ Live!At(r.by, "cleaning") THEN "cleaned" ELSE "detached")
    OBVIOUS
  <1>3. v7 # <<>> /\ v7' = Tail(v7)
        /\ UNCHANGED <<v1, v2, v3, v4, v9, v10, v12>>
    BY DEF Live!Serve
  <1>4. CASE v2
    <2>1. PICK told : told = [kind |-> IF r.op = "subscribe" THEN "attached" ELSE "detached", key |-> r.key]
      OBVIOUS
    <2>2. /\ v6' = (IF r.op = "subscribe" THEN v6 \cup {r.key} ELSE v6 \ {r.key})
          /\ v8' = Append(v8, told) /\ Live!Answered(r.by, s) /\ v11' = v11
      BY <1>1, <1>2, <1>4, <2>1 DEF Live!Serve
    <2> QED  BY <1>1, <1>2, <1>3, <2>1, <2>2, LiveServed
  <1>5. CASE ~v2
    <2>1. PICK x : x = (IF r.op = "subscribe" THEN "refused"
                        ELSE IF r.by # 0 /\ Live!At(r.by, "cleaning") THEN "cleaned" ELSE "detached")
      OBVIOUS
    <2>2. Live!Answered(r.by, x) /\ v11' = v11 \cup {"refused"} /\ v6' = v6 /\ v8' = v8
      BY <1>1, <1>5, <2>1 DEF Live!Serve
    <2>3. x \in {"attached", "detached", "refused", "cleaned"}
      BY <2>1
    <2>4. v10' \in 0..MaxFailures
      BY <1>3, LiveTyped
    <2> QED  BY <1>1, <1>3, <2>2, <2>3, <2>4, LiveBlamed
  <1> QED  BY <1>4, <1>5

LEMMA LiveRefuse ==
    ASSUME Live!Basis, Live!IInv, Live!Refuse
    PROVE  Live!IInv'
  <1>1. /\ v7 # <<>> /\ v7' = Tail(v7) /\ v11' = v11 \cup {"refused"}
        /\ v10 < MaxFailures /\ v10' = v10 + 1
        /\ UNCHANGED <<v1, v2, v3, v4, v6, v8, v9, v12>>
    BY DEF Live!Refuse
  <1>2. PICK r : r = Head(v7)
    OBVIOUS
  <1>3. PICK s : s = "refused"
    OBVIOUS
  <1>4. Live!Answered(r.by, s)
    BY <1>2, <1>3 DEF Live!Refuse
  <1>5. v10' \in 0..MaxFailures
    BY <1>1, LiveTyped DEF Live!Basis
  <1>6. s \in {"attached", "detached", "refused", "cleaned"}
    BY <1>3
  <1> QED  BY <1>1, <1>2, <1>4, <1>5, <1>6, LiveBlamed

LEMMA LiveTell ==
    ASSUME Live!Basis, Live!IInv, Live!Tell
    PROVE  Live!IInv'
  <1>1. /\ v9 < MaxLiveMoves /\ v9' = v9 + 1
        /\ UNCHANGED <<v1, v2, v3, v4, v5, v7, v10, v11, v12>>
    BY DEF Live!Tell, Live!Move
  <1>2. PICK key \in v6 :
           \/ /\ v8' = Append(v8, [kind |-> "activity", key |-> key])
              /\ UNCHANGED v6
           \/ /\ v8' = Append(v8, [kind |-> "detached", key |-> key])
              /\ v6' = v6 \ {key}
    BY DEF Live!Tell
  <1>3. PICK e \in Live!Event : /\ v8' = Append(v8, e) /\ e.key = key
                                /\ v6' = v6 \/ (e.kind = "detached" /\ v6' = v6 \ {key})
    <2>1. key \in Live!Keys
      BY LiveTyped DEF Live!Keys
    <2>2. [kind |-> "activity", key |-> key] \in Live!Event /\ [kind |-> "detached", key |-> key] \in Live!Event
      BY <2>1 DEF Live!Event
    <2> QED  BY <1>2, <2>2
  <1>4. v8' \in Seq(Live!Event) /\ v8'[Len(v8) + 1] = e /\ Len(v8) + 1 \in 1..Len(v8')
        /\ \A k : Live!Told(k, v8) => Live!Told(k, v8')
    BY <1>3, LiveTyped, LiveAppend, LiveAppendEvent
  <1>5. e.kind = "detached" => Live!Told(key, v8')
    BY <1>3, <1>4 DEF Live!Told
  <1>6. v6' \subseteq v6
    BY <1>3
  <1>7. Live!TypeOK'
    BY <1>1, <1>4, <1>6, LiveTyped DEF Live!TypeOK, Live!Basis
  <1>8. Live!HookOK(v5, v7)' /\ Live!CurrentOK' /\ Live!ActiveOK' /\ Live!RefusedOK'
    BY <1>1 DEF Live!IInv, Live!HookOK, Live!RequestsOK, Live!WaitedFor, Live!NumbersOK, Live!FlightOK,
           Live!CurrentOK, Live!ActiveOK, Live!Current, Live!RefusedOK
  <1>9. Live!SubscriptionsOK'
    BY <1>1, <1>6 DEF Live!IInv, Live!SubscriptionsOK, Live!Asked, Live!InStep
  <1>10. ASSUME NEW k, Live!Tended(k) PROVE Live!Tended(k)'
    <2>1. ~Live!Lost(k, v8) => ~Live!Lost(k, v8)'
      <3>1. k \in v6 => k \in v6' \/ Live!Told(k, v8')
        BY <1>3, <1>5
      <3> QED  BY <1>1, <1>4, <3>1 DEF Live!Lost, Live!Asked, Live!Told
    <2>2. Live!InStep(k, "detached") => Live!InStep(k, "detached")'
      BY <1>1 DEF Live!InStep
    <2>3. Live!Going(v5, k) => Live!Going(v5, k)'
      BY <1>1 DEF Live!Going
    <2> QED  BY <1>10, <2>1, <2>2, <2>3 DEF Live!Tended
  <1>11. Live!TendedOK'
    <2> SUFFICES ASSUME v11' = {}, v3'
                 PROVE  /\ v5'.active # None => Live!Tended(v5.active)'
                        /\ v2' /\ v4' /\ v1' # None => Live!Tended(v1)'
      BY DEF Live!TendedOK
    <2>1. PICK a, t : a = v5.active /\ t = v1
      OBVIOUS
    <2>2. a # None => Live!Tended(a)'
      BY <1>1, <1>10, <2>1 DEF Live!IInv, Live!TendedOK
    <2>3. v2 /\ v4 /\ t # None => Live!Tended(t)'
      BY <1>1, <1>10, <2>1 DEF Live!IInv, Live!TendedOK
    <2> QED  BY <1>1, <2>1, <2>2, <2>3
  <1> QED  BY <1>7, <1>8, <1>9, <1>11 DEF Live!IInv

LEMMA LiveInit ==
    ASSUME Live!Basis, Live!Init
    PROVE  Live!IInv
  <1>1. /\ v1 = None /\ v2 = TRUE /\ v3 = TRUE /\ v4 = TRUE
        /\ v5.active = None /\ v5.attempts = <<>> /\ v5.sent = <<>> /\ v5.inFlight = 0
        /\ v6 = {} /\ v7 = <<>> /\ v8 = <<>> /\ v9 = 0 /\ v10 = 0 /\ v11 = {} /\ v12 = {}
    BY DEF Live!Init
  <1>2. None \in Live!Keys /\ 0 \in Nat /\ 0 \in 0..MaxAttempts /\ 0 \in 0..MaxLiveMoves /\ 0 \in 0..MaxFailures
        /\ <<>> \in Seq(Live!Attempt) /\ <<>> \in Seq(Live!Request) /\ <<>> \in Seq(Live!Event)
            /\ Len(<<>>) <= MaxAttempts
    BY DEF Live!Basis, Live!Keys
  <1>3. v5 \in Live!Hooks
    BY <1>2 DEF Live!Init, Live!Hooks
  <1>4. v2 \in BOOLEAN /\ v3 \in BOOLEAN /\ v4 \in BOOLEAN
    BY <1>1
  <1>5. Live!TypeOK
    BY <1>1, <1>2, <1>3, <1>4 DEF Live!TypeOK
  <1>6. Live!HookOK(v5, v7)
    BY <1>1 DEF Live!HookOK, Live!RequestsOK, Live!NumbersOK, Live!FlightOK
  <1>7. Live!CurrentOK /\ Live!ActiveOK /\ Live!RefusedOK /\ Live!SubscriptionsOK /\ Live!TendedOK
    BY <1>1 DEF Live!CurrentOK, Live!ActiveOK, Live!RefusedOK, Live!SubscriptionsOK, Live!TendedOK
  <1> QED  BY <1>5, <1>6, <1>7 DEF Live!IInv

LEMMA LiveUnchanged ==
    ASSUME Live!IInv, UNCHANGED Live!vars
    PROVE  Live!IInv'
  BY DEF Live!vars, Live!IInv, Live!TypeOK, Live!HookOK, Live!RequestsOK, Live!WaitedFor, Live!NumbersOK,
         Live!FlightOK, Live!CurrentOK, Live!ActiveOK, Live!RefusedOK,
         Live!SubscriptionsOK, Live!TendedOK, Live!Tended, Live!Lost, Live!Asked, Live!Told, Live!InStep, Live!Going,
         Live!Current

LEMMA LiveInvariant ==
    ASSUME Live!Basis, Live!IInv, [Live!Next]_(Live!vars)
    PROVE  Live!IInv'
  <1>1. CASE Live!Next
    BY <1>1, LiveSelect, LiveDisconnect, LiveConnect, LiveFocus, LiveBlur, LiveVisibility, LiveResolved,
       LiveRejected, LiveDetached, LiveAttached, LiveHandleEvent, LiveIgnoreExpires, LiveServe, LiveRefuse,
       LiveTell DEF Live!Next
  <1>2. CASE UNCHANGED Live!vars
    BY <1>2, LiveUnchanged
  <1> QED  BY <1>1, <1>2

(* At rest, no attempt has anything to deal with, and nobody will tell.     *)
LEMMA LiveAtRest ==
    ASSUME Live!Basis, Live!IInv
    PROVE  Live!OneSubscription /\ Live!FollowedWhileLooking
  <1>1. /\ Live!SubscriptionsOK /\ Live!TendedOK /\ Len(v7) = 0 <=> v7 = <<>>
    BY LiveTyped DEF Live!IInv
  <1>2. ASSUME Live!Rest, NEW key
        PROVE  ~Live!Asked(key) /\ ~Live!Told(key, v8) /\ ~Live!InStep(key, "attached")
                /\ ~Live!InStep(key, "detached")
               /\ ~Live!Going(v5, key)
    BY <1>2 DEF Live!Rest, Live!Asked, Live!Told, Live!InStep, Live!Going
  <1>3. Live!OneSubscription
    BY <1>1, <1>2 DEF Live!OneSubscription, Live!SubscriptionsOK, Live!IInv
  <1>4. Live!FollowedWhileLooking
    <2> SUFFICES ASSUME Live!Rest, v2, v3, v4, v1 # None, v11 = {} PROVE v1 \in v6
      BY DEF Live!FollowedWhileLooking
    <2>1. Live!Tended(v1)
      BY DEF Live!IInv, Live!TendedOK
    <2> QED  BY <1>2, <2>1 DEF Live!Tended, Live!Lost
  <1> QED  BY <1>3, <1>4
=============================================================================
