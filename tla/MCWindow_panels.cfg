SPECIFICATION Spec
CONSTANTS
    k1 = k1
    k2 = k2
    f1 = f1
    f2 = f2
    None = None
    Elsewhere = Elsewhere
    Workspaces = {k1, k2}
    DiffParts = {f1, f2}
    AppKeys = {k1, k2, f1}
    ListLengths = {0, 1, 2}
    TextVersions = {0, 1}
    Consumers = {k1, k2}
    EventThreads = {f1}
    Toasts = {"x"}
    Choices = 3
    ComposerThreads = {f1, f2}
    WorkspaceOf <- DraftWorkspace
    MaxMoves = 2
    MaxSent = 2
    SettingThreads = {f1, f2, Elsewhere}
    SettingOld <- NoOld
    SettingValues = {"d", "v"}
    SettingDefault = "d"
    MaxDraftSends = 2
    MaxLooks = 2
    FollowedThreads = {k1, k2}
    MaxAttempts = 3
    MaxLiveMoves = 3
    MaxFailures = 1
    MaxClosures = 3
    MaxRequests = 4
    MaxSwitches = 4
    MaxSteps = 4
    MaxEvents = 3
    MaxListens = 2
INVARIANTS
    TypeOK
    FollowsTheThread
    EveryThreadReachable
    ShownAsTheServerHasIt
    ShowsWhatIsSelected
    OutcomesStayHome
    WritingStays
    ActsOnWhatIsSeen
    SettlesOnTheBackend
    DialogsEnd
    SettingsStayWithTheirThread
PROPERTIES
    RefreshKeepsAnchors
    NewestAnswerStays
CHECK_DEADLOCK FALSE
