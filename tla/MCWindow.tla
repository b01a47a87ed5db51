------------------------------- MODULE MCWindow -------------------------------
(* The panels and hooks of the window, and of the backend the map from      *)
(* workspaces to sessions, the routing of events and the items of a Claude  *)
(* session, checked on small instances in one run: they share no state.  A  *)
(* behaviour is one of one panel, chosen at the start: v1 .. v12 are the    *)
(* variables of that panel, in its order, and the rest stay at None.        *)
EXTENDS WindowPanels

CONSTANTS
    k1, k2,         \* workspaces, threads or letters
    f1, f2,         \* paths, parts, fields or errors
    Elsewhere

ASSUME ComposersAssumption == None \notin {1, 2} \cup {f1, f2}

VARIABLE panel

RoutingRoot == [w \in {k1, k2} |-> IF w = k1 THEN <<"a">> ELSE <<"a", "b">>]
RoutingScenes ==
    LET C(kind, w) == [kind |-> kind, ws |-> w]
        S(calls, faults) == {[calls |-> calls, faults |-> fs] : fs \in faults}
    IN  S(<<C("start", k2), C("turn", k2), C("list", k1)>>, {{}, {"refuse"}, {"child"}})
        \cup S(<<C("start", k2), C("turn", k2)>>, {{"early"}, {"late"}, {"memory"}})
        \cup S(<<C("start", k2), C("archive", k2), C("list", k1)>>, {{}})
        \cup S(<<C("resume", k2), C("turn", k2), C("archive", k2)>>, {{}})
        \cup S(<<C("prompt", k2), C("list", k1)>>, {{}, {"memory"}})
        \cup S(<<C("prompt", k2)>>, {{"early"}, {"late"}, {"refuse"}, {"child"}})
        \cup S(<<C("prompt", k2), C("prompt", k1)>>, {{}})
SessionParent == [i \in {"m", "w", "v"} |-> IF i = "w" THEN "m" ELSE None]
TreeListings == [w \in {k1, k2} |->
    IF w = k2 THEN {{<<"a", "x">>}}
    ELSE {{<<"a", "x">>} \cup fs : fs \in SUBSET {<<"a", "b", "y">>, <<"d", "z">>} \ {{}}}]
AskedParams == {<< <<>>, <<"git">> >>, << <<"git", "push">>, <<"git">> >>, << <<>> >>}
NoticeThread(x) == IF x \in {"a", "p"} THEN f2 ELSE f1
Repositories == {[baseBranch |-> <<"main", "x">>, commit |-> <<"c">>], [baseBranch |-> <<"x">>, commit |-> <<>>]}
TermOf == [k \in {"l", "t", "m"} |-> IF k = "m" THEN k2 ELSE k1]
TermLaunch == [w \in {k1, k2} |-> IF w = k1 THEN "l" ELSE "m"]
DraftWorkspace == [t \in {f1, f2} |-> k1]
NoOld == [t \in {f1, f2, Elsewhere} |-> None]
RoleName == [a \in {"a", "b"} |-> a]
RoleNewName == [a \in {"a", "b"} |-> IF a = "a" THEN "c" ELSE "d"]
(* The threads of the list: a user's with a sub-agent and its own, and one  *)
(* of the program itself.                                                   *)
ListOrder == <<"u1", "h1", "s1", "u2", "g1">>
ListSource == [t \in {"u1", "u2", "s1", "g1", "h1"} |->
    CASE t \in {"s1", "g1"} -> "sub" [] t = "h1" -> "internal" [] OTHER -> "user"]
ListParent == [t \in {"u1", "u2", "s1", "g1", "h1"} |->
    CASE t = "s1" -> "u2" [] t = "g1" -> "s1" [] OTHER -> None]
ItemScenes == {<<"read", "read", "read">>, <<"tool">>, <<"message">>, <<"reasoning">>}
StoreParent == [i \in {"m", "w"} |-> IF i = "w" THEN "m" ELSE None]

List == INSTANCE ThreadList WITH
    win <- v1, calls <- v2, alive <- v3, events <- v4, moves <- v5, asked <- v6, blame <- v7,
    Threads <- {"u1", "u2", "s1", "g1", "h1"}, Order <- ListOrder, Source <- ListSource,
    ParentOf <- ListParent, PageSize <- 2, Target <- 2, MaxPages <- 2, MaxSteps <- 4
Items == INSTANCE ThreadItems WITH
    scene <- v1, server <- v2, events <- v3, items <- v4, ref <- v5, loading <- v6, calls <- v7,
    made <- v8, blame <- v9, Letters <- {k1, k2}, Scenes <- ItemScenes, MaxText <- 2,
    MaxCalls <- 2, MaxSteps <- 3, MaxItems <- 3
Git == INSTANCE GitCommands WITH
    active <- v1, message <- v2, loading <- v3, errors <- v4, applied <- v5, prompt <- v6,
    calls <- v7, made <- v8, switches <- v9, overlap <- v10, left <- v11, Workspaces <- {k1, k2},
    MaxCommands <- 2, MaxSwitches <- 3
Diff == INSTANCE GitSelection WITH
    active <- v1, ui <- v2, lists <- v3, scroll <- v4, review <- v5, steps <- v6,
    Workspaces <- {k1, k2}, Paths <- {f1, f2}, MaxSteps <- 4
Files == INSTANCE GitFiles WITH
    staged <- v1, unstaged <- v2, selected <- v3, last <- v4, mode <- v5, errors <- v6,
    dismissed <- v7, menu <- v8, done <- v9, steps <- v10, Files <- 1..2, NoFile <- 0,
    Errors <- {f1}, MaxSteps <- 3
Store == INSTANCE WorkspaceStore WITH
    server <- v1, shown <- v2, twice <- v3, active <- v4, deleting <- v5, calls <- v6, made <- v7,
    patched <- v8, crossed <- v9, untold <- v10, Ids <- {"m", "w"}, ParentOf <- StoreParent,
    Fields <- {f1, f2}, Script <- f1, Known <- {"m"}, MaxCalls <- 4
Dialogs == INSTANCE WorkspaceDialogs WITH
    dialog <- v1, ops <- v2, picking <- v3, asked <- v4, resolver <- v5, active <- v6, made <- v7,
    reopened <- v8, Workspaces <- {k1, k2}, Worktrees <- {k2}, MaxCalls <- 2
Settings == INSTANCE SettingsStore WITH
    settings <- v1, stored <- v2, queue <- v3, load <- v4, flows <- v5, wanted <- v6, lost <- v7,
    astray <- v8, spent <- v9, Remotes <- {"r1", "r2"}, First <- "r1", Hosts <- 0..1,
    Latest <- 1, MaxSteps <- 3
Roles == INSTANCE AgentsSection WITH
    backend <- v1, settings <- v2, editing <- v3, editor <- v4, calls <- v5, written <- v6,
    misled <- v7, asked <- v8, Agents <- {"a", "b"}, Names <- {"a", "b", "c", "d"},
    NameOf <- RoleName, NewName <- RoleNewName, Opened <- "a", MaxCalls <- 3, MaxLimit <- 2
Runs == INSTANCE WorkspaceRuns WITH
    at <- v1, drafts <- v2, modes <- v3, counts <- v4, picked <- v5, errors <- v6, submitting <- v7,
    runs <- v8, flows <- v9, titles <- v10, threads <- v11, spent <- v12, Workspaces <- {k1, k2},
    Models <- <<f1, f2>>, MaxCount <- 1, MaxRuns <- 2, MaxEdits <- 3
Terminals == INSTANCE TerminalSessions WITH
    win <- v1, session <- v2, asks <- v3, closes <- v4, exits <- v5, writes <- v6, noted <- v7,
    moves <- v8, Workspaces <- {k1, k2}, Keys <- {"l", "t", "m"}, WorkspaceOf <- TermOf,
    Launch <- TermLaunch, MaxOpens <- 3, MaxMoves <- 3
Review == INSTANCE ReviewPrompt WITH
    view <- v1, known <- v2, prompt <- v3, high <- v4, opens <- v5, loads <- v6, submits <- v7,
    reviews <- v8, running <- v9, marks <- v10, noted <- v11, moves <- v12,
    Workspaces <- {k1, k2}, Threads <- {f1, f2}, WorkspaceOf <- DraftWorkspace, Old <- {f1},
    Answers <- Repositories, MaxOpens <- 2, MaxSubmits <- 2, MaxMoves <- 2
Scripts == INSTANCE LaunchEditors WITH
    at <- v1, shown <- v2, stored <- v3, launch <- v4, entry <- v5, new <- v6, saving <- v7,
    saves <- v8, noted <- v9, moves <- v10, Workspaces <- {k1, k2}, Entries <- {f1},
    MaxEdits <- 2, MaxCalls <- 3, MaxMoves <- 1
Notices == INSTANCE Notifications WITH
    window <- v1, asks <- v2, told <- v3, plans <- v4, spacing <- v5, starts <- v6, recent <- v7,
    message <- v8, link <- v9, places <- v10, navs <- v11, noted <- v12, Approvals <- {"a"},
    Questions <- {"q"}, Plans <- {"p"}, Threads <- {f1, f2}, Turns <- {"t", "u"},
    ThreadOf <- NoticeThread, Children <- {f2}, MaxEvents <- 4
Access == INSTANCE ServerAccess WITH
    mobile <- v1, host <- v2, saves <- v3, busy <- v4, shown <- v5, calls <- v6, wizard <- v7,
    form <- v8, world <- v9, noted <- v10, Hosts <- {k1, k2, Elsewhere}, NoHost <- Elsewhere,
    MaxSteps <- 2
Approval == INSTANCE Approvals WITH
    agent <- v1, approvals <- v2, allowlist <- v3, calls <- v4, noted <- v5, Asked <- AskedParams,
    MaxAsks <- 2, MaxStarts <- 1, MaxSteps <- 2
Questions == INSTANCE PlanAndQuestions WITH
    looked <- v1, asked <- v2, form <- v3, plan <- v4, follow <- v5, mode <- v6, calls <- v7,
    world <- v8, noted <- v9, Threads <- {f1, f2}, MaxEvents <- 2, MaxSteps <- 3
Accounts == INSTANCE AccountSwitching WITH
    active <- v1, hook <- v2, login <- v3, undo <- v4, cancels <- v5, server <- v6, events <- v7,
    shown <- v8, reads <- v9, noted <- v10, Workspaces <- {k1, k2}, MaxLogins <- 2,
    MaxSteps <- 1
Update == INSTANCE Updater WITH
    toast <- v1, updateRef <- v2, checks <- v3, installs <- v4, timers <- v5, notice <- v6,
    fetches <- v7, disk <- v8, updates <- v9, noted <- v10, MaxChecks <- 3, MaxStarts <- 2
Dictate == INSTANCE Dictation WITH
    state <- v1, hold <- v2, transcript <- v3, looked <- v4, be <- v5, capture <- v6, calls <- v7,
    tasks <- v8, events <- v9, noted <- v10, Composers <- {f1}, MaxStarts <- 2, MaxSteps <- 1,
    MaxErrors <- 0
Microphone == INSTANCE Dictation WITH
    state <- v1, hold <- v2, transcript <- v3, looked <- v4, be <- v5, capture <- v6, calls <- v7,
    tasks <- v8, events <- v9, noted <- v10, Composers <- {f1, f2}, MaxStarts <- 1,
    MaxSteps <- 2, MaxErrors <- 1
Prompts == INSTANCE PromptPanel WITH
    active <- v1, prompts <- v2, load <- v3, editor <- v4, menu <- v5, pending <- v6, saving <- v7,
    calls <- v8, files <- v9, noted <- v10, Workspaces <- {k1, k2}, Names <- {"a", "b"},
    MaxCalls <- 2, MaxSteps <- 2
Tree == INSTANCE FileTree WITH
    active <- v1, files <- v2, filter <- v3, modified <- v4, expanded <- v5, manual <- v6,
    preview <- v7, selection <- v8, request <- v9, noted <- v10, Workspaces <- {k1, k2},
    Listings <- TreeListings, Modified <- {<<"a", "x">>}, Images <- {<<"d", "z">>},
    Lines <- {0, 1}, MaxSteps <- 5
Backend == INSTANCE WorkspaceSessions WITH
    mode <- v1, entries <- v2, fresh <- v3, sessions <- v4, procs <- v5, lock <- v6, calls <- v7,
    made <- v8, crossed <- v9, Workspaces <- {"m", "w", "v"}, ParentOf <- SessionParent,
    Known <- {"m"}, Args <- {f1, f2}, Default <- f1, MaxCalls <- 3, MaxOpen <- 2, MaxProcs <- 3
Routing == INSTANCE ThreadRouting WITH
    scene <- v1, thread_workspace <- v2, hidden_thread_ids <- v3, background_thread_callbacks <- v4,
    calls <- v5, stdin <- v6, out <- v7, reader <- v8, server <- v9, shown <- v10,
    concealed <- v11, blame <- v12, Workspaces <- {k1, k2}, Owner <- k1, Root <- RoutingRoot,
    Scenes <- RoutingScenes, MaxThreads <- 3, MaxSaid <- 1
Blocks == INSTANCE BridgeItems WITH
    turn_started <- v1, turn_has_content <- v2, block_items <- v3, block_item_payloads <- v4,
    block_tool_use_ids <- v5, tool_items <- v6, prompts <- v7, stdout <- v8, cli <- v9,
    items <- v10, blocks <- v11, cut <- v12, MaxPrompts <- 2, MaxMessages <- 2, MaxBlocks <- 3,
    MaxIndex <- 1, MaxText <- 1, MaxUnread <- 2

(* The variables a panel leaves alone: those after its own.                *)
After5 == <<v6, v7, v8, v9, v10, v11, v12>>
After6 == <<v7, v8, v9, v10, v11, v12>>
After7 == <<v8, v9, v10, v11, v12>>
After8 == <<v9, v10, v11, v12>>
After9 == <<v10, v11, v12>>
After10 == <<v11, v12>>
After11 == <<v12>>
Vacant5 == v6 = None /\ v7 = None /\ v8 = None /\ v9 = None /\ v10 = None /\ v11 = None /\ v12 = None
Vacant6 == v7 = None /\ v8 = None /\ v9 = None /\ v10 = None /\ v11 = None /\ v12 = None
Vacant7 == v8 = None /\ v9 = None /\ v10 = None /\ v11 = None /\ v12 = None
Vacant8 == v9 = None /\ v10 = None /\ v11 = None /\ v12 = None
Vacant9 == v10 = None /\ v11 = None /\ v12 = None
Vacant10 == v11 = None /\ v12 = None
Vacant11 == v12 = None

Init ==
    \/ panel = "live" /\ Live!Init
    \/ panel = "focus" /\ Focus!Init /\ Vacant8
    \/ panel = "threads" /\ List!Init /\ Vacant7
    \/ panel = "items" /\ Items!Init /\ Vacant9
    \/ panel = "loads" /\ Loads!Init /\ Vacant8
    \/ panel = "lists" /\ Lists!Init /\ Vacant6
    \/ panel = "apps" /\ Apps!Init /\ Vacant6
    \/ panel = "git" /\ Git!Init /\ Vacant11
    \/ panel = "diff" /\ Diff!Init /\ Vacant6
    \/ panel = "files" /\ Files!Init /\ Vacant10
    \/ panel = "store" /\ Store!Init /\ Vacant10
    \/ panel = "dialogs" /\ Dialogs!Init /\ Vacant8
    \/ panel = "params" /\ Params!Init
    \/ panel = "settings" /\ Settings!Init /\ Vacant9
    \/ panel = "file" /\ File!Init
    \/ panel = "agents" /\ Roles!Init /\ Vacant8
    \/ panel = "drafts" /\ Drafts!Init /\ Vacant11
    \/ panel = "runs" /\ Runs!Init
    \/ panel = "terminals" /\ Terminals!Init /\ Vacant8
    \/ panel = "review" /\ Review!Init
    \/ panel = "scripts" /\ Scripts!Init /\ Vacant10
    \/ panel = "notices" /\ Notices!Init
    \/ panel = "events" /\ Hubs!Init /\ Vacant8
    \/ panel = "access" /\ Access!Init /\ Vacant10
    \/ panel = "approvals" /\ Approval!Init /\ Vacant5
    \/ panel = "questions" /\ Questions!Init /\ Vacant9
    \/ panel = "accounts" /\ Accounts!Init /\ Vacant10
    \/ panel = "updater" /\ Update!Init /\ Vacant10
    \/ panel = "dictation" /\ Dictate!Init /\ Vacant10
    \/ panel = "microphone" /\ Microphone!Init /\ Vacant10
    \/ panel = "prompts" /\ Prompts!Init /\ Vacant10
    \/ panel = "tree" /\ Tree!Init /\ Vacant10
    \/ panel = "sessions" /\ Backend!Init /\ Vacant9
    \/ panel = "routing" /\ Routing!Init
    \/ panel = "bridge" /\ Blocks!Init

(* A step is one of the panel shown.                                        *)
Next ==
    /\ UNCHANGED panel
    /\ \/ panel = "live" /\ Live!Next
       \/ panel = "focus" /\ Focus!Next /\ UNCHANGED After8
       \/ panel = "threads" /\ List!Next /\ UNCHANGED After7
       \/ panel = "items" /\ Items!Next /\ UNCHANGED After9
       \/ panel = "loads" /\ Loads!Next /\ UNCHANGED After8
       \/ panel = "lists" /\ Lists!Next /\ UNCHANGED After6
       \/ panel = "apps" /\ Apps!Next /\ UNCHANGED After6
       \/ panel = "git" /\ Git!Next /\ UNCHANGED After11
       \/ panel = "diff" /\ Diff!Next /\ UNCHANGED After6
       \/ panel = "files" /\ Files!Next /\ UNCHANGED After10
       \/ panel = "store" /\ Store!Next /\ UNCHANGED After10
       \/ panel = "dialogs" /\ Dialogs!Next /\ UNCHANGED After8
       \/ panel = "params" /\ Params!Next
       \/ panel = "settings" /\ Settings!Next /\ UNCHANGED After9
       \/ panel = "file" /\ File!Next
       \/ panel = "agents" /\ Roles!Next /\ UNCHANGED After8
       \/ panel = "drafts" /\ Drafts!Next /\ UNCHANGED After11
       \/ panel = "runs" /\ Runs!Next
       \/ panel = "terminals" /\ Terminals!Next /\ UNCHANGED After8
       \/ panel = "review" /\ Review!Next
       \/ panel = "scripts" /\ Scripts!Next /\ UNCHANGED After10
       \/ panel = "notices" /\ Notices!Next
       \/ panel = "events" /\ Hubs!Next /\ UNCHANGED After8
       \/ panel = "access" /\ Access!Next /\ UNCHANGED After10
       \/ panel = "approvals" /\ Approval!Next /\ UNCHANGED After5
       \/ panel = "questions" /\ Questions!Next /\ UNCHANGED After9
       \/ panel = "accounts" /\ Accounts!Next /\ UNCHANGED After10
       \/ panel = "updater" /\ Update!Next /\ UNCHANGED After10
       \/ panel = "dictation" /\ Dictate!Next /\ UNCHANGED After10
       \/ panel = "microphone" /\ Microphone!Next /\ UNCHANGED After10
       \/ panel = "prompts" /\ Prompts!Next /\ UNCHANGED After10
       \/ panel = "tree" /\ Tree!Next /\ UNCHANGED After10
       \/ panel = "sessions" /\ Backend!Next /\ UNCHANGED After9
       \/ panel = "routing" /\ Routing!Next
       \/ panel = "bridge" /\ Blocks!Next

vars == <<panel, v1, v2, v3, v4, v5, v6, v7, v8, v9, v10, v11, v12>>
Spec == Init /\ [][Next]_vars

-----------------------------------------------------------------------------
TypeOK ==
    CASE panel = "live" -> Live!TypeOK
      [] panel = "focus" -> Focus!TypeOK
      [] panel = "threads" -> List!TypeOK
      [] panel = "items" -> Items!TypeOK
      [] panel = "loads" -> Loads!TypeOK
      [] panel = "lists" -> Lists!TypeOK
      [] panel = "apps" -> Apps!TypeOK
      [] panel = "git" -> Git!TypeOK
      [] panel = "diff" -> Diff!TypeOK
      [] panel = "files" -> Files!TypeOK
      [] panel = "store" -> Store!TypeOK
      [] panel = "dialogs" -> Dialogs!TypeOK
      [] panel = "params" -> Params!TypeOK
      [] panel = "settings" -> Settings!TypeOK
      [] panel = "file" -> File!TypeOK
      [] panel = "agents" -> Roles!TypeOK
      [] panel = "drafts" -> Drafts!TypeOK
      [] panel = "runs" -> Runs!TypeOK
      [] panel = "terminals" -> Terminals!TypeOK
      [] panel = "review" -> Review!TypeOK
      [] panel = "scripts" -> Scripts!TypeOK
      [] panel = "notices" -> Notices!TypeOK
      [] panel = "events" -> Hubs!TypeOK
      [] panel = "access" -> Access!TypeOK
      [] panel = "approvals" -> Approval!TypeOK
      [] panel = "questions" -> Questions!TypeOK
      [] panel = "accounts" -> Accounts!TypeOK
      [] panel = "updater" -> Update!TypeOK
      [] panel = "dictation" -> Dictate!TypeOK
      [] panel = "microphone" -> Microphone!TypeOK
      [] panel = "prompts" -> Prompts!TypeOK
      [] panel = "tree" -> Tree!TypeOK
      [] panel = "sessions" -> Backend!TypeOK
      [] panel = "routing" -> Routing!TypeOK
      [] panel = "bridge" -> Blocks!TypeOK

(* The window follows the thread looked at, and no other, on the daemon     *)
(* once its attempts are over (useRemoteThreadLiveConnection); the thread   *)
(* is polled exactly while nothing else tells of it                         *)
(* (useRemoteThreadRefreshOnFocus); and what the backend tells comes by one *)
(* native listener, which is there while somebody subscribes to it          *)
(* (services/events).                                                       *)
FollowsTheThread ==
    /\ panel = "live" => Live!OneSubscription /\ Live!FollowedWhileLooking
    /\ panel = "focus" => Focus!PollsWhenNothingElseTells
    /\ panel = "events" => Hubs!OneNativeListener

(* Listings, pages, archiving and its cascades leave every thread of the    *)
(* user's listed or loadable, and archive each once (useThreadActions,      *)
(* threadLifecycleSlice, useThreadLinking).                                 *)
EveryThreadReachable ==
    panel = "threads" => List!EveryThreadReachable /\ List!CascadeOnce

(* No refresh takes the open thread or one at work off the list             *)
(* (listThreadsForWorkspace's anchors).                                     *)
RefreshKeepsAnchors == [][panel = "threads" => List!AnchorsKept]_vars

(* What is shown of a thread is what the server has, however events,        *)
(* resumes and refreshes merged (threadItems, threadItemsSlice); each       *)
(* subscriber of the window hears all events; the update toast tells what   *)
(* is under way (useUpdater); the prompts listed are those there are        *)
(* (useCustomPrompts); each block the Claude CLI has written is one item,   *)
(* with its text and its result, and nothing of another block               *)
(* (event_mapper); the terminal drawn is that of the active tab             *)
(* (useTerminalSession), a closed folder stays closed (FileTreePanel).      *)
ShownAsTheServerHasIt ==
    /\ panel = "items" => Items!ShownAsTheServerHasIt /\ Items!LoadingWhileAwaited
    /\ panel = "events" => Hubs!EachHearsAll
    /\ panel = "updater" => Update!ToastTells
    /\ panel = "prompts" => Prompts!PromptsAreListed
    /\ panel = "bridge" => Blocks!PartsStayHome /\ Blocks!BlocksAreItems
    /\ panel = "terminals" => Terminals!DrawnIsActive
    /\ panel = "tree" => Tree!ClosedFoldersStay

(* Panels, lists and apps show what belongs to what is selected, whatever   *)
(* request of what was selected before is answered late, and say that they  *)
(* load only while an answer is to come (useGitStatus and the hooks like    *)
(* it, useSkills and those like it, useApps, useFileEditor).                *)
ShowsWhatIsSelected ==
    /\ panel = "loads" => Loads!PanelIsOfItsProps
    /\ panel = "lists" => Lists!ListIsOfItsWorkspace
    /\ panel = "apps" => Apps!AppsAreOfTheThread
    /\ panel = "file" => File!WaitsForAnAnswer

(* Of two answers for the same selection the later request's stays.         *)
NewestAnswerStays == [][panel = "loads" => Loads!NewestStays]_vars

(* What is begun in a workspace, thread or file ends there: the outcome of  *)
(* a git command (useGitActions, useGitCommitController), the text of a     *)
(* file (useFileEditor, SettingsAgentsSection), the runs of a home          *)
(* (useWorkspaceHome), a review (useReviewPrompt), the form of a script     *)
(* (useWorkspaceLaunchScripts), an answer to a question                     *)
(* (RequestUserInputMessage, PlanReadyFollowupMessage), the news of a long  *)
(* turn, and, in the backend, the Claude session of a folder, the one       *)
(* app-server of all, and the text a background prompt waits for            *)
(* (run_background_prompt_core).                                            *)
OutcomesStayHome ==
    /\ panel = "git" => Git!OutcomesStayHome
    /\ panel = "file" => File!TextsStayHome
    /\ panel = "agents" => Roles!FilesKeepTheirText /\ Roles!FormIsOfItsAgent
    /\ panel = "runs" => Runs!RunsAccountedFor /\ Runs!AskedAsSelected
    /\ panel = "review" => Review!ReviewsStayHome /\ Review!WorksWhileReviewing
    /\ panel = "scripts" => Scripts!FormsAreOfTheWorkspace
    /\ panel = "notices" => Notices!LongTurnsTold
    /\ panel = "questions" => Questions!TextsAreOfTheirQuestion
    /\ panel = "sessions" => Backend!OwnFolder /\ Backend!OneServer
    /\ panel = "routing" => Routing!WholeTextReturned

(* What is typed, attached and recorded in a composer or a home stays where *)
(* it was put until it is sent or taken away (Composer,                     *)
(* useComposerController, useComposerImages, usePromptHistory), and what is *)
(* dictated is inserted once, where it was dictated (useDictation,          *)
(* useHoldToDictate).                                                       *)
WritingStays ==
    /\ panel = "drafts" => Drafts!DraftsStayHome /\ Drafts!ImagesStayHome /\ Drafts!HistoryKept
    /\ panel = "dictation" => Dictate!InsertedOnce
    /\ panel = "microphone" => Microphone!InsertedOnce

(* What is asked about, discarded, reviewed, edited, tested or answered is  *)
(* what the user has in front of him (useGitPanelController,                *)
(* usePullRequestComposer, GitDiffPanel, ReviewInlinePrompt, PromptPanel,   *)
(* FilePreviewPopover, SettingsServerSection, ApprovalToasts,               *)
(* useAccountSwitching), and a menu command acts once, on what was shown    *)
(* (useTauriEvent); a notification leads to its thread                      *)
(* (useSystemNotificationThreadLinks), the wizard leaves when the server    *)
(* was reached (useMobileServerSetup).                                      *)
ActsOnWhatIsSeen ==
    /\ panel = "diff" => Diff!AsksAboutWhatIsShown
    /\ panel = "files" => Files!ActsOnWhatIsSeen
    /\ panel = "review" => Review!StartsWhatIsHighlighted
    /\ panel = "events" => Hubs!CommandsCount
    /\ panel = "access" => Access!TestIsOfItsServer /\ Access!ReadyIsReached
    /\ panel = "notices" => Notices!LinkLeadsThere
    /\ panel = "approvals" => Approval!AnsweredAsDecided
    /\ panel = "accounts" => Accounts!CancelledIsNotOpened
    /\ panel = "prompts" => Prompts!EditsWhatIsSeen
    /\ panel = "tree" => Tree!AddsWhatIsNamed

(* Once all calls are answered the window lists the backend's workspaces    *)
(* with the backend's settings, shows the settings it stores, with the      *)
(* edits that were sent, and the text of its files (useWorkspaceCrud,       *)
(* useWorktreeOps, useAppSettings, useSettingsServerSection,                *)
(* useFileEditor), its terminals, scripts, accounts, prompts and its        *)
(* microphone, and each thread in the workspace it works for                *)
(* (app_server.rs); and the backend's map of sessions settles on its        *)
(* workspaces, its mode and the processes that run.                         *)
SettlesOnTheBackend ==
    /\ panel = "store" => Store!SettlesOnTheBackend
    /\ panel = "settings" => Settings!ShownIsSaved /\ Settings!EditsKept /\ Settings!ActiveIsListed
    /\ panel = "file" => File!CleanIsSaved
    /\ panel = "terminals" => Terminals!NoSessionForgotten /\ Terminals!ScriptsWritten
    /\ panel = "scripts" => Scripts!ScriptsSaved
    /\ panel = "access" => Access!SectionSettles
    /\ panel = "accounts" => Accounts!AccountIsShown
    /\ panel = "dictation" => Dictate!ShowsTheMicrophone
    /\ panel = "microphone" => Microphone!ShowsTheMicrophone
    /\ panel = "prompts" => Prompts!NoPromptIsLost
    /\ panel = "tree" => Tree!PreviewIsRead
    /\ panel = "sessions" => Backend!NoStrayServer /\ Backend!ListedIsKnown /\ Backend!OfTheMode /\ Backend!NotKilled
    /\ panel = "routing" => Routing!ListedAtHome

(* Nothing the user waits for waits for ever, and nothing that waits for    *)
(* the user is lost: no dialog outlives its submission (useClonePrompt,     *)
(* useWorktreePrompt, useRenameWorktreePrompt, useWorkspaceDialogs,         *)
(* useReviewPrompt, the launch script editors), approvals, plans and        *)
(* requests are shown or told until they are answered (useThreadApprovals,  *)
(* usePlanReadyActions, useAgentResponseRequiredNotifications), a login and *)
(* a dictation end, what is new is shown once.                              *)
DialogsEnd ==
    /\ panel = "dialogs" => Dialogs!DialogsEnd
    /\ panel = "review" => Review!SubmitsOnce
    /\ panel = "scripts" => Scripts!HeldWhileSaving
    /\ panel = "notices" => Notices!NobodyWaitsUntold
    /\ panel = "approvals" => Approval!NoRequestLost
    /\ panel = "questions" => Questions!PlansAreAnswered
    /\ panel = "accounts" => Accounts!SwitchingEnds
    /\ panel = "updater" => Update!WhatsNewIsShownOnce
    /\ panel = "dictation" => Dictate!EndsWithTheKey
    /\ panel = "microphone" => Microphone!EndsWithTheKey

(* A thread is started with the settings in front of the user when the      *)
(* message was sent, and what the composer shows is what its thread has     *)
(* stored (useThreadCodexParams, useThreadOrchestration,                    *)
(* useThreadCodexOrchestration).                                            *)
SettingsStayWithTheirThread ==
    panel = "params" => Params!StartedAsSent /\ Params!ShownIsStored

----------------------------------------------------------------------------
(* What WindowPanels proves of a panel holds of the behaviours of that      *)
(* panel: a step of the window with it shown is one of its steps.           *)
LEMMA FocusKept == (panel = "focus" => Focus!IInv) /\ [Next]_vars => (panel = "focus" => Focus!IInv)'
  <1> SUFFICES ASSUME panel = "focus" => Focus!IInv, [Next]_vars, panel' = "focus"
               PROVE  (Focus!IInv)'
    OBVIOUS
  <1>1. panel = "focus" /\ [Focus!Next]_(Focus!vars)
    BY DEF Next, vars, Focus!vars
  <1> QED  BY <1>1, FocusStep

LEMMA LiveKept == (panel = "live" => Live!IInv) /\ [Next]_vars => (panel = "live" => Live!IInv)'
  <1> SUFFICES ASSUME panel = "live" => Live!IInv, [Next]_vars, panel' = "live"
               PROVE  (Live!IInv)'
    OBVIOUS
  <1>1. panel = "live" /\ [Live!Next]_(Live!vars)
    BY DEF Next, vars, Live!vars
  <1> QED  BY <1>1, LiveBasis, LiveInvariant

LEMMA HubsKept == (panel = "events" => Hubs!HubInv) /\ [Next]_vars => (panel = "events" => Hubs!HubInv)'
  <1> SUFFICES ASSUME panel = "events" => Hubs!HubInv, [Next]_vars, panel' = "events"
               PROVE  (Hubs!HubInv)'
    OBVIOUS
  <1>1. panel = "events" /\ [Hubs!Next]_(Hubs!vars)
    BY DEF Next, vars, Hubs!vars
  <1> QED  BY <1>1, HubStep

LEMMA LoadsKept == (panel = "loads" => Loads!IInv) /\ [Next]_vars => (panel = "loads" => Loads!IInv)'
  <1> SUFFICES ASSUME panel = "loads" => Loads!IInv, [Next]_vars, panel' = "loads"
               PROVE  (Loads!IInv)'
    OBVIOUS
  <1>1. panel = "loads" /\ [Loads!Next]_(Loads!vars)
    BY DEF Next, vars, Loads!vars
  <1> QED  BY <1>1, LoadsStep

LEMMA ListsKept == (panel = "lists" => Lists!IInv) /\ [Next]_vars => (panel = "lists" => Lists!IInv)'
  <1> SUFFICES ASSUME panel = "lists" => Lists!IInv, [Next]_vars, panel' = "lists"
               PROVE  (Lists!IInv)'
    OBVIOUS
  <1>1. panel = "lists" /\ [Lists!Next]_(Lists!vars)
    BY DEF Next, vars, Lists!vars
  <1> QED  BY <1>1, ListsStep

LEMMA AppsKept == (panel = "apps" => Apps!IInv) /\ [Next]_vars => (panel = "apps" => Apps!IInv)'
  <1> SUFFICES ASSUME panel = "apps" => Apps!IInv, [Next]_vars, panel' = "apps"
               PROVE  (Apps!IInv)'
    OBVIOUS
  <1>1. panel = "apps" /\ [Apps!Next]_(Apps!vars)
    BY DEF Next, vars, Apps!vars
  <1> QED  BY <1>1, AppsStep

LEMMA FileKept == (panel = "file" => File!IInv /\ File!SavedInv) /\ [Next]_vars => (panel = "file" => File!IInv /\ File!SavedInv)'
  <1> SUFFICES ASSUME panel = "file" => File!IInv /\ File!SavedInv, [Next]_vars, panel' = "file"
               PROVE  (File!IInv /\ File!SavedInv)'
    OBVIOUS
  <1>1. panel = "file" /\ [File!Next]_(File!vars)
    BY DEF Next, vars, File!vars
  <1> QED  BY <1>1, FileStep, FileSavedStep

LEMMA DraftsStay == (panel = "drafts" => Drafts!IInv) /\ [Next]_vars => (panel = "drafts" => Drafts!IInv)'
  <1> SUFFICES ASSUME panel = "drafts" => Drafts!IInv, [Next]_vars, panel' = "drafts"
               PROVE  (Drafts!IInv)'
    OBVIOUS
  <1>1. panel = "drafts" /\ [Drafts!Next]_(Drafts!vars)
    BY DEF Next, vars, Drafts!vars
  <1> QED  BY <1>1, DraftsStep

LEMMA SettingsStay == (panel = "params" => Params!IInv) /\ [Next]_vars => (panel = "params" => Params!IInv)'
  <1> SUFFICES ASSUME panel = "params" => Params!IInv, [Next]_vars, panel' = "params"
               PROVE  (Params!IInv)'
    OBVIOUS
  <1>1. panel = "params" /\ [Params!Next]_(Params!vars)
    BY DEF Next, vars, Params!vars
  <1> QED  BY <1>1, ParamsBasis, ParamsStep

(* The two panels of dictation differ in their bounds.                      *)
LEMMA DictationBounds == Dictate!Bounds /\ Microphone!Bounds
  BY ComposersAssumption DEF Dictate!Bounds, Microphone!Bounds, Dictate!Sessions, Microphone!Sessions

LEMMA DictationKept == (panel = "dictation" => Dictate!IInv) /\ [Next]_vars => (panel = "dictation" => Dictate!IInv)'
  <1> SUFFICES ASSUME panel = "dictation" => Dictate!IInv, [Next]_vars, panel' = "dictation"
               PROVE  (Dictate!IInv)'
    OBVIOUS
  <1>1. panel = "dictation" /\ [Dictate!Next]_(Dictate!vars)
    BY DEF Next, vars, Dictate!vars
  <1> QED  BY <1>1, DictationBounds, Dictate!KeepsItsPlaces

LEMMA MicrophoneKept == (panel = "microphone" => Microphone!IInv) /\ [Next]_vars => (panel = "microphone" => Microphone!IInv)'
  <1> SUFFICES ASSUME panel = "microphone" => Microphone!IInv, [Next]_vars, panel' = "microphone"
               PROVE  (Microphone!IInv)'
    OBVIOUS
  <1>1. panel = "microphone" /\ [Microphone!Next]_(Microphone!vars)
    BY DEF Next, vars, Microphone!vars
  <1> QED  BY <1>1, DictationBounds, Microphone!KeepsItsPlaces

(* Once its attempts are over the window follows the thread looked at and   *)
(* has left no other subscription behind; a thread is polled exactly while  *)
(* nothing else tells of it; and what the backend tells comes by one native *)
(* listener (useRemoteThreadLiveConnection, useRemoteThreadRefreshOnFocus,  *)
(* createEventHub).                                                         *)
THEOREM FollowsTheThreadHolds == Spec => []FollowsTheThread
  <1> DEFINE Inv == /\ panel = "live" => Live!IInv
                    /\ panel = "focus" => Focus!IInv
                    /\ panel = "events" => Hubs!HubInv
  <1>1. Init => Inv
    BY LiveBasis, LiveInit, FocusInit, HubInit DEF Init
  <1>2. Inv /\ [Next]_vars => Inv'
    BY LiveKept, FocusKept, HubsKept
  <1>3. Inv => FollowsTheThread
    BY LiveBasis, LiveAtRest, HubOne DEF FollowsTheThread, Focus!IInv, Focus!ShouldPoll, Focus!PollsWhenNothingElseTells
  <1> HIDE DEF Inv
  <1> QED  BY <1>1, <1>2, <1>3, PTL DEF Spec

(* Panels, lists, apps and files show what belongs to what is selected and  *)
(* wait only for an answer that comes, in whatever order the answers arrive *)
(* (useGitStatus and the hooks like it, useSkills and those like it,        *)
(* useApps, useFileEditor).                                                 *)
THEOREM ShowsWhatIsSelectedHolds == Spec => []ShowsWhatIsSelected
  <1> DEFINE Inv == /\ panel = "loads" => Loads!IInv
                    /\ panel = "lists" => Lists!IInv
                    /\ panel = "apps" => Apps!IInv
                    /\ panel = "file" => File!IInv /\ File!SavedInv
  <1>1. Init => Inv
    BY LoadsInit, ListsInit, AppsInit, FileInit DEF Init
  <1>2. Inv /\ [Next]_vars => Inv'
    BY LoadsKept, ListsKept, AppsKept, FileKept
  <1>3. Inv => ShowsWhatIsSelected
    BY AppsShown, FileShown DEF ShowsWhatIsSelected, Loads!IInv, Lists!IInv
  <1> HIDE DEF Inv
  <1> QED  BY <1>1, <1>2, <1>3, PTL DEF Spec

(* Of two answers for the same selection the later request's stays: an      *)
(* older one never replaces it (useGitStatus and the hooks like it).        *)
THEOREM NewestAnswerStaysHolds == Spec => NewestAnswerStays
  <1> DEFINE Inv == panel = "loads" => Loads!IInv
  <1>1. Init => Inv
    BY LoadsInit DEF Init
  <1>2. Inv /\ [Next]_vars => Inv'
    BY LoadsKept
  <1>3. Inv /\ [Next]_vars => [panel = "loads" => Loads!NewestStays]_vars
    <2> SUFFICES ASSUME panel = "loads", Loads!IInv, [Next]_vars, ~UNCHANGED vars
                 PROVE  Loads!NewestStays
      OBVIOUS
    <2>1. Loads!Next
      BY DEF Next
    <2>2. UNCHANGED Loads!vars => Loads!NewestStays
      BY DEF Loads!vars, Loads!NewestStays, Loads!IInv
    <2> QED  BY <2>1, <2>2, LoadsNewest
  <1> HIDE DEF Inv
  <1> QED  BY <1>1, <1>2, <1>3, PTL DEF Spec, NewestAnswerStays

(* What is typed in a file stays with it and is not lost by a save, and the *)
(* editor that shows a file as saved shows what it holds (useFileEditor).   *)
THEOREM FilesKeepTheirText ==
    Spec => [](panel = "file" => File!TextsStayHome /\ File!CleanIsSaved)
  <1> DEFINE Inv == panel = "file" => File!IInv /\ File!SavedInv
  <1>1. Init => Inv
    BY FileInit DEF Init
  <1>2. Inv /\ [Next]_vars => Inv'
    BY FileKept
  <1>3. Inv => (panel = "file" => File!TextsStayHome /\ File!CleanIsSaved)
    BY FileShown
  <1> HIDE DEF Inv
  <1> QED  BY <1>1, <1>2, <1>3, PTL DEF Spec

(* What is typed, attached and recorded in a composer or a home stays where *)
(* it was put, and what is dictated is inserted once, where it was dictated *)
(* (Composer, useComposerController, useComposerImages, usePromptHistory,   *)
(* useDictation, useHoldToDictate).                                         *)
THEOREM WritingStaysHolds == Spec => []WritingStays
  <1> DEFINE Inv == /\ panel = "drafts" => Drafts!IInv
                    /\ panel = "dictation" => Dictate!IInv
                    /\ panel = "microphone" => Microphone!IInv
  <1>1. Init => Inv
    BY DraftsInit, DictationBounds, Dictate!StartsAtRest, Microphone!StartsAtRest DEF Init
  <1>2. Inv /\ [Next]_vars => Inv'
    BY DraftsStay, DictationKept, MicrophoneKept
  <1>3. Inv => WritingStays
    BY DictationBounds, Dictate!OnePlaceInsertsOnce, Microphone!OnePlaceInsertsOnce DEF WritingStays, Drafts!IInv
  <1> HIDE DEF Inv
  <1> QED  BY <1>1, <1>2, <1>3, PTL DEF Spec

(* A thread is started with the settings in front of the user when the      *)
(* message was sent, and what the composer shows is what its thread has     *)
(* stored, in whatever order threads are announced, answered, listed and    *)
(* looked at (useThreadCodexParams, useThreadOrchestration).                *)
THEOREM SettingsStayWithTheirThreadHolds == Spec => []SettingsStayWithTheirThread
  <1> DEFINE Inv == panel = "params" => Params!IInv
  <1>1. Init => Inv
    BY ParamsBasis, ParamsStart DEF Init
  <1>2. Inv /\ [Next]_vars => Inv'
    BY SettingsStay
  <1>3. Inv => SettingsStayWithTheirThread
    BY ParamsBasis, ParamsShow DEF SettingsStayWithTheirThread
  <1> HIDE DEF Inv
  <1> QED  BY <1>1, <1>2, <1>3, PTL DEF Spec
=============================================================================
