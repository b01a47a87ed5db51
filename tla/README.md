# CodexMonitor in TLA+

TLA+ modules, model-checking configurations and machine-checked proofs for the
parts of CodexMonitor where tasks, callers and child processes interleave. The
application is a Tauri program: a Rust backend (`src-tauri/src`) that runs one
`codex app-server` process, or one `claude` CLI per workspace, or talks to a
remote daemon; and a React frontend (`src`) that calls backend commands and
renders the events they emit. Backend lines are quoted as `file:line` below
`src-tauri/src`; hooks and components of the window are named, their files are
in the map of `PROJECT.json`.

## 1. Inventory

| component | state | operations | hard behaviour | what makes it correct |
|---|---|---|---|---|
| Claude bridge (`claude_bridge/process.rs`, `event_mapper.rs`, `types.rs`) | `BridgeState` behind a mutex, `process_exited`, the stdin channel | turn/start, turn/steer, turn/interrupt, answers; reader task, writer task, exit clean-up | callers, reader and writer interleave between locks; CLI dies at any time; answers come twice or late | a turn is completed once, on its thread; a control request is answered once, by the answer meant for it, and never lost |
| Items and blocks (`item_tracker.rs`, `event_mapper.rs`) | maps from block indices and tool uses to items | message start; block start, delta, stop; a tool's result | a message begun anew or a turn installed in the middle of a block clears the maps | nothing of one block is told of another's item; each block whole in one item |
| App-server session (`backend/app_server.rs`) | `pending`, `request_context`, `next_id`, stdin lock; routing maps | `send_request`, notifications; reader task; initialize | locks taken one after the other; late answers; timeouts; death | own answer or an error; nobody stranded; maps empty at the end |
| Thread routing (same file, `shared/codex_aux_core.rs`) | `thread_workspace`, `hidden_thread_ids`, callbacks | every event; background prompts | events before their thread is known | an event reaches the workspace of its thread; hidden threads stay hidden |
| Remote client (`remote_backend/`) | cached client and its lock; per connection `pending`, `connected`, queue | `call_remote`, `ensure_remote_backend`, `call`; two tasks | connection breaks anywhere; retry; reconnect | not executed twice; own answer; every call returns |
| Workspace sessions (`shared/workspaces_core/connect.rs`, `runtime_codex_args.rs`, `codex/mod.rs`) | map of sessions, spawn lock | connect, kill, respawn, runtime arguments, drain | spawn races; shared sessions | one live session per workspace, no orphan process |
| Workspace records (`crud_persistence.rs`, `worktree.rs`, `storage.rs`) | workspaces map, `workspaces.json`, directories | add, clone, remove, rename | one step of several fails; crash while writing | map, file and directory agree |
| Login (`shared/codex_core.rs`) | `codex_login_cancels` | login, cancel | a login supersedes another | a cancel cancels what it names |
| Daemon (`bin/codex_monitor_daemon*`) | sessions, auth, limiter, broadcast | RPC, event forwarding | lagging clients | unauthorised requests change nothing |
| Terminal (`terminal.rs`), dictation (`dictation/real.rs`) | session maps, cancel flags | open/write/close; listen/process/cancel | reader thread against commands | the entry removed is the one that ended |
| Turns of a thread (`features/threads/hooks`: `useThreadMessaging`, `useThreadTurnEvents`, `useQueuedSend`, reducer) | status of the thread, turn references, queue, what is in flight | send, steer, stop, review, flush, turn events | hooks decide from the last render; answers and events come by different ways | nothing sent twice; stop hits its turn; at rest when the server is; queue drains |
| Lists, items, settings of threads (`useThreadActions`, `useThreadItemEvents`, `threadItems.ts`, `useThreadCodexParams`) | lists with cursors and anchors, items, stored settings, the pending seed | list, load older, archive, resume, merge, seed | paged answers among events; one seed for a workspace | every thread reachable; shown as the server has it; sent as it was shown |
| Live connection, refreshes (`useRemoteThreadLiveConnection`, `useRemoteThreadRefreshOnFocus`, `useWorkspaceRefreshOnFocus`) | attempt number, subscription, timers in closures | subscribe, move, drop, poll | attempts overtaken by blur, focus, selection | one subscription, to the thread looked at |
| Panels of a workspace (git, branches, skills, models, prompts, apps, files, usage) | request numbers or in-flight flags, what is shown | load, select, stage, discard, commit | late answers for what was selected before | shows and acts on what is selected |
| Workspaces, dialogs, runs, settings, editors, servers | lists, forms, busy flags, refs of the last save | add, rename, remove, save whole settings | overlapping saves, failures that roll back, dialogs replaced while busy | settles on what the backend stores; every dialog ends |
| Composer, dictation, terminals, scripts | drafts, images, history; sessions and tabs | type, attach, send; hold a key; open, close, restart | one component for all threads; ends that name only an id | what is written stays where it was put; no session forgotten |
| Approvals, questions, plans, reviews, notifications, accounts, updates, events | requests, toasts, logins, listeners | answer, dismiss, cancel, tell | numbers that start over; answers of an earlier opening | none lost, answered as decided |
| Git, usage, menus, Tailscale, daemon control, views | files and processes of others | one operation per command | little of their own | - |

How they interact: a command resolves the session of its workspace (or goes to
the remote client), which writes one line to a child process and waits on an
oneshot; a reader task per process turns its output into answers and events.
For Claude the session's `request_interceptor` diverts every message to the
bridge, which translates in both directions. Remote mode puts `call_remote`
and the daemon between the two halves. In the window a hook holds state and refs,
its effects run after a render, and its calls are awaited while the user and the
events of the backend go on: what a callback knows is what the render it comes
from knew.

`PROJECT.json` lists the hazards of these parts at their lines, with the
properties that would catch them, or why none does yet.

## 2. Modules

| module | what it is |
|---|---|
| `ClaudeBridge` | one Claude session: interceptor callers, writer, reader, CLI |
| `BridgeLedgers` | abstract promises about turns (`TurnSpec`) and about approvals (`ApprovalSpec`); `ClaudeBridge` refines both |
| `BridgeItems` | the items the bridge makes of the blocks the CLI writes |
| `AppServerSession` | the request table of one app-server session |
| `RemoteBackend` | the client of a remote daemon: cache, connections, retry |
| `WorkspaceSessions` | the map from workspaces to sessions and the processes behind it |
| `ThreadRouting` | where the events of a shared app-server session go, and background prompts |
| `ThreadTurns` | one thread as the window sees it: status, turn references, queue, calls |
| 31 modules of the window | one panel, hook or group of hooks each, in the table below |
| `WindowPanels` | those modules of the window about which is proved, over constants with assumptions, and the lemmas of each: it starts in its invariant, a step keeps it, what it implies |
| `MCWindow` | the instance for TLC that composes the modules of the window (those of `WindowPanels` and the others), `WorkspaceSessions`, `ThreadRouting` and `BridgeItems`; and the theorems about the window. The other components get their constants from their `.cfg` files alone |
| `Sessions_proofs` | TLAPS theorems of `WorkspaceSessions` and of `BridgeItems` |
| `AppServerSession_proofs` | TLAPS theorems of `AppServerSession` and of `ThreadRouting` |
| the other `..._proofs` | TLAPS theorems of the component they are named after; those of `Dictation` are in the module itself |

### ClaudeBridge

An action is one locked section or one send. The interceptor is a synchronous
function: `CheckTurn` (process_exited, `process.rs:241`), `SteerInterrupt`,
`InstallTurn` (the locked section, 281), `AnnounceTurn` (events, lock released),
`SendPrompt`; `Interrupt`; and `CheckAnswer`, `TakeApproval`, `SendAnswer` for
answers. `pc` and `job` are what one run of it keeps in local variables. The
reader maps a line under the lock (`ReadMessageStart`, `ReadResult`,
`ReadControlRequest`), then acknowledges, auto-approves or emits with the lock
released, and at end of output runs `ReaderEof`, `ReaderCleanup`,
`ReaderFarewell`. `WriterWrite` and `WriterFail` own the child's stdin. The CLI
is environment: one prompt at a time, each ended by a result; it may ask, fail,
be interrupted, and exit at any time.

A turn id is a number never used before. Lines carry the prompt they answer
(`of`), which no action reads. `emitted`, `installed` and `answers` are history.

Not in the model: text, models, token counts and items; the early return for an
empty prompt; the error reply of a request that fails the process check (it
changes nothing); the system line with the CLI's session id; `thread/list`,
`thread/resume`, `model/list`; lines that do not parse; a line that is not
UTF-8, which ends the reader as in the app-server session.

### BridgeItems

The CLI names a block by its index in its message, and a tool's result by the tool
use it answers, in a later message. `block_items`, `block_item_payloads` and
`block_tool_use_ids` say what an index means, `tool_items` what a tool use does;
`MessageStart` clears the first three, a turn that is installed (`Install`) or ended
(`Result`) all four. The reader's actions are the branches of `map_event`: each takes
a line, looks the maps up, and begins, tells or completes an item. The CLI is
environment; it may begin a message anew, or end, in the middle of a block.

A turn installed in the middle of a block or before a tool's result (steering) makes the
bridge forget what the lines to come belong to: `cut` notes these blocks, whose items
stay in progress or without the result, and `BlocksAreItems` is about all others.
`PartsStayHome` has no exception: what comes too late is dropped, not misplaced.

Not in the model: the kind and the fields of an item, which tables of tool names
decide; partial JSON of a tool's input; token counts; lines that make no item.

### AppServerSession

`Begin` draws the id; `Register` and `AddContext` are the two inserts, each
under its own lock; `LockStdin`, `Write` or `WriteError`; then `ReceiveValue`,
`ReceiveCanceled` or `TimeOut` with `UndoPending` and `UndoContext`. The reader
removes the context (`ReadLine`) before the oneshot (`Deliver`) and at the end
clears `pending` and `request_context` in turn. `AbandonInitialize` drops the
spawner's future wherever it stands and `KillChild` follows. The server answers
what it read once, in any order, or never, and makes requests under ids of its
own that may equal ours.

Not in the model: routing, hidden threads and callbacks; the interceptor branch
of `write_message`; a line with our id that has neither result, error nor
method (it resolves the oneshot and leaves the context); parse errors, stderr.

### RemoteBackend

`ensure_remote_backend` is `EnsureCached`, or `EnsureLock`, `Connect` (or
`ConnectFail`) and, with a token, the auth call, all under the cache's lock.
`RemoteBackend::call` is `Check`, `Insert`, `Send`/`SendFail`, `Receive`/
`WaitTimeout`, `Undo`; `Fail` and `DropClient` are `call_remote`'s handling of an
error. A connection has a writer and a reader task; `mark_disconnected` is two
steps, the flag and the drain, and the writer's queue closes in a third. A write on a broken link fails, or succeeds and is
lost. `ResetBySettings` is the reset in `settings/mod.rs:30`. `held` counts the
clones of a client: the writer ends when none is left.

Not in the model: the branch for a dropped oneshot sender
(`remote_backend/mod.rs:98`; every sender is sent to or removed by its own
call), a request that cannot be serialised (80), host and port, the events the
reader forwards, and a read error on a connection that is up.

### WorkspaceSessions

`connect`, `add`, `remove`, new codex arguments, `respawn_claude_session` and the
draining by a change of mode are commands whose awaits are steps. `sessions` maps a
workspace to a process of `procs`, which knows its kind, its folder, whether it
runs and whether the program killed it. One codex app-server serves all
workspaces, so several point to it; a Claude session is bound to one folder and its
`child` is a dummy that has exited, which is why asking whether it lives answers no
and killing it stops nothing (`claude_bridge/process.rs:180`). Connecting, adding
and new arguments hold the spawn lock; removing, respawning and the change of mode
do not (`codex/mod.rs:35`, `settings/mod.rs:36`), and `crossed` notes which of them
overlapped.

Not in the model: `register_workspace`, the codex home, renaming and applying of
worktrees.

### ThreadRouting

One app-server process serves several workspaces and names threads, never
workspaces. `thread_workspace` is what the session has learned of them: from a request
that names a thread, the answer to a request, the folders a listing gives, and the
items of a thread that name others; an event whose thread is in none of these goes
to the workspace the session was started for. The actions are what callers do up
to each await (`Begin`, `Write`, `Returned`, `TimeOut`), those of a background prompt
(start a thread, hide it, put in the channel, start the turn, collect, archive), and
the reader, which takes a line in two steps, since the maps and the delivery are
under different locks: `ReadLine` learns and routes, `Deliver` hides, suppresses,
answers, or hands the event to the channel or to the window's lists `shown` and
`concealed`. The server is environment: it answers, tells of the turns, consolidates
its memory in a thread of its own, and starts threads from others.

`blame` notes three ways in which a thread loses its workspace: the server tells of
it before the line that says whose it is (`early`), a `thread/start` is answered after
its time limit (`late`), and the answer to a start or resume is handled by the window
after the thread was archived (`overtaken`). `ListedAtHome` is about all others.
`WholeTextReturned` has no exception: the turn of a background prompt is asked for
after its channel is in place.

Not in the model: notifications that go to all workspaces, `register_workspace` (all
workspaces are registered), lines that do not parse, and the end of the output.

### ThreadTurns

The reducer's state is `ui`, what the last render gave to the hooks is `shown`, and
`Render` copies the one to the other: a hook decides by `shown`, a dispatch changes
`ui`. The actions are the user's (send, steer, stop), the effects of `useQueuedSend`
(flush, in flight, release), the continuation of each call after its await
(`Answers`), the handlers of `turn/started`, `turn/completed`, `error`,
`thread/closed` and status events (`HandleEvent`), and the server, which runs at most
one turn at a time and tells of it in order. Answers and events come by different
ways, so either may be first. `blame` collects what went against the order the hooks count on. Two entries leave
the status wrong for good: an answer handled after the end of its turn, and a steer
refused for another reason than a stale turn; a turn no render showed holds up the queue. The
properties are about behaviours without them: each is a weakness of this code, and
the model has it, too.

### The window

A hook holds state and refs, its effects run after a render, its calls are awaited
while the user and the events go on. Each module keeps exactly those: what a
callback knows is taken when it starts and carried in a record of the call; answers
come in any order; effects that run before the next event are part of the action
that causes them.

| module | panel of `MCWindow` | what it models | what its properties except |
|---|---|---|---|
| `LiveConnection` | `live` | attempts of `useRemoteThreadLiveConnection`, the daemon's subscriptions and events | a refused request; a hook told of a subscription that is gone by then, or that drops the event telling of a loss; a subscription left to a later attempt |
| `FocusRefresh` | `focus` | timers and closures of the two refreshing hooks | - |
| `ThreadList` | `threads` | list, load older, archive with its cascade, start, the list slice | a listing that failed, two that overlapped |
| `ThreadItems` | `items` | deltas, completions, resumes, the folding of reads | an event handled before an older answer, a folded read told after a newer one; reasoning texts, which may be shown cut |
| `PanelLoads` | `loads` | twelve hooks that number their requests | the refresh of an earlier render |
| `ListLoads` | `lists` | six hooks with an in-flight flag | a request that failed; a switch during a request, for hooks whose effect does not look at the length |
| `AppsList` | `apps` | `useApps`: one request, one pending target, a retry | - |
| `GitCommands` | `git` | the sequences of awaits of commit, push, sync, worktree, init, create | the flag after a combined command's tail, "create" of a workspace that was left |
| `GitSelection` | `diff` | centre, source, commit, pull request, file, review | - |
| `GitFiles` | `files` | selection, menus, discards, dismissed errors | - |
| `WorkspaceStore` | `store` | the list against overlapping calls, two updates in one go, rollback; the backend's commands, served in any order, that fail before, after or amid the change they make | answers that crossed, an update served before an older one; entries the backend changed and told nobody of (a failed call, a parent's script) until they are listed again |
| `WorkspaceDialogs` | `dialogs` | four dialogs and the paths prompt | a kind opened anew over its own submission |
| `WorkspaceRuns` | `runs` | runs from a home: threads, worktrees, failures | - |
| `ThreadParams` | `params` | stores and the seed of new threads | a message sent elsewhere, another unseeded thread, a listing that comes too early |
| `SettingsStore` | `settings` | saves in a queue of snapshots | what was shown and not saved; a save that failed |
| `FileEditor` | `file` | reads and writes numbered together | typing back during a save |
| `AgentsSection` | `agents` | list, form, config editor | an editor opened before the answer of another |
| `ComposerDrafts` | `drafts` | one composer for all threads, images, history | a text that stays over a thread without a draft |
| `TerminalSessions` | `terminals` | tabs, sessions, ends, launch scripts | a close that passed a request, or failed |
| `LaunchEditors` | `scripts` | three forms that send all settings | saves in another order, or beside one that failed |
| `ReviewPrompt` | `review` | openings, their lists, submission | lists of an earlier opening; a failure of an earlier submission |
| `Notifications` | `notices` | spacing, long turns, the link of the last one | a link too old or of an unknown workspace |
| `EventHubs` | `events` | the one native listener, dispatch, menu commands, toasts | a failed listen; a command before the render of the one before |
| `ServerAccess` | `access` | Tailscale and daemon status, the mobile wizard, remotes | calls begun over others; older answers that come last |
| `Approvals` | `approvals` | requests known by a number that starts over | a number still shown of the agent before; a failed answer |
| `PlanAndQuestions` | `questions` | answers typed below one component for all threads | what stayed in the field when the thread changed |
| `AccountSwitching` | `accounts` | logins of several workspaces with one set of refs, and their cancellation in the backend | a login begun over another |
| `Updater` | `updater` | checks, installations, restart, what is new | checks and installations that overlap |
| `Dictation` | `dictation`, `microphone` | the backend's commands and tasks, the key, the transcript | two dictations begun at once, a cancel between lock and event, a window left early, a model that fails to load after its dictation was cancelled |
| `PromptPanel` | `prompts` | editor, menus, listing, commands that look before they write | two changes that looked before either wrote; a listing passed over |
| `FileTree` | `tree` | folders, filter, preview | the last folder that was open |

The last column is part of the result. The code does not keep these promises
without exception; where it breaks one in a known way, the module has a history
variable (`blame`, `noted`, `stale`, `crossed`, `misled`, `behind`, `astray`,
`reopened`, `cut`) that says the way was taken, and the property is about all other
behaviours: it would be violated by a further way. No action reads these variables but to
count steps against a bound (`noted.steps` and its like); in `Dictation`
`noted.cancelled` is also the sessions' cancel flag. Operators marked "seeded
fault" or "mutant" are used by no action; they are the mutated forms with which
each property is shown to be falsifiable.

## 3. Runs

| run | bounds | shows |
|---|---|---|
| `bridge_turns` | 2 callers, 2 threads, 3 prompts, 1 interrupt, 2 message_starts per prompt | completed once, on its thread; refines `TurnSpec` |
| `bridge_approvals` | 2 callers, 2 prompts, 2 control requests, 1 interrupt | one answer, the right one, none lost; refines `ApprovalSpec` |
| `bridge_live` | 2 prompts, 1 control request | a turn is completed or superseded; the CLI is not left waiting |
| `app_server` | 2 callers, 3 requests, 1 notification, 1 request of the server or garbled line, pipe of 1 | own answers, nobody stranded, maps emptied; calls on a dead process come back without a timer |
| `remote_calls` | 2 callers, 2 calls, 2 connections, queue of 1 | own answers over a reconnect, at most one execution unless repeatable, no waiter forgotten, client never replaced |
| `remote_live` | 2 callers, 1 connection, token, refusals, 1 reset | every call returns |
| `thread_turns` | 2 messages, 2 turns, ten scenes of message kinds and faults | at rest when the server is, no message taken twice, a stop hits its own turn, the queue drains in the scenes without faults |
| `window_panels` | 35 panels, 2 of each thing that can be confused, 2 to 4 calls or steps each | per panel: follows, shows, asks, keeps, settles and ends as named in the table of section 2 |
| `bridge_stale` | violation | a stale result completes the turn that follows it |
| `bridge_doomed` | violation | a turn accepted after the exit clean-up |
| `app_server_garbled` | violation | calls stranded after a read error |
| `remote_drop` | violation | a timeout invalidates a working connection |

`window_panels` checks modules that share no state in one run: the variable `panel`
is chosen in the initial state and never changes, `v1` to `v12` are the variables of
the module it names, and a property of the run is the conjunction of what it means
for the panels it concerns (`FollowsTheThread` is of `live`, `focus` and `events`, `ShowsWhatIsSelected`
of `loads`, `lists`, `apps` and `file`, `WritingStays` of `drafts` and the two of dictation). TLC's states are the sum, not the
product, of the modules'. `SettlesOnTheBackend`, for instance, is for `store` that the window lists
what the server has (but for the entries of `untold`), for `sessions` that no app-server runs on no map, and for
`routing` that a thread is listed in the workspace it works for and in no other
(`ListedAtHome`); `OutcomesStayHome` has `WholeTextReturned`, and `ShownAsTheServerHasIt`
has both properties of `BridgeItems` (panel `bridge`: 2 prompts, 2 messages each, 3 blocks
of one delta, 2 indices, a pipe of 2: an index used twice, a tool and its result, a
prompt that steers).

Why the bounds are enough: every race in these parts is between two callers, or
a caller and a task, about one turn, request or connection; a second of each is
what an identifier could be confused with, and a third prompt lets a turn be
superseded while its predecessor's result is still unread. Queues and pipes of
one message reach their limit at once. In the window a late answer needs one switch
away and one back (two workspaces, threads or keys, two to four requests), a
rollback needs a failing call between two that succeed, and a page that cuts a
list needs a list longer than a page (five threads, pages of two). The theorems of
section 5 hold without bounds. Deadlock is not checked: sessions end, and bounded
counters stop. No run uses symmetry.

## 4. Fairness

- `ClaudeBridge`: weak fairness of each begun interceptor run, of the writer and
  of the reader, which tokio schedules and which never block. Of the environment:
  the CLI takes prompts and ends them, and a user who sees an approval answers it
  (strong, since other runs of the interceptor come between). `bridge_live`
  assumes that a prompt ended without error has shown a message_start
  (`QuietResults = FALSE`): without it `event_mapper.rs:487` takes the result for a
  stale one and the turn stays open.
- `AppServerSession`: weak fairness of calls and of the reader. No timer is fair,
  and the server owes nothing: the property is about a dead process.
- `RemoteBackend`: weak fairness of calls, timers among them, and of the tasks;
  strong fairness of taking the cache's lock, a tokio mutex, which is first come
  first served. The network and the daemon owe nothing.
- `ThreadTurns`: weak fairness of `Render`, of the continuation of answered calls, of
  the handling of events, and of a server that serves requests and ends turns: a
  promise that is settled runs its continuation, React renders what was
  dispatched. `CalmQueueDrains` is claimed of the scenes in which nothing fails;
  with faults the queue may be paused for good.
- The other modules of the window state safety only: "at rest" in a property is a
  state in which no call or event is under way.

## 5. Proofs

All for any sets of callers and threads and any bounds, from the named
assumptions of each module only.

`ClaudeBridge_proofs`, types: `TypeCorrect`, by one lemma per thread of control.

The same module, turns: `TurnCompletedOnce` and `TurnKeepsThread`. "At most
once" is not inductive: it needs that the current turn has no completion yet
(`CurrentTurnOpen`), that ids seen were drawn (`TurnIdsOK`, so a new one is fresh),
and what the reader holds in each phase (`OutboxOK`), since the exit path decides
under the lock and emits after it. The thread property needs that whatever named
the current turn named the current thread (`CurrentThreadOK`).
`BridgeKeepsTurnLedger` is the refinement of `BridgeLedgers`' `TurnSpec`: every step of the bridge
opens, closes or supersedes a turn of the ledger or leaves the ledger alone. It
needs that `turn_started` holds exactly when the current turn has been begun, by the
caller that announces it or by the reader (`BegunOK`).

The same module, control requests: `AnswersReachTheirAsker` (ids in use lie below the
counter, `ApprovalIdsOK`), `RequestAnsweredOnce` (a request is in one place at a
time, `OnePlace`, and untouched ones have no answer, `AnswersOK`) and
`WaitedRequestKept` (a CLI that waits prints nothing, so its question is the last
unread line, and no clearing result can be read after it: `WaitingIsLast`).
`BridgeKeepsApprovalLedger` is that of `ApprovalSpec`: by `OnePlace` a
step of the bridge moves a request from one set of the ledger to another, and those
in no place any more are the ones voided (`VoidedRequests`).

`AppServerSession_proofs`: `TableTypeCorrect`; and, for an output whose unread part
is all UTF-8 (`CleanOutput`), `StoppedReaderStrandsNobody` and
`TablesEmptiedAtTheEnd`. The reader never gets past a garbled line, so an output
without one had none before (`CleanBefore`). A call's
oneshot is in the table or spent from its insertion on (`OneshotOK`); the reader
stops only for a dead process (`StopOK`), so whoever is not yet waiting will fail
its write; ids are distinct (`IdsOK`); and an entry made behind a clear belongs to
a call that has yet to withdraw it (`LatePendingOK`, `LateContextOK`). After
a garbled line the first is false (`app_server_garbled`), and so is the second: a
call that inserts its context behind both clears, and whose oneshot was dropped
between them, leaves the context. `CallsReturnOwnAnswers` holds with garbled lines,
too: `send_request` alone draws ids, one for each call, so an id tells its call in
the table, in the pipe, with the server and on the way back (`NumbersOK`), and the
server's own requests, whose ids may be the same, are no answers.

The same module, of `ThreadRouting`: `ThreadsListedAtHome`, the part of
`SettlesOnTheBackend` that panel `routing` checks. `ListedAtHome` speaks of rest only, so its invariant `RoutedOK`
says what each line, request and call under way will still do. Everything between
server and window is one queue (`OnTheWay`: the line in hand, then the unread ones).
A start is asked for or answered once while its call waits (`StartsAsked`,
`StartsAnswered`). The map and the window name a thread under its own workspace only
(`HomesOK`); a thread with a turn or an event under way has its workspace in the map
or a line before the event that brings it (`EventsPlaced`, `RequestsPlaced`,
`InHandPlaced`). The window is told to hide a thread of the server's own before it
hears of it otherwise (`OwnHushed`), and of its archiving last (`RemovedLast`): what is
listed lives or is still to be told archived (`ListedLive`), what lives (but thread 1,
there before the session, which may be listed or not) is listed,
concealed or still to be announced (`LiveListed`), and what is concealed or listened
to is a background prompt's or the server's own (`ConcealedOK`). One lemma for each
kind of step: a caller's, a reading, a delivery, the server's. `RoutingBasis` asks that
no two workspaces have the same folder (`useWorkspaceCrud` skips one added already),
that a scene's calls are made in workspaces, and that bounds are numbers.

`RemoteBackend_proofs`: all six safety properties of `remote_calls`.
`RemoteTypeCorrect` needs that a call past `ensure` has a connection (`JobsOK`).
`ClientNeverReplaced` follows from `GuardOK`: whoever connects or authenticates
holds the lock, over an empty cache. `OwnReply` follows a request by its connection,
id and call, its ticket: wherever a ticket is (with the call that drew it, in the
table, the queue, the daemon or as a reply) its id lies below the connection's
counter and no two have the same connection and id (`TicketsOK`), so the id a call
draws next is fresh, although every connection starts at one. `WaiterNotForgotten`
and `TableEmptyAtRest` need who owns an entry (`EntriesOK`): a registered call has its
entry or an answer, not both, and an entry belongs to a call that will withdraw it.
`ExecutedAtMostOnce` is a counting argument: the weight of a call, its executions
and the lines of it that may still be executed, never exceeds what its caller has
spent, one for each attempt it made (`CountOK`), and a call makes a second attempt
only if it is repeatable (`OwnersOK`). It needs that a line is in one place only and a
request still to be sent is no line yet (`LinesOK`), and that a call that has not
begun has neither lines nor executions (`BegunOK`).

`ThreadTurns_proofs`: `ThreadTypeCorrect`, and `MessageTakenOnce` for every set of
messages, scenes and turns. A message is queued at most once and no send of it is
under way while it is (`QueueOK`); a request on its way belongs to a send that awaits
its answer, and no two are of one message (`RequestsOK`); a message the server has
taken is not queued, and its send is over or answered with success (`TakenOK`). The
last holds unless an answer is lost: a lost answer puts a message back that was
taken.

The same module: `ThreadIdleAtRest`, in every scene and for any number of turns. At
rest nothing is owed, so the invariant says to what the status is owed meanwhile
(`RestInv`). A thread at work owes it to a send whose request or failure is still to be
handled, or to a turn that runs or whose end is still to be told; one in review to
those of a review (`WorkInv`). The active turn is therefore never one that is over, in
the reducer; a render or a ref may still name an older one, but `useThreadMessaging`'s
refs know it then (`TurnsInv`). That an end is to be told of every turn that is not
running follows from the order of the events: what marks the thread at work is
followed by the end of its turn, and an event of a turn comes before the end of any
later one (`ServerInv`). The proof needs two of the entries of `blame` only; a double
start, which an earlier form of the property excused, does no harm.

The same module: `StopReachesItsTurn`, for any messages, turns and faults. A press with no
turn to name leaves one flag, without an id (`pendingInterruptsRef`), and the next start
told takes it. The invariant `StopInv` says that this start is of the awaited message: it
is told already and first in the events; or no start is, and its request is the first that
starts a turn, or it alone waits for its thread to be resumed (`StopWaits`). Once the flag is
taken, the turn has begun and no start of it is left to tell of (`StopDone`). This needs
that a message begins one turn, and that one queued or still to be sent has begun
none (`BeganOnce`), which a steer that fails, or two starts at once, would undo: hence
`Unblamed`.

This proof, too, first failed for good reasons; TLC found each of them in wider
scenes than the run's. The property was false where a second message starts while the
first waits for a closed thread to be resumed, and it counted as awaited a running turn
whose start had been told and a message whose turn was refused. `aimed` and `blame`, which
only observe, now say what they meant, and two entries of `blame` the property excused
before are gone: it claims more than it did.

`Sessions_proofs`, of the map of sessions: `SessionsTypeCorrect`, `OneServerServes` and
`MapSettles`, for any workspaces, arguments and bounds; `Basis` asks only that the bounds are
numbers, the default arguments are arguments and the known workspaces workspaces. The
properties speak of a map at rest, and the invariant says of each call under way what it has
yet to do. Two calls that overlap are on record in `crossed`, and connecting, adding and
new arguments hold the one spawn lock, so two of them are never past their first step
(`CallsOK`). A process just spawned is in the hands of one call, is that of its workspace,
and is neither listed nor killed (`OwnedOK`). Who spawns an app-server has found none that
runs among the listed, and who is about to enter one found no other (`ServerOK`); in codex
mode, as long as no change of mode overlapped another command, all who are connected share one
session, dead or alive, and a call for new arguments knows it (`SharedOK`): this is what
keeps its `kill` from leaving another workspace at the old process. An app-server that runs
unlisted is one a call will list, or will kill (`StrayOK`); what is to be killed is listed no
more and about to be entered by nobody (`KilledOK`). At rest nobody is about to do anything,
and the properties are left (`IInvSettles`).

`Sessions_proofs`, of `BridgeItems`: `PartsAlwaysHome`, for a pipe and a history of any length, and with
turns installed at any time. `PartsStayHome` says nothing of the lines to come, so
`HomeInv` does: a delta or a stop follows a line of the same block, and a block follows a
message's start or the end of the block before (`LinksOK`). It is then enough to know
the maps for the first unread line (`FirstOK`), or for the CLI if all is read (`CliOK`):
within a block they name its own item or none, and nothing at higher indices. Each
line leaves that for the line after it (`Kept`), and an installed turn leaves nothing.

`MCWindow`, from the lemmas of `WindowPanels`: five properties of `window_panels`, as
theorems about the panels they are of, for any workspaces, threads, parts, values and
bounds. A behaviour of the window is one of a panel; one lemma per panel (`FocusKept` and
its like) turns a step of the window into a step of the panel, whose invariant is
proved in `WindowPanels`.

- `FollowsTheThreadHolds`: for the live connection, `LiveConnection`'s `IInv`. A request on
  its way is that of an attempt that waits for it, and no attempt waits for two
  (`RequestsOK`); numbers of attempts differ and the one in flight is not over
  (`NumbersOK`, `FlightOK`); the attempt that is current, and the subscription that is
  held, are of the selected thread, unless none is selected any more (`CurrentOK`,
  `ActiveOK`). So each thread subscribed at the daemon is held, asked about, adrift, or
  of an attempt that has yet to deal with it (`SubscriptionsOK`), and the thread looked
  at is subscribed, or asked about, or a loss of it is being told, or the current
  attempt is after it (`TendedOK`); when everything has come to its end, only "held" and
  "subscribed" are left. For the polls: a poll's timer is there exactly when the closure that runs
  wants one (`FocusRefresh`'s `IInv`). A native listener that is asked for is the hub's promise, one
  that is registered its promise or its handle, and the hub never has both
  (`EventHubs`' `HubInv`).
- `ShowsWhatIsSelectedHolds`: for the hooks that number their requests the key of what
  is shown is the current one, or nothing is shown; for those with an in-flight flag the
  flag names the workspace of a request there is, and another workspace than the
  current is noted as a switch; for `useApps` a request in flight is for the current key, or that key
  is pending or known; for files the waiting flag has an answer to come.
- `NewestAnswerStaysHolds`, an action property: what is shown is of a request not newer
  than the number last drawn, and for hooks with a cache it is the cache's.
- `FilesKeepTheirText`, two of the three file properties: an answer of a write that is
  still current finds `saving` set, and the file holds its text (`SavedInv`).
- `WritingStaysHolds`: for the composer, a text shown over a thread is its draft, sends
  and pictures under way name the thread they were begun for, and the history recalled
  is the stored one (`ComposerDrafts`' `IInv`). For dictation, `InsertedOnceHolds` in `Dictation`: a
  dictation is at one place at a time on its way from a start that asks for the
  microphone over an open one, a stop, a transcription and an event to the hook and the composer
  (`AtOnePlace`), each of these holds it once, and one that was cancelled goes no
  further than its task (`CancelledStay`).
- `SettingsStayWithTheirThreadHolds`: a thread not seeded yet will be given what its
  message was sent with (`WillBeSeeded`): by the seed that waits, or, when another
  thread of the workspace took that, by what is shown, as long as the user stays.
  It needs what the composer shows of a draft and of a model (`DraftIsShown`), that a
  thread in front is listed and seeded (`ListedAtHome`, `SeededHave`), and that a thread
  belongs to one call (`OwnCalls`).

The last proof first failed, and for a good reason. `StartedAsSent` excused a thread that came to the front of its
workspace among sends of the same draft in too few cases: with two steps more than the run
takes, TLC finds a draft sent twice where the first answer's thread is told, not looked at
yet, and takes the seed of the second. `InItsPlace` now asks that each thread told
of has been seeded. The proof also showed two overlapping arms of a `CASE` in `Select`,
of which TLC took the first and the logic either; they are an `IF` now.

The proof of `LiveConnection` failed for good reasons too. Both its properties, as they were
stated first, held within the bounds of the run and not beyond them, and the proof
found the steps at which the hook loses what it knows: the event that tells of a loss
is dropped while no thread is selected, or is taken for the hook's own
(`ignoreDetachedEventsUntilRef`); an attempt, or the "attached" event, is told of a
subscription that a disconnect or another client has ended since; an attempt that was
overtaken leaves its subscription to a later one, which is itself overtaken; giving up
the own subscription forgets another that was taken up meanwhile. The model had
excused some of these by a flag set too widely. Now `adrift` holds the very threads
that were let go of, and `blame` says that the hook was misled only where it is; the
two change nothing of the rest.

The assumptions of these theorems: the mark for "none" is no workspace, part, key or
thread (`NoneAssumption`) and no composer of dictation (`ComposersAssumption`); there is a
part of a diff (`PartsAssumption`), a list may be empty (`LengthsAssumption`), a file holds a
text at first (`VersionsAssumption`), each thread of a composer is of a workspace
and neither a draft nor a home (`ThreadsAssumption`), the default setting is a value and
"absent" and "unset" are none (`SettingsAssumption`); bounds are numbers
(`BoundsAssumption`). TLC evaluates all of them in `window_panels`.

Only model-checked:
- `EveryThreadReachable`, `RefreshKeepsAnchors`: pages and cascades are recursive over
  lists and parents, and what a recursive definition computes needs induction over data.
- `BlocksAreItems`, which counts, `ShownAsTheServerHasIt` of the threads' items, which
  folds texts.
- The panels not named above. `ListedAtHome` and the properties of `WorkspaceSessions`
  are proved, but those of `MCWindow` they are parts of speak of other panels too.
- `WholeTextReturned` of `ThreadRouting`, which counts deltas along the output.
- Liveness (`TurnAnswered`, `RequestSettled`, `DeadProcessFailsCalls`, `CallReturns`,
  `CalmQueueDrains`), which is beyond the proof system.

## 6. Not modelled, and what is next

Not modelled yet: notifications the session sends to all its workspaces, the daemon's
gate, limiter and event broadcast, and renaming and applying of worktrees. They are
next, the daemon first.

Two of the excuses above are defects a user can meet. A transcription cancelled while its
model loads makes the session idle when the load fails (`LoadFails`; `real.rs:937-992`
do not look at the flag): if the user dictates again by then, the program shows no dictation
and the microphone stays open. An update of settings that could not be written is rolled
back in the window and kept in the backend's memory (`crud_persistence.rs:564` and `:600`).
TLC finds both at once when the excuse is dropped.

Not planned: session history (files parsed without state), git, usage, menus, Tailscale
and daemon control, and the views: they keep no state between calls, or their
state belongs to another program. Of the modelled parts each component of
`PROJECT.json` says what is left out: wording, layout, names, time stamps, the
content of items and diffs.

Proofs worth having next: the rest of the panels, and the properties of `MCWindow`
they are part of with them.
