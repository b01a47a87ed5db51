------------------------------- MODULE Updater -------------------------------
(***************************************************************************)
(* Updates of the program (useUpdater, UpdateToast, postUpdateRelease): checks *)
(* begun at the start and from the menu, the update that is found and         *)
(* installed, the restart, and what is new, shown once after it.              *)
(***************************************************************************)
EXTENDS Naturals, FiniteSets, Sequences
LOCAL INSTANCE SequencesExt

CONSTANTS
    None,
    MaxChecks,      \* bound: checks
    MaxStarts       \* bound: starts of the program

VARIABLES
    toast,          \* state: its stage, and the update it names
    updateRef,      \* the update found last
    checks,         \* check() under way: whether it announces that there is none
    installs,       \* downloadAndInstall() and relaunch() under way: which, and how far
    timers,         \* timeouts that hide "latest"; the one that latestTimeoutRef has
    notice,         \* postUpdateNotice, and the generation of its fetch
    fetches,        \* fetchReleaseNotesForVersion under way: the generation
    disk,           \* version running, installed, marked in localStorage
    updates,        \* per update found: its version, closed
    noted           \* history

vars == <<toast, updateRef, checks, installs, timers, notice, fetches, disk, updates, noted>>

Versions == 0..MaxStarts        \* how many updates came before it
Found == DOMAIN updates
Stages == {"idle", "checking", "available", "downloading", "installing", "restarting", "latest", "error"}

TypeOK ==
    /\ toast \in [stage : Stages, version : Versions \cup {None}]
    /\ updateRef \in 0..MaxChecks
    /\ \A i \in DOMAIN checks : checks[i] \in BOOLEAN
    /\ \A i \in DOMAIN installs : installs[i] \in [of : 1..MaxChecks, at : {"download", "install", "relaunch"}]
    /\ timers.set \subseteq 1..MaxChecks /\ timers.ref \in 0..MaxChecks
    /\ notice.stage \in {"none", "loading", "ready", "fallback"} /\ notice.version \in Versions \cup {None}
    /\ fetches \subseteq Nat
    /\ disk \in [running : Versions, installed : Versions, pending : Versions \cup {None}]
    /\ \A u \in Found : updates[u] \in [version : Versions, closed : BOOLEAN]
    /\ noted.checks \in 0..MaxChecks /\ noted.starts \in 0..MaxStarts

----------------------------------------------------------------------------
(* UpdateToast shows its buttons when nothing of the last update is shown.     *)
Stage(s) == toast' = [toast EXCEPT !.stage = s]
ShowsUpdate == notice.stage = "none"
CanUpdate == ShowsUpdate /\ toast.stage \in {"available", "error"}
CanDismiss == ShowsUpdate /\ toast.stage \in {"available", "latest", "error"}

Busy == checks # <<>> \/ installs # <<>>
ClearLatestTimeout == [set |-> timers.set \ {timers.ref}, ref |-> 0]
CheckForUpdates(announce) ==
    /\ noted.checks < MaxChecks
    /\ timers' = ClearLatestTimeout
    /\ toast' = [stage |-> "checking", version |-> None]
    /\ checks' = Append(checks, announce)
    /\ noted' = [noted EXCEPT !.checks = @ + 1, !.crossed = @ \/ Busy]
    /\ UNCHANGED <<updateRef, installs, notice, fetches, disk, updates>>

(* subscribeUpdaterCheck: the menu.                                          *)
MenuCheck == CheckForUpdates(TRUE)

(* The answer: an update of the next version, or none, or a failure.           *)
CheckFinds(i) ==
    /\ disk.running < MaxStarts
    /\ updates' = Append(updates, [version |-> disk.running + 1, closed |-> FALSE])
    /\ updateRef' = Len(updates) + 1
    /\ toast' = [stage |-> "available", version |-> disk.running + 1]
    /\ checks' = RemoveAt(checks, i)
    /\ noted' = [noted EXCEPT !.replaced = @ \/ updateRef # 0]
    /\ UNCHANGED <<installs, timers, notice, fetches, disk>>
NewTimer == CHOOSE t \in 1..MaxChecks : t \notin timers.set
CheckFindsNone(i) ==
    /\ checks' = RemoveAt(checks, i)
    /\ toast' = [stage |-> IF checks[i] THEN "latest" ELSE "idle", version |-> None]
    /\ timers' = IF checks[i] THEN [set |-> timers.set \cup {NewTimer}, ref |-> NewTimer] ELSE timers
    /\ UNCHANGED <<updateRef, installs, notice, fetches, disk, updates, noted>>
CheckFails(i) ==
    /\ checks' = RemoveAt(checks, i) /\ toast' = [stage |-> "error", version |-> None]
    /\ UNCHANGED <<updateRef, installs, timers, notice, fetches, disk, updates, noted>>
LatestTimeout(t) ==
    /\ timers' = [set |-> timers.set \ {t}, ref |-> 0]
    /\ toast' = [stage |-> "idle", version |-> None]
    /\ UNCHANGED <<updateRef, checks, installs, notice, fetches, disk, updates, noted>>

ResetToIdle ==
    /\ CanDismiss
    /\ timers' = ClearLatestTimeout /\ updateRef' = 0
    /\ toast' = [stage |-> "idle", version |-> None]
    /\ updates' = IF updateRef = 0 THEN updates ELSE [updates EXCEPT ![updateRef].closed = TRUE]
    /\ UNCHANGED <<checks, installs, notice, fetches, disk, noted>>

(* The button Update or Retry: installs the update found, or looks for one.    *)
StartUpdate ==
    /\ CanUpdate
    /\ IF updateRef = 0 THEN CheckForUpdates(FALSE)
       ELSE /\ Stage("downloading")
            /\ installs' = Append(installs, [of |-> updateRef, at |-> "download"])
            /\ noted' = [noted EXCEPT !.crossed = @ \/ Busy]
            /\ UNCHANGED <<updateRef, checks, timers, notice, fetches, disk, updates>>
DownloadFinished(i) ==
    /\ installs[i].at = "download" /\ installs' = [installs EXCEPT ![i].at = "install"] /\ Stage("installing")
    /\ UNCHANGED <<updateRef, checks, timers, notice, fetches, disk, updates, noted>>
Installed(i) ==
    LET v == updates[installs[i].of].version
    IN  /\ installs[i].at = "install" /\ installs' = [installs EXCEPT ![i].at = "relaunch"] /\ Stage("restarting")
        /\ disk' = [disk EXCEPT !.installed = v, !.pending = v]
        /\ UNCHANGED <<updateRef, checks, timers, notice, fetches, updates, noted>>
InstallFails(i) ==
    /\ installs' = RemoveAt(installs, i) /\ Stage("error")
    /\ disk' \in IF installs[i].at = "install"
                 THEN {disk, [disk EXCEPT !.installed = updates[installs[i].of].version]} ELSE {disk}
    /\ UNCHANGED <<updateRef, checks, timers, notice, fetches, updates, noted>>

(* The program starts, by relaunch() or by the user: it looks for updates, and  *)
(* shows what is new when the mark is of the version that runs.               *)
Marked(d) == d.pending = d.running
Cleared(d) == IF Marked(d) THEN d ELSE [d EXCEPT !.pending = None]
NoticeOf(d) == IF Marked(d) THEN [stage |-> "loading", version |-> d.running, generation |-> 1]
               ELSE [stage |-> "none", version |-> None, generation |-> 0]
FetchesFor(d) == IF Marked(d) THEN {1} ELSE {}
Restart ==
    /\ noted.starts < MaxStarts /\ noted.checks < MaxChecks
    /\ LET d == [disk EXCEPT !.running = disk.installed]
       IN  disk' = Cleared(d) /\ notice' = NoticeOf(d) /\ fetches' = FetchesFor(d)
    /\ toast' = [stage |-> "checking", version |-> None] /\ checks' = <<FALSE>>
    /\ updateRef' = 0 /\ installs' = <<>> /\ timers' = [set |-> {}, ref |-> 0] /\ updates' = <<>>
    /\ noted' = [checks |-> noted.checks + 1, starts |-> noted.starts + 1, crossed |-> FALSE, replaced |-> FALSE, dismissed |-> FALSE]

(* Release notes that are fetched, and the notice dismissed.                   *)
NotesAnswered(f) ==
    /\ fetches' = fetches \ {f}
    /\ IF f # notice.generation THEN notice' = notice
       ELSE notice' \in {[notice EXCEPT !.stage = s] : s \in {"ready", "fallback"}}
    /\ UNCHANGED <<toast, updateRef, checks, installs, timers, disk, updates, noted>>
DismissPostUpdateNotice ==
    /\ notice.stage # "none"
    /\ notice' = [stage |-> "none", version |-> None, generation |-> notice.generation + 1]
    /\ disk' = [disk EXCEPT !.pending = None]
    /\ noted' = [noted EXCEPT !.dismissed = TRUE]
    /\ UNCHANGED <<toast, updateRef, checks, installs, timers, fetches, updates>>

Init ==
    /\ \E v \in 0..1, p \in {None, 0, 1} :
          LET d == [running |-> v, installed |-> v, pending |-> p]
          IN  disk = Cleared(d) /\ notice = NoticeOf(d) /\ fetches = FetchesFor(d)
    /\ toast = [stage |-> "checking", version |-> None] /\ checks = <<FALSE>>
    /\ updateRef = 0 /\ installs = <<>> /\ timers = [set |-> {}, ref |-> 0] /\ updates = <<>>
    /\ noted = [checks |-> 1, starts |-> 1, crossed |-> FALSE, replaced |-> FALSE, dismissed |-> FALSE]

Next ==
    \/ MenuCheck \/ ResetToIdle \/ StartUpdate \/ Restart \/ DismissPostUpdateNotice
    \/ \E i \in DOMAIN checks : CheckFinds(i) \/ CheckFindsNone(i) \/ CheckFails(i)
    \/ \E i \in DOMAIN installs : DownloadFinished(i) \/ Installed(i) \/ InstallFails(i)
    \/ \E t \in timers.set : LatestTimeout(t)
    \/ \E f \in fetches : NotesAnswered(f)

Spec == Init /\ [][Next]_vars

----------------------------------------------------------------------------
(* While checks and installations do not overlap, the toast tells what is      *)
(* under way, "latest" is hidden by a timer, an update that is installed was   *)
(* not closed, and none is left open unless a later one took its place.        *)
Installing == {installs[i].of : i \in DOMAIN installs}
ToastTells ==
    noted.crossed \/
    /\ toast.stage = "checking" <=> checks # <<>>
    /\ toast.stage \in {"downloading", "installing", "restarting"} <=> installs # <<>>
    /\ toast.stage = "available" => updateRef # 0 /\ toast.version = updates[updateRef].version
    /\ timers.set # {} <=> toast.stage = "latest"
    /\ \A u \in Installing : ~updates[u].closed
    /\ \A u \in Found : updates[u].closed \/ u = updateRef \/ noted.replaced

(* What is new is of the version that runs, is shown until it is dismissed,    *)
(* also after another start, and not after that; no mark of another version    *)
(* stays.                                                                   *)
WhatsNewIsShownOnce ==
    /\ notice.stage # "none" => notice.version = disk.running
    /\ noted.dismissed => notice.stage = "none"
    /\ disk.pending = disk.running => notice.stage # "none"
    /\ disk.pending \in {None, disk.running, disk.installed}
    /\ notice.stage = "loading" => notice.generation \in fetches
=============================================================================
