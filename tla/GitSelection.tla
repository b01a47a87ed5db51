----------------------------- MODULE GitSelection -----------------------------
(***************************************************************************)
(* What the centre of the window shows of git: chat or diff, the source of  *)
(* the diffs, the selected commit, pull request and file, the panel's mode  *)
(* (useGitPanelController), the effects that keep them together             *)
(* (useSyncSelectedDiffPath, useAutoExitEmptyDiff), the composer that asks  *)
(* about what is selected (usePullRequestComposer) and the review it        *)
(* launches (usePullRequestReviewActions).                                  *)
(*                                                                         *)
(* A handler and the effects of its render are one action (Shows): effects  *)
(* run before the next event.  Paths are those of the list that is shown;   *)
(* a path of another list is Elsewhere.                                     *)
(***************************************************************************)
EXTENDS Naturals, FiniteSets

CONSTANTS
    Workspaces, None,
    Paths, Elsewhere,
    MaxSteps    \* bound on selections, list changes and launches

VARIABLES
    active,     \* the active workspace
    ui,         \* center, path, mode, source; the workspaces pr and commit were selected in
    lists,      \* the paths of the diffs of each source
    scroll,     \* pendingDiffScrollRef, and the requests made
    review,     \* the launch under way, and the pull request last reviewed
    steps

vars == <<active, ui, lists, scroll, review, steps>>

Sources == {"local", "commit", "pr", "perFile"}
Modes == {"diff", "perFile", "log", "issues", "prs"}
Someone == Workspaces \cup {None}

TypeOK ==
    /\ active \in Someone
    /\ ui \in [center : {"chat", "diff"}, path : Paths \cup {None, Elsewhere},
               mode : Modes, source : Sources, pr : Someone, commit : Someone]
    /\ lists \in [Sources -> SUBSET Paths]
    /\ scroll \in [pending : BOOLEAN, made : 0..MaxSteps + 1, asked : 0..MaxSteps + 1]
    /\ review \in [step : {"none", "connect", "thread", "send"}, pr : Someone,
                   of : Someone, last : Someone]
    /\ steps \in 0..MaxSteps

Init ==
    /\ active = None
    /\ ui = [center |-> "chat", path |-> None, mode |-> "diff", source |-> "local",
             pr |-> None, commit |-> None]
    /\ lists = [s \in Sources |-> {}]
    /\ scroll = [pending |-> FALSE, made |-> 0, asked |-> 0]
    /\ review = [step |-> "none", pr |-> None, of |-> None, last |-> None]
    /\ steps = 0

Count == steps < MaxSteps /\ steps' = steps + 1

----------------------------------------------------------------------------
(* The lists whose paths the sync effects follow.                          *)
Synced == {"pr", "commit", "perFile"}

(* useSyncSelectedDiffPath: the first path, unless the selected one is      *)
(* among them.                                                             *)
SyncedPath(u, list) ==
    IF u.source \in Synced /\ u.center = "diff" /\ list # {} /\ u.path \notin list
    THEN [u EXCEPT !.path = CHOOSE p \in list : TRUE] ELSE u

(* useAutoExitEmptyDiff, if the list is neither loading nor in error.       *)
Exited(u, list, settled) ==
    IF u.center = "diff" /\ u.source = "local" /\ settled /\ list = {}
    THEN [u EXCEPT !.center = "chat", !.path = None] ELSE u

(* The render of u, its effects and the scroll they request; fresh: the     *)
(* list shown was made anew.  The pending scroll is forgotten with the      *)
(* path, and looked at only if the path, the centre or the list changed.   *)
Shows(u, ls, pending, fresh) ==
    \E settled \in BOOLEAN :     \* the list is loaded, without error, and a thread is open
        LET list == ls[u.source]
            v == SyncedPath(Exited(u, list, settled), list)
            kept == pending /\ (u.path # None \/ ui.path = None)
            wanted == kept /\ (v.path # None \/ u.path = None)
            looked == \/ fresh \/ u.source # ui.source
                      \/ v.path # ui.path \/ v.center # ui.center
            found == wanted /\ looked /\ v.center = "diff" /\ v.path \in list
        IN  /\ ui' = v
            /\ lists' = ls
            /\ scroll' = [pending |-> wanted /\ ~found,
                          made |-> IF found THEN scroll.made + 1 ELSE scroll.made,
                          asked |-> IF pending /\ ~scroll.pending THEN scroll.asked + 1
                                    ELSE scroll.asked]

(* The path in the terms of another source's list.                         *)
To(u, source) ==
    [u EXCEPT !.source = source,
              !.path = IF source = u.source \/ u.path = None THEN u.path ELSE Elsewhere]

----------------------------------------------------------------------------
(* The handlers.                                                           *)

HandleSelectDiff(p) ==
    /\ Count /\ active # None /\ p \in lists["local"]
    /\ Shows([To(ui, "local") EXCEPT !.path = p, !.center = "diff", !.mode = "diff",
                                     !.commit = None, !.pr = None], lists, TRUE, FALSE)
    /\ UNCHANGED <<active, review>>

HandleSelectPerFileDiff(p) ==
    /\ Count /\ active # None /\ p \in lists["perFile"]
    /\ Shows([ui EXCEPT !.path = p, !.center = "diff", !.mode = "perFile",
                        !.source = "perFile", !.commit = None, !.pr = None], lists, TRUE, FALSE)
    /\ UNCHANGED <<active, review>>

HandleSelectCommit ==
    /\ Count /\ active # None /\ ui.mode = "log"
    /\ \E list \in SUBSET Paths :
          Shows([ui EXCEPT !.path = None, !.center = "diff", !.source = "commit",
                           !.commit = active, !.pr = None],
                [lists EXCEPT !["commit"] = list], TRUE, TRUE)
    /\ UNCHANGED <<active, review>>

(* onSelectPullRequest clears the commit first.                            *)
HandleSelectPullRequest ==
    /\ Count /\ active # None /\ ui.mode = "prs"
    /\ \E list \in SUBSET Paths :
          Shows([ui EXCEPT !.path = None, !.center = "diff", !.source = "pr",
                           !.pr = active, !.commit = None],
                [lists EXCEPT !["pr"] = list], scroll.pending, TRUE)
    /\ UNCHANGED <<active, review>>

(* Mutant: another mode keeps the source.                                  *)
ModeKeepsSource(u, mode) == [u EXCEPT !.mode = mode]

(* handleGitPanelModeChange.                                               *)
ModeChanged(u, mode) ==
    LET unseats == \/ mode # "prs" /\ u.source \in {"pr", "perFile"}
                   \/ mode # "log" /\ u.source = "commit"
        source == IF mode # "prs" \/ u.source = "commit" THEN "local" ELSE u.source
    IN  IF mode = "perFile"
        THEN [u EXCEPT !.mode = mode, !.source = "perFile", !.pr = None, !.commit = None,
                       !.path = IF u.source # "perFile" THEN None ELSE @]
        ELSE [To(u, source) EXCEPT
                !.mode = mode,
                !.path = IF unseats THEN None ELSE @,
                !.pr = IF mode # "prs" THEN None ELSE @,
                !.commit = IF mode # "log" THEN None ELSE @]

HandleGitPanelModeChange(mode) ==
    /\ mode # ui.mode
    /\ Shows(ModeChanged(ui, mode), lists, scroll.pending, FALSE)
    /\ UNCHANGED <<active, review, steps>>

(* The viewer's scroll position selects the file it is over.               *)
HandleActiveDiffPath(p) ==
    /\ ui.center = "diff" /\ p \in lists[ui.source] /\ p # ui.path
    /\ Shows([ui EXCEPT !.path = p], lists, scroll.pending, FALSE)
    /\ UNCHANGED <<active, review, steps>>

ExitDiff ==
    /\ ui.center = "diff"
    /\ \E p \in {None, ui.path} :      \* onBackFromDiff keeps the path
          Shows([ui EXCEPT !.center = "chat", !.path = p], lists, scroll.pending, FALSE)
    /\ UNCHANGED <<active, review, steps>>

ShowSelectedDiff ==
    /\ ui.center = "chat"
    /\ LET list == lists[ui.source]
           p == IF ui.path = None /\ list # {} THEN CHOOSE q \in list : TRUE ELSE ui.path
       IN  /\ p # None
           /\ Shows([ui EXCEPT !.center = "diff", !.path = p], lists, scroll.pending, FALSE)
    /\ UNCHANGED <<active, review, steps>>

(* A poll, an answer or a thread's new edits change a list.                *)
ListChanges(s) ==
    /\ Count
    /\ \E list \in SUBSET Paths :
          Shows(ui, [lists EXCEPT ![s] = list], scroll.pending, s = ui.source)
    /\ UNCHANGED <<active, review>>

----------------------------------------------------------------------------
(* Mutant: the source alone is reset.                                      *)
SourceReset(u) == [u EXCEPT !.source = "local"]

(* resetPullRequestSelection: the panel's mode and the commit stay.        *)
PullRequestReset(u) == [To(u, "local") EXCEPT !.pr = None]

Emptied(w) == IF w = active THEN lists ELSE [l \in Sources |-> {}]

(* Selecting a thread, a workspace or home in the sidebar, by shortcut or   *)
(* by a link of another thread: the diff view is left first.               *)
SelectElsewhere(w) ==
    /\ Count /\ active' = w
    /\ Shows([PullRequestReset(ui) EXCEPT !.center = "chat", !.path = None],
             Emptied(w), scroll.pending, w # active)
    /\ UNCHANGED review

(* A notification's link: the pull request stays selected.                 *)
OpenNotificationLink(w) ==
    /\ Count /\ w # None /\ active' = w
    /\ Shows([ui EXCEPT !.center = "chat", !.path = None], Emptied(w), scroll.pending, w # active)
    /\ UNCHANGED review

(* The branch switcher goes to the branch's worktree: nothing is left.     *)
SwitchToWorktree(w) ==
    /\ Count /\ active # None /\ w \notin {None, active} /\ active' = w
    /\ Shows(ui, Emptied(w), scroll.pending, w # active)
    /\ UNCHANGED review

----------------------------------------------------------------------------
(* Reviews of the pull request.                                            *)

IsPullRequestComposer(u) == u.pr # None /\ u.mode = "prs" /\ u.center = "diff"
IsCommitComposer(u) == u.commit # None /\ u.mode = "log" /\ u.center = "diff"

(* runPullRequestReview, from the composer, its actions or the viewer: the  *)
(* ref refuses a second launch.                                            *)
RunPullRequestReview ==
    /\ Count /\ review.step = "none" /\ active # None /\ ui.pr # None
    /\ \E step \in {"connect", "thread", "send"} :   \* connected? a thread to use?
          review' = [review EXCEPT !.step = step, !.pr = ui.pr, !.of = active]
    /\ UNCHANGED <<active, ui, lists, scroll>>

ReviewAnswered ==
    /\ review.step # "none"
    /\ LET done == [review EXCEPT !.step = "none", !.pr = None, !.of = None]
       IN  \/ review' = done                                        \* failed: a toast
           \/ review.step = "connect" /\ \E s \in {"thread", "send"} :
                 review' = [review EXCEPT !.step = s]
           \/ review.step = "thread" /\ review' = [review EXCEPT !.step = "send"]
           \/ review.step = "send" /\ review' = [done EXCEPT !.last = review.pr]
    /\ UNCHANGED <<active, ui, lists, scroll, steps>>

Next ==
    \/ \E p \in Paths : HandleSelectDiff(p) \/ HandleSelectPerFileDiff(p)
                        \/ HandleActiveDiffPath(p)
    \/ HandleSelectCommit \/ HandleSelectPullRequest
    \/ \E mode \in Modes : HandleGitPanelModeChange(mode)
    \/ ExitDiff \/ ShowSelectedDiff
    \/ \E s \in Sources : ListChanges(s)
    \/ \E w \in Someone : SelectElsewhere(w) \/ OpenNotificationLink(w)
                          \/ SwitchToWorktree(w)
    \/ RunPullRequestReview \/ ReviewAnswered

Spec == Init /\ [][Next]_vars

----------------------------------------------------------------------------
(* The composer asks about a pull request only while the diffs in front of  *)
(* the user are that pull request's, the diffs of a commit or a pull        *)
(* request are shown only with it selected, in its mode of the panel, and   *)
(* a file is selected in every list that has one: the handlers, the reset   *)
(* from elsewhere and the effects of each render agree                      *)
(* (useGitPanelController, usePullRequestComposer, useSyncSelectedDiffPath).*)
AsksAboutWhatIsShown ==
    /\ IsPullRequestComposer(ui) => ui.source = "pr"
    /\ ui.source = "pr" => ui.pr # None /\ ui.mode = "prs"
    /\ ui.source = "commit" => ui.commit # None /\ ui.mode = "log"
    /\ ui.center = "diff" /\ ui.source \in Synced /\ lists[ui.source] # {}
       => ui.path \in lists[ui.source]
    /\ scroll.made <= scroll.asked
=============================================================================
