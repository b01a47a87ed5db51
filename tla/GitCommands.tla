----------------------------- MODULE GitCommands -----------------------------
(***************************************************************************)
(* The commands of the git panel: those of useGitCommitController (commit,  *)
(* commit and push, commit and sync, pull, fetch, push, sync, the generated *)
(* commit message) and those of useGitActions (apply a worktree, initialize *)
(* a repository with its prompt, create the repository on GitHub).          *)
(*                                                                         *)
(* A command is its sequence of awaits; each holds the workspace it was     *)
(* called in, while the user may go to another.  Staging and reverting of   *)
(* files keep no state of their own; the refreshes at the end of a command  *)
(* are the business of PanelLoads.                                         *)
(***************************************************************************)
EXTENDS Naturals, Sequences, FiniteSets

CONSTANTS
    Workspaces, None,
    MaxCommands, MaxSwitches   \* bounds

VARIABLES
    active,    \* the active workspace, and activeWorkspaceIdRef
    message,   \* the commit message: whether there is one, of which workspace
    loading,   \* flags of the commands shown as running
    errors,    \* flags with an error shown
    applied,   \* the outcome shown of a worktree applied, and its workspace
    prompt,    \* the workspace whose init prompt is open, and whether it shows an error
    calls,     \* commands under way
    made,      \* how many were made
    switches,
    overlap,   \* history: a command's finally took back a flag that was another's too
    left       \* history: a remote repository was begun after its workspace was left

vars == <<active, message, loading, errors, applied, prompt, calls, made, switches, overlap, left>>

----------------------------------------------------------------------------
(* The commands: the flags they hold, and their awaits in order.  Staging   *)
(* comes first if nothing is staged yet.                                   *)
Commit == [flags |-> {"commit"}, steps |-> <<"stage", "commit">>]
CommitAndPush == [flags |-> {"commit", "push"}, steps |-> <<"stage", "commit", "push">>]
CommitAndSync == [flags |-> {"commit", "sync"}, steps |-> <<"stage", "commit", "sync">>]
Pull == [flags |-> {"pull"}, steps |-> <<"pull">>]
Push == [flags |-> {"push"}, steps |-> <<"push">>]
Fetch == [flags |-> {"fetch"}, steps |-> <<"fetch">>]
Sync == [flags |-> {"sync"}, steps |-> <<"sync">>]
Generate == [flags |-> {"message"}, steps |-> <<"message">>]
ApplyWorktree == [flags |-> {"apply"}, steps |-> <<"apply">>]

(* The first await may tell that a confirmation is needed: ask the user,    *)
(* then force it; the remote repository is created last, if wanted.        *)
InitGitRepo == [flags |-> {"init"}, steps |-> <<"init", "ask", "force", "create">>]

Commands == {Commit, CommitAndPush, CommitAndSync, Pull, Push, Fetch, Sync, Generate,
             ApplyWorktree, InitGitRepo}
Flags == UNION {c.flags : c \in Commands} \cup {"create"}
(* Flags that an effect takes back when another workspace becomes active.  *)
Reset == {"message", "apply", "init", "create"}

Someone == Workspaces \cup {None}

TypeOK ==
    /\ active \in Someone /\ message \in Someone
    /\ loading \subseteq Flags /\ errors \subseteq Flags
    /\ applied \in [of : Someone, shows : {"none", "success", "error"}]
    /\ prompt \in [of : Someone, error : BOOLEAN]
    /\ calls \subseteq [id : 1..MaxCommands, command : Commands, at : 1..4, of : Workspaces]
    /\ made \in 0..MaxCommands /\ switches \in 0..MaxSwitches /\ overlap \in BOOLEAN
    /\ left \in BOOLEAN

Step(c) == c.command.steps[c.at]
IsCommit(command) == "commit" \in command.flags

----------------------------------------------------------------------------
(* Another workspace: the message, the outcome and the flags of the effects *)
(* are reset, the prompt closes.                                           *)
Switch(w) ==
    /\ w # active /\ switches < MaxSwitches /\ switches' = switches + 1
    /\ active' = w /\ message' = None
    /\ loading' = loading \ Reset /\ errors' = errors \ {"message"}
    /\ applied' = [of |-> None, shows |-> "none"]
    /\ prompt' = IF prompt.of = w THEN prompt ELSE [of |-> None, error |-> FALSE]
    /\ UNCHANGED <<calls, made, overlap, left>>

(* The user writes the message, or has the staged files changed.           *)
Write ==
    /\ active # None /\ message # active /\ message' = active
    /\ UNCHANGED <<active, loading, errors, applied, prompt, calls, made, switches, overlap, left>>

OpenPrompt ==
    /\ active # None /\ prompt.of = None
    /\ prompt' = [of |-> active, error |-> FALSE]
    /\ UNCHANGED <<active, message, loading, errors, applied, calls, made, switches, overlap, left>>

CancelPrompt ==
    /\ prompt.of # None /\ loading \cap {"init", "create"} = {}
    /\ prompt' = [of |-> None, error |-> FALSE]
    /\ UNCHANGED <<active, message, loading, errors, applied, calls, made, switches, overlap, left>>

(* The handlers: a command starts unless one of its flags is up.  Only the  *)
(* worktree's button is not held back by its flag.                         *)
Start(command) ==
    /\ active # None /\ made < MaxCommands /\ made' = made + 1
    /\ command = ApplyWorktree \/ command.flags \cap loading = {}
    /\ IsCommit(command) => message # None
    /\ command = InitGitRepo => prompt.of = active /\ "create" \notin loading
    /\ \E at \in IF IsCommit(command) THEN {1, 2} ELSE {1} :
          calls' = calls \cup {[id |-> made + 1, command |-> command, at |-> at, of |-> active]}
    /\ loading' = loading \cup command.flags
    /\ errors' = errors \ command.flags
    /\ applied' = IF command = ApplyWorktree THEN [of |-> None, shows |-> "none"] ELSE applied
    /\ prompt' = IF command = InitGitRepo THEN [prompt EXCEPT !.error = FALSE] ELSE prompt
    /\ UNCHANGED <<active, message, switches, overlap, left>>

----------------------------------------------------------------------------
(* Mutant: the workspace that asked is not looked at.                      *)
AnyWorkspace(c) == TRUE

(* shouldApplyCommitMessage, and the guard of useGitActions.               *)
StillActive(c) == active = c.of

(* The flags a command takes back, those of useGitActions only if its       *)
(* workspace is still active.                                              *)
TakenBack(c) ==
    IF c.command.flags \cap Reset # {} /\ ~StillActive(c) THEN {}
    ELSE IF c.command = InitGitRepo /\ Step(c) = "create" THEN {"create"} ELSE c.command.flags

Overlaps(c) == \E d \in calls \ {c} : d.command.flags \cap TakenBack(c) # {}

Ended(c) ==
    /\ calls' = calls \ {c} /\ loading' = loading \ TakenBack(c)
    /\ overlap' = (overlap \/ Overlaps(c))

(* An await of a commit, a push, a pull, a fetch or a sync succeeds.  Once  *)
(* committed the message is emptied, whichever workspace's it is by now.   *)
Succeeds(c) ==
    /\ c \in calls /\ c.command.flags \cap Reset = {}
    /\ IF c.at = Len(c.command.steps)
       THEN Ended(c)
       ELSE /\ calls' = (calls \ {c}) \cup {[c EXCEPT !.at = @ + 1]}
            /\ loading' = IF Step(c) = "commit" THEN loading \ {"commit"} ELSE loading
            /\ overlap' = (overlap \/ (Step(c) = "commit" /\
                             \E d \in calls \ {c} : "commit" \in d.command.flags))
    /\ message' = IF Step(c) = "commit" THEN None ELSE message
    /\ errors' = errors \ (CASE Step(c) = "pull" -> {"push"}
                             [] c.command = Push -> {"pull"}
                             [] c.command = Sync -> {"pull", "push", "sync"}
                             [] OTHER -> {})
    /\ UNCHANGED <<active, applied, prompt, made, switches, left>>

Fails(c) ==
    /\ c \in calls /\ c.command.flags \cap Reset = {}
    /\ Ended(c)
    /\ errors' = errors \cup {IF Step(c) = "stage" THEN "commit" ELSE Step(c)}
    /\ UNCHANGED <<active, message, applied, prompt, made, switches, left>>

Generated(c) ==
    /\ c \in calls /\ c.command = Generate /\ Ended(c)
    /\ \/ message' = (IF StillActive(c) THEN c.of ELSE message) /\ UNCHANGED errors
       \/ errors' = (IF StillActive(c) THEN errors \cup {"message"} ELSE errors)
          /\ UNCHANGED message
    /\ UNCHANGED <<active, applied, prompt, made, switches, left>>

WorktreeApplied(c) ==
    /\ c \in calls /\ c.command = ApplyWorktree /\ Ended(c)
    /\ \E o \in {"success", "error"} :
          applied' = IF StillActive(c) THEN [of |-> c.of, shows |-> o] ELSE applied
    /\ UNCHANGED <<active, message, errors, prompt, made, switches, left>>

(* The success is shown for a while.                                       *)
SuccessExpires ==
    /\ applied.shows = "success" /\ applied' = [of |-> None, shows |-> "none"]
    /\ UNCHANGED <<active, message, loading, errors, prompt, calls, made, switches, overlap, left>>

----------------------------------------------------------------------------
(* What becomes of the prompt, whichever is open by now.                   *)
PromptFails == [prompt EXCEPT !.error = @ \/ prompt.of # None]
PromptCloses == [of |-> None, error |-> FALSE]

(* The repository is there: create the remote, if wanted, or close.        *)
Initialized(c) ==
    /\ \/ /\ calls' = (calls \ {c}) \cup {[c EXCEPT !.at = 4]}
          /\ loading' = (loading \ TakenBack(c)) \cup {"create"}
          /\ left' = (left \/ ~StillActive(c)) /\ UNCHANGED prompt
       \/ /\ calls' = calls \ {c} /\ loading' = loading \ TakenBack(c)
          /\ prompt' = PromptCloses /\ UNCHANGED left
    /\ overlap' = (overlap \/ Overlaps(c))

InitStep(c) ==
    /\ c \in calls /\ c.command = InitGitRepo
    /\ CASE Step(c) = "init" ->
              \/ ~StillActive(c) /\ Ended(c) /\ UNCHANGED <<prompt, left>>
              \/ StillActive(c) /\ Initialized(c)
              \/ /\ StillActive(c) /\ calls' = (calls \ {c}) \cup {[c EXCEPT !.at = 2]}
                 /\ UNCHANGED <<loading, overlap, prompt, left>>
              \/ Ended(c) /\ prompt' = PromptFails /\ UNCHANGED left
         [] Step(c) = "ask" ->
              \/ Ended(c) /\ UNCHANGED <<prompt, left>>
              \/ /\ StillActive(c) /\ calls' = (calls \ {c}) \cup {[c EXCEPT !.at = 3]}
                 /\ UNCHANGED <<loading, overlap, prompt, left>>
         [] Step(c) = "force" ->
              \/ Initialized(c)
              \/ Ended(c) /\ prompt' = PromptFails /\ UNCHANGED left
         [] Step(c) = "create" ->
              \/ Ended(c) /\ StillActive(c) /\ prompt' = PromptCloses /\ UNCHANGED left
              \/ Ended(c) /\ prompt' = PromptFails /\ UNCHANGED left
    /\ UNCHANGED <<active, message, errors, applied, made, switches>>

----------------------------------------------------------------------------
Init ==
    /\ active = None /\ message = None /\ loading = {} /\ errors = {}
    /\ applied = [of |-> None, shows |-> "none"] /\ prompt = PromptCloses
    /\ calls = {} /\ made = 0 /\ switches = 0
    /\ overlap = FALSE /\ left = FALSE

Next ==
    \/ \E w \in Someone : Switch(w)
    \/ Write \/ OpenPrompt \/ CancelPrompt \/ SuccessExpires
    \/ \E command \in Commands : Start(command)
    \/ \E c \in calls : Succeeds(c) \/ Fails(c) \/ Generated(c) \/ WorktreeApplied(c) \/ InitStep(c)

Spec == Init /\ [][Next]_vars

----------------------------------------------------------------------------
(* What a command leaves is shown in the workspace it was called in: a      *)
(* generated message and the outcome of a worktree never appear in the      *)
(* workspace the user went to meanwhile.  Nothing is shown as running when  *)
(* nothing runs, and while a commit runs its flag keeps a second one back,  *)
(* unless the tail of a combined command has taken the flag with it.  The    *)
(* flag of a remote repository begun for a workspace that was left stays up.*)
OutcomesStayHome ==
    /\ message \in {None, active} /\ applied.of \in {None, active}
    /\ calls = {} => loading \subseteq {f \in {"create"} : left}
    /\ (\E c \in calls : Step(c) \in {"stage", "commit"}) => "commit" \in loading \/ overlap
=============================================================================
