------------------------------- MODULE GitFiles -------------------------------
(***************************************************************************)
(* The files of the git panel: which are selected (useDiffFileSelection),   *)
(* the menu of a file and what it stages, unstages and discards             *)
(* (GitDiffPanel, GitDiffPanelShared), and the errors of git the user has   *)
(* dismissed.  A file is a number, its place in the order of its section;   *)
(* the staged rows come before the others.                                 *)
(***************************************************************************)
EXTENDS Naturals, FiniteSets, Sequences, SequencesExt

CONSTANTS
    Files,        \* numbers
    Errors,       \* messages of a failed command or poll
    NoFile,
    MaxSteps      \* bound on changes of the list and of the errors

VARIABLES
    staged, unstaged,   \* the files of each section
    selected, last,     \* the selection, and the file clicked last
    mode,               \* of the panel: its errors are the ones of its mode
    errors, dismissed,  \* by mode: errors there are, errors dismissed
    menu,               \* the files of the menu's item that runs, and what it does
    done,               \* history: whether a discard touched a file nobody confirmed
    steps

vars == <<staged, unstaged, selected, last, mode, errors, dismissed, menu, done, steps>>

Modes == {"diff", "log"}
Listed == staged \cup unstaged
Idle == [does |-> "none", rest |-> {}, asked |-> {}]

TypeOK ==
    /\ staged \subseteq Files /\ unstaged \subseteq Files
    /\ selected \subseteq Files /\ last \in Files \cup {NoFile}
    /\ mode \in Modes /\ errors \in [Modes -> SUBSET Errors]
    /\ dismissed \subseteq Errors
    /\ menu \in [does : {"none", "ask", "stage", "unstage", "discard"},
                 rest : SUBSET Files, asked : SUBSET Files]
    /\ done \subseteq Files /\ steps \in 0..MaxSteps

Init ==
    /\ staged = {} /\ unstaged = {} /\ selected = {} /\ last = NoFile
    /\ mode = "diff" /\ errors = [m \in Modes |-> {}] /\ dismissed = {}
    /\ menu = Idle /\ done = {} /\ steps = 0

----------------------------------------------------------------------------
(* The rows in order; filesKey joins their paths without their section.    *)
Rows(s, u) == SetToSortSeq(s, <) \o SetToSortSeq(u, <)

(* Mutant: the key counts the rows.                                        *)
RowCount(s, u) == <<Cardinality(s), Cardinality(u)>>

FilesKey(s, u) == Rows(s, u)

IndexOf(rows, f) == CHOOSE i \in DOMAIN rows : rows[i] = f /\ \A j \in 1..i - 1 : rows[j] # f

(* The rows between the file clicked last and this one, both included.     *)
RowsBetween(f) ==
    LET rows == Rows(staged, unstaged)
        i == IndexOf(rows, f)   j == IndexOf(rows, last)
    IN  {rows[k] : k \in {k \in DOMAIN rows : (i <= k /\ k <= j) \/ (j <= k /\ k <= i)}}

panel == <<mode, errors, dismissed>>

(* A status arrives: the selection ends if the rows are other ones.        *)
StatusArrives ==
    /\ steps < MaxSteps /\ steps' = steps + 1
    /\ staged' \in SUBSET Files /\ unstaged' \in SUBSET Files
    /\ IF FilesKey(staged', unstaged') = FilesKey(staged, unstaged)
       THEN UNCHANGED <<selected, last>>
       ELSE selected' = {} /\ last' = NoFile
    /\ UNCHANGED <<panel, menu, done>>

(* handleFileClick: with the meta key, with shift, or alone.  Shift without *)
(* a file clicked before is a plain click.                                 *)
ToggleFile(f) ==
    /\ f \in Listed
    /\ selected' = IF f \in selected THEN selected \ {f} ELSE selected \cup {f}
    /\ last' = f
    /\ UNCHANGED <<staged, unstaged, panel, menu, done, steps>>

ExtendTo(f) ==
    /\ f \in Listed /\ last # NoFile
    /\ selected' = IF last \in Listed THEN selected \cup RowsBetween(f) ELSE selected
    /\ UNCHANGED <<staged, unstaged, last, panel, menu, done, steps>>

SelectOnly(f) ==
    /\ f \in Listed
    /\ selected' = {f} /\ last' = f
    /\ UNCHANGED <<staged, unstaged, panel, menu, done, steps>>

ClickBeside ==
    /\ selected' = {} /\ last' = NoFile
    /\ UNCHANGED <<staged, unstaged, panel, menu, done, steps>>

----------------------------------------------------------------------------
(* The targets of the menu on f: the selection if f is in a larger one.    *)
Targets(f) == IF f \in selected /\ Cardinality(selected) > 1 THEN selected ELSE {f}

(* showFileMenu, and the item chosen from it: files are taken as they were  *)
(* when the menu opened, one after the other.                              *)
ShowFileMenu(f) ==
    /\ f \in Listed /\ menu = Idle
    /\ IF f \in selected THEN UNCHANGED <<selected, last>> ELSE selected' = {f} /\ last' = f
    /\ \/ menu' = [does |-> "unstage", rest |-> Targets(f) \cap staged, asked |-> {}]
       \/ menu' = [does |-> "stage", rest |-> Targets(f) \cap unstaged, asked |-> {}]
       \/ menu' = [does |-> "ask", rest |-> Targets(f), asked |-> {}]
    /\ menu'.rest # {}
    /\ UNCHANGED <<staged, unstaged, panel, done, steps>>

(* The buttons of a section, for all of its rows.                          *)
SectionAction ==
    /\ menu = Idle
    /\ \/ menu' = [does |-> "stage", rest |-> unstaged, asked |-> {}]
       \/ menu' = [does |-> "unstage", rest |-> staged, asked |-> {}]
       \/ menu' = [does |-> "ask", rest |-> unstaged, asked |-> {}]
    /\ menu'.rest # {}
    /\ UNCHANGED <<staged, unstaged, selected, last, panel, done, steps>>

(* Mutant: what is selected when the answer comes is discarded.            *)
SelectedNow == selected

(* discardFiles goes through the paths it asked about.                     *)
ToDiscard == menu.rest

(* discardFiles: the user's answer.                                        *)
AnswerDiscard ==
    /\ menu.does = "ask"
    /\ menu' \in {Idle, [does |-> "discard", rest |-> ToDiscard, asked |-> menu.rest]}
    /\ UNCHANGED <<staged, unstaged, selected, last, panel, done, steps>>

(* One file is done, and the status is polled at leisure.                  *)
FileDone ==
    /\ menu.does \in {"stage", "unstage", "discard"}
    /\ IF menu.rest = {} THEN menu' = Idle /\ UNCHANGED done
       ELSE \E f \in menu.rest :
               /\ menu' = [menu EXCEPT !.rest = @ \ {f}]
               /\ done' = IF menu.does = "discard" /\ f \notin menu.asked
                          THEN done \cup {f} ELSE done
    /\ UNCHANGED <<staged, unstaged, selected, last, panel, steps>>

----------------------------------------------------------------------------
(* Mutant: what was dismissed stays dismissed.                             *)
DismissedKept(d, active) == d

(* The effect on the candidates: those that are no more are forgotten.     *)
StillDismissed(d, active) == d \cap active

ErrorsChange ==
    /\ steps < MaxSteps /\ steps' = steps + 1
    /\ \E m \in Modes : \E es \in SUBSET Errors : errors' = [errors EXCEPT ![m] = es]
    /\ dismissed' = StillDismissed(dismissed, errors'[mode])
    /\ UNCHANGED <<staged, unstaged, selected, last, mode, menu, done>>

(* The mode is part of an error's signature.                               *)
ModeChange ==
    /\ steps < MaxSteps /\ steps' = steps + 1
    /\ mode' \in Modes \ {mode}
    /\ dismissed' = {}
    /\ UNCHANGED <<staged, unstaged, selected, last, errors, menu, done>>

DismissError ==
    /\ \E e \in errors[mode] \ dismissed : dismissed' = dismissed \cup {e}
    /\ UNCHANGED <<staged, unstaged, selected, last, mode, errors, menu, done, steps>>

Next ==
    \/ StatusArrives \/ ClickBeside
    \/ \E f \in Files : ToggleFile(f) \/ ExtendTo(f) \/ SelectOnly(f) \/ ShowFileMenu(f)
    \/ SectionAction \/ AnswerDiscard \/ FileDone
    \/ ErrorsChange \/ ModeChange \/ DismissError

Spec == Init /\ [][Next]_vars

----------------------------------------------------------------------------
(* A file is selected only while it is listed, so that no menu reaches a    *)
(* file the user does not see; a discard touches only files the user was    *)
(* asked about, whatever was selected or polled meanwhile; and an error     *)
(* that goes away and comes back is shown again (filesKey, discardFiles and *)
(* the effect on sidebarErrorCandidates).                                  *)
ActsOnWhatIsSeen ==
    /\ selected \subseteq Listed
    /\ last # NoFile => last \in Listed
    /\ done = {}
    /\ dismissed \subseteq errors[mode]
=============================================================================
