---------------------------- MODULE ComposerDrafts ----------------------------
(***************************************************************************)
(* What is being written: the text, images and prompt history of the        *)
(* composer of a thread or of a draft of one, and of the home of a workspace *)
(* (Composer, WorkspaceHome, useComposerController, useComposerImages,      *)
(* useComposerInsert, usePromptHistory).                                    *)
(*                                                                         *)
(* The composer is one component for all threads: it has a text of its own  *)
(* that follows the draft of the thread shown when that draft changes.  It  *)
(* and the home are never both there, and each reads the stored history anew.*)
(***************************************************************************)
EXTENDS Naturals

CONSTANTS
    Threads, Workspaces,
    None,           \* stands for what is from the history
    WorkspaceOf,    \* of each thread
    MaxMoves,       \* bound: changes of what is shown
    MaxSent         \* bound: images picked and prompts sent

VARIABLES
    at,         \* the workspace, and its thread or draft or home, that is shown
    text,       \* Composer's text and whether the history is being gone through
    drafts,     \* composerDraftsByThread, draftsByWorkspace
    images,     \* imagesByThread
    picks,      \* images being picked, pasted or dropped, with where that began
    sends,      \* messages queued or being sent
    memory,     \* historyByKey of the component that is there
    stored,     \* the histories in localStorage
    runs,       \* submissions of homes, with the memory of a component that is gone
    noted,      \* history: what was typed, attached and recorded; what is not covered
    spent

vars == <<at, text, drafts, images, picks, sends, memory, stored, runs, noted, spent>>

Places == {<<WorkspaceOf[t], t>> : t \in Threads} \cup (Workspaces \X {"draft", "home"})
Key(p) == IF p[2] \in Threads THEN p[2] ELSE p
Keys == {Key(p) : p \in Places}
Homes == Workspaces \X {"home"}
Kept == Threads \cup Homes     \* what has a draft of its own
Prompts == 1..MaxSent
Images == Keys \X (1..MaxSent)
Texts == SUBSET (Keys \cup {None})    \* where its parts were typed, or None
Unread == {0}

TypeOK ==
    /\ at \in Places
    /\ text \in [of : Texts, past : BOOLEAN]
    /\ drafts \in [Kept -> Texts]
    /\ images \in [Keys -> SUBSET Images] /\ picks \subseteq Images
    /\ sends \subseteq [key : Keys, id : Prompts, of : Texts, with : SUBSET Images, queued : BOOLEAN]
    /\ memory \in [Workspaces -> (SUBSET Prompts) \cup {Unread}]
    /\ stored \in [Workspaces -> SUBSET Prompts]
    /\ runs \subseteq [ws : Workspaces, id : Prompts, frozen : (SUBSET Prompts) \cup {Unread}]
    /\ noted \in [typed : SUBSET Kept, attached : SUBSET Images,
                  recorded : [Workspaces -> SUBSET Prompts],
                  strayed : BOOLEAN, dropped : BOOLEAN, late : BOOLEAN]
    /\ spent \in [moves : 0..MaxMoves, sent : 0..MaxSent]

----------------------------------------------------------------------------
AtHome(p) == p[2] = "home"
Draft(p) == IF p[2] \in Threads THEN drafts[p[2]] ELSE {}

(* Composer's effect on draftText: the text follows a draft that changed.   *)
ShownText(p, q) == IF Draft(q) = Draft(p) THEN text.of ELSE Draft(q)

(* usePromptHistory's effect on the key: a history not read yet is read.    *)
ReadAt(mem, w) == [mem EXCEPT ![w] = IF @ = Unread THEN stored[w] ELSE @]

(* Something else is shown.  A component that comes has nothing in memory;   *)
(* one that goes leaves its submissions the memory it had.                  *)
Go(p) ==
    LET stays == AtHome(at) = AtHome(p)
        fresh == [w \in Workspaces |-> Unread]
    IN  /\ spent.moves < MaxMoves /\ p # at
        /\ spent' = [spent EXCEPT !.moves = @ + 1]
        /\ at' = p
        /\ text' = CASE AtHome(p) -> [of |-> {}, past |-> FALSE]
                     [] stays /\ ~AtHome(p) -> [of |-> ShownText(at, p), past |-> text.past /\ p[1] = at[1]]
                     [] OTHER -> [of |-> Draft(p), past |-> FALSE]
        /\ memory' = ReadAt(IF stays THEN memory ELSE fresh, p[1])
        /\ runs' = IF stays THEN runs
                   ELSE {IF r.frozen = Unread THEN [r EXCEPT !.frozen = memory[r.ws]] ELSE r : r \in runs}
        /\ noted' = [noted EXCEPT !.strayed = @ \/ (stays /\ at[2] = "draft" /\ text.of # {})]
        /\ UNCHANGED <<drafts, images, picks, sends, stored>>

(* setComposerText: the draft of a thread is kept, of none it is not.       *)
Write(of, past) ==
    /\ text' = [of |-> of, past |-> past]
    /\ drafts' = IF at[2] \in Threads THEN [drafts EXCEPT ![at[2]] = of] ELSE drafts

TypeText ==
    /\ ~AtHome(at) /\ Key(at) \notin text.of
    /\ Write(text.of \cup {Key(at)}, FALSE)
    /\ noted' = [noted EXCEPT !.typed = @ \cup ({Key(at)} \cap Threads)]
    /\ UNCHANGED <<at, images, picks, sends, memory, stored, runs, spent>>
Erase ==
    /\ ~AtHome(at) /\ text.of # {}
    /\ Write({}, FALSE)
    /\ noted' = [noted EXCEPT !.typed = @ \ {Key(at)}]
    /\ UNCHANGED <<at, images, picks, sends, memory, stored, runs, spent>>

(* handleHistoryKeyDown: the arrows replace a text that is empty or from the*)
(* history, and one that came while the history was being gone through.     *)
Recall ==
    /\ ~AtHome(at) /\ memory[at[1]] # {}
    /\ text.past \/ (text.of = {} /\ images[Key(at)] = {})
    /\ Write({None}, TRUE)
    /\ noted' = [noted EXCEPT !.dropped = @ \/ text.of \cap Keys # {}]
    /\ UNCHANGED <<at, images, picks, sends, memory, stored, runs, spent>>

(* The home writes its draft itself.                                        *)
TypeAtHome ==
    /\ AtHome(at) /\ at \notin drafts[at]
    /\ drafts' = [drafts EXCEPT ![at] = @ \cup {at}]
    /\ noted' = [noted EXCEPT !.typed = @ \cup {at}]
    /\ UNCHANGED <<at, text, images, picks, sends, memory, stored, runs, spent>>

(* handleInsertComposerText: what is inserted is added to the kept draft.   *)
Insert ==
    /\ Key(at) \in Kept
    /\ drafts' = [drafts EXCEPT ![Key(at)] = @ \cup {Key(at)}]
    /\ text' = IF AtHome(at) THEN text ELSE [of |-> drafts'[Key(at)], past |-> text.past]
    /\ noted' = [noted EXCEPT !.typed = @ \cup {Key(at)}]
    /\ drafts' # drafts
    /\ UNCHANGED <<at, images, picks, sends, memory, stored, runs, spent>>

----------------------------------------------------------------------------
(* recordHistory, with the memory of the component that calls it.           *)
RecordedAs(w, p, mem) == stored' = [stored EXCEPT ![w] = mem \cup {p}]
Remembered(w, p) == memory' = [memory EXCEPT ![w] = (IF @ = Unread THEN {} ELSE @) \cup {p}]

(* Composer's handleSend: the text is recorded and gone at once; a message   *)
(* that is queued takes its images, another when it is answered.            *)
Send(queued) ==
    LET k == Key(at)
        p == spent.sent + 1
    IN  /\ ~AtHome(at) /\ p <= MaxSent
        /\ text.of # {} \/ images[k] # {}
        /\ queued => k \in Threads
        /\ spent' = [spent EXCEPT !.sent = p]
        /\ Write({}, FALSE)
        /\ sends' = sends \cup {[key |-> k, id |-> p, of |-> text.of, with |-> images[k], queued |-> queued]}
        /\ images' = IF queued THEN [images EXCEPT ![k] = {}] ELSE images
        /\ IF text.of # {}
           THEN RecordedAs(at[1], p, memory[at[1]]) /\ Remembered(at[1], p)
           ELSE UNCHANGED <<stored, memory>>
        /\ noted' = [noted EXCEPT
              !.typed = @ \ {k},
              !.attached = IF queued THEN @ \ images[k] ELSE @,
              !.recorded[at[1]] = IF text.of # {} THEN @ \cup {p} ELSE @]
        /\ UNCHANGED <<at, picks, runs>>

(* useQueuedSend's handleSend, once answered: clearActiveImages of where it  *)
(* was called, with whatever was attached there meanwhile.                  *)
WhereShown(s) == Key(at)
WhereSent(s) == s.key
Answered(s) ==
    /\ ~s.queued
    /\ sends' = sends \ {s}
    /\ images' = [images EXCEPT ![WhereSent(s)] = {}]
    /\ noted' = [noted EXCEPT !.attached = @ \ s.with,
                              !.dropped = @ \/ ~(images[s.key] \subseteq s.with)]
    /\ UNCHANGED <<at, text, drafts, picks, memory, stored, runs, spent>>

(* The queue sends it, or handleEditQueued takes it back into the composer.  *)
Flushed(s) ==
    /\ s.queued /\ sends' = sends \ {s}
    /\ UNCHANGED <<at, text, drafts, images, picks, memory, stored, runs, noted, spent>>
EditQueued(s) ==
    /\ s.queued /\ s.key = at[2]
    /\ sends' = sends \ {s}
    /\ images' = [images EXCEPT ![s.key] = s.with]
    /\ Write(s.of, FALSE)
    /\ noted' = [noted EXCEPT
          !.typed = IF s.key \in s.of THEN @ \cup {s.key} ELSE @,
          !.attached = @ \cup s.with,
          !.dropped = @ \/ text.of # {} \/ images[s.key] # {}]
    /\ UNCHANGED <<at, picks, memory, stored, runs, spent>>

(* pickImages, handlePaste, handleDrop: answered later, for where they began.*)
Pick ==
    LET i == <<Key(at), spent.sent + 1>>
    IN  /\ ~AtHome(at) /\ spent.sent < MaxSent
        /\ spent' = [spent EXCEPT !.sent = @ + 1]
        /\ picks' = picks \cup {i}
        /\ UNCHANGED <<at, text, drafts, images, sends, memory, stored, runs, noted>>
AttachTo(i) == i[1]
Picked(i) ==
    /\ picks' = picks \ {i}
    /\ images' = [images EXCEPT ![AttachTo(i)] = @ \cup {i}]
    /\ noted' = [noted EXCEPT !.attached = @ \cup {i}]
    /\ UNCHANGED <<at, text, drafts, sends, memory, stored, runs, spent>>
RemoveImage(i) ==
    /\ i \in images[Key(at)]
    /\ images' = [images EXCEPT ![Key(at)] = @ \ {i}]
    /\ noted' = [noted EXCEPT !.attached = @ \ {i}]
    /\ UNCHANGED <<at, text, drafts, picks, sends, memory, stored, runs, spent>>

(* handleRunSubmit: the draft is gone at once, the prompt is recorded when   *)
(* the run is over, by the component that began it.                         *)
Submit ==
    LET p == spent.sent + 1
    IN  /\ AtHome(at) /\ drafts[at] # {} /\ p <= MaxSent
        /\ ~\E r \in runs : r.ws = at[1]
        /\ spent' = [spent EXCEPT !.sent = p]
        /\ drafts' = [drafts EXCEPT ![at] = {}]
        /\ runs' = runs \cup {[ws |-> at[1], id |-> p, frozen |-> Unread]}
        /\ noted' = [noted EXCEPT !.typed = @ \ {at}]
        /\ UNCHANGED <<at, text, images, picks, sends, memory, stored>>
RunEnds(r) ==
    /\ runs' = runs \ {r}
    /\ IF r.frozen = Unread
       THEN RecordedAs(r.ws, r.id, memory[r.ws]) /\ Remembered(r.ws, r.id)
       ELSE RecordedAs(r.ws, r.id, r.frozen) /\ UNCHANGED memory
    /\ noted' = [noted EXCEPT !.recorded[r.ws] = @ \cup {r.id},
                              !.late = @ \/ r.frozen # Unread]
    /\ UNCHANGED <<at, text, drafts, images, picks, sends, spent>>

Init ==
    /\ at \in {p \in Places : p[2] \in Threads} /\ text = [of |-> {}, past |-> FALSE]
    /\ drafts = [k \in Kept |-> {}] /\ images = [k \in Keys |-> {}] /\ picks = {} /\ sends = {}
    /\ stored = [w \in Workspaces |-> {}] /\ memory = [w \in Workspaces |-> IF w = at[1] THEN {} ELSE Unread]
    /\ runs = {}
    /\ noted = [typed |-> {}, attached |-> {}, recorded |-> stored,
                strayed |-> FALSE, dropped |-> FALSE, late |-> FALSE]
    /\ spent = [moves |-> 0, sent |-> 0]

Next ==
    \/ \E p \in Places : Go(p)
    \/ TypeText \/ Erase \/ Recall \/ TypeAtHome \/ Insert
    \/ \E queued \in BOOLEAN : Send(queued)
    \/ \E s \in sends : Answered(s) \/ Flushed(s) \/ EditQueued(s)
    \/ Pick \/ \E i \in Images : (i \in picks /\ Picked(i)) \/ RemoveImage(i)
    \/ Submit \/ \E r \in runs : RunEnds(r)

Spec == Init /\ [][Next]_vars

----------------------------------------------------------------------------
(* What is written is of where it was written, and what was typed is there   *)
(* until it is sent or erased: but for a text typed in a draft of a thread,  *)
(* which stays over a thread without one, and for what a queued message that *)
(* is edited, or the history after a switch, is written over.               *)
DraftsStayHome ==
    ~noted.strayed =>
        /\ \A k \in Kept : drafts[k] \subseteq {k, None}
        /\ ~AtHome(at) => text.of \subseteq {Key(at), None}
        /\ ~noted.dropped => \A k \in noted.typed : k \in drafts[k]

(* An image is where its picking began until it is removed or sent.          *)
ImagesStayHome ==
    ~noted.dropped => images = [k \in Keys |-> {i \in noted.attached : i[1] = k}]

(* Every prompt is in the history of its workspace, but for what a run that  *)
(* ended after its home was left wrote over.                                *)
HistoryKept == ~noted.late => stored = noted.recorded

(* What keeps the three: a thread's composer holds its draft (unless a text  *)
(* strayed), an image knows where its picking began, and a component that is *)
(* there has read the history of each workspace it was shown for, and has    *)
(* it as it is stored; a submission is of the component that is there, or   *)
(* has the memory of one that is gone.                                      *)
TextIsDraft == at[2] \in Threads => text.of = drafts[at[2]]
QueuedOfThreads == \A s \in sends : s.queued => s.key \in Threads
SendsStayHome == \A s \in sends : s.of \subseteq {s.key, None}
PicturesStayHome ==
    /\ \A k \in Keys : \A i \in images[k] : i[1] = k
    /\ \A s \in sends : \A i \in s.with : i[1] = s.key
MemoryOK ==
    /\ memory[at[1]] # Unread
    /\ \A r \in runs : r.frozen = Unread => AtHome(at) /\ memory[r.ws] # Unread
    /\ ~noted.late => \A w \in Workspaces : memory[w] \in {Unread, stored[w]}
IInv ==
    /\ TypeOK /\ QueuedOfThreads
    /\ ~noted.strayed => TextIsDraft /\ SendsStayHome
    /\ PicturesStayHome /\ MemoryOK
    /\ DraftsStayHome /\ ImagesStayHome /\ HistoryKept
=============================================================================
