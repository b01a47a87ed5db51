---------------------------- MODULE ReviewPrompt ----------------------------
(***************************************************************************)
(* The prompt of /review (useReviewPrompt, ReviewInlinePrompt) and the start *)
(* of a review (startReviewTarget in useThreadMessaging).  The prompt is of  *)
(* one workspace and one thread, and is closed when another is looked at;    *)
(* the branches and commits it offers are loaded once it is open.  A call    *)
(* remembers the workspace of its prompt, not which opening it was of: the   *)
(* models number the openings to tell what an answer may have mixed up.      *)
(***************************************************************************)
EXTENDS Naturals, Sequences

CONSTANTS
    Workspaces, None,
    Threads, WorkspaceOf,
    Old,            \* threads there are from the start; others are started
    Answers,        \* what the repository may answer: lists of branches and of commits
    MaxOpens, MaxSubmits, MaxMoves    \* bounds

VARIABLES
    view,           \* workspace looked at, the active thread of each, and reviewDeliveryMode
    known,          \* threads there are
    prompt,         \* the prompt, or None
    high,           \* index highlighted in each list
    opens,          \* openings so far
    loads,          \* openings whose lists are being loaded, with their workspace
    submits,        \* startReviewTarget calls under way
    reviews,        \* reviews the server has taken
    running,        \* threads whose review runs
    marks,          \* threads shown as working
    noted,          \* what is not covered
    moves

vars == <<view, known, prompt, high, opens, loads, submits, reviews, running, marks, noted, moves>>

Kinds == {"baseBranch", "commit"}
Presets == Kinds \cup {"uncommitted", "custom"}
Items == UNION {{a[k][i] : i \in 1..Len(a[k])} : a \in Answers, k \in Kinds} \cup {None}
Lists == UNION {{a[k] : k \in Kinds} : a \in Answers} \cup {<<>>}
Prompts == [n : 1..MaxOpens, ws : Workspaces, thread : Threads \cup {None}, step : Kinds \cup {"preset", "custom"},
            lists : [Kinds -> Lists], loading : BOOLEAN, selected : [Kinds -> Items], submitting : BOOLEAN]
(* n: the opening; snap: the thread of the prompt; thread: where the review   *)
(* is asked for, None while that is being started.                          *)
Submits == [n : 1..MaxOpens, ws : Workspaces, snap : Threads \cup {None}, thread : Threads \cup {None},
            target : Presets \X Items, id : 1..MaxSubmits]
Thread(w) == view.active[w]
(* The thread of the prompt works for a review that is not detached.         *)
Working(t) == IF view.detached THEN {} ELSE {t} \ {None}

TypeOK ==
    /\ view \in [detached : BOOLEAN, at : Workspaces, active : [Workspaces -> Threads \cup {None}]]
    /\ known \subseteq Threads /\ running \subseteq Threads /\ marks \subseteq Threads
    /\ prompt \in Prompts \cup {None} /\ high \in [Kinds -> 1..3]
    /\ opens \in 0..MaxOpens /\ moves \in 0..MaxMoves
    /\ loads \subseteq (1..MaxOpens) \X Workspaces
    /\ submits \subseteq Submits /\ reviews \subseteq Submits
    /\ noted \in [asked : 0..MaxSubmits, reloaded : BOOLEAN, crossed : BOOLEAN, refused : SUBSET Threads]

Move == moves < MaxMoves /\ moves' = moves + 1
Open == prompt # None
(* What the lists offer first, which is main if there is a branch of that name.*)
FirstOf(s) == IF s = <<>> THEN None ELSE s[1]
IndexOf(s, x) == IF \E i \in 1..Len(s) : s[i] = x THEN CHOOSE i \in 1..Len(s) : s[i] = x ELSE 1
Reset == [k \in Kinds |-> 1]
(* The effect that closes the prompt when another workspace or thread is      *)
(* looked at.                                                               *)
Mismatch(p, v) == p # None /\ (p.ws # v.at \/ p.thread # v.active[v.at])
Kept(p, v) == IF Mismatch(p, v) THEN None ELSE p

----------------------------------------------------------------------------
Look(w, t) ==
    /\ Move /\ t \in known \cup {None} /\ (t # None => WorkspaceOf[t] = w)
    /\ view' = [view EXCEPT !.at = w, !.active[w] = t] /\ view' # view
    /\ prompt' = Kept(prompt, view')
    /\ UNCHANGED <<known, high, opens, loads, submits, reviews, running, marks, noted>>

(* openReviewPrompt: by a message /review in the composer.                   *)
OpenReviewPrompt ==
    /\ opens < MaxOpens /\ opens' = opens + 1
    /\ prompt' = [n |-> opens + 1, ws |-> view.at, thread |-> Thread(view.at), step |-> "preset",
                  lists |-> [k \in Kinds |-> <<>>], loading |-> TRUE, selected |-> [k \in Kinds |-> None],
                  submitting |-> FALSE]
    /\ high' = Reset
    /\ loads' = loads \cup {<<opens + 1, view.at>>}
    /\ UNCHANGED <<view, known, submits, reviews, running, marks, noted, moves>>
CloseReviewPrompt ==
    /\ Open /\ prompt' = None
    /\ UNCHANGED <<view, known, high, opens, loads, submits, reviews, running, marks, noted, moves>>

(* The lists come, whichever opening in this workspace asked for them; what   *)
(* was chosen before stays chosen.                                          *)
Filled(p, a) ==
    [p EXCEPT !.lists = a, !.loading = FALSE,
              !.selected = [k \in Kinds |-> IF @[k] # None THEN @[k] ELSE FirstOf(a[k])]]
ListsCome(l, a) ==
    /\ loads' = loads \ {l}
    /\ IF Open /\ prompt.ws = l[2]
       THEN /\ prompt' = Filled(prompt, a)
            /\ high' = [k \in Kinds |-> IndexOf(a[k], prompt'.selected[k])]
            /\ noted' = [noted EXCEPT !.reloaded = @ \/ l[1] # prompt.n]
       ELSE UNCHANGED <<prompt, high, noted>>
    /\ UNCHANGED <<view, known, opens, submits, reviews, running, marks, moves>>

----------------------------------------------------------------------------
(* What the user does in the prompt, when nothing is being submitted.        *)
Free == Open /\ ~prompt.submitting
ShowPresetStep ==
    /\ Free /\ prompt.step # "preset" /\ prompt' = [prompt EXCEPT !.step = "preset"]
    /\ UNCHANGED <<view, known, high, opens, loads, submits, reviews, running, marks, noted, moves>>
ChoosePreset(s) ==
    /\ Free /\ prompt.step = "preset" /\ s # "uncommitted"
    /\ high' = Reset
    /\ prompt' = [prompt EXCEPT !.step = s,
                                !.selected = [k \in Kinds |-> IF k = s THEN FirstOf(prompt.lists[k]) ELSE @[k]]]
    /\ UNCHANGED <<view, known, opens, loads, submits, reviews, running, marks, noted, moves>>
(* selectBranchAtIndex and selectCommitAtIndex: with the mouse or the arrows. *)
SelectAtIndex(k, i) ==
    /\ Free /\ prompt.step = k /\ i \in 1..Len(prompt.lists[k]) /\ i # high[k]
    /\ high' = [high EXCEPT ![k] = i]
    /\ prompt' = [prompt EXCEPT !.selected[k] = prompt.lists[k][i]]
    /\ UNCHANGED <<view, known, opens, loads, submits, reviews, running, marks, noted, moves>>
SelectBranch(i) == SelectAtIndex("baseBranch", i)
SelectCommit(i) == SelectAtIndex("commit", i)

(* runReviewTarget and startReviewTarget: a thread is started for the review  *)
(* if none is active, and the thread is shown as working.                    *)
RunReviewTarget(target) ==
    LET s == [n |-> prompt.n, ws |-> prompt.ws, snap |-> prompt.thread, thread |-> Thread(prompt.ws),
              target |-> target, id |-> noted.asked + 1]
    IN  /\ s.id <= MaxSubmits
        /\ submits' = submits \cup {s}
        /\ prompt' = [prompt EXCEPT !.submitting = TRUE]
        /\ marks' = marks \cup Working(s.thread)
        /\ noted' = [noted EXCEPT !.asked = s.id]
        /\ UNCHANGED <<view, known, high, opens, loads, reviews, running, moves>>
ReviewUncommitted == Free /\ prompt.step = "preset" /\ RunReviewTarget(<<"uncommitted", None>>)
ConfirmCustom == Free /\ prompt.step = "custom" /\ RunReviewTarget(<<"custom", None>>)
ConfirmSelected(k) ==
    /\ Free /\ prompt.step = k /\ prompt.selected[k] # None
    /\ RunReviewTarget(<<k, prompt.selected[k]>>)
ConfirmBranch == ConfirmSelected("baseBranch")
ConfirmCommit == ConfirmSelected("commit")

(* The thread that was started becomes the active one of its workspace.       *)
ThreadStarted(s) ==
    /\ s.thread = None
    /\ \E t \in Threads \ known :
          /\ WorkspaceOf[t] = s.ws
          /\ known' = known \cup {t}
          /\ view' = [view EXCEPT !.active[s.ws] = t]
          /\ submits' = (submits \ {s}) \cup {[s EXCEPT !.thread = t]}
          /\ marks' = marks \cup Working(t)
    /\ prompt' = Kept(prompt, view')
    /\ UNCHANGED <<high, opens, loads, reviews, running, noted, moves>>

Crossed(s) == Open /\ prompt.n # s.n /\ prompt.ws = s.ws /\ prompt.submitting
Succeeds(s) ==
    /\ s.thread # None
    /\ submits' = submits \ {s} /\ reviews' = reviews \cup {s} /\ running' = running \cup Working(s.thread)
    /\ prompt' = None
    /\ UNCHANGED <<view, known, high, opens, loads, marks, noted, moves>>
(* An error: a thread that could not be started, or a review that the server  *)
(* refused, after which the thread is taken for idle.                        *)
Fails(s) ==
    /\ submits' = submits \ {s}
    /\ marks' = marks \ Working(s.thread)
    /\ prompt' = IF Open /\ prompt.ws = s.ws THEN [prompt EXCEPT !.submitting = FALSE] ELSE prompt
    /\ noted' = [noted EXCEPT !.crossed = @ \/ Crossed(s),
                              !.refused = @ \cup {t \in Working(s.thread) : t \in running \/ \E r \in submits \ {s} : r.thread = t}]
    /\ UNCHANGED <<view, known, high, opens, loads, reviews, running, moves>>
ReviewEnds(t) ==
    /\ t \in running /\ running' = running \ {t} /\ marks' = marks \ {t}
    /\ noted' = [noted EXCEPT !.refused = @ \cup {u \in Working(t) : \E r \in submits : r.thread = t}]
    /\ UNCHANGED <<view, known, prompt, high, opens, loads, submits, reviews, moves>>

Init ==
    /\ view \in [detached : BOOLEAN, at : {CHOOSE w \in Workspaces : TRUE}, active : {[w \in Workspaces |-> None]}]
    /\ known = Old /\ prompt = None /\ high = Reset /\ opens = 0
    /\ loads = {} /\ submits = {} /\ reviews = {} /\ running = {} /\ marks = {}
    /\ noted = [asked |-> 0, reloaded |-> FALSE, crossed |-> FALSE, refused |-> {}] /\ moves = 0

Next ==
    \/ OpenReviewPrompt \/ CloseReviewPrompt \/ ShowPresetStep \/ ReviewUncommitted
    \/ ConfirmBranch \/ ConfirmCommit \/ ConfirmCustom
    \/ \E w \in Workspaces, t \in Threads \cup {None} : Look(w, t)
    \/ \E l \in loads, a \in Answers : ListsCome(l, a)
    \/ \E s \in Presets : ChoosePreset(s)
    \/ \E i \in 1..3 : SelectBranch(i) \/ SelectCommit(i)
    \/ \E s \in submits : ThreadStarted(s) \/ Succeeds(s) \/ Fails(s)
    \/ \E t \in running : ReviewEnds(t)

Spec == Init /\ [][Next]_vars

----------------------------------------------------------------------------
(* What the prompt would start is what it highlights: but for lists that an   *)
(* earlier opening had asked for.                                           *)
StartsWhatIsHighlighted ==
    (Open /\ prompt.step \in Kinds /\ ~noted.reloaded) =>
        LET s == prompt.lists[prompt.step]
        IN  prompt.selected[prompt.step] = IF s = <<>> THEN None ELSE s[high[prompt.step]]

(* The prompt waits exactly for its own submission, and starts one review     *)
(* at most: but when an earlier one in its workspace fails meanwhile.        *)
SubmitsOnce ==
    ~noted.crossed =>
        /\ Open => (prompt.submitting <=> \E s \in submits : s.n = prompt.n)
        /\ \A r, s \in submits \cup reviews : r.n = s.n => r = s

(* A review runs in the thread its prompt was opened in, or in the one        *)
(* started for it.                                                          *)
ReviewsStayHome ==
    \A r \in reviews : WorkspaceOf[r.thread] = r.ws /\ (r.snap # None => r.thread = r.snap)

(* A thread is shown as working exactly while its review is asked for or runs:*)
(* but where another was asked for in the same thread.                       *)
WorksWhileReviewing ==
    \A t \in Threads \ noted.refused :
        t \in marks <=> (t \in running \/ \E s \in submits : t \in Working(s.thread))
=============================================================================
