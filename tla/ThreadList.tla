----------------------------- MODULE ThreadList -----------------------------
(***************************************************************************)
(* The list of threads of one workspace: useThreadActions (list, load       *)
(* older, start, archive), the reducer slice that keeps the list, and the   *)
(* handlers of thread/started and thread/archived with the cascade that     *)
(* archives the sub-agents of an archived thread.                          *)
(*                                                                         *)
(* A listing takes several pages, each an await; what it knew of the list   *)
(* when it was called (the closure of its render) is its `seen`.  What the  *)
(* last page brings and all the dispatches after it are one step.           *)
(* Names, time stamps and the order by activity are left out: the server's  *)
(* order is fixed.                                                         *)
(***************************************************************************)
EXTENDS Naturals, Sequences, FiniteSets, SequencesExt

CONSTANTS
    Threads, None,
    Order,      \* the threads as the server lists them, newest first
    Source,     \* thread |-> "user", "sub" (an agent's own) or "internal"
    ParentOf,   \* thread |-> the parent its source names, or none
    PageSize, Target, MaxPages,   \* THREAD_LIST_PAGE_SIZE, _TARGET_COUNT, maxPages
    MaxSteps    \* bound on the calls made and on what else the user and the server do

VARIABLES
    win,      \* the slice of the reducer and the refs of useThreads
    calls,    \* the calls made, by number
    alive,    \* external: threads the server has, not archived
    events,   \* events under way to the window
    moves,
    asked,    \* history: threads the cascade has asked to archive, with repetitions
    blame     \* a request failed; something wrote the list while a call was under way

vars == <<win, calls, alive, events, moves, asked, blame>>

Call == [op : {"list", "older", "start", "archive", "cascade"}, thread : Threads \cup {None},
         todo : Seq(Threads), seen : Seq(Threads), active : Threads \cup {None},
         working : SUBSET Threads, parent : [Threads -> Threads \cup {None}],
         found : Seq(Threads), at : 0..Len(Order), resume : 0..Len(Order), pages : Nat,
         done : BOOLEAN]

TypeOK ==
    /\ win \in [list : Seq(Threads), active : Threads \cup {None},
                hidden : SUBSET Threads, parent : [Threads -> Threads \cup {None}],
                subs : SUBSET Threads, working : SUBSET Threads, skip : SUBSET Threads,
                loading : BOOLEAN, paging : BOOLEAN, cursor : 0..Len(Order)]
    /\ IsInjective(win.list)
    /\ calls \in Seq(Call) /\ Len(calls) <= MaxSteps
    /\ alive \subseteq Threads /\ events \in Seq({"started", "archived"} \X Threads)
    /\ moves \in 0..MaxSteps /\ asked \in Seq(Threads) /\ blame \subseteq {"failed", "overlap"}

----------------------------------------------------------------------------
(* The reducer.                                                            *)
First(s) == IF s = <<>> THEN None ELSE Head(s)

(* Mutant: a hidden thread is listed again.                                *)
EnsureAny(w, t) ==
    IF t \in ToSet(w.list) THEN w
    ELSE [w EXCEPT !.list = <<t>> \o @, !.working = @ \ {t},
                   !.active = IF @ = None THEN t ELSE @]

Ensure(w, t) ==
    IF t \in w.hidden \/ t \in ToSet(w.list) THEN w
    ELSE [w EXCEPT !.list = <<t>> \o @, !.working = @ \ {t},
                   !.active = IF @ = None THEN t ELSE @]

Hide(w, t) ==
    IF t \in w.hidden THEN w
    ELSE [w EXCEPT !.hidden = @ \cup {t}, !.list = Remove(@, t),
                   !.active = IF @ = t THEN First(Remove(w.list, t)) ELSE @]

Gone(w, t) ==
    [w EXCEPT !.list = Remove(@, t), !.working = @ \ {t}, !.parent[t] = None,
              !.active = IF @ = t THEN First(Remove(w.list, t)) ELSE @]

(* The ancestors of a thread, nearest first, each once.                    *)
Ancestors(parent, t) ==
    LET up[n \in 0..Cardinality(Threads)] ==
            IF n = 0 THEN <<t>>
            ELSE LET p == parent[Last(up[n - 1])] IN
                 IF p = None \/ p \in ToSet(up[n - 1]) THEN up[n - 1]
                 ELSE Append(up[n - 1], p)
    IN  Tail(up[Cardinality(Threads)])

(* Appends those of the candidates that the pool has and the list lacks.    *)
Anchored(s, candidates, pool) ==
    FoldLeft(LAMBDA acc, t : IF t \in pool /\ t \notin ToSet(acc) THEN Append(acc, t) ELSE acc,
             s, candidates)

WithAncestors(s, parent, pool) ==
    FoldLeft(LAMBDA acc, t : Anchored(acc, Ancestors(parent, t), pool), s, s)

(* setThreads.  A refresh keeps the thread that is open, those at work and  *)
(* the parents of what is listed; load-older replaces the list.            *)
Replaced(w, threads) ==
    LET visible == SelectSeq(threads, LAMBDA t : t \notin w.hidden) IN
    [w EXCEPT !.list = visible,
              !.active = IF @ \in ToSet(visible) THEN @ ELSE First(visible)]

Open(w) == IF w.active = None THEN <<>> ELSE <<w.active>>

(* Mutant: the open thread is not an anchor.                               *)
RefreshedOpenLost(w, threads) ==
    LET visible == SelectSeq(threads, LAMBDA t : t \notin w.hidden)
        pool    == ToSet(w.list) \ w.hidden
        atWork  == SelectSeq(w.list, LAMBDA t : t \in w.working)
    IN  [w EXCEPT !.list = WithAncestors(Anchored(visible, atWork, pool), w.parent, pool)]

Refreshed(w, threads) ==
    LET visible == SelectSeq(threads, LAMBDA t : t \notin w.hidden)
        pool    == ToSet(w.list) \ w.hidden
        atWork  == SelectSeq(w.list, LAMBDA t : t \in w.working)
    IN  [w EXCEPT !.list = WithAncestors(Anchored(visible, Open(w) \o atWork, pool),
                                         w.parent, pool)]

(* useThreadLinking: a thread gets a parent once, never one below itself;   *)
(* both are looked up in the links the closure knows.                      *)
UpdateParent(w, known, p, t) ==
    IF p \in {None, t} \/ known[t] # None \/ t \in ToSet(Ancestors(known, p)) THEN w
    ELSE [w EXCEPT !.parent[t] = p]

Detected(w, known, t) ==
    IF ParentOf[t] = None THEN w
    ELSE [UpdateParent(w, known, ParentOf[t], t) EXCEPT !.subs = @ \cup {t}]

----------------------------------------------------------------------------
Idle == \A i \in 1..Len(calls) : calls[i].done

New(op) ==
    [op |-> op, thread |-> None, todo |-> <<>>, seen |-> win.list, active |-> win.active,
     working |-> win.working, parent |-> win.parent, found |-> <<>>, at |-> 0,
     resume |-> 0, pages |-> 0, done |-> FALSE]

Room == Len(calls) + moves < MaxSteps
Called(c) == Room /\ calls' = Append(calls, c)
Move == Room /\ moves' = moves + 1

Overlapping == \E i \in 1..Len(calls) : ~calls[i].done /\ calls[i].op \in {"list", "older"}

Blamed(op) == blame' = IF Overlapping /\ op \in {"list", "older", "start"}
                       THEN blame \cup {"overlap"} ELSE blame

(* listThreadsForWorkspaces, silent (preserveState) or not.                *)
List ==
    \E preserveState \in BOOLEAN :
        /\ Called([New("list") EXCEPT !.todo = IF preserveState THEN <<>> ELSE Order])
        /\ win' = IF preserveState THEN win ELSE [win EXCEPT !.loading = TRUE, !.cursor = 0]
        /\ Blamed("list")
        /\ UNCHANGED <<alive, events, moves, asked>>

(* loadOlderThreadsForWorkspace, from the cursor.                          *)
LoadOlder ==
    /\ win.cursor # 0
    /\ Called([New("older") EXCEPT !.at = win.cursor])
    /\ win' = [win EXCEPT !.paging = TRUE]
    /\ Blamed("older")
    /\ UNCHANGED <<alive, events, moves, asked>>

StartThread ==
    /\ Called(New("start")) /\ Blamed("start")
    /\ UNCHANGED <<win, alive, events, moves, asked>>

(* removeThread: gone from the list before the server has been asked.       *)
RemoveThread(t) ==
    /\ t \in ToSet(win.list)
    /\ Called([New("archive") EXCEPT !.thread = t])
    /\ win' = Gone(win, t)
    /\ UNCHANGED <<alive, events, moves, asked, blame>>

(* setActiveThreadId: a thread of the list, or none for a new draft.        *)
Select(t) ==
    /\ t = None \/ t \in ToSet(win.list)
    /\ t # win.active /\ Move
    /\ win' = [win EXCEPT !.active = t]
    /\ UNCHANGED <<calls, alive, events, asked, blame>>

----------------------------------------------------------------------------
Upto(s, n) == SubSeq(s, 1, IF Len(s) < n THEN Len(s) ELSE n)

(* thread/list, external.  A cursor is a place in the server's order.       *)
From(at) == SelectSeq(SubSeq(Order, IF at = 0 THEN 1 ELSE at, Len(Order)),
                      LAMBDA t : t \in alive)
Page(at) == Upto(From(at), PageSize)
NextCursor(at) ==
    IF Len(From(at)) <= PageSize THEN 0
    ELSE CHOOSE n \in 1..Len(Order) : Order[n] = From(at)[PageSize + 1]

Visible(page) == SelectSeq(page, LAMBDA t : Source[t] # "internal")

HideAll(w, page) ==
    FoldLeft(LAMBDA acc, t : IF Source[t] = "internal" THEN Hide(acc, t) ELSE acc, w, page)

(* Mutant: the cursor goes on after the last page, whatever was cut off.    *)
PageAddedNoResume(c) ==
    [c EXCEPT !.found = Anchored(@, Visible(Page(c.at)), Threads), !.pages = @ + 1,
              !.at = NextCursor(c.at)]

(* What an answer adds to a listing.  The page on which more than Target    *)
(* threads have been found is where load-older will resume.                *)
PageAdded(c) ==
    LET found == Anchored(c.found, Visible(Page(c.at)), Threads) IN
    [c EXCEPT !.found = found, !.pages = @ + 1, !.at = NextCursor(c.at),
              !.resume = IF Len(found) > Target /\ @ = 0
                         THEN IF c.at = 0 THEN 1 ELSE c.at ELSE @]

Linked(w, c) == FoldLeft(LAMBDA acc, t : Detected(acc, c.parent, t), w, c.found)

(* The summaries a listing shows: the first Target, and of the others the   *)
(* open thread, those at work and the parents of what is shown.            *)
Summaries(c) ==
    LET pool == ToSet(c.found)
        top  == Upto(c.found, Target)
        work == SelectSeq(c.found, LAMBDA t : t \in c.working)
    IN  WithAncestors(Anchored(top, Open(c) \o work, pool), c.parent, pool)

Quiet(c) == c.todo = <<>>     \* preserveState

ListEnded(w, c) ==
    LET w1 == [Refreshed(Linked(w, c), Summaries(c)) EXCEPT
                 !.cursor = IF c.resume # 0 THEN c.resume ELSE c.at]
    IN  [w1 EXCEPT !.loading = IF Quiet(c) THEN @ ELSE FALSE]

OlderEnded(w, c) ==
    LET known     == ToSet(c.seen)
        additions == SelectSeq(c.found, LAMBDA t : t \notin known)
        links(acc, t) == UpdateParent(acc, c.parent, ParentOf[t], t)
        w1 == FoldLeft(links, w, additions)
        w2 == IF additions = <<>> THEN w1 ELSE Replaced(w1, c.seen \o additions)
    IN  [w2 EXCEPT !.cursor = c.at, !.paging = FALSE]

(* An answer of thread/list.                                               *)
PageAnswered(i) ==
    LET c    == calls[i]
        c1   == PageAdded(c)
        w1   == HideAll(win, Page(c.at))
        full == \/ c1.at = 0 \/ c1.pages >= MaxPages
                \/ c.op = "older" /\ Len(c1.found) >= Target
    IN  /\ ~c.done /\ c.op \in {"list", "older"}
        /\ calls' = [calls EXCEPT ![i] = [c1 EXCEPT !.done = full]]
        /\ win' = IF ~full THEN w1 ELSE IF c.op = "list" THEN ListEnded(w1, c1)
                  ELSE OlderEnded(w1, c1)
        /\ UNCHANGED <<alive, events, moves, asked, blame>>

(* It fails: nothing but the flags change.                                 *)
PageFailed(i) ==
    LET c == calls[i] IN
    /\ ~c.done /\ c.op \in {"list", "older"} /\ Move
    /\ calls' = [calls EXCEPT ![i].done = TRUE]
    /\ win' = IF c.op = "older" THEN [win EXCEPT !.paging = FALSE]
              ELSE [win EXCEPT !.loading = IF Quiet(c) THEN @ ELSE FALSE]
    /\ blame' = blame \cup {"failed"}
    /\ UNCHANGED <<alive, events, asked>>

(* The server's thread/start answer names a new thread: listed and opened.  *)
Started(i, t) ==
    /\ ~calls[i].done /\ calls[i].op = "start"
    /\ t \notin alive /\ Source[t] = "user" /\ t \notin ToSet(win.list)
    /\ calls' = [calls EXCEPT ![i].done = TRUE]
    /\ alive' = alive \cup {t} /\ events' = Append(events, <<"started", t>>)
    /\ win' = [Ensure(win, t) EXCEPT !.active = t]
    /\ UNCHANGED <<moves, asked, blame>>

(* The server archives: the answer and the event.                          *)
Archived(i) ==
    /\ ~calls[i].done /\ calls[i].op = "archive"
    /\ calls' = [calls EXCEPT ![i].done = TRUE]
    /\ IF calls[i].thread \in alive
       THEN alive' = alive \ {calls[i].thread}
            /\ events' = Append(events, <<"archived", calls[i].thread>>)
       ELSE UNCHANGED <<alive, events>>
    /\ UNCHANGED <<win, moves, asked, blame>>

(* One thread of a cascade: the skip mark is set, the server asked.  If it  *)
(* no longer has the thread the request fails and the mark is taken back.  *)
CascadeStep(i) ==
    LET t == Head(calls[i].todo) IN
    /\ ~calls[i].done /\ calls[i].op = "cascade"
    /\ calls' = [calls EXCEPT ![i].todo = Tail(@), ![i].done = Len(calls[i].todo) = 1]
    /\ asked' = Append(asked, t)
    /\ IF t \in alive
       THEN /\ alive' = alive \ {t} /\ events' = Append(events, <<"archived", t>>)
            /\ win' = [win EXCEPT !.skip = @ \cup {t}]
       ELSE /\ win' = [win EXCEPT !.skip = @ \ {t}] /\ UNCHANGED <<alive, events>>
    /\ UNCHANGED <<moves, blame>>

----------------------------------------------------------------------------
(* onThreadStarted and handleThreadStarted; a payload may leave the parent  *)
(* of a sub-agent out.                                                     *)
ThreadStarted(t, parent) ==
    LET linked(w) == IF parent = None THEN w
                     ELSE [UpdateParent(w, win.parent, parent, t) EXCEPT !.subs = @ \cup {t}]
    IN  CASE t \in win.hidden -> linked(win)
          [] t \notin win.hidden /\ Source[t] = "internal" -> linked(Hide(win, t))
          [] t \notin win.hidden /\ Source[t] = "sub" /\ parent = None -> win
          [] OTHER -> linked(Ensure(win, t))

(* getSubagentDescendantThreadIds.                                         *)
Descendants(w, t) ==
    SelectSeq(Order, LAMBDA s : s \in w.subs /\ t \in ToSet(Ancestors(w.parent, s)))

(* Mutant: the skip mark is not looked at.                                 *)
CascadesAlways(w, t) == Descendants(w, t) # <<>>

(* An archived thread takes its sub-agents with it, unless it is archived   *)
(* as part of such a cascade.                                              *)
Cascades(w, t) == t \notin win.skip /\ Descendants(w, t) # <<>>

HandleEvent ==
    /\ events # <<>> /\ events' = Tail(events)
    /\ LET t == Head(events)[2] IN
       IF Head(events)[1] = "started"
       THEN /\ \E parent \in {ParentOf[t], None} : win' = ThreadStarted(t, parent)
            /\ blame' = IF Overlapping THEN blame \cup {"overlap"} ELSE blame
            /\ UNCHANGED calls
       ELSE LET w == [Gone(win, t) EXCEPT !.skip = @ \ {t}] IN
            /\ win' = w
            /\ IF Cascades(w, t)
               THEN Called([New("cascade") EXCEPT !.todo = Descendants(w, t)])
               ELSE UNCHANGED calls
            /\ UNCHANGED blame
    /\ UNCHANGED <<alive, moves, asked>>

(* The server starts a thread of its own: another client's, a sub-agent's.  *)
ServerStarts(t) ==
    /\ t \notin alive /\ t \notin ToSet(win.list) /\ Move
    /\ ParentOf[t] # None => ParentOf[t] \in alive
    /\ alive' = alive \cup {t} /\ events' = Append(events, <<"started", t>>)
    /\ UNCHANGED <<win, calls, asked, blame>>

(* A turn begins or ends: markProcessing.                                  *)
Works(t) ==
    /\ t \in alive /\ t \in ToSet(win.list) /\ Move
    /\ win' = [win EXCEPT !.working = IF t \in @ THEN @ \ {t} ELSE @ \cup {t}]
    /\ UNCHANGED <<calls, alive, events, asked, blame>>

----------------------------------------------------------------------------
Init ==
    /\ win = [list |-> <<>>, active |-> None, hidden |-> {}, subs |-> {}, working |-> {},
              parent |-> [t \in Threads |-> None], skip |-> {}, loading |-> FALSE,
              paging |-> FALSE, cursor |-> 0]
    /\ calls = <<>> /\ events = <<>> /\ moves = 0 /\ asked = <<>> /\ blame = {}
    /\ alive = Threads \ {Head(Order)}

Next ==
    \/ List \/ LoadOlder \/ StartThread \/ HandleEvent
    \/ \E t \in Threads : RemoveThread(t) \/ Select(t) \/ ServerStarts(t) \/ Works(t)
    \/ Select(None)
    \/ \E i \in 1..Len(calls) :
          \/ PageAnswered(i) \/ PageFailed(i) \/ Archived(i) \/ CascadeStep(i)
          \/ \E t \in Threads : Started(i, t)

Spec == Init /\ [][Next]_vars

----------------------------------------------------------------------------
(* What the user asked for once is asked of the server once: the events of  *)
(* the threads a cascade archives start no cascades of their own.          *)
CascadeOnce == IsInjective(asked)

(* When nothing is under way and a listing has come to its end, every       *)
(* thread of the user's is listed or there is a cursor to load it with,     *)
(* wherever the pages were cut (unless a listing failed or two overlapped). *)
EveryThreadReachable ==
    /\ Idle /\ events = <<>> /\ blame = {}
    /\ \E i \in 1..Len(calls) : calls[i].op = "list"
    => \A t \in alive : Source[t] = "user" => t \in ToSet(win.list) \/ win.cursor # 0

(* No step but the archiving of a thread, the hiding of an internal one and *)
(* load-older takes the open thread or one at work off the list: a refresh  *)
(* may overtake any of them.                                               *)
AnchorsKept ==
    \A i \in 1..Len(calls) :
        calls[i].op = "list" /\ ~calls[i].done /\ calls'[i].done
        => \A t \in ToSet(win.list) \ win'.hidden :
              t = win.active \/ t \in win.working => t \in ToSet(win'.list)
RefreshKeepsAnchors == [][AnchorsKept]_vars
=============================================================================
