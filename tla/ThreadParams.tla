---------------------------- MODULE ThreadParams ----------------------------
(***************************************************************************)
(* What a thread is sent with: model, access mode, collaboration mode and   *)
(* codex arguments (useThreadCodexParams, useThreadOrchestration,           *)
(* threadCodexParamsSeed, useModels, useCollaborationModes).  A behaviour   *)
(* is about one of the four ("kind").                                      *)
(*                                                                         *)
(* Each thread, and each workspace while no thread of it is open, keeps its *)
(* setting in a store.  A new thread is seeded when it is first looked at:  *)
(* with what the send that started it remembered in pendingNewThreadSeed,   *)
(* or with what the composer showed before.                                *)
(***************************************************************************)
EXTENDS Naturals, Sequences

CONSTANTS
    Workspaces, Threads, None,
    Values, Default,    \* the settings, one of them the default
    Old,                \* the workspace of each thread there is at the start
    MaxSends, MaxSteps  \* bounds: messages sent from a draft; what the user does

VARIABLES
    kind,      \* "model", "access", "mode" or "args"
    store,     \* paramsRef, of workspace and thread; None for the thread is its no-thread scope
    last,      \* lastComposerModelId
    where,     \* the workspace a listed thread is of
    active,    \* activeWorkspaceId
    front,     \* activeThreadIdByWorkspace
    shown,     \* what the composer shows and a message is sent with
    pending,   \* pendingNewThreadSeedRef
    seeded,    \* seededThreadParamsRef
    calls,     \* the sends from a draft in their order, with what their thread may be given
    carried,   \* history: threads whose mode was carried over from the thread before
    spent      \* sends and steps

vars == <<kind, store, last, where, active, front, shown, pending, seeded, calls, carried, spent>>

Kinds == {"model", "access", "mode", "args"}
Absent == "absent"     \* no entry
Unset == "unset"       \* an entry that has no value of its own
Scopes == Workspaces \X (Threads \cup {None})
NoSeed == [of |-> None, value |-> Default]

(* What the constants are: an entry without a value is told from a value.    *)
Basis ==
    /\ Default \in Values /\ {Absent, Unset} \cap Values = {} /\ None \notin Threads \cup Workspaces
    /\ Old \in [Threads -> Workspaces \cup {None}] /\ MaxSends \in Nat /\ MaxSteps \in Nat

Sends == [of : Workspaces, values : SUBSET Values, lost : BOOLEAN, thread : Threads \cup {None},
          step : {"queued", "asked", "made", "failed", "done"}]

TypeOK ==
    /\ kind \in Kinds /\ store \in [Scopes -> Values \cup {Absent, Unset}]
    /\ last \in Values /\ shown \in Values
    /\ where \in [Threads -> Workspaces \cup {None}] /\ active \in Workspaces
    /\ front \in [Workspaces -> Threads \cup {None}]
    /\ pending \in [of : Workspaces \cup {None}, value : Values]
    /\ seeded \subseteq Scopes
    /\ \A i \in 1..Len(calls) : calls[i] \in Sends
    /\ carried \subseteq Threads
    /\ spent \in [sends : 0..MaxSends, steps : 0..MaxSteps]

----------------------------------------------------------------------------
(* resolveThreadCodexState.                                                *)
Resolve(st, la, seed, w, t) ==
    CASE st[<<w, t>>] \in Values -> st[<<w, t>>]
      [] OTHER -> IF kind = "model" THEN la
                  ELSE IF t # None /\ seed.of = w THEN seed.value
                  ELSE IF kind = "args" /\ st[<<w, None>>] \in Values THEN st[<<w, None>>]
                  ELSE Default

(* Mutant: the seed is what the composer shows when the thread is opened.   *)
SeedShown(seed, w) == shown

(* buildThreadCodexSeedPatch; the model is always the selected one.         *)
Seed(seed, w) == IF seed.of = w /\ kind # "model" THEN seed.value ELSE shown

(* The selected model follows the preferred one at every render (useModels); *)
(* the selected mode stays until something else is looked at.              *)
Followed(st) ==
    IF kind = "mode" THEN shown ELSE Resolve(st, last, pending, active, front[active])

(* useCollaborationModes takes the mode over that was preferred before the  *)
(* thread was seeded.                                                      *)
TakenOver(before, after, seed, w, t) ==
    IF kind = "mode" THEN Resolve(before, last, pending, w, t)
    ELSE Resolve(after, last, seed, w, t)

(* The layout effect of a change of the store.                             *)
Rerender(st) == store' = st /\ shown' = Followed(st)

(* What threads not seeded yet can no longer be given: their seed when      *)
(* another took it, a model when the window looks elsewhere.               *)
Lose(away) ==
    [i \in 1..Len(calls) |-> [calls[i] EXCEPT !.lost = @ \/
        /\ IF kind = "model" THEN away ELSE pending'.of # calls[i].of
        /\ <<calls[i].of, calls[i].thread>> \notin seeded']]

(* A thread that is looked at for the first time and has no entry.          *)
Fresh(w, t) == t # None /\ <<w, t>> \notin seeded /\ store[<<w, t>>] = Absent

(* The window comes to look at thread t of w: the layout effect resolves,   *)
(* and the effects after the same commit seed a thread that has no entry,   *)
(* with the selections of the render before.                               *)
Looks(w, t) ==
    LET after == IF Fresh(w, t) THEN [store EXCEPT ![<<w, t>>] = Seed(pending, w)] ELSE store
    IN  /\ store' = after
        /\ seeded' = IF t = None THEN seeded ELSE seeded \cup {<<w, t>>}
        /\ pending' = IF Fresh(w, t) /\ pending.of = w THEN NoSeed ELSE pending
        /\ shown' = TakenOver(store, after, pending', w, t)
        /\ active' = w /\ front' = [front EXCEPT ![w] = t]
        /\ carried' = IF Fresh(w, t) /\ shown' # after[<<w, t>>] THEN carried \cup {t} ELSE carried

(* A thread becomes the one in front of its workspace.                     *)
Fronts(w, t) ==
    IF w = active THEN Looks(w, t)
    ELSE /\ front' = [front EXCEPT ![w] = t]
         /\ UNCHANGED <<store, active, shown, pending, seeded, carried>>

----------------------------------------------------------------------------
(* The user.                                                               *)
Step == spent.steps < MaxSteps /\ spent' = [spent EXCEPT !.steps = @ + 1]

(* handleSelectWorkspaceInstance, handleOpenThreadLink, a new draft.        *)
Open(w, t) ==
    /\ Step /\ (t # None => where[t] = w) /\ <<w, t>> # <<active, front[active]>>
    /\ Looks(w, t) /\ calls' = Lose(TRUE)
    /\ UNCHANGED <<kind, last, where>>

(* What a choice makes of a send: it is of its thread, or of its draft.     *)
Chosen(v, c) ==
    IF front[active] # None /\ c.thread = front[active] THEN [c EXCEPT !.values = {v}, !.lost = FALSE]
    ELSE IF c.of = active /\ (front[active] = None \/ c.step # "done")
    THEN [c EXCEPT !.values = @ \cup {v}] ELSE c

(* handleSelectModel and the like, with persistThreadCodexParams.           *)
Select(v) ==
    /\ Step /\ v # shown /\ shown' = v
    /\ LET t == front[active]
       IN  /\ store' = [store EXCEPT ![<<active, t>>] = v]
           /\ last' = IF kind = "model" /\ t = None THEN v ELSE last
           /\ carried' = carried \ {t}
           /\ calls' = [i \in 1..Len(calls) |-> Chosen(v, calls[i])]
    /\ UNCHANGED <<kind, where, active, front, pending, seeded>>

Draft == [of |-> active, values |-> {shown}, lost |-> FALSE, step |-> "queued", thread |-> None]

(* handleComposerSendWithDraftStart: rememberPendingNewThreadSeed, and from *)
(* a draft the send waits for those before it (runWithDraftStart).          *)
Send ==
    /\ UNCHANGED <<kind, store, last, where, active, front, shown, seeded, carried>>
    /\ IF front[active] = None
       THEN /\ spent.sends < MaxSends /\ spent' = [spent EXCEPT !.sends = @ + 1]
            /\ pending' = [of |-> active, value |-> shown]
            /\ calls' = Append(Lose(FALSE), Draft)
       ELSE pending' = NoSeed /\ calls' = Lose(FALSE) /\ UNCHANGED spent

(* removeThread: the one next in the list comes to the front.              *)
Archive(t, next) ==
    LET w == where[t]
    IN  /\ w # None /\ Step /\ where' = [where EXCEPT ![t] = None]
        /\ IF front[w] = t
           THEN /\ IF next = None THEN \A u \in Threads : where'[u] # w ELSE where'[next] = w
                /\ Fronts(w, next) /\ calls' = IF w = active THEN Lose(TRUE) ELSE calls
           ELSE next = None /\ UNCHANGED <<store, active, front, shown, pending, seeded, calls, carried>>
        /\ UNCHANGED <<kind, last>>

----------------------------------------------------------------------------
(* The server.                                                             *)
Begun(t) == \E i \in 1..Len(calls) : calls[i].thread = t
Unmade == {t \in Threads : Old[t] = None /\ where[t] = None /\ ~Begun(t)
                           /\ \A w \in Workspaces : store[<<w, t>>] = Absent}
NoChange == UNCHANGED <<kind, store, last, where, active, front, shown, pending, seeded, carried, spent>>

(* A send's turn comes: it starts a thread, even if the one before did too. *)
Starts(i) ==
    /\ calls[i].step = "queued"
    /\ \A j \in 1..(i - 1) : calls[j].of = calls[i].of => calls[j].step \in {"failed", "done"}
    /\ calls' = [calls EXCEPT ![i].step = "asked"] /\ NoChange

Fails(i) == calls[i].step = "asked" /\ calls' = [calls EXCEPT ![i].step = "failed"] /\ NoChange

Makes(i) ==
    /\ calls[i].step = "asked" /\ NoChange
    /\ Unmade # {}    \* any new thread will do
    /\ calls' = [calls EXCEPT ![i].step = "made", ![i].thread = CHOOSE t \in Unmade : TRUE]

(* The thread of a send takes the place of its draft as it was sent, which  *)
(* is as all the sends of the draft were, and none of them has a thread     *)
(* that was told already and never looked at; or it comes to a workspace    *)
(* that is not looked at.                                                  *)
InItsPlace(t, w) ==
    \/ w # active
    \/ \E i \in 1..Len(calls) : /\ calls[i].thread = t /\ ~calls[i].lost
                                /\ front[active] \in {None, t}
                                /\ \A j \in 1..Len(calls) :
                                      /\ calls[j].values = calls[i].values
                                      /\ calls[j].step = "done" => <<calls[j].of, calls[j].thread>> \in seeded

Placed(t, w) == IF InItsPlace(t, w) THEN calls ELSE Lose(TRUE)

(* An event of a thread not listed yet (ensureThread): it comes to the      *)
(* front where no thread is.  It is one of a send, or of another client.    *)
Announced(t, w) ==
    /\ \/ t \in Unmade /\ Step
       \/ /\ \E i \in 1..Len(calls) : calls[i].thread = t /\ calls[i].of = w /\ calls[i].step = "made"
          /\ where[t] = None /\ UNCHANGED spent
    /\ where' = [where EXCEPT ![t] = w]
    /\ IF front[w] = None
       THEN Fronts(w, t) /\ calls' = Placed(t, w)
       ELSE UNCHANGED <<store, active, front, shown, pending, seeded, calls, carried>>
    /\ UNCHANGED <<kind, last>>

(* startThreadForWorkspace's answer: the new thread is shown, and the       *)
(* message is sent to it.                                                  *)
Answered(i) ==
    LET t == calls[i].thread
        w == calls[i].of
    IN  /\ calls[i].step = "made" /\ where' = [where EXCEPT ![t] = w]
        /\ Fronts(w, t)
        /\ calls' = [Placed(t, w) EXCEPT ![i].step = "done"]
        /\ UNCHANGED <<kind, last, spent>>

(* extractThreadCodexMetadata: any model may have been a thread's last.     *)
Detected == Values

(* handleThreadCodexMetadataDetected, of a thread that is listed or resumed *)
(* and so perhaps before the answer of its start.                          *)
Metadata(t, w, v) ==
    /\ \/ where[t] = w \/ \E i \in 1..Len(calls) : calls[i].thread = t /\ calls[i].of = w
    /\ store[<<w, t>>] = Absent \/ (kind = "model" /\ store[<<w, t>>] = Unset)
    /\ Rerender([store EXCEPT ![<<w, t>>] = CASE kind = "model" -> v
                                          [] kind = "args" -> Default
                                          [] OTHER -> Unset])
    /\ calls' = [i \in 1..Len(calls) |-> [calls[i] EXCEPT !.lost = @ \/ calls[i].thread = t]]
    /\ UNCHANGED <<kind, last, where, active, front, pending, seeded, carried, spent>>

----------------------------------------------------------------------------
(* At the start threads and drafts may have entries of an earlier session.  *)
Init ==
    /\ kind \in Kinds /\ last = Default /\ active \in Workspaces
    /\ where = Old /\ front = [w \in Workspaces |-> None]
    /\ \E old \in {Absent} \cup (Values \ {Default}), draft \in {Absent} \cup (Values \ {Default}) :
          /\ store = [s \in Scopes |-> CASE s = <<active, None>> -> draft
                                       [] s[2] # None /\ Old[s[2]] = s[1] -> old
                                       [] OTHER -> Absent]
          /\ shown = IF draft = Absent THEN Default ELSE draft
    /\ pending = NoSeed /\ seeded = {} /\ calls = <<>>
    /\ carried = {}
    /\ spent = [sends |-> 0, steps |-> 0]

Next ==
    \/ \E w \in Workspaces, t \in Threads \cup {None} : Open(w, t)
    \/ \E v \in Values : Select(v)
    \/ Send
    \/ \E t \in Threads, next \in Threads \cup {None} : Archive(t, next)
    \/ \E i \in 1..Len(calls) : Starts(i) \/ Fails(i) \/ Makes(i) \/ Answered(i)
    \/ \E t \in Threads, w \in Workspaces : Announced(t, w) \/ \E v \in Detected : Metadata(t, w, v)

Spec == Init /\ [][Next]_vars

----------------------------------------------------------------------------
(* A thread started from a draft keeps what its first message was sent      *)
(* with, or what the user chose since, wherever the user looks meanwhile;   *)
(* only a message sent elsewhere, another unseeded thread or a listing that *)
(* shows it too early may cost it that, and a model a look elsewhere.       *)
StartedAsSent ==
    \A i \in 1..Len(calls) :
        LET own == store[<<calls[i].of, calls[i].thread>>]
        IN  calls[i].thread # None /\ own \in Values /\ ~calls[i].lost => own \in calls[i].values

(* The composer shows what is stored for the thread in front, except for a  *)
(* mode that was carried over from the thread before.                      *)
ShownIsStored ==
    LET own == store[<<active, front[active]>>]
    IN  own \in Values /\ front[active] \notin carried => shown = own

----------------------------------------------------------------------------
(* What the two rest on.  A send is a call of its own thread, in its         *)
(* workspace; a thread in front is listed, and seeded if it is looked at.    *)
OwnCalls ==
    /\ \A i, j \in 1..Len(calls) : calls[i].thread # None /\ calls[i].thread = calls[j].thread => i = j
    /\ \A i \in 1..Len(calls) : calls[i].thread = None <=> calls[i].step \in {"queued", "asked", "failed"}
ListedAtHome ==
    /\ \A i \in 1..Len(calls) : calls[i].thread # None => where[calls[i].thread] \in {None, calls[i].of}
    /\ \A w \in Workspaces : front[w] # None => where[front[w]] = w
SeededHave ==
    /\ \A s \in seeded : s[2] # None /\ store[s] # Absent
    /\ front[active] # None => <<active, front[active]>> \in seeded
(* What the composer shows of a draft, and of a model.                       *)
OfDraft(w) == IF store[<<w, None>>] \in Values THEN store[<<w, None>>] ELSE Default
DraftIsShown ==
    /\ None \notin carried
    /\ kind = "model" => /\ shown = Resolve(store, last, pending, active, front[active])
                         /\ \A s \in Scopes : store[s] # Unset
    /\ kind # "model" /\ front[active] = None => shown = OfDraft(active)
(* A thread not seeded yet will be given what it may be given: the seed that *)
(* waits, or, when another thread took that, what is shown as long as the    *)
(* user stays.                                                              *)
Unseeded(c) == ~c.lost /\ <<c.of, c.thread>> \notin seeded
WillBeSeeded(c) ==
    IF kind # "model" /\ pending.of = c.of THEN pending.value \in c.values /\ OfDraft(c.of) \in c.values
    ELSE /\ active = c.of /\ c.step # "done" /\ shown \in c.values
         /\ kind # "model" => front[active] # None /\ store[<<active, front[active]>>] \in c.values
GivenAsSent(c) ==
    /\ Unseeded(c) => /\ WillBeSeeded(c)
                      /\ c.thread # None => store[<<c.of, c.thread>>] = Absent
    /\ c.thread # None /\ ~c.lost /\ store[<<c.of, c.thread>>] # Absent => store[<<c.of, c.thread>>] \in c.values
AllGivenAsSent == \A i \in 1..Len(calls) : GivenAsSent(calls[i])
Looked == DraftIsShown /\ ShownIsStored /\ SeededHave
IInv == TypeOK /\ calls \in Seq(Sends) /\ OwnCalls /\ ListedAtHome /\ Looked /\ AllGivenAsSent
=============================================================================
