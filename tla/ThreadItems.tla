---------------------------- MODULE ThreadItems ----------------------------
(***************************************************************************)
(* The items the window shows of one thread: the streaming events of        *)
(* useThreadItemEvents, the slice of the reducer that applies them, and the *)
(* answers of thread/resume (useThreadActions) that replace what is shown.  *)
(*                                                                         *)
(* An item is a message, a reasoning, a tool call with its output, or a     *)
(* "read": a command that only reads, which prepareThreadItems folds into   *)
(* an exploration with those before it, under the first one's id.  Text is  *)
(* a sequence of letters, since merging a delta compares texts; truncation  *)
(* and titles are left out.                                                *)
(***************************************************************************)
EXTENDS Naturals, Sequences, FiniteSets, SequencesExt

CONSTANTS
    Letters,
    Scenes,     \* the kinds of items 1, 2, ... of the thread
    MaxText,    \* bound on the length of an item's text
    MaxCalls,   \* bound on resumes and refreshes
    MaxSteps,   \* bound on these and the items
    MaxItems    \* maxItemsPerThread

VARIABLES
    scene,      \* the kind of each item
    server,     \* external: the thread's items, [id, text, status]
    events,     \* events under way to the window
    items,      \* itemsByThread
    ref,        \* loadedThreadsRef, replaceOnResumeRef, resumeInFlightByThreadRef
    loading,    \* threadResumeLoadingById
    calls,      \* the calls under way
    made,       \* how many have been made
    blame       \* an event overtook the answer before it, an answer the event of a
                \* read before it; items were cut off

vars == <<scene, server, events, items, ref, loading, calls, made, blame>>

Kinds == {"message", "reasoning", "tool", "read"}
Ids == DOMAIN scene
Text == BoundedSeq(Letters, MaxText)

Item == [id : Ids, kind : {"message", "reasoning", "tool", "read", "explore"},
         text : Seq(Letters), status : {"running", "done", "failed"}, entries : Seq(Ids)]
Told == [id : Ids, text : Text, status : {"running", "done", "failed"}]

TypeOK ==
    /\ scene \in Scenes
    /\ server \in Seq(Told)
    /\ events \in Seq({"started", "delta", "completed"} \X Told)
    /\ items \in Seq(Item)
    /\ ref \in [loaded : BOOLEAN, replace : BOOLEAN, inFlight : 0..MaxCalls]
    /\ loading \in BOOLEAN
    /\ calls \in SUBSET [id : 1..MaxCalls, replace : BOOLEAN, local : Seq(Item),
                         answered : BOOLEAN, answer : Seq(Told), after : Nat]
    /\ made \in 0..MaxCalls /\ blame \subseteq {"overtaken", "late read", "cut"}

----------------------------------------------------------------------------
(* mergeStreamingText: what a delta repeats of the text is not added again. *)
Overlap(text, delta) ==
    CHOOSE n \in 0..Len(delta) :
       /\ IsSuffix(SubSeq(delta, 1, n), text)
       /\ \A k \in n + 1..Len(delta) : ~IsSuffix(SubSeq(delta, 1, k), text)

MergeStreamingText(text, delta) ==
    IF IsPrefix(text, delta) THEN delta
    ELSE IF IsPrefix(delta, text) THEN text
    ELSE text \o SubSeq(delta, Overlap(text, delta) + 1, Len(delta))

(* The item as buildConversationItem makes it of what the server tells.     *)
(* Messages and reasonings have no status.                                 *)
Shown(told) ==
    [id |-> told.id, kind |-> scene[told.id], text |-> told.text, entries |-> <<>>,
     status |-> IF scene[told.id] \in {"tool", "read"} THEN told.status ELSE "done"]

(* buildItemsFromThread, of a thread/resume answer.                        *)
BuildItemsFromThread(thread) == [i \in 1..Len(thread) |-> Shown(thread[i])]

IndexOf(list, id) ==
    IF \E i \in 1..Len(list) : list[i].id = id
    THEN CHOOSE i \in 1..Len(list) : list[i].id = id /\ \A j \in 1..i - 1 : list[j].id # id
    ELSE 0

(* summarizeExploration.  A read that has not failed is an exploration; two *)
(* neighbours of the same status become one.                               *)
Summary(item) ==
    IF item.kind = "read" /\ item.status # "failed"
    THEN [item EXCEPT !.kind = "explore", !.text = <<>>, !.entries = <<item.id>>]
    ELSE item

MergeEntries(base, next) == base \o SelectSeq(next, LAMBDA e : e \notin ToSet(base))

Summarized(list) ==
    FoldLeft(LAMBDA acc, x :
                LET item == Summary(x) IN
                IF /\ acc # <<>> /\ item.kind = "explore" /\ Last(acc).kind = "explore"
                   /\ Last(acc).status = item.status
                THEN [acc EXCEPT ![Len(acc)].entries = MergeEntries(@, item.entries)]
                ELSE Append(acc, item), <<>>, list)

Limited(list) ==
    IF Len(list) > MaxItems THEN SubSeq(list, Len(list) - MaxItems + 1, Len(list)) ELSE list

PrepareThreadItems(list) == Summarized(Limited(list))

(* Mutant: what is shown of another kind is kept, like an item of the same. *)
UpsertKept(list, item) ==
    LET i == IndexOf(list, item.id) IN
    IF i = 0 THEN Append(list, item)
    ELSE IF list[i].kind = "explore" THEN list
    ELSE [list EXCEPT ![i] = item]

(* upsertItem: an item of another kind takes the place; of a reasoning the  *)
(* longer text wins, of a tool call the new output unless it is empty.     *)
UpsertItem(list, item) ==
    LET i   == IndexOf(list, item.id)
        old == list[i]
    IN  IF i = 0 THEN Append(list, item)
        ELSE IF old.kind # item.kind THEN [list EXCEPT ![i] = item]
        ELSE IF item.kind = "reasoning"
        THEN [list EXCEPT ![i] = [item EXCEPT !.text = IF Len(@) >= Len(old.text)
                                                       THEN @ ELSE old.text]]
        ELSE [list EXCEPT ![i] = [item EXCEPT !.text = IF @ = <<>> THEN old.text ELSE @]]

(* appendAgentDelta, appendReasoningContent: made if it is not there yet.   *)
AppendDelta(list, told) ==
    LET i == IndexOf(list, told.id) IN
    IF i # 0 /\ list[i].kind = scene[told.id]
    THEN [list EXCEPT ![i].text = MergeStreamingText(@, told.text)]
    ELSE Append(list, Shown(told))

(* appendToolOutput: an item that is not there, or not a tool, is left.     *)
AppendToolOutput(list, told) ==
    LET i == IndexOf(list, told.id) IN
    IF i = 0 \/ list[i].kind \notin {"tool", "read"} THEN list
    ELSE [list EXCEPT ![i].text = MergeStreamingText(@, told.text)]

(* completeAgentMessage.                                                   *)
CompleteAgentMessage(list, told) ==
    LET i == IndexOf(list, told.id) IN
    IF i = 0 THEN Append(list, Shown(told))
    ELSE [list EXCEPT ![i].text = IF told.text = <<>> THEN @ ELSE told.text]

(* What an event does to the list; an agent message has no item/started.    *)
Applied(list, kind, told) ==
    CASE kind = "delta" /\ scene[told.id] \in {"message", "reasoning"} ->
            PrepareThreadItems(AppendDelta(list, told))
      [] kind = "delta" /\ scene[told.id] \in {"tool", "read"} ->
            PrepareThreadItems(AppendToolOutput(list, told))
      [] kind = "started" /\ scene[told.id] = "message" -> list
      [] kind = "completed" /\ scene[told.id] = "message" ->
            PrepareThreadItems(CompleteAgentMessage(list, told))
      [] OTHER -> PrepareThreadItems(UpsertItem(list, Shown(told)))

----------------------------------------------------------------------------
(* The server, external: it starts the items in their order, streams and    *)
(* completes them.                                                         *)
Running == {i \in 1..Len(server) : server[i].status = "running"}

Tell(kind, told) == events' = Append(events, <<kind, told>>)

ServerStarts ==
    /\ Len(server) < Len(scene) /\ Len(server) + made < MaxSteps
    /\ LET told == [id |-> Len(server) + 1, text |-> <<>>, status |-> "running"] IN
       server' = Append(server, told) /\ Tell("started", told)
    /\ UNCHANGED <<scene, items, ref, loading, calls, made, blame>>

ServerStreams(i, letter) ==
    /\ i \in Running /\ Len(server[i].text) < MaxText
    /\ scene[i] # "read"
    /\ server' = [server EXCEPT ![i].text = Append(@, letter)]
    /\ Tell("delta", [server[i] EXCEPT !.text = <<letter>>])
    /\ UNCHANGED <<scene, items, ref, loading, calls, made, blame>>

ServerCompletes(i, status) ==
    /\ i \in Running
    /\ server[i].text = <<>> => scene[i] = "read"
    /\ status = "failed" => scene[i] = "read"
    /\ server' = [server EXCEPT ![i].status = status]
    /\ Tell("completed", server'[i])
    /\ UNCHANGED <<scene, items, ref, loading, calls, made, blame>>

(* The window handles an event; it may do so before it handles an answer    *)
(* the server gave earlier.                                                *)
HandleEvent ==
    /\ events # <<>> /\ events' = Tail(events)
    /\ items' = Applied(items, Head(events)[1], Head(events)[2])
    /\ calls' = {[c EXCEPT !.after = IF @ = 0 THEN 0 ELSE @ - 1] : c \in calls}
    /\ blame' = blame
         \cup (IF \E c \in calls : c.answered /\ c.after = 0 THEN {"overtaken"} ELSE {})
         \cup (IF Len(items) = MaxItems THEN {"cut"} ELSE {})
    /\ UNCHANGED <<scene, server, ref, loading, made>>

----------------------------------------------------------------------------
(* resumeThreadForWorkspace up to its await: not for a loaded thread, unless*)
(* forced.  refreshThread forces it and has it replace what is shown.       *)
Resume(force) ==
    /\ made < MaxCalls /\ Len(server) + made < MaxSteps /\ made' = made + 1
    /\ force \/ ~ref.loaded
    /\ calls' = calls \cup {[id |-> made + 1, replace |-> force, local |-> items,
                             answered |-> FALSE, answer |-> <<>>, after |-> 0]}
    /\ ref' = [ref EXCEPT !.inFlight = @ + 1, !.replace = @ \/ force]
    /\ loading' = IF ref.inFlight = 0 THEN TRUE ELSE loading
    /\ UNCHANGED <<scene, server, events, items, blame>>

(* The server answers with the thread as it stands.                        *)
ServerAnswers(c) ==
    /\ ~c.answered
    /\ calls' = (calls \ {c}) \cup {[c EXCEPT !.answered = TRUE, !.answer = server,
                                              !.after = Len(events)]}
    /\ UNCHANGED <<scene, server, events, items, ref, loading, made, blame>>

(* Mutant: the first call to end turns the loading off.                     *)
SettledFirst(r) == [r EXCEPT !.inFlight = 0]

(* The finally block.                                                      *)
Settled(r) == [r EXCEPT !.inFlight = @ - 1]

Ended(c, r) ==
    /\ calls' = calls \ {c} /\ ref' = Settled(r)
    /\ loading' = IF Settled(r).inFlight = 0 THEN FALSE ELSE loading

(* The answer is handled.  The items shown when the call was made decide    *)
(* whether the answer is used at all, and stand in for an empty one.       *)
AnswerHandled(c) ==
    LET replace == c.replace \/ ref.replace
        answer  == BuildItemsFromThread(c.answer)
        keep    == c.local # <<>> /\ ~replace
        next    == IF answer = <<>> THEN c.local ELSE answer
    IN  /\ c.answered
        /\ Ended(c, [ref EXCEPT !.loaded = TRUE, !.replace = IF replace THEN FALSE ELSE @])
        /\ items' = IF keep \/ next = <<>> THEN items ELSE PrepareThreadItems(next)
        /\ blame' = blame
             \cup (IF Len(next) > MaxItems THEN {"cut"} ELSE {})
             \cup (IF \E i \in 1..c.after : scene[events[i][2].id] = "read"
                   THEN {"late read"} ELSE {})
        /\ UNCHANGED <<scene, server, events, made>>

(* The request fails.                                                      *)
ResumeFails(c) ==
    /\ ~c.answered /\ Ended(c, ref)
    /\ UNCHANGED <<scene, server, events, items, made, blame>>

----------------------------------------------------------------------------
Init ==
    /\ scene \in Scenes
    /\ server = <<>> /\ events = <<>> /\ items = <<>>
    /\ ref = [loaded |-> FALSE, replace |-> FALSE, inFlight |-> 0]
    /\ loading = FALSE /\ calls = {} /\ made = 0 /\ blame = {}

Next ==
    \/ ServerStarts \/ HandleEvent
    \/ \E i \in Ids : \/ \E l \in Letters : ServerStreams(i, l)
                      \/ \E s \in {"done", "failed"} : ServerCompletes(i, s)
    \/ \E force \in BOOLEAN : Resume(force)
    \/ \E c \in calls : ServerAnswers(c) \/ AnswerHandled(c) \/ ResumeFails(c)

Spec == Init /\ [][Next]_vars

----------------------------------------------------------------------------
Shows(id) ==
    \E i \in 1..Len(items) :
       \/ items[i].id = id /\ items[i].kind = scene[id]
            /\ items[i].text = server[id].text /\ items[i].status = server[id].status
       \/ items[i].kind = "explore" /\ items[i].status = "done"
            /\ id \in ToSet(items[i].entries)

(* When every item is complete and everything told has been handled, each   *)
(* is shown as the server has it, whatever was merged, folded or replaced   *)
(* meanwhile, and no exploration is left under way.  Not so if an event     *)
(* was handled before an older answer, or the event of a folded read after  *)
(* a newer one: its exploration then loses the reads folded into it.        *)
ShownAsTheServerHasIt ==
    events = <<>> /\ calls = {} /\ Running = {} /\ blame = {} /\ items # <<>> =>
        /\ \A id \in 1..Len(server) : scene[id] # "reasoning" => Shows(id)
        /\ \A i \in 1..Len(items) : items[i].status # "running"

(* The thread is marked as loading exactly while an answer is awaited,      *)
(* however many resumes and refreshes overlap.                             *)
LoadingWhileAwaited == loading = (calls # {})
=============================================================================
