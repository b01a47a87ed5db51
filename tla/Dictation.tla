------------------------------ MODULE Dictation ------------------------------
(***************************************************************************)
(* Dictation: the commands and tasks of dictation/real.rs, which share one    *)
(* session state, the events they emit, and what follows them in the window   *)
(* (useDictation, useDictationController, useHoldToDictate, the composers).   *)
(* A session is the number of the dictation_start it comes from.              *)
(***************************************************************************)
EXTENDS Naturals, Sequences, FiniteSets, TLAPS

CONSTANTS
    Composers, None,
    MaxStarts,      \* bound: dictations begun
    MaxSteps,       \* bound: what else the user does
    MaxErrors       \* bound: microphone errors

VARIABLES
    state,          \* dictationState
    hold,           \* refs of useHoldToDictate: active, stopPending while its timeout runs; the key is down
    transcript,     \* dictationTranscript, not inserted yet: None or its session
    looked,         \* the composer that is shown, or None
    be,             \* DictationState: session_state, session, processing_cancel
    capture,        \* sessions whose capture thread runs
    calls,          \* commands under way: which, its session, how far
    tasks,          \* spawned: transcriptions, and what a microphone error does
    events,         \* dictation-event, not yet handled
    noted           \* history

vars == <<state, hold, transcript, looked, be, capture, calls, tasks, events, noted>>

Sessions == 1..MaxStarts
States == {"idle", "listening", "processing"}

TypeOK ==
    /\ state \in States
    /\ hold \in [active : BOOLEAN, stopPending : BOOLEAN, down : BOOLEAN]
    /\ transcript \in Sessions \cup {None} /\ looked \in Composers \cup {None}
    /\ be \in [state : States, session : 0..MaxStarts, flag : 0..MaxStarts]
    /\ capture \subseteq Sessions
    /\ \A c \in calls : c \in [do : {"start", "stop", "cancel"}, of : 0..MaxStarts, at : {"begun", "asking", "looked", "emit", "stopping"}]
    /\ \A t \in tasks : t \in [of : Sessions, at : {"transcribing", "checked", "ending", "broken"}]
    /\ \A i \in DOMAIN events : events[i] \in [kind : {"state", "transcript"}, state : States, of : 0..MaxStarts]
    /\ noted.starts \in 0..MaxStarts /\ noted.steps \in 0..MaxSteps

----------------------------------------------------------------------------
(* Commands.                                                                *)
StateEvent(s) == Append(events, [kind |-> "state", state |-> s, of |-> 0])
Goes(c, at) == calls' = (calls \ {c}) \cup {[c EXCEPT !.at = at]}
Ends(c) == calls' = calls \ {c}
Telling == (\E t \in tasks : t.at # "transcribing") \/ \E d \in calls : d.at \in {"emit", "stopping"}
UI == <<state, hold, transcript, looked>>

(* dictation_start looks at the state, asks for the microphone, and is         *)
(* listening. Dropping a handle does not end its capture: the capture thread   *)
(* keeps senders of its own channel.                                          *)
StartLooks(c) ==
    /\ c.do = "start" /\ c.at = "begun"
    /\ IF be.state = "idle" THEN Goes(c, "asking") ELSE Ends(c)
    /\ UNCHANGED <<UI, be, capture, tasks, events, noted>>
StartListens(c) ==
    /\ c.do = "start" /\ c.at = "asking" /\ Goes(c, "emit")
    /\ be' = [be EXCEPT !.state = "listening", !.session = c.of]
    /\ capture' = capture \cup {c.of}
    /\ UNCHANGED <<UI, tasks, events, noted>>
StartEmits(c) ==
    /\ c.do = "start" /\ c.at = "emit" /\ Ends(c) /\ events' = StateEvent("listening")
    /\ UNCHANGED <<UI, be, capture, tasks, noted>>
StartFails(c) ==
    /\ c.do = "start" /\ c.at = "asking" /\ Ends(c)
    /\ UNCHANGED <<UI, be, capture, tasks, events, noted>>

(* dictation_stop takes the session, waits for its thread and transcribes.     *)
StopTakes(c) ==
    /\ c.do = "stop" /\ c.at = "begun"
    /\ IF be.state # "listening" THEN Ends(c) /\ be' = be
       ELSE /\ calls' = (calls \ {c}) \cup {[do |-> "stop", of |-> be.session, at |-> "emit"]}
            /\ be' = [state |-> "processing", session |-> 0, flag |-> be.session]
    /\ noted' = [noted EXCEPT !.crossed = @ \/ Telling]
    /\ UNCHANGED <<UI, capture, tasks, events>>
StopEmits(c) ==
    /\ c.do = "stop" /\ c.at = "emit" /\ Goes(c, "stopping") /\ events' = StateEvent("processing")
    /\ UNCHANGED <<UI, be, capture, tasks, noted>>
StopSpawns(c) ==
    /\ c.do = "stop" /\ c.at = "stopping" /\ Ends(c) /\ capture' = capture \ {c.of}
    /\ tasks' = tasks \cup {[of |-> c.of, at |-> "transcribing"]}
    /\ UNCHANGED <<UI, be, events, noted>>

(* dictation_cancel sets the flag of a transcription; else it takes the lock    *)
(* again and ends the capture.                                              *)
CancelLooks(c) ==
    /\ c.do = "cancel" /\ c.at = "begun"
    /\ IF be.state = "processing"
       THEN /\ be' = [be EXCEPT !.state = "idle", !.flag = 0] /\ Ends(c) /\ events' = StateEvent("idle")
            /\ noted' = [noted EXCEPT !.cancelled = @ \cup ({be.flag} \ {0}), !.crossed = @ \/ Telling]
       ELSE Goes(c, "looked") /\ UNCHANGED <<be, events, noted>>
    /\ UNCHANGED <<UI, capture, tasks>>
CancelTakes(c) ==
    /\ c.do = "cancel" /\ c.at = "looked"
    /\ IF be.state = "listening"
       THEN /\ be' = [be EXCEPT !.state = "idle", !.session = 0]
            /\ calls' = (calls \ {c}) \cup {[do |-> "cancel", of |-> be.session, at |-> "stopping"]}
            /\ noted' = [noted EXCEPT !.cancelled = @ \cup {be.session}, !.crossed = @ \/ Telling]
       ELSE Ends(c) /\ UNCHANGED <<be, noted>>
    /\ UNCHANGED <<UI, capture, tasks, events>>
CancelEmits(c) ==
    /\ c.do = "cancel" /\ c.at = "stopping" /\ Ends(c) /\ capture' = capture \ {c.of}
    /\ events' = StateEvent("idle")
    /\ UNCHANGED <<UI, be, tasks, noted>>

(* The transcription. Between the first look at its flag and the model nothing  *)
(* shows, so the look is part of the spawn; a model that does not load makes the *)
(* state idle whatever the flag says by then, and whoever has the state. Else   *)
(* the flag is looked at again: a cancelled one ends untold, the others make    *)
(* the state idle in a step of their own.                                    *)
Flagged(n) == n \in noted.cancelled
Shown(n) == be.state = "processing" /\ be.flag = n
LoadFails(t) ==
    /\ t.at = "transcribing" /\ tasks' = tasks \ {t}
    /\ be' = [be EXCEPT !.state = "idle"] /\ events' = StateEvent("idle")
    /\ noted' = [noted EXCEPT !.crossed = @ \/ (be.state # "idle" /\ ~Shown(t.of))]
    /\ UNCHANGED <<UI, capture, calls>>
TranscriptionChecks(t) ==
    /\ t.at = "transcribing"
    /\ tasks' = (tasks \ {t}) \cup (IF Flagged(t.of) THEN {} ELSE {[t EXCEPT !.at = "checked"]})
    /\ UNCHANGED <<UI, be, capture, calls, events, noted>>
TranscriptionTells(t) ==
    /\ t.at = "checked" /\ tasks' = (tasks \ {t}) \cup {[t EXCEPT !.at = "ending"]}
    /\ \E text \in BOOLEAN :
          events' = IF text THEN Append(events, [kind |-> "transcript", state |-> "idle", of |-> t.of]) ELSE events
    /\ be' = IF be.flag = t.of THEN [be EXCEPT !.flag = 0] ELSE be
    /\ UNCHANGED <<UI, capture, calls, noted>>
TranscriptionEnds(t) ==
    /\ t.at = "ending" /\ tasks' = tasks \ {t}
    /\ be' = [be EXCEPT !.state = "idle"] /\ events' = StateEvent("idle")
    /\ UNCHANGED <<UI, capture, calls, noted>>

(* err_fn: the capture ends, and a task makes the state idle.                  *)
MicrophoneFails(n) ==
    /\ noted.errors < MaxErrors /\ n \in capture
    /\ capture' = capture \ {n} /\ tasks' = tasks \cup {[of |-> n, at |-> "broken"]}
    /\ noted' = [noted EXCEPT !.errors = @ + 1]
    /\ UNCHANGED <<UI, be, calls, events>>
FailureEnds(t) ==
    /\ t.at = "broken" /\ tasks' = tasks \ {t}
    /\ IF be.state = "idle" THEN UNCHANGED <<be, events>>
       ELSE /\ be' = [be EXCEPT !.state = "idle", !.session = 0]
            /\ events' = StateEvent("idle")
    /\ noted' = [noted EXCEPT !.crossed = @ \/ t.of # be.session \/ \E c \in calls : c.at = "emit"]
    /\ UNCHANGED <<UI, capture, calls>>

----------------------------------------------------------------------------
(* The window.                                                              *)
Step == noted.steps < MaxSteps
Stepped == [noted EXCEPT !.steps = @ + 1]
Call(do, n) == calls \cup {[do |-> do, of |-> n, at |-> "begun"]}
Begin(byHold) ==
    /\ noted.starts < MaxStarts
    /\ calls' = Call("start", noted.starts + 1)
    /\ noted' = [noted EXCEPT !.starts = @ + 1, !.home = Append(@, looked),
                              !.crossed = @ \/ be.state # "idle" \/ calls # {} \/ events # <<>> \/ Telling,
                              !.held = IF byHold THEN @ \cup {noted.starts + 1} ELSE @]

HandleToggleDictation ==
    \/ state = "listening" /\ Step /\ calls' = Call("stop", 0) /\ noted' = Stepped
    \/ state = "idle" /\ Begin(FALSE)
(* The microphone button of a composer; while a transcription runs it cancels. *)
HandleMicClick ==
    /\ looked # None
    /\ \/ state = "processing" /\ Step /\ calls' = Call("cancel", 0) /\ noted' = Stepped
       \/ HandleToggleDictation
    /\ UNCHANGED <<UI, be, capture, tasks, events>>
HandleEscape ==
    /\ Step /\ state # "idle" /\ calls' = Call("cancel", 0) /\ noted' = Stepped
    /\ UNCHANGED <<UI, be, capture, tasks, events>>

Released == [hold EXCEPT !.active = FALSE, !.stopPending = FALSE]
HandleKeyDown ==
    /\ ~hold.down
    /\ IF state = "idle"
       THEN Begin(TRUE) /\ hold' = [active |-> TRUE, stopPending |-> FALSE, down |-> TRUE]
       ELSE Step /\ noted' = Stepped /\ hold' = [hold EXCEPT !.down = TRUE] /\ calls' = calls
    /\ UNCHANGED <<state, transcript, looked, be, capture, tasks, events>>
HandleKeyUp ==
    /\ hold.down
    /\ IF ~hold.active THEN hold' = [hold EXCEPT !.down = FALSE] /\ calls' = calls
       ELSE IF state = "listening" THEN hold' = [Released EXCEPT !.down = FALSE] /\ calls' = Call("stop", 0)
       ELSE hold' = [active |-> FALSE, stopPending |-> TRUE, down |-> FALSE] /\ calls' = calls
    /\ UNCHANGED <<state, transcript, looked, be, capture, tasks, events, noted>>
HandleBlur ==
    /\ Step /\ hold.down
    /\ hold' = IF hold.active THEN [Released EXCEPT !.down = FALSE] ELSE [hold EXCEPT !.down = FALSE]
    /\ calls' = IF hold.active /\ state = "listening" THEN Call("cancel", 0) ELSE calls
    /\ noted' = [Stepped EXCEPT !.early = @ \/ (hold.active /\ state # "listening")]
    /\ UNCHANGED <<state, transcript, looked, be, capture, tasks, events>>
HoldStopGrace ==
    /\ hold.stopPending /\ hold' = [hold EXCEPT !.stopPending = FALSE]
    /\ noted' = [noted EXCEPT !.early = TRUE]
    /\ UNCHANGED <<state, transcript, looked, be, capture, calls, tasks, events>>

(* A transcript goes to the composer that is shown, when one is.               *)
Insert(n, at) ==
    IF n = None \/ at = None THEN transcript' = n /\ noted' = noted
    ELSE transcript' = None /\ noted' = [noted EXCEPT !.inserted = Append(@, [of |-> n, at |-> at])]
StopsNow(s) == hold.stopPending /\ s = "listening" /\ state # s
DictationEvent ==
    /\ events # <<>> /\ events' = Tail(events)
    /\ LET e == Head(events)
           stops == e.kind = "state" /\ StopsNow(e.state)
       IN  /\ state' = IF e.kind = "state" THEN e.state ELSE state
           /\ IF e.kind = "transcript" THEN Insert(e.of, looked) ELSE UNCHANGED <<transcript, noted>>
           /\ calls' = IF stops THEN Call("stop", 0) ELSE calls
           /\ hold' = IF stops THEN [hold EXCEPT !.stopPending = FALSE] ELSE hold
    /\ UNCHANGED <<looked, be, capture, tasks>>
LookAt(c) ==
    /\ Step /\ c # looked /\ looked' = c
    /\ IF transcript # None /\ c # None
       THEN transcript' = None /\ noted' = [Stepped EXCEPT !.moved = TRUE, !.inserted = Append(@, [of |-> transcript, at |-> c])]
       ELSE transcript' = transcript /\ noted' = [Stepped EXCEPT !.moved = TRUE]
    /\ UNCHANGED <<state, hold, be, capture, calls, tasks, events>>

Init ==
    /\ state = "idle" /\ hold = [active |-> FALSE, stopPending |-> FALSE, down |-> FALSE]
    /\ transcript = None /\ looked \in Composers
    /\ be = [state |-> "idle", session |-> 0, flag |-> 0]
    /\ capture = {} /\ calls = {} /\ tasks = {} /\ events = <<>>
    /\ noted = [starts |-> 0, steps |-> 0, errors |-> 0, home |-> <<>>, held |-> {}, cancelled |-> {},
                inserted |-> <<>>, crossed |-> FALSE, early |-> FALSE, moved |-> FALSE]

Next ==
    \/ \E c \in calls :
          \/ StartLooks(c) \/ StartListens(c) \/ StartEmits(c) \/ StartFails(c)
          \/ StopTakes(c) \/ StopEmits(c) \/ StopSpawns(c)
          \/ CancelLooks(c) \/ CancelTakes(c) \/ CancelEmits(c)
    \/ \E t \in tasks :
          \/ LoadFails(t) \/ TranscriptionChecks(t) \/ TranscriptionTells(t) \/ TranscriptionEnds(t) \/ FailureEnds(t)
    \/ \E n \in Sessions : MicrophoneFails(n)
    \/ HandleMicClick \/ HandleEscape \/ HandleKeyDown \/ HandleKeyUp \/ HandleBlur \/ HoldStopGrace
    \/ DictationEvent \/ \E c \in Composers \cup {None} : LookAt(c)

Spec == Init /\ [][Next]_vars

----------------------------------------------------------------------------
AtRest == calls = {} /\ tasks = {} /\ events = <<>>

(* When nothing is under way, the window shows the state of the backend, and a *)
(* microphone is open just when it says so, unless two dictations were begun    *)
(* at once, a cancel met a task or command between its lock and its event, the  *)
(* microphone failed, or the model of a cancelled or overtaken transcription     *)
(* did not load and made the state of a later dictation idle.                 *)
ShowsTheMicrophone ==
    AtRest /\ ~noted.crossed =>
        /\ state = be.state /\ state # "processing"
        /\ capture = (IF state = "listening" THEN {be.session} ELSE {})

(* A dictation begun with the key ends when it is released, unless the window   *)
(* was left, or the time for it ran out, before the microphone was open.       *)
EndsWithTheKey ==
    AtRest /\ ~noted.early /\ ~noted.crossed /\ be.state = "listening" /\ be.session \in noted.held => hold.down

(* A transcript is inserted once, never when its transcription was cancelled    *)
(* before it was told, and where it was dictated unless the user looked        *)
(* elsewhere.                                                               *)
InsertedOnce ==
    LET ins == noted.inserted
    IN  /\ \A i, j \in DOMAIN ins : ins[i].of = ins[j].of => i = j
        /\ \A i \in DOMAIN ins : ins[i].of \in noted.cancelled => noted.crossed
        /\ ~noted.moved => \A i \in DOMAIN ins : ins[i].at = noted.home[ins[i].of]

----------------------------------------------------------------------------
(* What InsertedOnce rests on: a dictation is at one place at a time on the     *)
(* way from its start to a composer, and goes there once.                     *)
Commands ==
    [do : {"start"}, of : Sessions, at : {"begun", "asking", "emit"}]
    \cup [do : {"stop", "cancel"}, of : {0}, at : {"begun"}]
    \cup [do : {"cancel"}, of : {0}, at : {"looked"}]
    \cup [do : {"stop"}, of : Sessions, at : {"emit", "stopping"}]
    \cup [do : {"cancel"}, of : Sessions, at : {"stopping"}]
Events == [kind : {"state"}, state : States, of : {0}] \cup [kind : {"transcript"}, state : {"idle"}, of : Sessions]
Insertions == [of : Sessions, at : Composers]
History == [starts : 0..MaxStarts, steps : 0..MaxSteps, errors : 0..MaxErrors,
            home : Seq(Composers \cup {None}), held : SUBSET Sessions, cancelled : SUBSET Sessions,
            inserted : Seq(Insertions), crossed : BOOLEAN, early : BOOLEAN, moved : BOOLEAN]
Typed ==
    /\ noted \in History
    /\ looked \in Composers \cup {None} /\ transcript \in Sessions \cup {None}
    /\ be \in [state : States, session : 0..MaxStarts, flag : 0..MaxStarts]
    /\ be.state = "listening" => be.session # 0
    /\ capture \subseteq Sessions /\ calls \subseteq Commands
    /\ tasks \subseteq [of : Sessions, at : {"transcribing", "checked", "ending", "broken"}]
    /\ events \in Seq(Events)

Asked == {n \in Sessions : \E c \in calls : c.do = "start" /\ c.at # "emit" /\ c.of = n}
Open == {n \in Sessions : be.state = "listening" /\ be.session = n}
Stopping == {n \in Sessions : \E c \in calls : c.do = "stop" /\ c.of = n}
TaskAt(at) == {n \in Sessions : [of |-> n, at |-> at] \in tasks}
Transcribing == TaskAt("transcribing")
Checked == TaskAt("checked")
ToldBy(es) == {n \in Sessions : \E i \in DOMAIN es : es[i].kind = "transcript" /\ es[i].of = n}
Told == ToldBy(events)
Waiting == {n \in Sessions : transcript = n}
InsertedBy(ins) == {n \in Sessions : \E i \in DOMAIN ins : ins[i].of = n}
Inserted == InsertedBy(noted.inserted)
Begun == 1..noted.starts

AtOnePlace ==
    /\ Asked \cap (Open \cup Stopping \cup Transcribing \cup Checked \cup Told \cup Waiting \cup Inserted) = {}
    /\ Open \cap (Stopping \cup Transcribing \cup Checked \cup Told \cup Waiting \cup Inserted) = {}
    /\ Stopping \cap (Transcribing \cup Checked \cup Told \cup Waiting \cup Inserted) = {}
    /\ Transcribing \cap (Checked \cup Told \cup Waiting \cup Inserted) = {}
    /\ Checked \cap (Told \cup Waiting \cup Inserted) = {}
    /\ Told \cap (Waiting \cup Inserted) = {}
    /\ Waiting \cap Inserted = {}
AllBegun ==
    /\ Asked \cup Open \cup Stopping \cup Transcribing \cup Checked \cup Told \cup Waiting \cup Inserted \subseteq Begun
    /\ noted.cancelled \subseteq Begun /\ be.flag \in {0} \cup Begun
CalledOnce == \A c, d \in calls :
    c.do = d.do /\ c.of = d.of /\ c.of # 0 /\ (c.do = "stop" \/ (c.do = "start" /\ c.at # "emit" /\ d.at # "emit")) => c = d
ToldOnce(es) == \A i, j \in DOMAIN es :
    es[i].kind = "transcript" /\ es[j].kind = "transcript" /\ es[i].of = es[j].of => i = j
Different(ins) == \A i, j \in DOMAIN ins : ins[i].of = ins[j].of => i = j
(* A cancelled dictation goes no further: the task looks at its flag.          *)
CancelledStay ==
    /\ be.flag \notin Asked \cup Open \cup Told \cup Waiting \cup Inserted
    /\ ~noted.crossed =>
          noted.cancelled \cap (Asked \cup Open \cup Stopping \cup Checked \cup Told \cup Waiting \cup Inserted) = {}
InsertedAtHome ==
    /\ Len(noted.home) = noted.starts
    /\ ~noted.moved => /\ \A n \in Begun : noted.home[n] = looked
                       /\ \A i \in DOMAIN noted.inserted : noted.inserted[i].at = looked
IInv ==
    /\ Typed /\ AtOnePlace /\ AllBegun /\ CalledOnce
    /\ ToldOnce(events) /\ Different(noted.inserted) /\ CancelledStay /\ InsertedAtHome

Bounds == MaxStarts \in Nat /\ MaxSteps \in Nat /\ MaxErrors \in Nat /\ None \notin Sessions \cup Composers

----------------------------------------------------------------------------
(* What an event adds to the transcripts that are told, and what handling one  *)
(* takes away.                                                              *)
LEMMA StateEventTells ==
    ASSUME NEW es \in Seq(Events), NEW s \in States
    PROVE  LET after == Append(es, [kind |-> "state", state |-> s, of |-> 0])
           IN  after \in Seq(Events) /\ ToldBy(after) \subseteq ToldBy(es) /\ (ToldOnce(es) => ToldOnce(after))
<1> DEFINE e == [kind |-> "state", state |-> s, of |-> 0]
           after == Append(es, e)
<1>1. e \in Events /\ e.kind # "transcript"
  BY DEF Events
<1> HIDE DEF e
<1>2. after \in Seq(Events) /\ Len(after) = Len(es) + 1
  BY <1>1
<1>3. \A i \in DOMAIN after : after[i].kind = "transcript" => i \in DOMAIN es /\ after[i] = es[i]
  BY <1>1
<1>4. ToldBy(after) \subseteq ToldBy(es) /\ (ToldOnce(es) => ToldOnce(after))
  BY <1>3 DEF ToldBy, ToldOnce
<1>. QED  BY <1>2, <1>4 DEF e

LEMMA TranscriptTells ==
    ASSUME NEW es \in Seq(Events), NEW n \in Sessions, ToldOnce(es), n \notin ToldBy(es)
    PROVE  LET after == Append(es, [kind |-> "transcript", state |-> "idle", of |-> n])
           IN  after \in Seq(Events) /\ ToldBy(after) \subseteq ToldBy(es) \cup {n} /\ ToldOnce(after)
<1> DEFINE e == [kind |-> "transcript", state |-> "idle", of |-> n]
           after == Append(es, e)
<1>1. e \in Events /\ e.of = n
  BY DEF Events
<1> HIDE DEF e
<1>2. after \in Seq(Events) /\ Len(after) = Len(es) + 1
  BY <1>1
<1>3. \A i \in DOMAIN after : (i \in DOMAIN es /\ after[i] = es[i]) \/ (i = Len(es) + 1 /\ after[i] = e)
  <2>1. after[Len(es) + 1] = e
    BY <1>1
  <2>2. \A i \in DOMAIN es : after[i] = es[i]
    BY <1>1
  <2>3. \A i \in DOMAIN after : i \in DOMAIN es \/ i = Len(es) + 1
    BY <1>1, <1>2
  <2>. QED  BY <2>1, <2>2, <2>3
<1>4. \A i \in DOMAIN es : es[i].kind = "transcript" => es[i].of # n
  BY DEF ToldBy
<1>5. ToldBy(after) \subseteq ToldBy(es) \cup {n}
  BY <1>1, <1>3 DEF ToldBy
<1>6. ToldOnce(after)
  <2> SUFFICES ASSUME NEW i \in DOMAIN after, NEW j \in DOMAIN after,
                      after[i].kind = "transcript", after[j].kind = "transcript", after[i].of = after[j].of
               PROVE  i = j
    BY DEF ToldOnce
  <2>1. CASE i \in DOMAIN es /\ after[i] = es[i] /\ j \in DOMAIN es /\ after[j] = es[j]
    BY <2>1 DEF ToldOnce
  <2>. QED  BY <2>1, <1>1, <1>3, <1>4
<1>. QED  BY <1>2, <1>5, <1>6 DEF e

LEMMA HandledEvent ==
    ASSUME NEW es \in Seq(Events), es # <<>>, ToldOnce(es)
    PROVE  /\ Tail(es) \in Seq(Events) /\ Head(es) \in Events
           /\ ToldBy(Tail(es)) \subseteq ToldBy(es) /\ ToldOnce(Tail(es))
           /\ Head(es).kind = "transcript" => Head(es).of \in ToldBy(es) \ ToldBy(Tail(es))
<1>1. Tail(es) \in Seq(Events) /\ Head(es) \in Events /\ Len(es) \in Nat /\ Len(es) > 0 /\ Head(es) = es[1]
  OBVIOUS
<1>2. \A i \in DOMAIN Tail(es) : i + 1 \in DOMAIN es /\ Tail(es)[i] = es[i + 1] /\ i \in Nat /\ i + 1 # 1
  OBVIOUS
<1>3. \A i, j \in DOMAIN Tail(es) : i + 1 = j + 1 => i = j
  OBVIOUS
<1>4. 1 \in DOMAIN es
  BY <1>1
<1>5. ToldBy(Tail(es)) \subseteq ToldBy(es) /\ ToldOnce(Tail(es))
  BY <1>2, <1>3 DEF ToldBy, ToldOnce
<1>6. ASSUME Head(es).kind = "transcript" PROVE Head(es).of \in ToldBy(es) \ ToldBy(Tail(es))
  <2>1. Head(es).of \in Sessions
    BY <1>1, <1>6 DEF Events
  <2>2. Head(es).of \in ToldBy(es)
    BY <2>1, <1>1, <1>4, <1>6 DEF ToldBy
  <2>3. \A i \in DOMAIN Tail(es) : Tail(es)[i].kind = "transcript" => Tail(es)[i].of # Head(es).of
    BY <1>1, <1>2, <1>4, <1>6 DEF ToldOnce
  <2>. QED  BY <2>2, <2>3 DEF ToldBy
<1>. QED  BY <1>1, <1>5, <1>6

(* What inserting a transcript adds.                                        *)
LEMMA InsertAdds ==
    ASSUME NEW ins \in Seq(Insertions), NEW n \in Sessions, NEW at \in Composers,
           Different(ins), n \notin InsertedBy(ins)
    PROVE  LET after == Append(ins, [of |-> n, at |-> at])
           IN  /\ after \in Seq(Insertions) /\ InsertedBy(after) \subseteq InsertedBy(ins) \cup {n}
               /\ Different(after)
               /\ \A i \in DOMAIN after : after[i].at = at \/ (i \in DOMAIN ins /\ after[i] = ins[i])
<1> DEFINE e == [of |-> n, at |-> at]
           after == Append(ins, e)
<1>1. e \in Insertions /\ e.of = n /\ e.at = at
  BY DEF Insertions
<1> HIDE DEF e
<1>2. after \in Seq(Insertions) /\ Len(after) = Len(ins) + 1
  BY <1>1
<1>3. \A i \in DOMAIN after : (i \in DOMAIN ins /\ after[i] = ins[i]) \/ (i = Len(ins) + 1 /\ after[i] = e)
  <2>1. after[Len(ins) + 1] = e
    BY <1>1
  <2>2. \A i \in DOMAIN ins : after[i] = ins[i]
    BY <1>1
  <2>3. \A i \in DOMAIN after : i \in DOMAIN ins \/ i = Len(ins) + 1
    BY <1>1, <1>2
  <2>. QED  BY <2>1, <2>2, <2>3
<1>4. \A i \in DOMAIN ins : ins[i].of # n
  BY DEF InsertedBy
<1>5. InsertedBy(after) \subseteq InsertedBy(ins) \cup {n}
  BY <1>1, <1>3 DEF InsertedBy
<1>6. Different(after)
  BY <1>1, <1>3, <1>4 DEF Different
<1>7. \A i \in DOMAIN after : after[i].at = at \/ (i \in DOMAIN ins /\ after[i] = ins[i])
  BY <1>1, <1>3
<1>. QED  BY <1>2, <1>5, <1>6, <1>7 DEF e

(* A step that takes a dictation no further keeps the invariant.               *)
LEMMA NoFurther ==
    ASSUME Bounds, IInv, Typed', CalledOnce', ToldOnce(events)',
           Asked' \subseteq Asked, Open' \subseteq Open, Stopping' \subseteq Stopping,
           Transcribing' \subseteq Transcribing, Checked' \subseteq Checked, Told' \subseteq Told,
           Waiting' \subseteq Waiting, noted'.inserted = noted.inserted, noted'.starts = noted.starts,
           noted'.home = noted.home, noted'.cancelled = noted.cancelled, noted'.moved = noted.moved,
           noted.crossed => noted'.crossed, looked' = looked, be'.flag \in {0, be.flag}
    PROVE  IInv'
<1>1. Inserted' = Inserted /\ Different(noted.inserted)' /\ Begun' = Begun
  BY DEF IInv, Inserted, InsertedBy, Different, Begun
<1>2. AtOnePlace'
  BY <1>1 DEF IInv, AtOnePlace
<1>3. AllBegun'
  BY <1>1 DEF IInv, AllBegun
<1>4. 0 \notin Asked \cup Open \cup Told \cup Waiting \cup Inserted
  BY DEF Asked, Open, Told, ToldBy, Waiting, Inserted, InsertedBy, Sessions, Bounds
<1>5. CancelledStay'
  BY <1>1, <1>4 DEF IInv, CancelledStay
<1>6. InsertedAtHome'
  BY <1>1 DEF IInv, InsertedAtHome
<1>. QED  BY <1>1, <1>2, <1>3, <1>5, <1>6 DEF IInv

(* A command that ends, or a stop or cancel that is called, asks for nothing. *)
LEMMA CallsEnd ==
    ASSUME Typed, CalledOnce, NEW do \in {"stop", "cancel"},
           calls' \subseteq calls \cup {[do |-> do, of |-> 0, at |-> "begun"]}
    PROVE  calls' \subseteq Commands /\ CalledOnce' /\ Asked' \subseteq Asked /\ Stopping' \subseteq Stopping
<1>1. calls' \subseteq Commands
  BY DEF Typed, Commands
<1>2. CalledOnce'
  BY DEF CalledOnce
<1>3. Asked' \subseteq Asked
  BY DEF Asked
<1>4. Stopping' \subseteq Stopping
  BY DEF Stopping, Sessions
<1>. QED  BY <1>1, <1>2, <1>3, <1>4

(* A command that goes on is the same command.                                *)
LEMMA CommandGoesOn ==
    ASSUME Typed, CalledOnce, NEW c \in calls, NEW at, [c EXCEPT !.at = at] \in Commands, Goes(c, at),
           c.at = "emit" => at = "stopping"
    PROVE  calls' \subseteq Commands /\ CalledOnce' /\ Asked' \subseteq Asked /\ Stopping' \subseteq Stopping
<1> DEFINE d == [c EXCEPT !.at = at]
<1>1. c \in Commands /\ d.do = c.do /\ d.of = c.of /\ d.at = at
  BY DEF Typed, Commands
<1>2. calls' = (calls \ {c}) \cup {d}
  BY DEF Goes
<1>3. d \in Commands
  OBVIOUS
<1> HIDE DEF d
<1>4. calls' \subseteq Commands
  BY <1>2, <1>3 DEF Typed
<1>5. c.do = "start" => c.at # "emit"
  BY <1>1, <1>3 DEF Commands
<1>6. CalledOnce'
  BY <1>1, <1>2, <1>5 DEF CalledOnce
<1>7. Asked' \subseteq Asked
  BY <1>1, <1>2, <1>5 DEF Asked
<1>8. Stopping' \subseteq Stopping
  BY <1>1, <1>2 DEF Stopping
<1>. QED  BY <1>4, <1>6, <1>7, <1>8

(* What a step that leaves a part alone leaves of the places.                   *)
LEMMA SamePlaces ==
    /\ UNCHANGED calls => calls' \subseteq calls
    /\ UNCHANGED be => Open' = Open
    /\ UNCHANGED tasks => Transcribing' = Transcribing /\ Checked' = Checked
    /\ UNCHANGED events => Told' = Told /\ (ToldOnce(events) => ToldOnce(events)')
    /\ UNCHANGED transcript => Waiting' = Waiting
    /\ UNCHANGED noted => Inserted' = Inserted
BY DEF Open, Transcribing, Checked, TaskAt, Told, ToldBy, ToldOnce, Waiting, Inserted, InsertedBy

----------------------------------------------------------------------------
(* The commands and tasks.                                                  *)
LEMMA StartLooksKeeps == ASSUME Bounds, IInv, NEW c \in calls, StartLooks(c) PROVE IInv'
<1>1. Typed /\ CalledOnce /\ ToldOnce(events) /\ c \in Commands /\ c.do = "start" /\ c.at = "begun"
  BY DEF IInv, Typed, StartLooks
<1>2. UNCHANGED <<state, hold, transcript, looked, be, capture, tasks, events, noted>>
  BY DEF StartLooks, UI
<1>3. CASE Goes(c, "asking")
  <2>1. [c EXCEPT !.at = "asking"] \in Commands
    BY <1>1 DEF Commands
  <2>2. calls' \subseteq Commands /\ CalledOnce' /\ Asked' \subseteq Asked /\ Stopping' \subseteq Stopping
    BY <1>1, <1>3, <2>1, CommandGoesOn
  <2>3. Typed'
    BY <1>1, <1>2, <2>2 DEF Typed
  <2>. QED  BY <1>1, <1>2, <2>2, <2>3, SamePlaces, NoFurther
<1>4. CASE Ends(c)
  <2>1. calls' \subseteq Commands /\ CalledOnce' /\ Asked' \subseteq Asked /\ Stopping' \subseteq Stopping
    BY <1>1, <1>4, CallsEnd DEF Ends
  <2>2. Typed'
    BY <1>1, <1>2, <2>1 DEF Typed
  <2>. QED  BY <1>1, <1>2, <2>1, <2>2, SamePlaces, NoFurther
<1>. QED  BY <1>3, <1>4 DEF StartLooks

LEMMA StartListensKeeps == ASSUME Bounds, IInv, NEW c \in calls, StartListens(c) PROVE IInv'
<1> DEFINE n == c.of
<1>1. Typed /\ CalledOnce /\ ToldOnce(events) /\ c \in Commands /\ c.do = "start" /\ c.at = "asking" /\ Goes(c, "emit")
  BY DEF IInv, Typed, StartListens
<1>2. UNCHANGED <<state, hold, transcript, looked, tasks, events, noted>>
  BY DEF StartListens, UI
<1>3. n \in Sessions /\ n # 0
  BY <1>1 DEF Commands, Sessions, Bounds
<1>4. calls' \subseteq Commands /\ CalledOnce' /\ Asked' \subseteq Asked /\ Stopping' \subseteq Stopping
  <2>1. [c EXCEPT !.at = "emit"] \in Commands
    BY <1>1 DEF Commands
  <2>. QED  BY <1>1, <2>1, CommandGoesOn
<1>5. n \in Asked /\ n \notin Asked'
  <2>1. n \in Asked
    BY <1>1, <1>3 DEF Asked
  <2>2. [c EXCEPT !.at = "emit"].at = "emit"
    BY <1>1 DEF Commands
  <2>3. \A d \in calls \ {c} : d.do = "start" /\ d.of = n => d.at = "emit"
    BY <1>1, <1>3 DEF CalledOnce
  <2>4. \A d \in calls' : d.do = "start" /\ d.of = n => d.at = "emit"
    BY <1>1, <2>2, <2>3 DEF Goes
  <2>. QED  BY <2>1, <2>4 DEF Asked
<1>6. /\ be' \in [state : States, session : 0..MaxStarts, flag : 0..MaxStarts]
      /\ be'.state = "listening" /\ be'.session = n /\ be'.flag = be.flag
  <2>1. be' = [be EXCEPT !.state = "listening", !.session = c.of]
    BY DEF StartListens
  <2>2. be \in [state : States, session : 0..MaxStarts, flag : 0..MaxStarts]
    BY <1>1 DEF Typed
  <2>3. c.of \in 0..MaxStarts /\ "listening" \in States
    BY <1>3 DEF States, Sessions, Bounds
  <2>. QED  BY <2>1, <2>2, <2>3
<1>7. Open' \subseteq {n}
  BY <1>6 DEF Open
<1>8. capture' \subseteq Sessions
  BY <1>1, <1>3 DEF StartListens, Typed
<1>9. Typed'
  BY <1>1, <1>2, <1>3, <1>4, <1>6, <1>8 DEF Typed
<1>10. /\ Transcribing' = Transcribing /\ Checked' = Checked /\ Told' = Told /\ Waiting' = Waiting
       /\ Inserted' = Inserted /\ ToldOnce(events)' /\ Different(noted.inserted)' /\ Begun' = Begun
  BY <1>1, <1>2, SamePlaces DEF Begun, IInv, Different
<1>11. AtOnePlace'
  BY <1>4, <1>5, <1>7, <1>10 DEF IInv, AtOnePlace
<1>12. AllBegun'
  BY <1>2, <1>4, <1>5, <1>6, <1>7, <1>10 DEF IInv, AllBegun
<1>13. CancelledStay'
  BY <1>2, <1>4, <1>5, <1>6, <1>7, <1>10 DEF IInv, CancelledStay
<1>14. InsertedAtHome'
  BY <1>2, <1>10 DEF IInv, InsertedAtHome
<1>. QED  BY <1>4, <1>9, <1>10, <1>11, <1>12, <1>13, <1>14 DEF IInv

LEMMA StartEmitsKeeps == ASSUME Bounds, IInv, NEW c \in calls, StartEmits(c) PROVE IInv'
<1>1. Typed /\ CalledOnce /\ ToldOnce(events) /\ events \in Seq(Events)
  BY DEF IInv, Typed
<1>2. UNCHANGED <<state, hold, transcript, looked, be, capture, tasks, noted>> /\ calls' \subseteq calls
  BY DEF StartEmits, UI, Ends
<1>3. calls' \subseteq Commands /\ CalledOnce' /\ Asked' \subseteq Asked /\ Stopping' \subseteq Stopping
  BY <1>1, <1>2, CallsEnd
<1>4. events' \in Seq(Events) /\ Told' \subseteq Told /\ ToldOnce(events)'
  BY <1>1, StateEventTells DEF StartEmits, StateEvent, Told, States
<1>5. Typed'
  BY <1>1, <1>2, <1>3, <1>4 DEF Typed
<1>. QED  BY <1>2, <1>3, <1>4, <1>5, SamePlaces, NoFurther

LEMMA StartFailsKeeps == ASSUME Bounds, IInv, NEW c \in calls, StartFails(c) PROVE IInv'
<1>1. Typed /\ CalledOnce /\ ToldOnce(events)
  BY DEF IInv
<1>2. UNCHANGED <<state, hold, transcript, looked, be, capture, tasks, events, noted>> /\ calls' \subseteq calls
  BY DEF StartFails, UI, Ends
<1>3. calls' \subseteq Commands /\ CalledOnce' /\ Asked' \subseteq Asked /\ Stopping' \subseteq Stopping
  BY <1>1, <1>2, CallsEnd
<1>4. Typed'
  BY <1>1, <1>2, <1>3 DEF Typed
<1>. QED  BY <1>1, <1>2, <1>3, <1>4, SamePlaces, NoFurther

(* A step whose record of the history is the old one but for crossed.          *)
LEMMA OnlyCrossed ==
    ASSUME Typed, NEW x, noted' = [noted EXCEPT !.crossed = @ \/ x]
    PROVE  /\ noted' \in History /\ noted'.inserted = noted.inserted /\ noted'.starts = noted.starts
           /\ noted'.home = noted.home /\ noted'.cancelled = noted.cancelled /\ noted'.moved = noted.moved
           /\ noted'.crossed = (noted.crossed \/ x)
<1>1. noted \in History
  BY DEF Typed
<1>2. (noted.crossed \/ x) \in BOOLEAN
  OBVIOUS
<1>. QED  BY <1>1, <1>2 DEF History

LEMMA StopTakesKeeps == ASSUME Bounds, IInv, NEW c \in calls, StopTakes(c) PROVE IInv'
<1>1. Typed /\ CalledOnce /\ ToldOnce(events) /\ c \in Commands
  BY DEF IInv, Typed
<1>2. UNCHANGED <<state, hold, transcript, looked, capture, tasks, events>>
  BY DEF StopTakes, UI
<1>3. /\ noted' \in History /\ noted'.inserted = noted.inserted /\ noted'.starts = noted.starts
      /\ noted'.home = noted.home /\ noted'.cancelled = noted.cancelled /\ noted'.moved = noted.moved
      /\ noted.crossed => noted'.crossed
  BY <1>1, OnlyCrossed DEF StopTakes
<1>4. CASE Ends(c) /\ be' = be
  <2>1. calls' \subseteq Commands /\ CalledOnce' /\ Asked' \subseteq Asked /\ Stopping' \subseteq Stopping
    BY <1>1, <1>4, CallsEnd DEF Ends
  <2>2. Typed'
    BY <1>1, <1>2, <1>3, <1>4, <2>1 DEF Typed
  <2>. QED  BY <1>1, <1>2, <1>3, <1>4, <2>1, <2>2, SamePlaces, NoFurther
<1>5. CASE be.state = "listening"
  <2> DEFINE n == be.session
  <2>1. n \in Sessions /\ n # 0 /\ n \in Open
    BY <1>1, <1>5 DEF Typed, Sessions, Bounds, Open
  <2>2. be' = [state |-> "processing", session |-> 0, flag |-> n]
    BY <1>5 DEF StopTakes
  <2>3. /\ be' \in [state : States, session : 0..MaxStarts, flag : 0..MaxStarts]
        /\ be'.state # "listening" /\ be'.flag = n
    BY <2>1, <2>2 DEF States, Sessions, Bounds
  <2>4. Open' = {}
    BY <2>3 DEF Open
  <2> DEFINE d == [do |-> "stop", of |-> n, at |-> "emit"]
  <2>5. calls' = (calls \ {c}) \cup {d}
    BY <1>5 DEF StopTakes
  <2>6. d \in Commands /\ d.do = "stop" /\ d.of = n
    BY <2>1 DEF Commands
  <2> HIDE DEF d
  <2>7. calls' \subseteq Commands
    BY <1>1, <2>5, <2>6 DEF Typed
  <2>8. n \notin Stopping
    BY <2>1 DEF IInv, AtOnePlace
  <2>9. CalledOnce'
    BY <1>1, <2>1, <2>5, <2>6, <2>8 DEF CalledOnce, Stopping
  <2>10. Asked' \subseteq Asked /\ Stopping' \subseteq Stopping \cup {n}
    BY <2>5, <2>6 DEF Asked, Stopping
  <2>11. Typed'
    BY <1>1, <1>2, <1>3, <2>3, <2>7 DEF Typed
  <2>12. /\ Transcribing' = Transcribing /\ Checked' = Checked /\ Told' = Told /\ Waiting' = Waiting
         /\ Inserted' = Inserted /\ ToldOnce(events)' /\ Different(noted.inserted)' /\ Begun' = Begun
    BY <1>1, <1>2, <1>3, SamePlaces DEF Begun, IInv, Different, Inserted, InsertedBy
  <2>13. AtOnePlace'
    BY <2>1, <2>4, <2>10, <2>12 DEF IInv, AtOnePlace
  <2>14. AllBegun'
    BY <1>3, <2>1, <2>3, <2>4, <2>10, <2>12 DEF IInv, AllBegun
  <2>15. n \notin Asked' \cup Open' \cup Told' \cup Waiting' \cup Inserted'
    BY <2>1, <2>4, <2>10, <2>12 DEF IInv, AtOnePlace
  <2>16. ~noted'.crossed => n \notin noted'.cancelled
    BY <1>3, <2>1 DEF IInv, CancelledStay
  <2>17. CancelledStay'
    BY <1>3, <2>3, <2>4, <2>10, <2>12, <2>15, <2>16 DEF IInv, CancelledStay
  <2>18. InsertedAtHome'
    BY <1>2, <1>3, <2>12 DEF IInv, InsertedAtHome
  <2>. QED  BY <2>9, <2>11, <2>12, <2>13, <2>14, <2>17, <2>18 DEF IInv
<1>. QED  BY <1>4, <1>5 DEF StopTakes

LEMMA StopEmitsKeeps == ASSUME Bounds, IInv, NEW c \in calls, StopEmits(c) PROVE IInv'
<1>1. /\ Typed /\ CalledOnce /\ ToldOnce(events) /\ events \in Seq(Events)
      /\ c \in Commands /\ c.do = "stop" /\ c.at = "emit" /\ Goes(c, "stopping")
  BY DEF IInv, Typed, StopEmits
<1>2. UNCHANGED <<state, hold, transcript, looked, be, capture, tasks, noted>>
  BY DEF StopEmits, UI
<1>3. [c EXCEPT !.at = "stopping"] \in Commands
  BY <1>1 DEF Commands
<1>4. calls' \subseteq Commands /\ CalledOnce' /\ Asked' \subseteq Asked /\ Stopping' \subseteq Stopping
  BY <1>1, <1>3, CommandGoesOn
<1>5. events' \in Seq(Events) /\ Told' \subseteq Told /\ ToldOnce(events)'
  BY <1>1, StateEventTells DEF StopEmits, StateEvent, Told, States
<1>6. Typed'
  BY <1>1, <1>2, <1>4, <1>5 DEF Typed
<1>. QED  BY <1>2, <1>4, <1>5, <1>6, SamePlaces, NoFurther

LEMMA StopSpawnsKeeps == ASSUME Bounds, IInv, NEW c \in calls, StopSpawns(c) PROVE IInv'
<1> DEFINE n == c.of
<1>1. /\ Typed /\ CalledOnce /\ ToldOnce(events)
      /\ c \in Commands /\ c.do = "stop" /\ c.at = "stopping" /\ calls' = calls \ {c}
  BY DEF IInv, Typed, StopSpawns, Ends
<1>2. UNCHANGED <<state, hold, transcript, looked, be, events, noted>>
  BY DEF StopSpawns, UI
<1>3. n \in Sessions /\ n # 0
  BY <1>1 DEF Commands, Sessions, Bounds
<1>4. calls' \subseteq Commands /\ CalledOnce' /\ Asked' \subseteq Asked /\ Stopping' \subseteq Stopping
  BY <1>1, CallsEnd
<1>5. n \in Stopping /\ n \notin Stopping'
  BY <1>1, <1>3 DEF Stopping, CalledOnce
<1>6. capture' \subseteq Sessions
  BY <1>1 DEF StopSpawns, Typed
<1> DEFINE t == [of |-> n, at |-> "transcribing"]
<1>7. tasks' = tasks \cup {t}
  BY DEF StopSpawns
<1>8. tasks' \subseteq [of : Sessions, at : {"transcribing", "checked", "ending", "broken"}]
  BY <1>1, <1>3, <1>7 DEF Typed
<1>9. Transcribing' \subseteq Transcribing \cup {n} /\ Checked' = Checked
  BY <1>7 DEF Transcribing, Checked, TaskAt
<1>10. Typed'
  BY <1>1, <1>2, <1>4, <1>6, <1>8 DEF Typed
<1>11. /\ Open' = Open /\ Told' = Told /\ Waiting' = Waiting
       /\ Inserted' = Inserted /\ ToldOnce(events)' /\ Different(noted.inserted)' /\ Begun' = Begun
  BY <1>1, <1>2, SamePlaces DEF Begun, IInv, Different
<1>12. AtOnePlace'
  BY <1>4, <1>5, <1>9, <1>11 DEF IInv, AtOnePlace
<1>13. AllBegun'
  BY <1>2, <1>4, <1>5, <1>9, <1>11 DEF IInv, AllBegun
<1>14. CancelledStay'
  BY <1>2, <1>4, <1>9, <1>11 DEF IInv, CancelledStay
<1>15. InsertedAtHome'
  BY <1>2, <1>11 DEF IInv, InsertedAtHome
<1>. QED  BY <1>4, <1>10, <1>11, <1>12, <1>13, <1>14, <1>15 DEF IInv

(* A cancel: a transcription keeps its flag, and nothing that was taken by a    *)
(* task or command meanwhile has one, unless they crossed.                     *)
LEMMA CancelLooksKeeps == ASSUME Bounds, IInv, NEW c \in calls, CancelLooks(c) PROVE IInv'
<1>1. /\ Typed /\ CalledOnce /\ ToldOnce(events) /\ c \in Commands /\ events \in Seq(Events)
      /\ be \in [state : States, session : 0..MaxStarts, flag : 0..MaxStarts] /\ noted \in History
  BY DEF IInv, Typed
<1>2. UNCHANGED <<state, hold, transcript, looked, capture, tasks>>
  BY DEF CancelLooks, UI
<1>3. /\ Transcribing' = Transcribing /\ Checked' = Checked /\ Waiting' = Waiting
  BY <1>2, SamePlaces
<1>4. CASE be.state = "processing"
  <2>1. /\ be' = [be EXCEPT !.state = "idle", !.flag = 0] /\ calls' = calls \ {c} /\ events' = StateEvent("idle")
        /\ noted' = [noted EXCEPT !.cancelled = @ \cup ({be.flag} \ {0}), !.crossed = @ \/ Telling]
    BY <1>4 DEF CancelLooks, Ends
  <2>2. /\ be' \in [state : States, session : 0..MaxStarts, flag : 0..MaxStarts]
        /\ be'.state = "idle" /\ be'.flag = 0
    <3>1. "idle" \in States /\ 0 \in 0..MaxStarts
      BY DEF States, Bounds
    <3>. QED  BY <1>1, <2>1, <3>1
  <2>3. Open' = {}
    BY <2>2 DEF Open
  <2>4. calls' \subseteq Commands /\ CalledOnce' /\ Asked' \subseteq Asked /\ Stopping' \subseteq Stopping
    BY <1>1, <2>1, CallsEnd
  <2>5. events' \in Seq(Events) /\ Told' \subseteq Told /\ ToldOnce(events)'
    BY <1>1, <2>1, StateEventTells DEF StateEvent, Told, States
  <2>6. noted.cancelled \cup ({be.flag} \ {0}) \in SUBSET Sessions /\ (noted.crossed \/ Telling) \in BOOLEAN
    BY <1>1 DEF History, Sessions, Bounds
  <2>7. /\ noted' \in History /\ noted'.inserted = noted.inserted /\ noted'.starts = noted.starts
        /\ noted'.home = noted.home /\ noted'.moved = noted.moved
        /\ noted'.cancelled = noted.cancelled \cup ({be.flag} \ {0})
    BY <1>1, <2>1, <2>6 DEF History
  <2>8. noted'.crossed = (noted.crossed \/ Telling)
    BY <1>1, <2>1, <2>6 DEF History
  <2>9. Typed'
    BY <1>1, <1>2, <2>2, <2>4, <2>5, <2>7 DEF Typed
  <2>10. Inserted' = Inserted /\ Different(noted.inserted)' /\ Begun' = Begun
    BY <2>7 DEF IInv, Inserted, InsertedBy, Different, Begun
  <2>11. AtOnePlace'
    BY <1>3, <2>3, <2>4, <2>5, <2>10 DEF IInv, AtOnePlace
  <2>12. AllBegun'
    BY <1>3, <2>2, <2>3, <2>4, <2>5, <2>7, <2>10 DEF IInv, AllBegun
  <2>13. ~Telling => Checked = {} /\ Stopping' = {}
    <3>1. ~Telling => \A t \in tasks : t.at = "transcribing"
      BY DEF Telling
    <3>2. ~Telling => \A d \in calls : d.at \notin {"emit", "stopping"}
      BY DEF Telling
    <3>3. \A d \in calls : d.do = "stop" /\ d.of # 0 => d.at \in {"emit", "stopping"}
      BY <1>1 DEF Typed, Commands
    <3>4. \A n \in Sessions : n # 0
      BY DEF Sessions, Bounds
    <3>5. ~Telling => Checked = {}
      BY <3>1 DEF Checked, TaskAt
    <3>6. ~Telling => Stopping' = {}
      BY <2>1, <3>2, <3>3, <3>4 DEF Stopping
    <3>. QED  BY <3>5, <3>6
  <2>14. 0 \notin Asked \cup Open \cup Told \cup Waiting \cup Inserted
    BY DEF Asked, Open, Told, ToldBy, Waiting, Inserted, InsertedBy, Sessions, Bounds
  <2>15. be'.flag \notin Asked' \cup Open' \cup Told' \cup Waiting' \cup Inserted'
    BY <1>3, <2>2, <2>3, <2>4, <2>5, <2>10, <2>14
  <2>16. ASSUME ~noted'.crossed
         PROVE  noted'.cancelled \cap (Asked' \cup Open' \cup Stopping' \cup Checked' \cup Told' \cup Waiting' \cup Inserted') = {}
    <3>1. ~noted.crossed /\ ~Telling
      BY <2>8, <2>16
    <3>2. noted.cancelled \cap (Asked' \cup Open' \cup Stopping' \cup Checked' \cup Told' \cup Waiting' \cup Inserted') = {}
      BY <1>3, <2>3, <2>4, <2>5, <2>10, <3>1 DEF IInv, CancelledStay
    <3>3. be.flag \notin Asked' \cup Open' \cup Stopping' \cup Checked' \cup Told' \cup Waiting' \cup Inserted'
      BY <1>3, <2>3, <2>4, <2>5, <2>10, <2>13, <3>1 DEF IInv, CancelledStay
    <3>. QED  BY <2>7, <3>2, <3>3
  <2>17. CancelledStay'
    BY <2>15, <2>16 DEF CancelledStay
  <2>18. InsertedAtHome'
    BY <1>2, <2>7, <2>10 DEF IInv, InsertedAtHome
  <2>. QED  BY <2>4, <2>5, <2>9, <2>10, <2>11, <2>12, <2>17, <2>18 DEF IInv
<1>5. CASE be.state # "processing"
  <2>1. UNCHANGED <<be, events, noted>> /\ Goes(c, "looked") /\ c.do = "cancel" /\ c.at = "begun"
    BY <1>5 DEF CancelLooks
  <2>2. [c EXCEPT !.at = "looked"] \in Commands
    BY <1>1, <2>1 DEF Commands
  <2>3. calls' \subseteq Commands /\ CalledOnce' /\ Asked' \subseteq Asked /\ Stopping' \subseteq Stopping
    BY <1>1, <2>1, <2>2, CommandGoesOn
  <2>4. Typed'
    BY <1>1, <1>2, <2>1, <2>3 DEF Typed
  <2>. QED  BY <1>1, <1>2, <2>1, <2>3, <2>4, SamePlaces, NoFurther
<1>. QED  BY <1>4, <1>5

LEMMA CancelTakesKeeps == ASSUME Bounds, IInv, NEW c \in calls, CancelTakes(c) PROVE IInv'
<1>1. /\ Typed /\ CalledOnce /\ ToldOnce(events) /\ c \in Commands /\ events \in Seq(Events)
      /\ be \in [state : States, session : 0..MaxStarts, flag : 0..MaxStarts] /\ noted \in History
  BY DEF IInv, Typed
<1>2. UNCHANGED <<state, hold, transcript, looked, capture, tasks, events>>
  BY DEF CancelTakes, UI
<1>3. /\ Transcribing' = Transcribing /\ Checked' = Checked /\ Waiting' = Waiting
  BY <1>2, SamePlaces
<1>4. CASE be.state = "listening"
  <2> DEFINE n == be.session
  <2>1. n \in Sessions /\ n # 0 /\ n \in Open
    BY <1>1, <1>4 DEF IInv, Typed, Sessions, Bounds, Open
  <2>2. /\ be' = [be EXCEPT !.state = "idle", !.session = 0]
        /\ calls' = (calls \ {c}) \cup {[do |-> "cancel", of |-> n, at |-> "stopping"]}
        /\ noted' = [noted EXCEPT !.cancelled = @ \cup {n}, !.crossed = @ \/ Telling]
    BY <1>4 DEF CancelTakes
  <2>3. /\ be' \in [state : States, session : 0..MaxStarts, flag : 0..MaxStarts]
        /\ be'.state = "idle" /\ be'.flag = be.flag
    <3>1. "idle" \in States /\ 0 \in 0..MaxStarts
      BY DEF States, Bounds
    <3>. QED  BY <1>1, <2>2, <3>1
  <2>4. Open' = {}
    BY <2>3 DEF Open
  <2>5. calls' \subseteq Commands
    BY <1>1, <2>1, <2>2 DEF Typed, Commands
  <2>6. CalledOnce' /\ Asked' \subseteq Asked /\ Stopping' \subseteq Stopping
    BY <1>1, <2>2 DEF CalledOnce, Asked, Stopping
  <2>7. noted.cancelled \cup {n} \in SUBSET Sessions /\ (noted.crossed \/ Telling) \in BOOLEAN
    BY <1>1, <2>1 DEF History
  <2>8. /\ noted' \in History /\ noted'.inserted = noted.inserted /\ noted'.starts = noted.starts
        /\ noted'.home = noted.home /\ noted'.moved = noted.moved
        /\ noted'.cancelled = noted.cancelled \cup {n}
    BY <1>1, <2>2, <2>7 DEF History
  <2>9. noted'.crossed = (noted.crossed \/ Telling)
    BY <1>1, <2>2, <2>7 DEF History
  <2>10. Typed'
    BY <1>1, <1>2, <2>2, <2>3, <2>5, <2>8 DEF Typed
  <2>11. Inserted' = Inserted /\ Different(noted.inserted)' /\ Begun' = Begun
    BY <2>8 DEF IInv, Inserted, InsertedBy, Different, Begun
  <2>12. Told' = Told /\ ToldOnce(events)'
    BY <1>1, <1>2, SamePlaces
  <2>13. AtOnePlace'
    BY <1>3, <2>4, <2>6, <2>11, <2>12 DEF IInv, AtOnePlace
  <2>14. AllBegun'
    BY <1>3, <2>1, <2>3, <2>4, <2>6, <2>8, <2>11, <2>12 DEF IInv, AllBegun
  <2>15. n \notin Asked' \cup Open' \cup Stopping' \cup Checked' \cup Told' \cup Waiting' \cup Inserted'
    BY <1>3, <2>1, <2>4, <2>6, <2>11, <2>12 DEF IInv, AtOnePlace
  <2>16. ~noted'.crossed => ~noted.crossed
    BY <2>9
  <2>17. CancelledStay'
    BY <1>3, <2>3, <2>4, <2>6, <2>8, <2>11, <2>12, <2>15, <2>16 DEF IInv, CancelledStay
  <2>18. InsertedAtHome'
    BY <1>2, <2>8, <2>11 DEF IInv, InsertedAtHome
  <2>. QED  BY <2>6, <2>10, <2>11, <2>12, <2>13, <2>14, <2>17, <2>18 DEF IInv
<1>5. CASE be.state # "listening"
  <2>1. UNCHANGED <<be, noted>> /\ calls' \subseteq calls
    BY <1>5 DEF CancelTakes, Ends
  <2>2. calls' \subseteq Commands /\ CalledOnce' /\ Asked' \subseteq Asked /\ Stopping' \subseteq Stopping
    BY <1>1, <2>1, CallsEnd
  <2>3. Typed'
    BY <1>1, <1>2, <2>1, <2>2 DEF Typed
  <2>. QED  BY <1>1, <1>2, <2>1, <2>2, <2>3, SamePlaces, NoFurther
<1>. QED  BY <1>4, <1>5

LEMMA CancelEmitsKeeps == ASSUME Bounds, IInv, NEW c \in calls, CancelEmits(c) PROVE IInv'
<1>1. Typed /\ CalledOnce /\ ToldOnce(events) /\ events \in Seq(Events)
  BY DEF IInv, Typed
<1>2. UNCHANGED <<state, hold, transcript, looked, be, tasks, noted>> /\ calls' \subseteq calls /\ capture' \subseteq capture
  BY DEF CancelEmits, UI, Ends
<1>3. calls' \subseteq Commands /\ CalledOnce' /\ Asked' \subseteq Asked /\ Stopping' \subseteq Stopping
  BY <1>1, <1>2, CallsEnd
<1>4. events' \in Seq(Events) /\ Told' \subseteq Told /\ ToldOnce(events)'
  BY <1>1, StateEventTells DEF CancelEmits, StateEvent, Told, States
<1>5. Typed'
  BY <1>1, <1>2, <1>3, <1>4 DEF Typed
<1>. QED  BY <1>2, <1>3, <1>4, <1>5, SamePlaces, NoFurther

LEMMA TranscriptionChecksKeeps == ASSUME Bounds, IInv, NEW t \in tasks, TranscriptionChecks(t) PROVE IInv'
<1> DEFINE n == t.of
<1>1. /\ Typed /\ CalledOnce /\ ToldOnce(events) /\ n \in Sessions
      /\ t \in [of : Sessions, at : {"transcribing", "checked", "ending", "broken"}] /\ t.at = "transcribing"
  BY DEF IInv, Typed, TranscriptionChecks
<1>2. UNCHANGED <<state, hold, transcript, looked, be, capture, calls, events, noted>>
  BY DEF TranscriptionChecks, UI
<1>3. t = [of |-> n, at |-> "transcribing"]
  BY <1>1
<1>4. n \in Transcribing
  BY <1>1, <1>3 DEF Transcribing, TaskAt
<1>5. /\ Open' = Open /\ Told' = Told /\ Waiting' = Waiting /\ Inserted' = Inserted /\ Asked' = Asked
      /\ Stopping' = Stopping /\ ToldOnce(events)' /\ Different(noted.inserted)' /\ Begun' = Begun /\ CalledOnce'
  BY <1>1, <1>2, SamePlaces DEF Begun, IInv, Different, Asked, Stopping, CalledOnce
<1>6. CASE Flagged(n)
  <2>1. tasks' = tasks \ {t}
    BY <1>6 DEF TranscriptionChecks
  <2>2. Transcribing' \subseteq Transcribing /\ Checked' \subseteq Checked
    BY <2>1 DEF Transcribing, Checked, TaskAt
  <2>3. Typed'
    BY <1>1, <1>2, <2>1 DEF Typed
  <2>. QED  BY <1>2, <1>5, <2>2, <2>3, NoFurther
<1>7. CASE ~Flagged(n)
  <2> DEFINE u == [of |-> n, at |-> "checked"]
  <2>1. [t EXCEPT !.at = "checked"] = u
    BY <1>1
  <2>2. tasks' = (tasks \ {t}) \cup {u}
    BY <1>7, <2>1 DEF TranscriptionChecks
  <2>3. u \in [of : Sessions, at : {"transcribing", "checked", "ending", "broken"}]
    BY <1>1
  <2>4. Transcribing' \subseteq Transcribing \ {n}
    BY <1>3, <2>2 DEF Transcribing, TaskAt
  <2>5. Checked' \subseteq Checked \cup {n}
    BY <1>3, <2>2 DEF Checked, TaskAt
  <2>6. Typed'
    BY <1>1, <1>2, <2>2, <2>3 DEF Typed
  <2>7. AtOnePlace'
    BY <1>4, <1>5, <2>4, <2>5 DEF IInv, AtOnePlace
  <2>8. AllBegun'
    BY <1>2, <1>4, <1>5, <2>4, <2>5 DEF IInv, AllBegun
  <2>9. n \notin noted.cancelled
    BY <1>7 DEF Flagged
  <2>10. CancelledStay'
    BY <1>2, <1>5, <2>5, <2>9 DEF IInv, CancelledStay
  <2>11. InsertedAtHome'
    BY <1>2, <1>5 DEF IInv, InsertedAtHome
  <2>. QED  BY <1>5, <2>6, <2>7, <2>8, <2>10, <2>11 DEF IInv
<1>. QED  BY <1>6, <1>7

LEMMA TranscriptionTellsKeeps == ASSUME Bounds, IInv, NEW t \in tasks, TranscriptionTells(t) PROVE IInv'
<1> DEFINE n == t.of
           u == [of |-> n, at |-> "ending"]
<1>1. /\ Typed /\ CalledOnce /\ ToldOnce(events) /\ n \in Sessions /\ events \in Seq(Events)
      /\ t \in [of : Sessions, at : {"transcribing", "checked", "ending", "broken"}] /\ t.at = "checked"
      /\ be \in [state : States, session : 0..MaxStarts, flag : 0..MaxStarts]
  BY DEF IInv, Typed, TranscriptionTells
<1>2. UNCHANGED <<state, hold, transcript, looked, capture, calls, noted>>
  BY DEF TranscriptionTells, UI
<1>3. t = [of |-> n, at |-> "checked"] /\ [t EXCEPT !.at = "ending"] = u
  BY <1>1
<1>4. tasks' = (tasks \ {t}) \cup {u}
  BY <1>3 DEF TranscriptionTells
<1>5. tasks' \subseteq [of : Sessions, at : {"transcribing", "checked", "ending", "broken"}]
  BY <1>1, <1>4 DEF Typed
<1>6. n \in Checked /\ Checked' \subseteq Checked \ {n} /\ Transcribing' \subseteq Transcribing
  BY <1>1, <1>3, <1>4 DEF Checked, Transcribing, TaskAt
<1>7. n \notin Told
  BY <1>6 DEF IInv, AtOnePlace
<1>8. events' \in Seq(Events) /\ Told' \subseteq Told \cup {n} /\ ToldOnce(events)'
  <2>1. CASE events' = events
    BY <1>1, <2>1, SamePlaces
  <2>2. CASE events' = Append(events, [kind |-> "transcript", state |-> "idle", of |-> n])
    BY <1>1, <1>7, <2>2, TranscriptTells DEF Told
  <2>. QED  BY <2>1, <2>2 DEF TranscriptionTells
<1>9. /\ be' \in [state : States, session : 0..MaxStarts, flag : 0..MaxStarts]
      /\ be'.state = be.state /\ be'.session = be.session
      /\ be'.flag \in {0, be.flag} /\ be'.flag # n
  <2>1. 0 \in 0..MaxStarts /\ n # 0
    BY <1>1 DEF Sessions, Bounds
  <2>2. CASE be.flag = n
    <3>1. be' = [be EXCEPT !.flag = 0]
      BY <2>2 DEF TranscriptionTells
    <3>. QED  BY <1>1, <2>1, <3>1
  <2>3. CASE be.flag # n
    <3>1. be' = be
      BY <2>3 DEF TranscriptionTells
    <3>. QED  BY <1>1, <2>3, <3>1
  <2>. QED  BY <2>2, <2>3
<1>10. Typed'
  BY <1>1, <1>2, <1>5, <1>8, <1>9 DEF Typed
<1>11. /\ Waiting' = Waiting /\ Inserted' = Inserted /\ Asked' = Asked /\ Open' = Open
       /\ Stopping' = Stopping /\ Different(noted.inserted)' /\ Begun' = Begun /\ CalledOnce'
  BY <1>1, <1>2, <1>9, SamePlaces DEF Begun, IInv, Different, Asked, Stopping, CalledOnce, Open
<1>12. AtOnePlace'
  BY <1>6, <1>8, <1>11 DEF IInv, AtOnePlace
<1>13. AllBegun'
  BY <1>2, <1>6, <1>8, <1>9, <1>11 DEF IInv, AllBegun
<1>14. 0 \notin Asked \cup Open \cup Told \cup Waiting \cup Inserted
  BY DEF Asked, Open, Told, ToldBy, Waiting, Inserted, InsertedBy, Sessions, Bounds
<1>15. be'.flag \notin Asked' \cup Open' \cup Told' \cup Waiting' \cup Inserted'
  BY <1>8, <1>9, <1>11, <1>14 DEF IInv, CancelledStay
<1>16. ~noted.crossed => n \notin noted.cancelled
  BY <1>6 DEF IInv, CancelledStay
<1>17. CancelledStay'
  BY <1>2, <1>6, <1>8, <1>11, <1>15, <1>16 DEF IInv, CancelledStay
<1>18. InsertedAtHome'
  BY <1>2, <1>11 DEF IInv, InsertedAtHome
<1>. QED  BY <1>8, <1>10, <1>11, <1>12, <1>13, <1>17, <1>18 DEF IInv

LEMMA TranscriptionEndsKeeps == ASSUME Bounds, IInv, NEW t \in tasks, TranscriptionEnds(t) PROVE IInv'
<1>1. /\ Typed /\ CalledOnce /\ ToldOnce(events) /\ events \in Seq(Events)
      /\ be \in [state : States, session : 0..MaxStarts, flag : 0..MaxStarts]
  BY DEF IInv, Typed
<1>2. UNCHANGED <<state, hold, transcript, looked, capture, calls, noted>> /\ tasks' \subseteq tasks
  BY DEF TranscriptionEnds, UI
<1>3. events' \in Seq(Events) /\ Told' \subseteq Told /\ ToldOnce(events)'
  BY <1>1, StateEventTells DEF TranscriptionEnds, StateEvent, Told, States
<1>4. /\ be' \in [state : States, session : 0..MaxStarts, flag : 0..MaxStarts]
      /\ be'.state = "idle" /\ be'.flag = be.flag
  BY <1>1 DEF TranscriptionEnds, States
<1>5. Open' \subseteq Open
  BY <1>4 DEF Open
<1>6. Transcribing' \subseteq Transcribing /\ Checked' \subseteq Checked
  BY <1>2 DEF Transcribing, Checked, TaskAt
<1>7. Typed'
  BY <1>1, <1>2, <1>3, <1>4 DEF Typed
<1>8. Asked' = Asked /\ Stopping' = Stopping /\ CalledOnce'
  BY <1>1, <1>2 DEF Asked, Stopping, CalledOnce
<1>. QED  BY <1>2, <1>3, <1>4, <1>5, <1>6, <1>7, <1>8, SamePlaces, NoFurther

LEMMA LoadFailsKeeps == ASSUME Bounds, IInv, NEW t \in tasks, LoadFails(t) PROVE IInv'
<1>1. /\ Typed /\ CalledOnce /\ ToldOnce(events) /\ events \in Seq(Events)
      /\ be \in [state : States, session : 0..MaxStarts, flag : 0..MaxStarts]
  BY DEF IInv, Typed
<1>2. UNCHANGED <<state, hold, transcript, looked, capture, calls>> /\ tasks' \subseteq tasks
  BY DEF LoadFails, UI
<1>3. events' \in Seq(Events) /\ Told' \subseteq Told /\ ToldOnce(events)'
  BY <1>1, StateEventTells DEF LoadFails, StateEvent, Told, States
<1>4. /\ be' \in [state : States, session : 0..MaxStarts, flag : 0..MaxStarts]
      /\ be'.state = "idle" /\ be'.flag = be.flag
  BY <1>1 DEF LoadFails, States
<1>5. Open' \subseteq Open
  BY <1>4 DEF Open
<1>6. Transcribing' \subseteq Transcribing /\ Checked' \subseteq Checked
  BY <1>2 DEF Transcribing, Checked, TaskAt
<1>7. /\ noted' \in History /\ noted'.inserted = noted.inserted /\ noted'.starts = noted.starts
      /\ noted'.home = noted.home /\ noted'.cancelled = noted.cancelled /\ noted'.moved = noted.moved
      /\ noted.crossed => noted'.crossed
  <2> DEFINE x == be.state # "idle" /\ ~Shown(t.of)
  <2>1. noted' = [noted EXCEPT !.crossed = @ \/ x]
    BY Zenon DEF LoadFails
  <2> HIDE DEF x
  <2>. QED  BY <1>1, <2>1, OnlyCrossed
<1>8. Typed'
  BY <1>1, <1>2, <1>3, <1>4, <1>7 DEF Typed
<1>9. Asked' = Asked /\ Stopping' = Stopping /\ CalledOnce'
  BY <1>1, <1>2 DEF Asked, Stopping, CalledOnce
<1>. QED  BY <1>2, <1>3, <1>4, <1>5, <1>6, <1>8, <1>9, <1>7, SamePlaces, NoFurther

LEMMA MicrophoneFailsKeeps == ASSUME Bounds, IInv, NEW n \in Sessions, MicrophoneFails(n) PROVE IInv'
<1>1. Typed /\ CalledOnce /\ ToldOnce(events) /\ noted \in History
  BY DEF IInv, Typed
<1>2. UNCHANGED <<state, hold, transcript, looked, be, calls, events>> /\ capture' \subseteq capture
  BY DEF MicrophoneFails, UI
<1>3. tasks' = tasks \cup {[of |-> n, at |-> "broken"]}
  BY DEF MicrophoneFails
<1>4. Transcribing' = Transcribing /\ Checked' = Checked
  BY <1>3 DEF Transcribing, Checked, TaskAt
<1>5. noted.errors + 1 \in 0..MaxErrors
  BY <1>1 DEF History, Bounds, MicrophoneFails
<1>6. /\ noted' \in History /\ noted'.inserted = noted.inserted /\ noted'.starts = noted.starts
      /\ noted'.home = noted.home /\ noted'.cancelled = noted.cancelled /\ noted'.moved = noted.moved
      /\ noted'.crossed = noted.crossed
  BY <1>1, <1>5 DEF MicrophoneFails, History
<1>7. Typed'
  BY <1>1, <1>2, <1>3, <1>6 DEF Typed
<1>8. Asked' = Asked /\ Stopping' = Stopping /\ CalledOnce'
  BY <1>1, <1>2 DEF Asked, Stopping, CalledOnce
<1>. QED  BY <1>1, <1>2, <1>4, <1>6, <1>7, <1>8, SamePlaces, NoFurther

LEMMA FailureEndsKeeps == ASSUME Bounds, IInv, NEW t \in tasks, FailureEnds(t) PROVE IInv'
<1>1. /\ Typed /\ CalledOnce /\ ToldOnce(events) /\ events \in Seq(Events)
      /\ be \in [state : States, session : 0..MaxStarts, flag : 0..MaxStarts]
  BY DEF IInv, Typed
<1>2. UNCHANGED <<state, hold, transcript, looked, capture, calls>> /\ tasks' \subseteq tasks
  BY DEF FailureEnds, UI
<1>3. /\ noted' \in History /\ noted'.inserted = noted.inserted /\ noted'.starts = noted.starts
      /\ noted'.home = noted.home /\ noted'.cancelled = noted.cancelled /\ noted'.moved = noted.moved
      /\ noted.crossed => noted'.crossed
  <2> DEFINE x == t.of # be.session \/ \E c \in calls : c.at = "emit"
  <2>1. noted' = [noted EXCEPT !.crossed = @ \/ x]
    BY Zenon DEF FailureEnds
  <2> HIDE DEF x
  <2>. QED  BY <1>1, <2>1, OnlyCrossed
<1>4. Asked' = Asked /\ Stopping' = Stopping /\ CalledOnce'
  BY <1>1, <1>2 DEF Asked, Stopping, CalledOnce
<1>5. Transcribing' \subseteq Transcribing /\ Checked' \subseteq Checked
  BY <1>2 DEF Transcribing, Checked, TaskAt
<1>6. events' \in Seq(Events) /\ Told' \subseteq Told /\ ToldOnce(events)'
  <2>1. CASE be.state = "idle"
    BY <1>1, <2>1, SamePlaces DEF FailureEnds
  <2>2. CASE be.state # "idle"
    BY <1>1, <2>2, StateEventTells DEF FailureEnds, StateEvent, Told, States
  <2>. QED  BY <2>1, <2>2
<1>7. /\ be' \in [state : States, session : 0..MaxStarts, flag : 0..MaxStarts]
      /\ be' = be \/ be'.state = "idle"
      /\ be'.flag = be.flag
  <2>1. CASE be.state = "idle"
    BY <1>1, <2>1 DEF FailureEnds
  <2>2. CASE be.state # "idle"
    <3>1. be' = [be EXCEPT !.state = "idle", !.session = 0]
      BY <2>2 DEF FailureEnds
    <3>2. "idle" \in States /\ 0 \in 0..MaxStarts
      BY DEF States, Bounds
    <3>. QED  BY <1>1, <3>1, <3>2
  <2>. QED  BY <2>1, <2>2
<1>8. Open' \subseteq Open
  BY <1>7 DEF Open
<1>9. Typed'
  BY <1>1, <1>2, <1>3, <1>6, <1>7 DEF Typed
<1>. QED  BY <1>2, <1>3, <1>4, <1>5, <1>6, <1>7, <1>8, <1>9, SamePlaces, NoFurther

----------------------------------------------------------------------------
(* The window.                                                              *)
LEMMA BeginKeeps ==
    ASSUME Bounds, IInv, NEW byHold, Begin(byHold), UNCHANGED <<transcript, looked, be, capture, tasks, events>>
    PROVE  IInv'
<1> DEFINE n == noted.starts + 1
           c == [do |-> "start", of |-> n, at |-> "begun"]
<1>1. /\ Typed /\ CalledOnce /\ ToldOnce(events) /\ noted \in History /\ looked \in Composers \cup {None}
      /\ be \in [state : States, session : 0..MaxStarts, flag : 0..MaxStarts]
  BY DEF IInv, Typed
<1>2. n \in Sessions /\ n \notin Begun /\ n # 0 /\ n \in 0..MaxStarts
  BY <1>1 DEF History, Begin, Bounds, Sessions, Begun
<1>3. calls' = calls \cup {c}
  BY DEF Begin, Call
<1>4. calls' \subseteq Commands
  BY <1>1, <1>2, <1>3 DEF Typed, Commands
<1>5. /\ noted' \in History /\ noted'.inserted = noted.inserted /\ noted'.starts = n
      /\ noted'.home = Append(noted.home, looked) /\ noted'.cancelled = noted.cancelled
      /\ noted'.moved = noted.moved
      /\ noted.crossed => noted'.crossed
  <2> DEFINE x == be.state # "idle" \/ calls # {} \/ events # <<>> \/ Telling
             held == IF byHold THEN noted.held \cup {n} ELSE noted.held
             home == Append(noted.home, looked)
  <2>1. noted' = [noted EXCEPT !.starts = n, !.home = home, !.crossed = noted.crossed \/ x, !.held = held]
    BY <1>1 DEF Begin, History
  <2>2. held \in SUBSET Sessions /\ home \in Seq(Composers \cup {None}) /\ (noted.crossed \/ x) \in BOOLEAN
    BY <1>1, <1>2 DEF History
  <2> HIDE DEF x, held, home
  <2>3. /\ noted' \in History /\ noted'.inserted = noted.inserted /\ noted'.starts = n
        /\ noted'.home = home /\ noted'.cancelled = noted.cancelled
        /\ noted'.moved = noted.moved
    BY <1>1, <1>2, <2>1, <2>2 DEF History
  <2>4. noted'.crossed = (noted.crossed \/ x)
    BY <1>1, <2>1, <2>2 DEF History
  <2>. QED  BY <2>3, <2>4 DEF home
<1>6. Typed'
  BY <1>1, <1>4, <1>5 DEF Typed
<1>7. /\ Open' = Open /\ Told' = Told /\ Waiting' = Waiting /\ Inserted' = Inserted /\ Transcribing' = Transcribing
      /\ Checked' = Checked /\ ToldOnce(events)' /\ Different(noted.inserted)'
  BY <1>1, <1>5, SamePlaces DEF IInv, Different, Inserted, InsertedBy
<1>8. Begun' = Begun \cup {n}
  BY <1>1, <1>5 DEF Begun, History
<1>9. Asked' \subseteq Asked \cup {n} /\ Stopping' \subseteq Stopping
  BY <1>3 DEF Asked, Stopping
<1>10. n \notin Asked \cup Open \cup Stopping \cup Transcribing \cup Checked \cup Told \cup Waiting \cup Inserted
  BY <1>2 DEF IInv, AllBegun
<1>11. \A d \in calls : d.do = "start" /\ d.at # "emit" => d.of # n
  BY <1>2, <1>10 DEF Asked
<1>12. CalledOnce'
  BY <1>1, <1>3, <1>11 DEF CalledOnce
<1>13. AtOnePlace'
  BY <1>7, <1>9, <1>10 DEF IInv, AtOnePlace
<1>14. AllBegun'
  BY <1>5, <1>7, <1>8, <1>9 DEF IInv, AllBegun
<1>15. n \notin noted.cancelled /\ be.flag # n
  BY <1>2 DEF IInv, AllBegun
<1>16. CancelledStay'
  BY <1>5, <1>7, <1>9, <1>15 DEF IInv, CancelledStay
<1>17. Len(noted.home)' = noted'.starts /\ noted'.home[n] = looked /\ \A m \in Begun : noted'.home[m] = noted.home[m]
  BY <1>1, <1>5 DEF IInv, InsertedAtHome, History, Begun
<1>18. InsertedAtHome'
  BY <1>5, <1>7, <1>8, <1>17 DEF IInv, InsertedAtHome
<1>. QED  BY <1>6, <1>7, <1>12, <1>13, <1>14, <1>16, <1>18 DEF IInv

(* A press, a key or a timeout that calls stop or cancel, or nothing.           *)
LEMMA OnlyEnds ==
    ASSUME Bounds, IInv, UNCHANGED <<transcript, looked, be, capture, tasks, events>>,
           NEW do \in {"stop", "cancel"}, calls' \subseteq calls \cup {[do |-> do, of |-> 0, at |-> "begun"]},
           noted' \in History, noted'.inserted = noted.inserted, noted'.starts = noted.starts,
           noted'.home = noted.home, noted'.cancelled = noted.cancelled, noted'.moved = noted.moved,
           noted'.crossed = noted.crossed
    PROVE  IInv'
<1>1. Typed /\ CalledOnce /\ ToldOnce(events)
  BY DEF IInv
<1>2. calls' \subseteq Commands /\ CalledOnce' /\ Asked' \subseteq Asked /\ Stopping' \subseteq Stopping
  BY <1>1, CallsEnd
<1>3. Typed'
  BY <1>1, <1>2 DEF Typed
<1>. QED  BY <1>1, <1>2, <1>3, SamePlaces, NoFurther

(* What the history keeps of a step of the user.                              *)
LEMMA SteppedHistory ==
    ASSUME Bounds, Typed, Step
    PROVE  /\ Stepped \in History /\ Stepped.inserted = noted.inserted /\ Stepped.starts = noted.starts
           /\ Stepped.home = noted.home /\ Stepped.cancelled = noted.cancelled /\ Stepped.moved = noted.moved
           /\ Stepped.crossed = noted.crossed
<1>1. noted \in History /\ noted.steps + 1 \in 0..MaxSteps
  BY DEF Typed, Step, History, Bounds
<1>. QED  BY <1>1 DEF Stepped, History

LEMMA ToggleKeeps ==
    ASSUME Bounds, IInv, HandleToggleDictation, UNCHANGED <<transcript, looked, be, capture, tasks, events>>
    PROVE  IInv'
<1>1. Typed
  BY DEF IInv
<1>2. CASE Begin(FALSE)
  BY <1>2, BeginKeeps
<1>3. CASE Step /\ calls' = Call("stop", 0) /\ noted' = Stepped
  BY <1>1, <1>3, SteppedHistory, OnlyEnds DEF Call
<1>. QED  BY <1>2, <1>3 DEF HandleToggleDictation

LEMMA PressesKeep == ASSUME Bounds, IInv, HandleMicClick \/ HandleEscape PROVE IInv'
<1>1. Typed /\ UNCHANGED <<transcript, looked, be, capture, tasks, events>>
  BY DEF IInv, HandleMicClick, HandleEscape, UI
<1>2. CASE Step /\ calls' = Call("cancel", 0) /\ noted' = Stepped
  BY <1>1, <1>2, SteppedHistory, OnlyEnds DEF Call
<1>3. CASE HandleToggleDictation
  BY <1>1, <1>3, ToggleKeeps
<1>. QED  BY <1>2, <1>3 DEF HandleMicClick, HandleEscape

LEMMA HoldKeeps == ASSUME Bounds, IInv, HandleKeyDown \/ HandleKeyUp \/ HandleBlur \/ HoldStopGrace PROVE IInv'
<1>1. Typed /\ noted \in History /\ UNCHANGED <<transcript, looked, be, capture, tasks, events>>
  BY DEF IInv, Typed, HandleKeyDown, HandleKeyUp, HandleBlur, HoldStopGrace
<1>2. CASE HandleKeyDown
  <2>1. CASE Begin(TRUE)
    BY <1>1, <2>1, BeginKeeps
  <2>2. CASE Step /\ noted' = Stepped /\ calls' = calls
    BY <1>1, <2>2, SteppedHistory, OnlyEnds
  <2>. QED  BY <1>2, <2>1, <2>2 DEF HandleKeyDown
<1>3. CASE HandleKeyUp
  <2>1. noted' = noted /\ calls' \subseteq Call("stop", 0)
    BY <1>3 DEF HandleKeyUp, Call
  <2>. QED  BY <1>1, <2>1, OnlyEnds DEF Call
<1>4. CASE HandleBlur
  <2>1. Step /\ calls' \subseteq Call("cancel", 0)
    BY <1>4 DEF HandleBlur, Call
  <2> DEFINE x == Stepped.early \/ (hold.active /\ state # "listening")
  <2>2. noted' = [Stepped EXCEPT !.early = x]
    BY <1>4 DEF HandleBlur
  <2>3. x \in BOOLEAN
    OBVIOUS
  <2> HIDE DEF x
  <2>4. /\ noted' \in History /\ noted'.inserted = Stepped.inserted /\ noted'.starts = Stepped.starts
        /\ noted'.home = Stepped.home /\ noted'.cancelled = Stepped.cancelled /\ noted'.moved = Stepped.moved
        /\ noted'.crossed = Stepped.crossed
    BY <1>1, <2>1, <2>2, <2>3, SteppedHistory DEF History
  <2>. QED  BY <1>1, <2>1, <2>4, SteppedHistory, OnlyEnds DEF Call
<1>5. CASE HoldStopGrace
  <2>1. calls' = calls /\ noted' = [noted EXCEPT !.early = TRUE]
    BY <1>5 DEF HoldStopGrace
  <2>2. /\ noted' \in History /\ noted'.inserted = noted.inserted /\ noted'.starts = noted.starts
        /\ noted'.home = noted.home /\ noted'.cancelled = noted.cancelled /\ noted'.moved = noted.moved
        /\ noted'.crossed = noted.crossed
    BY <1>1, <2>1 DEF History
  <2>. QED  BY <1>1, <2>1, <2>2, OnlyEnds
<1>. QED  BY <1>2, <1>3, <1>4, <1>5

LEMMA EventKeeps == ASSUME Bounds, IInv, DictationEvent PROVE IInv'
<1> DEFINE e == Head(events)
           n == e.of
<1>1. /\ Typed /\ CalledOnce /\ ToldOnce(events) /\ events \in Seq(Events) /\ events # <<>> /\ events' = Tail(events)
      /\ noted \in History /\ looked \in Composers \cup {None} /\ transcript \in Sessions \cup {None}
  BY DEF IInv, Typed, DictationEvent
<1>2. /\ events' \in Seq(Events) /\ e \in Events /\ Told' \subseteq Told /\ ToldOnce(events)'
      /\ e.kind = "transcript" => n \in Told \ Told'
  BY <1>1, HandledEvent DEF Told
<1>3. UNCHANGED <<looked, be, capture, tasks>> /\ calls' \subseteq Call("stop", 0)
  BY DEF DictationEvent, Call
<1>4. calls' \subseteq Commands /\ CalledOnce' /\ Asked' \subseteq Asked /\ Stopping' \subseteq Stopping
  BY <1>1, <1>3, CallsEnd DEF Call
<1>5. Open' = Open /\ Transcribing' = Transcribing /\ Checked' = Checked
  BY <1>3, SamePlaces
<1>6. CASE e.kind = "state"
  <2>1. UNCHANGED <<transcript, noted>>
    BY <1>6 DEF DictationEvent
  <2>2. Typed'
    BY <1>1, <1>2, <1>3, <1>4, <2>1 DEF Typed
  <2>. QED  BY <1>2, <1>3, <1>4, <1>5, <2>1, <2>2, SamePlaces, NoFurther
<1>7. CASE e.kind = "transcript"
  <2>1. n \in Sessions /\ n \in Told /\ n \notin Told' /\ n # None /\ Insert(n, looked)
    BY <1>2, <1>7 DEF Events, Bounds, DictationEvent
  <2>2. n \notin Asked \cup Open \cup Stopping \cup Transcribing \cup Checked \cup Waiting \cup Inserted
    BY <2>1 DEF IInv, AtOnePlace
  <2>3. ~noted.crossed => n \notin noted.cancelled
    BY <2>1 DEF IInv, CancelledStay
  <2>4. be.flag # n
    BY <2>1 DEF IInv, CancelledStay
  <2>5. n \in Begun
    BY <2>1 DEF IInv, AllBegun
  <2>6. CASE looked = None
    <3>1. transcript' = n /\ noted' = noted
      BY <2>1, <2>6 DEF Insert
    <3>2. Typed'
      BY <1>1, <1>2, <1>3, <1>4, <2>1, <3>1 DEF Typed
    <3>3. Waiting' \subseteq {n} /\ Inserted' = Inserted /\ Different(noted.inserted)' /\ Begun' = Begun
      BY <3>1, SamePlaces DEF Waiting, Begun, IInv, Different
    <3>4. AtOnePlace'
      BY <1>2, <1>4, <1>5, <2>1, <2>2, <3>3 DEF IInv, AtOnePlace
    <3>5. AllBegun'
      BY <1>2, <1>3, <1>4, <1>5, <2>5, <3>1, <3>3 DEF IInv, AllBegun
    <3>6. CancelledStay'
      BY <1>2, <1>3, <1>4, <1>5, <2>3, <2>4, <3>1, <3>3 DEF IInv, CancelledStay
    <3>7. InsertedAtHome'
      BY <1>3, <3>1, <3>3 DEF IInv, InsertedAtHome
    <3>. QED  BY <1>2, <1>4, <3>2, <3>3, <3>4, <3>5, <3>6, <3>7 DEF IInv
  <2>7. CASE looked # None
    <3> DEFINE ins == Append(noted.inserted, [of |-> n, at |-> looked])
    <3>1. transcript' = None /\ noted' = [noted EXCEPT !.inserted = ins]
      BY <2>1, <2>7 DEF Insert
    <3>2. /\ ins \in Seq(Insertions) /\ InsertedBy(ins) \subseteq InsertedBy(noted.inserted) \cup {n}
          /\ Different(ins)
          /\ \A i \in DOMAIN ins : ins[i].at = looked \/ (i \in DOMAIN noted.inserted /\ ins[i] = noted.inserted[i])
      BY <1>1, <2>1, <2>2, <2>7, InsertAdds DEF IInv, History, Inserted
    <3> HIDE DEF ins
    <3>3. /\ noted' \in History /\ noted'.inserted = ins /\ noted'.starts = noted.starts
          /\ noted'.home = noted.home /\ noted'.cancelled = noted.cancelled /\ noted'.moved = noted.moved
          /\ noted'.crossed = noted.crossed
      BY <1>1, <3>1, <3>2 DEF History
    <3>4. Typed'
      BY <1>1, <1>2, <1>3, <1>4, <3>1, <3>3 DEF Typed
    <3>5. /\ Waiting' = {} /\ Inserted' \subseteq Inserted \cup {n}
          /\ Different(noted.inserted)' /\ Begun' = Begun
      BY <3>1, <3>2, <3>3 DEF Waiting, Begun, Inserted, Different, InsertedBy, Bounds
    <3>6. AtOnePlace'
      BY <1>2, <1>4, <1>5, <2>1, <2>2, <3>5 DEF IInv, AtOnePlace
    <3>7. AllBegun'
      BY <1>2, <1>3, <1>4, <1>5, <2>5, <3>3, <3>5 DEF IInv, AllBegun
    <3>8. CancelledStay'
      BY <1>2, <1>3, <1>4, <1>5, <2>3, <2>4, <3>3, <3>5 DEF IInv, CancelledStay
    <3>9. InsertedAtHome'
      BY <1>3, <3>2, <3>3, <3>5 DEF IInv, InsertedAtHome
    <3>. QED  BY <1>2, <1>4, <3>4, <3>5, <3>6, <3>7, <3>8, <3>9 DEF IInv
  <2>. QED  BY <2>6, <2>7
<1>. QED  BY <1>2, <1>6, <1>7 DEF Events

LEMMA LookKeeps == ASSUME Bounds, IInv, NEW c \in Composers \cup {None}, LookAt(c) PROVE IInv'
<1>1. /\ Typed /\ CalledOnce /\ ToldOnce(events) /\ noted \in History /\ transcript \in Sessions \cup {None}
      /\ Step /\ looked' = c /\ UNCHANGED <<state, hold, be, capture, calls, tasks, events>>
  BY DEF IInv, Typed, LookAt
<1>2. /\ Asked' = Asked /\ Stopping' = Stopping /\ Open' = Open /\ Transcribing' = Transcribing
      /\ Checked' = Checked /\ Told' = Told /\ ToldOnce(events)' /\ CalledOnce'
  BY <1>1, SamePlaces DEF Asked, Stopping, CalledOnce
<1>3. CASE transcript # None /\ c # None
  <2> DEFINE n == transcript
             ins == Append(noted.inserted, [of |-> n, at |-> c])
  <2>1. transcript' = None /\ noted' = [Stepped EXCEPT !.moved = TRUE, !.inserted = Append(@, [of |-> n, at |-> c])]
    BY <1>3 DEF LookAt
  <2>2. n \in Sessions /\ n \in Waiting
    BY <1>1, <1>3 DEF Waiting
  <2>3. n \notin Asked \cup Open \cup Stopping \cup Transcribing \cup Checked \cup Told \cup Inserted
    BY <2>2 DEF IInv, AtOnePlace
  <2>4. (~noted.crossed => n \notin noted.cancelled) /\ be.flag # n
    BY <2>2 DEF IInv, CancelledStay
  <2>5. n \in Begun
    BY <2>2 DEF IInv, AllBegun
  <2>6. ins \in Seq(Insertions) /\ InsertedBy(ins) \subseteq InsertedBy(noted.inserted) \cup {n} /\ Different(ins)
    BY <1>1, <1>3, <2>2, <2>3, InsertAdds DEF IInv, History, Inserted
  <2>7. noted' = [Stepped EXCEPT !.moved = TRUE, !.inserted = ins]
    BY <1>1, <2>1, SteppedHistory
  <2> HIDE DEF ins
  <2>8. /\ noted' \in History /\ noted'.inserted = ins /\ noted'.starts = noted.starts
        /\ noted'.home = noted.home /\ noted'.cancelled = noted.cancelled
        /\ noted'.crossed = noted.crossed
    BY <1>1, <2>6, <2>7, SteppedHistory DEF History
  <2>9. noted'.moved
    BY <1>1, <2>6, <2>7, SteppedHistory DEF History
  <2>10. Typed'
    BY <1>1, <2>1, <2>8 DEF Typed
  <2>11. /\ Waiting' = {} /\ Inserted' \subseteq Inserted \cup {n}
         /\ Different(noted.inserted)' /\ Begun' = Begun
    BY <2>1, <2>6, <2>8 DEF Waiting, Begun, Inserted, Different, InsertedBy, Bounds
  <2>12. AtOnePlace'
    BY <1>2, <2>3, <2>11 DEF IInv, AtOnePlace
  <2>13. AllBegun'
    BY <1>1, <1>2, <2>5, <2>8, <2>11 DEF IInv, AllBegun
  <2>14. CancelledStay'
    BY <1>1, <1>2, <2>4, <2>8, <2>11 DEF IInv, CancelledStay
  <2>15. InsertedAtHome'
    BY <2>8, <2>9 DEF IInv, InsertedAtHome
  <2>. QED  BY <1>2, <2>10, <2>11, <2>12, <2>13, <2>14, <2>15 DEF IInv
<1>4. CASE ~(transcript # None /\ c # None)
  <2>1. transcript' = transcript /\ noted' = [Stepped EXCEPT !.moved = TRUE]
    BY <1>4 DEF LookAt
  <2>2. /\ noted' \in History /\ noted'.inserted = noted.inserted /\ noted'.starts = noted.starts
        /\ noted'.home = noted.home /\ noted'.cancelled = noted.cancelled
        /\ noted'.crossed = noted.crossed
    BY <1>1, <2>1, SteppedHistory DEF History
  <2>3. noted'.moved
    BY <1>1, <2>1, SteppedHistory DEF History
  <2>4. Typed'
    BY <1>1, <2>1, <2>2 DEF Typed
  <2>5. Waiting' = Waiting /\ Inserted' = Inserted /\ Different(noted.inserted)' /\ Begun' = Begun
    BY <2>1, <2>2 DEF Waiting, Begun, Inserted, IInv
  <2>6. AtOnePlace'
    BY <1>2, <2>5 DEF IInv, AtOnePlace
  <2>7. AllBegun'
    BY <1>1, <1>2, <2>2, <2>5 DEF IInv, AllBegun
  <2>8. CancelledStay'
    BY <1>1, <1>2, <2>2, <2>5 DEF IInv, CancelledStay
  <2>9. InsertedAtHome'
    BY <2>2, <2>3 DEF IInv, InsertedAtHome
  <2>. QED  BY <1>2, <2>4, <2>5, <2>6, <2>7, <2>8, <2>9 DEF IInv
<1>. QED  BY <1>3, <1>4

----------------------------------------------------------------------------
(* The invariant holds at the start, every step keeps it, and it says that a    *)
(* transcript is inserted once and at home.                                  *)
LEMMA StartsAtRest == ASSUME Bounds, Init PROVE IInv
<1>1. /\ noted.starts = 0 /\ noted.cancelled = {} /\ noted.inserted = <<>> /\ noted.home = <<>>
      /\ noted \in History
  BY DEF Init, History, Bounds
<1>2. Typed
  BY <1>1 DEF Init, Typed, Bounds, States
<1>3. Begun = {}
  BY <1>1 DEF Begun
<1>4. Asked = {} /\ Stopping = {} /\ Transcribing = {} /\ Checked = {}
  BY DEF Init, Asked, Stopping, Transcribing, Checked, TaskAt
<1>5. Open = {} /\ Waiting = {}
  BY DEF Init, Open, Waiting, Bounds
<1>6. Told = {} /\ ToldOnce(events)
  BY DEF Init, Told, ToldBy, ToldOnce
<1>7. Inserted = {} /\ Different(noted.inserted)
  BY <1>1 DEF Inserted, InsertedBy, Different
<1>8. AtOnePlace
  BY <1>4, <1>5, <1>6, <1>7 DEF AtOnePlace
<1>9. AllBegun
  BY <1>1, <1>4, <1>5, <1>6, <1>7 DEF AllBegun, Init
<1>10. CalledOnce
  BY DEF Init, CalledOnce
<1>11. CancelledStay
  BY <1>1, <1>4, <1>5, <1>6, <1>7 DEF CancelledStay
<1>12. InsertedAtHome
  BY <1>1, <1>3 DEF InsertedAtHome
<1>. QED  BY <1>2, <1>6, <1>7, <1>8, <1>9, <1>10, <1>11, <1>12 DEF IInv

LEMMA KeepsItsPlaces == ASSUME Bounds, IInv, [Next]_vars PROVE IInv'
<1>1. ASSUME NEW c \in calls,
             \/ StartLooks(c) \/ StartListens(c) \/ StartEmits(c) \/ StartFails(c)
             \/ StopTakes(c) \/ StopEmits(c) \/ StopSpawns(c)
          \/ CancelLooks(c) \/ CancelTakes(c) \/ CancelEmits(c)
      PROVE  IInv'
  BY <1>1, StartLooksKeeps, StartListensKeeps, StartEmitsKeeps, StartFailsKeeps, StopTakesKeeps,
     StopEmitsKeeps, StopSpawnsKeeps, CancelLooksKeeps, CancelTakesKeeps, CancelEmitsKeeps
<1>2. ASSUME NEW t \in tasks,
             \/ LoadFails(t) \/ TranscriptionChecks(t) \/ TranscriptionTells(t) \/ TranscriptionEnds(t)
             \/ FailureEnds(t)
      PROVE  IInv'
  BY <1>2, LoadFailsKeeps, TranscriptionChecksKeeps, TranscriptionTellsKeeps, TranscriptionEndsKeeps, FailureEndsKeeps
<1>3. ASSUME NEW n \in Sessions, MicrophoneFails(n) PROVE IInv'
  BY <1>3, MicrophoneFailsKeeps
<1>4. CASE HandleMicClick \/ HandleEscape
  BY <1>4, PressesKeep
<1>5. CASE HandleKeyDown \/ HandleKeyUp \/ HandleBlur \/ HoldStopGrace
  BY <1>5, HoldKeeps
<1>6. CASE DictationEvent
  BY <1>6, EventKeeps
<1>7. ASSUME NEW c \in Composers \cup {None}, LookAt(c) PROVE IInv'
  BY <1>7, LookKeeps
<1>8. CASE UNCHANGED vars
  BY <1>8 DEF vars, IInv, Typed, AtOnePlace, AllBegun, CalledOnce, ToldOnce, Different, CancelledStay,
     InsertedAtHome, Asked, Open, Stopping, Transcribing, Checked, TaskAt, Told, ToldBy, Waiting, Inserted,
     InsertedBy, Begun
<1>. QED  BY <1>1, <1>2, <1>3, <1>4, <1>5, <1>6, <1>7, <1>8 DEF Next

LEMMA OnePlaceInsertsOnce == ASSUME Bounds, IInv PROVE InsertedOnce
<1>1. noted \in History /\ Different(noted.inserted) /\ CancelledStay /\ InsertedAtHome /\ AllBegun
  BY DEF IInv, Typed
<1>2. \A i \in DOMAIN noted.inserted : noted.inserted[i].of \in Sessions /\ noted.inserted[i].of \in Inserted
  <2> DEFINE ins == noted.inserted
  <2>1. ins \in Seq(Insertions)
    BY <1>1 DEF History
  <2> HIDE DEF ins
  <2>2. \A i \in DOMAIN ins : ins[i] \in Insertions
    BY <2>1
  <2>3. \A i \in DOMAIN ins : ins[i].of \in Sessions
    BY <2>2 DEF Insertions
  <2>4. \A i \in DOMAIN ins : ins[i].of \in InsertedBy(ins)
    BY <2>3 DEF InsertedBy
  <2>. QED  BY <2>3, <2>4 DEF ins, Inserted
<1>3. \A i \in DOMAIN noted.inserted : noted.inserted[i].of \in Begun
  BY <1>1, <1>2 DEF AllBegun
<1>4. \A i \in DOMAIN noted.inserted : noted.inserted[i].of \in noted.cancelled => noted.crossed
  BY <1>1, <1>2 DEF CancelledStay
<1>5. ~noted.moved => \A i \in DOMAIN noted.inserted : noted.inserted[i].at = noted.home[noted.inserted[i].of]
  BY <1>1, <1>3 DEF InsertedAtHome
<1>. QED  BY <1>1, <1>4, <1>5 DEF InsertedOnce, Different

(* Theorem: for any composers and any number of dictations, a transcript is     *)
(* inserted once, not when it was cancelled in time, and where it was dictated  *)
(* (dictation_stop, dictation_cancel and the effect that inserts it).            *)
THEOREM InsertedOnceHolds == ASSUME Bounds PROVE Spec => []InsertedOnce
<1>1. Init => IInv
  BY StartsAtRest
<1>2. IInv /\ [Next]_vars => IInv'
  BY KeepsItsPlaces
<1>3. IInv => InsertedOnce
  BY OnePlaceInsertsOnce
<1>. QED  BY <1>1, <1>2, <1>3, PTL DEF Spec
=============================================================================
