---------------------------- MODULE ThreadRouting ----------------------------
(***************************************************************************)
(* Where the events of an app-server shared by several workspaces go        *)
(* (backend/app_server.rs): thread_workspace tells the workspace of a       *)
(* thread, hidden_thread_ids keeps threads of the server's own from the     *)
(* window, and a background prompt (shared/codex_aux_core.rs) takes the     *)
(* events of its thread through a channel.  The window is its lists of      *)
(* threads.                                                                *)
(*                                                                         *)
(* An action of a caller is what it does up to an await; the reader takes   *)
(* a line in two steps, first the maps, then the delivery.  Notifications   *)
(* without a thread, which go to all workspaces, are left out.              *)
(***************************************************************************)
EXTENDS Naturals, Sequences, SequencesExt

CONSTANTS
    Workspaces,
    Owner,          \* the workspace the session was started for
    Root,           \* the folder of each workspace, as a path
    None,
    Scenes,         \* the calls that are made, and what may happen meanwhile
    MaxThreads,     \* bound: threads, the first of them an old one
    MaxSaid         \* bound: deltas of a turn; a thread has one turn at most

VARIABLES
    scene,
    thread_workspace, hidden_thread_ids,
    background_thread_callbacks,    \* the call that listens to a thread, 0: none
    calls,          \* requests of the window, and background prompts
    stdin, out,     \* requests the server has not read, lines it has written
    reader,         \* the line in hand
    server,
    shown,          \* threadsByWorkspace
    concealed,      \* hiddenThreadIdsByWorkspace
    blame           \* history: what leaves a thread without its workspace

maps    == <<thread_workspace, hidden_thread_ids, background_thread_callbacks>>
window  == <<shown, concealed>>
vars    == <<scene, maps, calls, stdin, out, reader, server, window, blame>>

Threads == 1..MaxThreads
NoThread == 0
Calls   == DOMAIN scene.calls
Kind(c) == scene.calls[c].kind
Of(c)   == scene.calls[c].ws
May(fault) == fault \in scene.faults

Kinds   == {"start", "resume", "list", "turn", "archive", "prompt"}
Methods == {"thread/start", "thread/resume", "thread/list", "turn/start", "thread/archive"}
Told    == {"started", "item", "delta", "completed", "failed", "archived"}
Ends    == {"completed", "failed"}
Request == [of : Nat, method : Methods, thread : Threads \cup {NoThread}]
Line    == [of : Nat, kind : Methods \cup Told, thread : Threads \cup {NoThread},
            names : SUBSET Threads, ok : BOOLEAN]
Call    == [step : {"none", "writing", "waiting", "answered", "hidden", "collect", "done"},
            method : Methods, thread : Threads \cup {NoThread}, ok : BOOLEAN,
            inbox : Seq(Told), text : 0..MaxSaid \cup {None}]

TypeOK ==
    /\ scene \in Scenes
    /\ thread_workspace \in [Threads -> Workspaces \cup {None}]
    /\ hidden_thread_ids \subseteq Threads
    /\ background_thread_callbacks \in [Threads -> Calls \cup {0}]
    /\ calls \in [Calls -> Call]
    /\ stdin \in Seq(Request) /\ out \in Seq(Line)
    /\ reader.busy \in BOOLEAN /\ reader.line \in Line /\ reader.to \in Workspaces
    /\ reader.asked \in BOOLEAN
    /\ server.ws \in [Threads -> Workspaces \cup {None}] /\ server.said \in [Threads -> 0..MaxSaid]
    /\ \A s \in {server.memory, server.live, server.running, server.over} : s \subseteq Threads
    /\ shown \in [Workspaces -> SUBSET Threads] /\ concealed \in [Workspaces -> SUBSET Threads]
    /\ blame \subseteq {"early", "late", "overtaken"}

----------------------------------------------------------------------------
(* Lines, and the workspace of a folder.                                   *)

Answer(r, ok, thread, names) ==
    [of |-> r.of, kind |-> r.method, thread |-> thread, names |-> names, ok |-> ok]
Notice(kind, thread, names) ==
    [of |-> 0, kind |-> kind, thread |-> thread, names |-> names, ok |-> TRUE]
NoLine == Notice("archived", NoThread, {})
Idle   == [busy |-> FALSE, line |-> NoLine, to |-> Owner, asked |-> FALSE]

IsAnswer(l) == l.kind \in Methods

(* The request of the answer l is still in request_context, and in pending. *)
Asked(l) ==
    /\ IsAnswer(l) /\ calls[l.of].step = "waiting" /\ calls[l.of].method = l.kind

(* resolve_workspace_for_cwd: the deepest root around the folder.           *)
Resolve(cwd) ==
    CHOOSE w \in Workspaces : IsPrefix(Root[w], cwd) /\
        \A v \in Workspaces : IsPrefix(Root[v], cwd) => Len(Root[v]) <= Len(Root[w])

Cwd(t) == Root[server.ws[t]]

----------------------------------------------------------------------------
(* The window.  It gets an event in the moment it is emitted.              *)

Listed(w, t) == IF t \in concealed[w] THEN shown ELSE [shown EXCEPT ![w] = @ \cup {t}]

HideThread(w, t) ==
    /\ concealed' = [concealed EXCEPT ![w] = @ \cup {t}]
    /\ shown' = [shown EXCEPT ![w] = @ \ {t}]

Emit(w, l) ==
    /\ shown' = IF l.kind = "archived" THEN [shown EXCEPT ![w] = @ \ {l.thread}]
                ELSE Listed(w, l.thread)
    /\ UNCHANGED concealed

----------------------------------------------------------------------------
(* Requests.                                                               *)

Mapped(t, w) == IF t = NoThread THEN thread_workspace ELSE [thread_workspace EXCEPT ![t] = w]

(* send_request_for_workspace up to the write: the entries for the id, and  *)
(* the workspace of the thread the request names.                           *)
Ask(c, method, t) ==
    /\ calls' = [calls EXCEPT ![c].step = "writing", ![c].method = method, ![c].thread = t]
    /\ thread_workspace' = Mapped(t, Of(c))

Begin(c) ==
    /\ calls[c].step = "none"
    /\ \/ Kind(c) \in {"start", "prompt"} /\ Ask(c, "thread/start", NoThread)
       \/ Kind(c) = "list" /\ Ask(c, "thread/list", NoThread)
       \/ Kind(c) = "resume" /\ server.ws[1] = Of(c) /\ Ask(c, "thread/resume", 1)
       \/ Kind(c) = "turn" /\ \E t \in shown[Of(c)] : Ask(c, "turn/start", t)
       \/ Kind(c) = "archive" /\ \E t \in shown[Of(c)] : Ask(c, "thread/archive", t)
    /\ UNCHANGED <<scene, hidden_thread_ids, background_thread_callbacks, stdin, out, reader,
                   server, window, blame>>

Write(c) ==
    /\ calls[c].step = "writing"
    /\ calls' = [calls EXCEPT ![c].step = "waiting"]
    /\ stdin' = Append(stdin, [of |-> c, method |-> calls[c].method, thread |-> calls[c].thread])
    /\ UNCHANGED <<scene, maps, out, reader, server, window, blame>>

Finished(c) == calls' = [calls EXCEPT ![c].step = "done"] /\ UNCHANGED thread_workspace

(* The window hears the answer to its request.                             *)
Returned(c) ==
    LET t == calls[c].thread IN
    /\ calls[c].step = "answered" /\ Kind(c) # "prompt"
    /\ Finished(c)
    /\ IF calls[c].ok /\ Kind(c) \in {"start", "resume"}
       THEN /\ shown' = Listed(Of(c), t)
            /\ blame' = blame \cup (IF t \in server.live THEN {} ELSE {"overtaken"})
       ELSE UNCHANGED <<shown, blame>>
    /\ UNCHANGED <<scene, hidden_thread_ids, background_thread_callbacks, stdin, out, reader,
                   server, concealed>>

----------------------------------------------------------------------------
(* run_background_prompt_core.                                             *)

PromptHides(c) ==
    /\ Kind(c) = "prompt" /\ calls[c].step = "answered" /\ calls[c].method = "thread/start"
    /\ IF calls[c].ok
       THEN /\ HideThread(Of(c), calls[c].thread)
            /\ calls' = [calls EXCEPT ![c].step = "hidden"]
       ELSE calls' = [calls EXCEPT ![c].step = "done"] /\ UNCHANGED window
    /\ UNCHANGED <<scene, maps, stdin, out, reader, server, blame>>

Listener(c) == [background_thread_callbacks EXCEPT ![calls[c].thread] = c]

PromptListens(c) ==
    /\ calls[c].step = "hidden"
    /\ background_thread_callbacks' = Listener(c)
    /\ Ask(c, "turn/start", calls[c].thread)
    /\ UNCHANGED <<scene, hidden_thread_ids, stdin, out, reader, server, window, blame>>

(* The channel is closed, and the thread archived.                         *)
Unheard(c) ==
    [t \in Threads |-> IF t = calls[c].thread THEN 0 ELSE background_thread_callbacks[t]]
Leave(c, text) ==
    /\ background_thread_callbacks' = Unheard(c)
    /\ calls' = [calls EXCEPT ![c].step = "writing", ![c].method = "thread/archive",
                              ![c].text = text, ![c].inbox = <<>>]
    /\ thread_workspace' = Mapped(calls[c].thread, Of(c))

PromptStarted(c) ==
    /\ Kind(c) = "prompt" /\ calls[c].step = "answered" /\ calls[c].method = "turn/start"
    /\ IF calls[c].ok
       THEN /\ calls' = [calls EXCEPT ![c].step = "collect"]
            /\ UNCHANGED <<thread_workspace, background_thread_callbacks>>
       ELSE Leave(c, None)
    /\ UNCHANGED <<scene, hidden_thread_ids, stdin, out, reader, server, window, blame>>

(* The collecting loop: deltas up to the first end of a turn.               *)
PromptCollects(c) ==
    LET inbox == calls[c].inbox IN
    /\ calls[c].step = "collect"
    /\ \E i \in 1..Len(inbox) :
          /\ inbox[i] \in Ends /\ \A j \in 1..i - 1 : inbox[j] \notin Ends
          /\ Leave(c, IF inbox[i] = "failed" THEN None
                      ELSE Len(SelectSeq(SubSeq(inbox, 1, i), LAMBDA e : e = "delta")))
    /\ UNCHANGED <<scene, hidden_thread_ids, stdin, out, reader, server, window, blame>>

PromptGivesUp(c) ==
    /\ May("late") /\ calls[c].step = "collect" /\ Leave(c, None)
    /\ UNCHANGED <<scene, hidden_thread_ids, stdin, out, reader, server, window, blame>>

PromptEnds(c) ==
    /\ Kind(c) = "prompt" /\ calls[c].step = "answered" /\ calls[c].method = "thread/archive"
    /\ Finished(c)
    /\ UNCHANGED <<scene, hidden_thread_ids, background_thread_callbacks, stdin, out, reader,
                   server, window, blame>>

(* A request's 300 seconds are over: its entries are withdrawn.             *)
TimeOut(c) ==
    /\ May("late") /\ calls[c].step = "waiting"
    /\ IF Kind(c) = "prompt" /\ calls[c].method = "turn/start"
       THEN Leave(c, None)
       ELSE Finished(c) /\ UNCHANGED background_thread_callbacks
    /\ blame' = blame \cup (IF calls[c].method = "thread/start" THEN {"late"} ELSE {})
    /\ UNCHANGED <<scene, hidden_thread_ids, stdin, out, reader, server, window>>

----------------------------------------------------------------------------
(* The reader task.                                                        *)

(* What an answer tells of the threads it names.                           *)
Learned(l) ==
    IF ~Asked(l) THEN thread_workspace
    ELSE IF l.kind = "thread/list"
    THEN [t \in Threads |-> IF t \notin l.names THEN thread_workspace[t]
                            ELSE IF t \in server.memory THEN None ELSE Resolve(Cwd(t))]
    ELSE Mapped(l.thread, Of(l.of))

(* The workspace of the thread, of the request, or of the session.          *)
Routed(l, map) ==
    IF l.thread # NoThread /\ map[l.thread] # None THEN map[l.thread]
    ELSE IF Asked(l) THEN Of(l.of) ELSE Owner

ReadLine ==
    /\ ~reader.busy /\ out # <<>>
    /\ LET l == Head(out) IN
       /\ thread_workspace' = Learned(l)
       /\ hidden_thread_ids' = hidden_thread_ids \cup
              (IF Asked(l) /\ l.kind = "thread/list" THEN l.names \cap server.memory ELSE {})
       /\ reader' = [busy |-> TRUE, line |-> l, to |-> Routed(l, thread_workspace'),
                     asked |-> Asked(l)]
    /\ out' = Tail(out)
    /\ UNCHANGED <<scene, background_thread_callbacks, calls, stdin, server, window, blame>>

(* thread/started of a thread of the server's own: the window is told to    *)
(* hide it, and no more.                                                   *)
DeliverHidden(l) ==
    /\ l.kind = "started" /\ l.thread \in server.memory
    /\ hidden_thread_ids' = hidden_thread_ids \cup {l.thread}
    /\ HideThread(reader.to, l.thread)
    /\ UNCHANGED <<thread_workspace, calls>>

Suppressed(l) == l.thread \in hidden_thread_ids /\ l.kind # "archived"

DeliverAnswer(l) ==
    /\ IsAnswer(l)
    /\ IF reader.asked /\ Asked(l)
       THEN calls' = [calls EXCEPT ![l.of].step = "answered", ![l.of].ok = l.ok,
                                   ![l.of].thread = IF l.thread = NoThread THEN @ ELSE l.thread]
       ELSE UNCHANGED calls
    /\ UNCHANGED <<thread_workspace, hidden_thread_ids, window>>

(* The threads an item names go where its own thread goes, unless they have *)
(* a workspace; an archived thread is forgotten; and the event is for the    *)
(* background prompt that listens, or else for the window.                  *)
DeliverNotice(l) ==
    /\ ~IsAnswer(l) /\ ~(l.kind = "started" /\ l.thread \in server.memory)
    /\ IF Suppressed(l)
       THEN UNCHANGED <<thread_workspace, hidden_thread_ids, calls, window>>
       ELSE /\ thread_workspace' =
                  [t \in Threads |->
                     IF l.kind = "item" /\ t \in l.names \cup {l.thread}
                           /\ thread_workspace[t] = None
                     THEN reader.to
                     ELSE IF l.kind = "archived" /\ t = l.thread THEN None
                     ELSE thread_workspace[t]]
            /\ hidden_thread_ids' = IF l.kind = "archived" THEN hidden_thread_ids \ {l.thread}
                                    ELSE hidden_thread_ids
            /\ LET c == background_thread_callbacks[l.thread] IN
               IF c # 0
               THEN calls' = [calls EXCEPT ![c].inbox = Append(@, l.kind)] /\ UNCHANGED window
               ELSE Emit(reader.to, l) /\ UNCHANGED calls

Deliver ==
    /\ reader.busy /\ reader' = Idle
    /\ DeliverHidden(reader.line) \/ DeliverAnswer(reader.line) \/ DeliverNotice(reader.line)
    /\ UNCHANGED <<scene, background_thread_callbacks, stdin, out, server, blame>>

----------------------------------------------------------------------------
(* The server, external.  It may tell of a thread before it answers the     *)
(* request that started it, or before it tells of the item that did.        *)

Fresh == {t \in Threads : server.ws[t] = None /\ \A u \in 1..t - 1 : server.ws[u] # None}

Says(first, second) ==
    \/ out' = out \o <<first, second>> /\ UNCHANGED blame
    \/ May("early") /\ out' = out \o <<second, first>> /\ blame' = blame \cup {"early"}

ServeStart(r) ==
    /\ r.method = "thread/start"
    /\ \E t \in Fresh :
          /\ server' = [server EXCEPT !.ws[t] = Of(r.of), !.live = @ \cup {t}]
          /\ Says(Answer(r, TRUE, t, {}), Notice("started", t, {}))

ServeRead(r) ==
    /\ \/ /\ r.method = "thread/list"
          /\ out' = Append(out, Answer(r, TRUE, NoThread, server.live))
       \/ /\ r.method = "thread/resume"
          /\ out' = Append(out, Answer(r, TRUE, r.thread, {}))
    /\ UNCHANGED <<server, blame>>

ServeTurn(r) ==
    /\ r.method = "turn/start" /\ r.thread \in server.live \ (server.running \cup server.over)
    /\ server' = [server EXCEPT !.running = @ \cup {r.thread}]
    /\ out' = Append(out, Answer(r, TRUE, NoThread, {})) /\ UNCHANGED blame

ServeArchive(r) ==
    /\ r.method = "thread/archive" /\ r.thread \in server.live
    /\ server' = [server EXCEPT !.live = @ \ {r.thread}, !.running = @ \ {r.thread}]
    /\ out' = out \o <<Answer(r, TRUE, NoThread, {}), Notice("archived", r.thread, {})>>
    /\ UNCHANGED blame

Refuse(r) ==
    /\ \/ May("refuse")
       \/ r.method = "turn/start" /\ r.thread \notin server.live \ (server.running \cup server.over)
       \/ r.method = "thread/archive" /\ r.thread \notin server.live
    /\ out' = Append(out, Answer(r, FALSE, NoThread, {})) /\ UNCHANGED <<server, blame>>

Serve ==
    /\ stdin # <<>> /\ stdin' = Tail(stdin)
    /\ LET r == Head(stdin) IN
       \/ ServeStart(r) \/ ServeRead(r) \/ ServeTurn(r) \/ ServeArchive(r) \/ Refuse(r)
    /\ UNCHANGED <<scene, maps, calls, reader, window>>

Speak(t) ==
    /\ t \in server.running
    /\ \/ /\ server.said[t] < MaxSaid
          /\ server' = [server EXCEPT !.said[t] = @ + 1]
          /\ out' = Append(out, Notice("delta", t, {}))
       \/ /\ server' = [server EXCEPT !.running = @ \ {t}, !.over = @ \cup {t}]
          /\ \E end \in Ends : /\ end = "failed" => May("refuse")
                               /\ out' = Append(out, Notice(end, t, {}))
    /\ UNCHANGED <<scene, maps, calls, stdin, reader, window, blame>>

Opened(t, w) == [server EXCEPT !.ws[t] = w, !.live = @ \cup {t}, !.running = @ \cup {t}]

(* A thread that consolidates the server's memory.                         *)
Consolidate ==
    /\ May("memory") /\ server.memory = {}
    /\ \E t \in Fresh, w \in Workspaces :
          /\ server' = [Opened(t, w) EXCEPT !.memory = {t}]
          /\ out' = Append(out, Notice("started", t, {}))
    /\ UNCHANGED <<scene, maps, calls, stdin, reader, window, blame>>

(* A thread at work starts another.                                        *)
Spawn ==
    /\ May("child")
    /\ \E p \in server.running \ server.memory, t \in Fresh :
          /\ server' = Opened(t, server.ws[p])
          /\ Says(Notice("item", p, {t}), Notice("started", t, {}))
    /\ UNCHANGED <<scene, maps, calls, stdin, reader, window>>

----------------------------------------------------------------------------
Init ==
    /\ scene \in Scenes
    /\ thread_workspace = [t \in Threads |-> None] /\ hidden_thread_ids = {}
    /\ background_thread_callbacks = [t \in Threads |-> 0]
    /\ calls = [c \in Calls |-> [step |-> "none", method |-> "thread/start", thread |-> NoThread,
                                 ok |-> FALSE, inbox |-> <<>>, text |-> None]]
    /\ stdin = <<>> /\ out = <<>> /\ reader = Idle
    /\ \E w \in Workspaces :
          server = [ws |-> [t \in Threads |-> IF t = 1 THEN w ELSE None], memory |-> {},
                    live |-> {1}, running |-> {}, over |-> {}, said |-> [t \in Threads |-> 0]]
    /\ shown = [w \in Workspaces |-> {}] /\ concealed = [w \in Workspaces |-> {}] /\ blame = {}

Caller(c) ==
    \/ Begin(c) \/ Write(c) \/ Returned(c) \/ TimeOut(c)
    \/ PromptHides(c) \/ PromptListens(c) \/ PromptStarted(c) \/ PromptCollects(c)
    \/ PromptGivesUp(c) \/ PromptEnds(c)

Next ==
    \/ \E c \in Calls : Caller(c)
    \/ ReadLine \/ Deliver
    \/ Serve \/ Consolidate \/ Spawn \/ \E t \in Threads : Speak(t)

Spec == Init /\ [][Next]_vars

----------------------------------------------------------------------------
Background == {calls[c].thread : c \in {d \in Calls : Kind(d) = "prompt"}}

AtRest ==
    /\ out = <<>> /\ stdin = <<>> /\ ~reader.busy
    /\ \A c \in Calls : calls[c].step \in {"none", "done"}

(* Once everything has been answered and told, each thread that lives is    *)
(* listed in the workspace it works for and in no other, and those of        *)
(* background prompts and of the server's own in none: whichever of the      *)
(* answer, the events, the hiding and other workspaces' requests and         *)
(* listings came first.  Not so if the server told of a thread before the    *)
(* line that names its workspace, or a start was answered after its time.    *)
ListedAtHome ==
    AtRest /\ blame = {} =>
        \A w \in Workspaces, t \in Threads :
            LET home == t \in server.live \ (server.memory \cup Background) /\ server.ws[t] = w
            IN  /\ t \in shown[w] => home
                /\ home /\ t # 1 => t \in shown[w]

(* A background prompt that returns a text returns the whole text of its    *)
(* turn: no delta was told to the window or to another prompt instead.       *)
WholeTextReturned ==
    \A c \in Calls : Kind(c) = "prompt" /\ calls[c].text # None =>
        calls[c].text = server.said[calls[c].thread]
=============================================================================
