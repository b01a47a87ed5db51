---------------------------- MODULE Sessions_proofs ----------------------------
(***************************************************************************)
(* Theorems about the sessions of the backend.                             *)
(*                                                                         *)
(* First the map from workspaces to sessions (WorkspaceSessions), for every *)
(* set of workspaces and every bound: when no command is under way, who is  *)
(* connected, to which process, and which processes run.  The invariant is  *)
(* stated first, then what each action does to the calls, the map and the   *)
(* processes, then each part of the invariant is kept.                      *)
(*                                                                         *)
(* Then the items a Claude session makes of what its CLI writes             *)
(* (BridgeItems): that nothing of one block is ever told of the item of     *)
(* another, for any number of prompts, messages, blocks and indices         *)
(* (PartsAlwaysHome).                                                      *)
(***************************************************************************)
EXTENDS WorkspaceSessions, TLAPS


(* What these rest on.  A call is at a step of its command, holds the lock  *)
(* from its first step on, and overlapping calls are on record.             *)
Basis == Default \in Args /\ Known \subseteq Workspaces /\ MaxCalls \in Nat /\ MaxProcs \in Nat

StepsOf(do) ==
    CASE do = "connect" -> {"lock", "own", "probe", "mode", "share", "try", "spawn", "insert"}
      [] do = "add" -> {"lock", "share", "try", "spawn", "write", "insert"}
      [] do = "args" -> {"lock", "current", "spawn", "replace", "kill"}
      [] do = "remove" -> {"take", "stop", "git", "forget"}
      [] do = "respawn" -> {"drop", "look", "spawn", "insert"}
      [] do = "settings" -> {"drain"}
Locked(c) == c.do \in {"connect", "add", "args"} /\ c.at # "lock"
Entering == {"write", "insert", "replace"}
CallOK(c) ==
    /\ c.n <= made /\ c.at \in StepsOf(c.do)
    /\ c.s <= Len(procs) /\ (c.at \in Entering \cup {"probe", "try", "stop", "kill"} => c.s # 0)
    /\ c.old <= Len(procs) /\ (c.do = "args" /\ c.at \in {"spawn", "replace", "kill"} => c.old # 0)
    /\ c.do # "settings" => c.of \in Workspaces
    /\ c.do = "add" => c.of \notin fresh
    /\ c.at \in {"stop", "git"} => c.now \in Workspaces
    /\ Locked(c) => lock = c.n
CallsOK ==
    /\ \A c \in calls : CallOK(c)
    /\ \A c, d \in calls : c # d => c.n # d.n /\ {c.do, d.do} \in crossed
ProcsOK == \A s \in DOMAIN procs :
    (procs[s].kind = "codex" => procs[s].child = procs[s].alive) /\ (procs[s].killed => ~procs[s].child)

(* A process just spawned is that of one call and of its workspace.         *)
Owned(c) ==
    /\ procs[c.s].of = c.of /\ ~procs[c.s].killed /\ c.s \notin Listed
    /\ c.do = "respawn" => procs[c.s].kind = "claude"
    /\ \A d \in calls \ {c} : d.s # c.s /\ d.old # c.s
    /\ c.old # c.s
OwnedOK == \A c \in calls :
    /\ c.at \in Entering /\ c.new => Owned(c)
    /\ c.do \in {"args", "respawn"} /\ c.at \in Entering => c.new
    /\ c.new => c.at \in Entering \cup {"kill"}

(* A change of mode that overlaps no other command finds all the sessions   *)
(* of one backend, and drains them.                                        *)
Draining == \E c \in calls : c.at = "drain"
ModeOK ==
    \/ Switched
    \/ /\ Draining \/ \A s \in Listed : procs[s].kind = mode
       /\ \A c \in calls :
            /\ c.at \in Entering \cup {"try"} => procs[c.s].kind = mode
            /\ c.do = "respawn" => mode = "claude"
            /\ c.do = "connect" /\ c.at \in {"share", "try"} => mode = "codex"

(* Who spawns an app-server has found none that runs.                       *)
Servers == {s \in Listed : procs[s].kind = "codex" /\ Runs(s)}
ServerOK ==
    \/ Draining
    \/ /\ \A s, r \in Servers : s = r
       /\ \A c \in calls : c.do \in {"connect", "add"} =>
            /\ c.at = "spawn" /\ mode = "codex" => Servers = {}
            /\ c.at \in Entering \cup {"try"} /\ procs[c.s].kind = "codex" /\ Runs(c.s) => Servers \subseteq {c.s}

(* In codex mode all that are connected share one session, dead or alive.   *)
SharedOK ==
    \/ Switched \/ mode = "claude"
    \/ /\ Draining \/ \A s, r \in Listed : s = r
       /\ \A c \in calls :
            /\ c.do \in {"connect", "add"} /\ c.at = "spawn" => Listed = {}
            /\ c.do \in {"connect", "add"} /\ c.at \in Entering \cup {"try"} => Listed \subseteq {c.s}
            /\ c.do = "args" /\ c.at \in {"spawn", "replace"} =>
                    Listed \subseteq {c.old} /\ (Crossed("args", {"remove"}) \/ Listed # {})

(* An app-server that runs unlisted is about to be listed or to be killed.  *)
Minded(s) == \E c \in calls :
    \/ c.s = s /\ (c.at = "stop" \/ (c.new /\ c.at \in Entering))
    \/ c.old = s /\ c.at = "kill"
StrayOK ==
    \/ {"unsaved"} \in crossed \/ Switched \/ Crossed("args", {"remove"})
    \/ \A s \in DOMAIN procs : procs[s].kind = "codex" /\ Runs(s) => s \in Listed \/ Minded(s)

KnownOK ==
    \/ Crossed("remove", {"connect", "add", "respawn"})
    \/ /\ \A w \in Workspaces : sessions[w] # 0 => w \in entries
       /\ \A c \in calls :
            /\ c.do = "connect" \/ c.at = "insert" \/ (c.do = "respawn" /\ c.at = "spawn") => c.of \in entries
            /\ c.gone # {} => c.do = "remove"
            /\ \A w \in c.gone \cup (IF c.at \in {"stop", "git"} THEN {c.now} ELSE {}) : sessions[w] = 0

FolderOK ==
    \/ {"lent"} \in crossed \/ Switched
    \/ /\ \A w \in Workspaces :
            sessions[w] # 0 /\ procs[sessions[w]].kind = "claude" => procs[sessions[w]].of = w
       /\ \A c \in calls : c.at \in {"write", "insert"} /\ procs[c.s].kind = "claude" => procs[c.s].of = c.of

(* What is to be killed is not listed any more, nor about to be.            *)
KilledOK ==
    \/ Crossed("settings", {"connect", "add"}) \/ Crossed("remove", {"connect", "add"})
    \/ /\ \A s \in Listed : procs[s].kind = "codex" => ~procs[s].killed
       /\ \A c \in calls :
            /\ c.at \in {"write", "insert"} /\ procs[c.s].kind = "codex" => ~procs[c.s].killed
            /\ c.at = "stop" /\ procs[c.s].kind = "codex" => c.s \notin Listed
            /\ c.at = "kill" /\ procs[c.old].kind = "codex" => c.old \notin Listed

IInv ==
    /\ TypeOK /\ CallsOK /\ ProcsOK /\ OwnedOK /\ ModeOK /\ ServerOK /\ SharedOK
    /\ StrayOK /\ KnownOK /\ FolderOK /\ KilledOK

----------------------------------------------------------------------------
(* What a step does to the calls: e is what has become of c.                *)
Keeps(e, c) == e \in Call /\ e.n = c.n /\ e.do = c.do /\ e.of = c.of /\ e.args = c.args
Replaces(c, e) == calls' = (calls \ {c}) \cup {e} /\ Keeps(e, c)

Overlapping(k) == {{k, c.do} : c \in calls}

LEMMA Moved ==
    ASSUME NEW c \in Call, NEW at \in Steps
    PROVE  LET e == [c EXCEPT !.at = at]
           IN  /\ Keeps(e, c) /\ e.at = at /\ e.s = c.s /\ e.old = c.old /\ e.new = c.new
               /\ e.now = c.now /\ e.todo = c.todo /\ e.gone = c.gone
  BY DEF Call, Keeps

SameData(e, c) == e.s = c.s /\ e.old = c.old /\ e.new = c.new /\ e.now = c.now /\ e.todo = c.todo /\ e.gone = c.gone
Released(c) == lock' = IF lock = c.n THEN 0 ELSE lock
Removed(c) == calls' = calls \ {c} /\ Released(c)
Quiet == UNCHANGED <<mode, entries, fresh, sessions, procs, made, crossed>>

LEMMA CallTyped ==
    ASSUME NEW c \in calls, TypeOK, CallsOK
    PROVE  /\ c \in Call /\ c.n \in 1..MaxCalls /\ c.n <= made /\ c.do \in Kinds /\ c.at \in Steps /\ c.new \in BOOLEAN
           /\ c.args \in Args /\ c.todo \in SUBSET Workspaces /\ c.gone \in SUBSET Workspaces
           /\ c.s \in 0..Len(procs) /\ c.old \in 0..Len(procs) /\ c.s \in Sessions /\ c.old \in Sessions
           /\ CallOK(c) /\ c.at \in StepsOf(c.do)
BY DEF TypeOK, CallsOK, CallOK, Call, Sessions

LEMMA AcquireFacts ==
    ASSUME NEW c \in calls, TypeOK, CallsOK, Acquire(c)
    PROVE  \E e \in Call : /\ Replaces(c, e) /\ SameData(e, c) /\ c.at = "lock" /\ lock = 0 /\ lock' = c.n
                           /\ e.at = (IF c.do = "connect" THEN "own" ELSE IF c.do = "add" THEN "share" ELSE "current")
                           /\ UNCHANGED <<mode, entries, fresh, sessions, procs, made, crossed>>
  <1> DEFINE at == CASE c.do = "connect" -> "own" [] c.do = "add" -> "share" [] OTHER -> "current"
             e == [c EXCEPT !.at = at]
  <1>1. at = (IF c.do = "connect" THEN "own" ELSE IF c.do = "add" THEN "share" ELSE "current")
    OBVIOUS
  <1>2. at \in Steps
    BY <1>1 DEF Steps
  <1>3. Acquire(c) => Goes(c, at) /\ c.at = "lock" /\ lock = 0 /\ lock' = c.n
                      /\ UNCHANGED <<mode, entries, fresh, sessions, procs, made, crossed>>
    BY DEF Acquire, At
  <1> HIDE DEF at
  <1>4. Keeps(e, c) /\ e.at = at /\ SameData(e, c)
    BY <1>2, CallTyped, Moved DEF SameData
  <1> QED  BY <1>1, <1>3, <1>4 DEF Goes, Replaces, Keeps

LEMMA GoesFacts ==
    ASSUME NEW c \in calls, NEW at \in Steps, TypeOK, CallsOK, Goes(c, at)
    PROVE  \E e \in Call : Replaces(c, e) /\ SameData(e, c) /\ e.at = at
  <1> DEFINE e == [c EXCEPT !.at = at]
  <1>1. Keeps(e, c) /\ e.at = at /\ SameData(e, c)
    BY CallTyped, Moved DEF SameData
  <1> QED  BY <1>1 DEF Goes, Replaces, Keeps

LEMMA GoesWithFacts ==
    ASSUME NEW c \in calls, NEW at \in Steps, NEW s \in Sessions, TypeOK, CallsOK, GoesWith(c, at, s)
    PROVE  \E e \in Call : Replaces(c, e) /\ e.at = at /\ e.s = s /\ e.old = c.old /\ ~e.new /\ e.gone = c.gone
  <1> DEFINE e == [c EXCEPT !.at = at, !.s = s, !.new = FALSE]
  <1>1. Keeps(e, c) /\ e.at = at /\ e.s = s /\ e.old = c.old /\ ~e.new /\ e.gone = c.gone
    <2>1. c \in Call
      BY CallTyped
    <2> QED  BY <2>1 DEF Call, Keeps
  <1> QED  BY <1>1 DEF GoesWith, Replaces, Keeps

LEMMA SpawnFacts ==
    ASSUME NEW c \in calls, TypeOK, CallsOK, Basis, Spawn(c)
    PROVE  /\ c.at = "spawn" /\ UNCHANGED <<mode, entries, fresh, sessions, made, crossed>>
           /\ \/ Removed(c) /\ UNCHANGED procs
              \/ \E e \in Call, p \in Process :
                    /\ Len(procs) < MaxProcs /\ procs' = Append(procs, p) /\ UNCHANGED lock
                    /\ p.kind = (IF c.do = "respawn" THEN "claude" ELSE mode) /\ p.of = c.of
                    /\ p.alive /\ p.child /\ ~p.killed
                    /\ Replaces(c, e) /\ e.s = Len(procs) + 1 /\ e.new /\ e.old = c.old /\ e.gone = c.gone
                    /\ e.at = (IF c.do = "add" THEN "write" ELSE IF c.do = "args" THEN "replace" ELSE "insert")
  <1> DEFINE p == [kind |-> KindSpawned(c), of |-> c.of, alive |-> TRUE, child |-> TRUE,
                   args |-> IF KindSpawned(c) = "codex" THEN c.args ELSE Default, killed |-> FALSE]
             at == CASE c.do = "add" -> "write" [] c.do = "args" -> "replace" [] OTHER -> "insert"
             e == [c EXCEPT !.at = at, !.new = TRUE, !.s = Len(procs')]
  <1>1. c.at = "spawn" /\ UNCHANGED <<mode, entries, fresh, sessions, made, crossed>>
    BY DEF Spawn, At
  <1>9. CASE Returns(c) /\ UNCHANGED procs
    BY <1>1, <1>9 DEF Removed, Returns, Released
  <1>10. CASE /\ Len(procs) < MaxProcs /\ procs' = Append(procs, p)
              /\ calls' = (calls \ {c}) \cup {e} /\ UNCHANGED lock
    <2>2. at = (IF c.do = "add" THEN "write" ELSE IF c.do = "args" THEN "replace" ELSE "insert")
      OBVIOUS
    <2>3. at \in Steps
      BY <2>2 DEF Steps
    <2>4. Len(procs') = Len(procs) + 1 /\ Len(procs') \in Sessions
      BY <1>10 DEF TypeOK, Basis, Sessions
    <2>5. KindSpawned(c) = (IF c.do = "respawn" THEN "claude" ELSE mode)
      BY DEF KindSpawned
    <2> HIDE DEF at
    <2>6. Keeps(e, c) /\ e.at = at /\ e.s = Len(procs) + 1 /\ e.new /\ e.old = c.old /\ e.gone = c.gone
      <3>1. c \in Call
        BY CallTyped
      <3> QED  BY <2>3, <2>4, <3>1 DEF Call, Keeps
    <2>7. c.of \in Workspaces /\ KindSpawned(c) \in Modes
      BY <1>1, CallTyped, <2>5 DEF StepsOf, CallOK, TypeOK, Modes
    <2>8. p \in Process
      BY <2>7, CallTyped DEF Process, Basis
    <2>9. p.kind = KindSpawned(c) /\ p.of = c.of /\ p.alive /\ p.child /\ ~p.killed
      OBVIOUS
    <2> HIDE DEF p, e
    <2> QED  BY <1>1, <1>10, <2>2, <2>5, <2>6, <2>8, <2>9 DEF Replaces, Keeps
  <1> HIDE DEF p, at, e
  <1> QED  BY <1>9, <1>10 DEF Spawn, p, at, e

LEMMA DoesWhat ==
    ASSUME NEW c \in calls, TypeOK, CallsOK
    PROVE  /\ c.at \in {"own", "probe", "mode"} => c.do = "connect"
           /\ c.at \in {"share", "try"} => c.do \in {"connect", "add"}
           /\ c.at = "spawn" => c.do \in {"connect", "add", "args", "respawn"}
           /\ c.at = "insert" => c.do \in {"connect", "add", "respawn"}
           /\ c.at = "write" => c.do = "add"
           /\ c.at \in {"current", "replace", "kill"} => c.do = "args"
           /\ c.at \in {"take", "stop", "git", "forget"} => c.do = "remove"
           /\ c.at \in {"drop", "look"} => c.do = "respawn"
           /\ c.at = "drain" => c.do = "settings"
           /\ c.at = "lock" => c.do \in {"connect", "add", "args"}
BY CallTyped DEF StepsOf, Kinds

LEMMA ListedIn ==
    ASSUME TypeOK
    PROVE  /\ Listed \subseteq 1..Len(procs) /\ Len(procs) \in Nat /\ Len(procs) <= MaxProcs
           /\ \A w \in Workspaces : sessions[w] \in 0..Len(procs) /\ (sessions[w] # 0 => sessions[w] \in Listed)
           /\ \A s \in Listed : \E w \in Workspaces : sessions[w] = s
  BY DEF TypeOK, Listed

LEMMA InSessions ==
    ASSUME TypeOK, Basis, NEW s \in 0..Len(procs)
    PROVE  s \in Sessions
BY ListedIn DEF Sessions, Basis

LEMMA OwnFacts ==
    ASSUME NEW c \in calls, TypeOK, CallsOK, Basis, Own(c)
    PROVE  \E e \in Call :
              /\ Replaces(c, e) /\ c.at = "own" /\ e.old = c.old /\ e.gone = c.gone /\ Quiet /\ UNCHANGED lock
              /\ \/ sessions[c.of] = 0 /\ e.at = "mode" /\ e.s = c.s /\ e.new = c.new
                 \/ sessions[c.of] # 0 /\ e.at = "probe" /\ e.s = sessions[c.of] /\ ~e.new
  <1>1. c.at = "own" /\ Quiet /\ UNCHANGED lock
    BY DEF Own, At, Quiet
  <1>2. CASE sessions[c.of] = 0
    BY <1>2, <1>1, GoesFacts DEF Own, Steps, SameData
  <1>3. CASE sessions[c.of] # 0
    <2>2. PICK s \in Sessions : s = sessions[c.of]
      BY <1>1, DoesWhat, CallTyped, ListedIn, InSessions DEF CallOK
    <2>1. GoesWith(c, "probe", s) /\ "probe" \in Steps
      BY <1>3, <2>2 DEF Own, Steps, GoesWith
    <2>3. PICK e \in Call : /\ Replaces(c, e) /\ e.at = "probe" /\ e.s = s /\ e.old = c.old
                            /\ ~e.new /\ e.gone = c.gone
      BY <2>1, <2>2, GoesWithFacts
    <2> QED  BY <1>1, <1>3, <2>2, <2>3
  <1> QED  BY <1>2, <1>3

LEMMA ProbeFacts ==
    ASSUME NEW c \in calls, TypeOK, CallsOK, Basis, Probe(c)
    PROVE  /\ c.at = "probe" /\ UNCHANGED <<mode, entries, fresh, procs, made, crossed>>
           /\ \/ procs[c.s].child /\ Removed(c) /\ UNCHANGED sessions
              \/ \E e \in Call : /\ Replaces(c, e) /\ SameData(e, c) /\ e.at = "mode"
                                 /\ ~procs[c.s].child /\ sessions' = Without(c.s) /\ UNCHANGED lock
BY GoesFacts DEF Probe, At, Removed, Returns, Released, Steps

LEMMA AskModeFacts ==
    ASSUME NEW c \in calls, TypeOK, CallsOK, Basis, AskMode(c)
    PROVE  \E e \in Call : /\ Replaces(c, e) /\ SameData(e, c) /\ c.at = "mode" /\ Quiet /\ UNCHANGED lock
                           /\ e.at = (IF mode = "claude" THEN "spawn" ELSE "share")
BY GoesFacts DEF AskMode, At, Quiet, Steps

LEMMA TakeFacts ==
    ASSUME NEW c \in calls, TypeOK, CallsOK, Basis, Take(c)
    PROVE  \E e \in Call :
              /\ Replaces(c, e) /\ c.at = "share" /\ e.old = c.old /\ e.gone = c.gone /\ Quiet /\ UNCHANGED lock
              /\ \/ Listed = {} /\ e.at = "spawn" /\ e.s = c.s /\ e.new = c.new
                 \/ e.s \in Listed /\ e.at = "try" /\ ~e.new
BY GoesFacts, ListedIn, InSessions, GoesWithFacts DEF Take, At, Quiet, Steps, SameData

LEMMA TryFacts ==
    ASSUME NEW c \in calls, TypeOK, CallsOK, Basis, Try(c)
    PROVE  \E e \in Call :
              /\ Replaces(c, e) /\ SameData(e, c) /\ c.at = "try" /\ UNCHANGED <<mode, entries, fresh, procs, lock, made>>
              /\ \/ /\ procs[c.s].child /\ e.at = (IF c.do = "add" THEN "write" ELSE "insert") /\ UNCHANGED sessions
                    /\ crossed' = crossed \cup IF c.do = "add" THEN Lent(c.s) ELSE {}
                 \/ /\ ~procs[c.s].child /\ e.at = "share" /\ sessions' = Without(c.s) /\ UNCHANGED crossed
BY GoesFacts DEF Try, At, Steps


LEMMA WriteFacts ==
    ASSUME NEW c \in calls, TypeOK, CallsOK, Basis, Write(c)
    PROVE  /\ c.at = "write" /\ UNCHANGED <<mode, fresh, sessions, made>>
           /\ \/ \E e \in Call : /\ Replaces(c, e) /\ SameData(e, c) /\ e.at = "insert"
                                 /\ entries' = entries \cup {c.of} /\ UNCHANGED <<procs, lock, crossed>>
              \/ /\ Removed(c) /\ IsWorktree(c.of) /\ entries' = entries \cup {c.of} /\ UNCHANGED procs
                 /\ crossed' = crossed \cup {{"unsaved"}}
              \/ Removed(c) /\ c.new /\ procs' = Kill(procs, c.s) /\ UNCHANGED <<entries, crossed>>
              \/ Removed(c) /\ ~c.new /\ UNCHANGED <<procs, entries, crossed>>
BY GoesFacts DEF Write, At, Steps, Removed, Released, Returns

LEMMA InsertFacts ==
    ASSUME NEW c \in calls, TypeOK, CallsOK, Basis, Insert(c)
    PROVE  /\ c.at = "insert" /\ Removed(c) /\ sessions' = [sessions EXCEPT ![c.of] = c.s]
           /\ UNCHANGED <<mode, entries, fresh, procs, made, crossed>>
  BY DEF Insert, At, Removed, Released, Returns

LEMMA CurrentFacts ==
    ASSUME NEW c \in calls, TypeOK, CallsOK, Basis, Current(c)
    PROVE  /\ c.at = "current" /\ Quiet
           /\ \/ Removed(c)
              \/ \E e \in Call : /\ Replaces(c, e) /\ e.at = "spawn" /\ e.s = c.s /\ e.new = c.new /\ e.gone = c.gone
                                 /\ e.old \in Listed /\ UNCHANGED lock
  <1>1. c.at = "current" /\ Quiet
    BY DEF Current, At, Quiet
  <1>2. CASE Returns(c)
    BY <1>1, <1>2 DEF Removed, Released, Returns
  <1>3. CASE ~Returns(c)
    <2>1. PICK s \in Listed : calls' = (calls \ {c}) \cup {[c EXCEPT !.at = "spawn", !.old = s]} /\ UNCHANGED lock
      BY <1>3 DEF Current
    <2>2. s \in Sessions
      BY ListedIn, InSessions
    <2> DEFINE e == [c EXCEPT !.at = "spawn", !.old = s]
    <2>3. Keeps(e, c) /\ e.at = "spawn" /\ e.s = c.s /\ e.old = s /\ e.new = c.new /\ e.gone = c.gone
      <3>1. c \in Call
        BY CallTyped
      <3> QED  BY <2>2, <3>1 DEF Call, Keeps, Steps
    <2> QED  BY <1>1, <2>1, <2>3 DEF Replaces, Keeps
  <1> QED  BY <1>2, <1>3

LEMMA ReplaceFacts ==
    ASSUME NEW c \in calls, TypeOK, CallsOK, Basis, Replace(c)
    PROVE  \E e \in Call : /\ Replaces(c, e) /\ SameData(e, c) /\ c.at = "replace" /\ e.at = "kill"
                           /\ sessions' = [w \in Workspaces |-> IF sessions[w] # 0 THEN c.s ELSE 0]
                           /\ crossed' = crossed \cup Lent(c.s) /\ UNCHANGED <<mode, entries, fresh, procs, lock, made>>
BY GoesFacts DEF Steps, Replace, At

LEMMA KillOldFacts ==
    ASSUME NEW c \in calls, TypeOK, CallsOK, Basis, KillOld(c)
    PROVE  /\ c.at = "kill" /\ Removed(c) /\ procs' = Kill(procs, c.old)
           /\ UNCHANGED <<mode, entries, fresh, sessions, made, crossed>>
  BY DEF KillOld, At, Removed, Released, Returns

LEMMA TakeOffFacts ==
    ASSUME NEW c \in calls, TypeOK, CallsOK, Basis, TakeOff(c)
    PROVE  \E w \in Workspaces : \E e \in Call :
              /\ Replaces(c, e) /\ c.at = "take" /\ sessions' = [sessions EXCEPT ![w] = 0]
              /\ e.s = sessions[w] /\ e.now = w /\ e.old = c.old /\ e.new = c.new /\ e.gone = c.gone
              /\ \/ e.at = "git" /\ (sessions[w] = 0 \/ \E v \in Workspaces \ {w} : sessions[v] = sessions[w])
                 \/ e.at = "stop" /\ sessions[w] # 0 /\ \A v \in Workspaces \ {w} : sessions[v] # sessions[w]
              /\ UNCHANGED <<mode, entries, fresh, procs, lock, made, crossed>>
  <1>1. PICK w \in Nexts(c) :
           LET s == sessions[w]
               step == IF s = 0 \/ \E v \in Workspaces \ {w} : sessions[v] = s THEN "git" ELSE "stop"
           IN  /\ sessions' = [sessions EXCEPT ![w] = 0]
               /\ calls' = (calls \ {c}) \cup {[c EXCEPT !.at = step, !.s = s, !.now = w, !.todo = @ \ {w}]}
    BY DEF TakeOff
  <1>2. c.at = "take" /\ UNCHANGED <<mode, entries, fresh, procs, lock, made, crossed>>
    BY DEF TakeOff, At
  <1>3. w \in Workspaces
    BY CallTyped DEF Nexts
  <1>4. PICK s \in Sessions : s = sessions[w]
    BY <1>3, ListedIn, InSessions
  <1>5. PICK at \in {"git", "stop"} :
           at = IF s = 0 \/ \E v \in Workspaces \ {w} : sessions[v] = s THEN "git" ELSE "stop"
    OBVIOUS
  <1> DEFINE e == [c EXCEPT !.at = at, !.s = s, !.now = w, !.todo = @ \ {w}]
  <1>6. calls' = (calls \ {c}) \cup {e}
    BY <1>1, <1>4, <1>5
  <1>7. Keeps(e, c) /\ e.at = at /\ e.s = s /\ e.now = w /\ e.old = c.old /\ e.new = c.new /\ e.gone = c.gone
    <2>1. c \in Call /\ at \in Steps
      BY CallTyped, <1>5 DEF Steps
    <2> QED  BY <1>3, <2>1 DEF Call, Keeps
  <1>8. \/ at = "git" /\ (s = 0 \/ \E v \in Workspaces \ {w} : sessions[v] = s)
        \/ at = "stop" /\ s # 0 /\ \A v \in Workspaces \ {w} : sessions[v] # s
    BY <1>5
  <1> HIDE DEF e
  <1>9. sessions' = [sessions EXCEPT ![w] = 0]
    BY <1>1
  <1> QED  BY <1>2, <1>3, <1>4, <1>6, <1>7, <1>8, <1>9 DEF Replaces, Keeps

LEMMA StopFacts ==
    ASSUME NEW c \in calls, TypeOK, CallsOK, Basis, Stop(c)
    PROVE  \E e \in Call : /\ Replaces(c, e) /\ SameData(e, c) /\ c.at = "stop" /\ e.at = "git"
                           /\ procs' = Kill(procs, c.s)
                           /\ UNCHANGED <<mode, entries, fresh, sessions, lock, made, crossed>>
BY GoesFacts DEF Steps, Stop, At

LEMMA ThenFacts ==
    ASSUME NEW c \in calls, NEW todo \in SUBSET Workspaces, NEW gone \in SUBSET Workspaces,
           TypeOK, CallsOK, Then(c, todo, gone)
    PROVE  \E e \in Call : /\ Replaces(c, e) /\ e.at \in {"forget", "take"} /\ e.s = c.s /\ e.old = c.old
                           /\ e.new = c.new /\ e.now = c.now /\ e.gone = gone
  <1>1. PICK at \in {"forget", "take"} : at = IF todo = {} THEN "forget" ELSE "take"
    OBVIOUS
  <1>2. c \in Call /\ at \in Steps
    BY CallTyped, <1>1 DEF Steps
  <1> DEFINE e == [c EXCEPT !.at = at, !.todo = todo, !.gone = gone]
  <1>3. calls' = (calls \ {c}) \cup {e}
    BY <1>1 DEF Then
  <1>4. Keeps(e, c) /\ e.at = at /\ e.s = c.s /\ e.old = c.old /\ e.new = c.new /\ e.now = c.now /\ e.gone = gone
    BY <1>2 DEF Call, Keeps
  <1> QED  BY <1>3, <1>4 DEF Replaces, Keeps

LEMMA GitFacts ==
    ASSUME NEW c \in calls, TypeOK, CallsOK, Basis, Git(c)
    PROVE  /\ c.at = "git" /\ Quiet
           /\ \/ Removed(c)
              \/ \E e \in Call : /\ Replaces(c, e) /\ e.at \in {"forget", "take"} /\ e.s = c.s /\ e.old = c.old
                                 /\ e.new = c.new /\ e.now = c.now /\ e.gone \subseteq c.gone \cup {c.now}
                                 /\ UNCHANGED lock
BY CallTyped, ThenFacts DEF Git, At, Quiet, CallOK, Removed, Released, Returns

LEMMA ForgetFacts ==
    ASSUME NEW c \in calls, TypeOK, CallsOK, Basis, Forget(c)
    PROVE  /\ c.at = "forget" /\ Removed(c) /\ entries' = entries \ c.gone
           /\ UNCHANGED <<mode, fresh, sessions, procs, made, crossed>>
  BY DEF Forget, At, Removed, Released, Returns

LEMMA DropFacts ==
    ASSUME NEW c \in calls, TypeOK, CallsOK, Basis, Drop(c)
    PROVE  \E e \in Call : /\ Replaces(c, e) /\ SameData(e, c) /\ c.at = "drop" /\ e.at = "look"
                           /\ sessions' = [sessions EXCEPT ![c.of] = 0]
                           /\ UNCHANGED <<mode, entries, fresh, procs, lock, made, crossed>>
BY GoesFacts DEF Steps, Drop, At

LEMMA LookFacts ==
    ASSUME NEW c \in calls, TypeOK, CallsOK, Basis, Look(c)
    PROVE  /\ c.at = "look" /\ Quiet
           /\ \/ Removed(c)
              \/ c.of \in entries /\ UNCHANGED lock /\ \E e \in Call : Replaces(c, e) /\ SameData(e, c) /\ e.at = "spawn"
BY GoesFacts DEF Look, At, Quiet, Steps, Removed, Released, Returns

LEMMA DrainFacts ==
    ASSUME NEW c \in calls, TypeOK, CallsOK, Basis, Drain(c)
    PROVE  /\ c.at = "drain" /\ Removed(c) /\ sessions' = [w \in Workspaces |-> 0]
           /\ procs' = [s \in DOMAIN procs |-> IF s \in Listed THEN Kill(procs, s)[s] ELSE procs[s]]
           /\ UNCHANGED <<mode, entries, fresh, made, crossed>>
  BY DEF Drain, At, Removed, Released, Returns


(* Processes keep their kind and folder, and none comes to life again.      *)
Evolves ==
    /\ procs' \in Seq(Process) /\ Len(procs) <= Len(procs') /\ Len(procs') <= MaxProcs
    /\ \A s \in 1..Len(procs) : /\ procs'[s].kind = procs[s].kind /\ procs'[s].of = procs[s].of
                                /\ procs'[s].alive => procs[s].alive
                                /\ procs'[s].child => procs[s].child
                                /\ procs[s].killed => procs'[s].killed

LEMMA ProcessFacts ==
    ASSUME TypeOK
    PROVE  /\ procs \in Seq(Process) /\ Len(procs) \in Nat /\ Len(procs) <= MaxProcs /\ DOMAIN procs = 1..Len(procs)
           /\ \A s \in 1..Len(procs) : /\ procs[s] \in Process /\ procs[s].kind \in Modes /\ procs[s].alive \in BOOLEAN
                                       /\ procs[s].child \in BOOLEAN /\ procs[s].killed \in BOOLEAN
                                       /\ procs[s].of \in Workspaces
  <1>1. procs \in Seq(Process) /\ Len(procs) <= MaxProcs
    BY DEF TypeOK
  <1>2. Len(procs) \in Nat /\ DOMAIN procs = 1..Len(procs) /\ \A s \in 1..Len(procs) : procs[s] \in Process
    BY <1>1
  <1> QED  BY <1>1, <1>2 DEF Process

LEMMA KillFacts ==
    ASSUME TypeOK, NEW s \in 1..Len(procs), NEW q, q = Kill(procs, s)
    PROVE  /\ q \in Seq(Process) /\ Len(q) = Len(procs)
           /\ \A r \in 1..Len(procs) : /\ q[r].kind = procs[r].kind /\ q[r].of = procs[r].of
                                       /\ r # s => q[r] = procs[r]
           /\ ~q[s].child /\ q[s].killed /\ (q[s].alive => procs[s].alive /\ procs[s].kind = "claude")
  <1> DEFINE p == [procs[s] EXCEPT !.child = FALSE, !.alive = @ /\ procs[s].kind = "claude", !.killed = TRUE]
  <1>1. procs \in Seq(Process) /\ Len(procs) \in Nat /\ procs[s] \in Process
    BY ProcessFacts
  <1>2. p \in Process /\ p.kind = procs[s].kind /\ p.of = procs[s].of /\ ~p.child /\ p.killed
        /\ (p.alive => procs[s].alive /\ procs[s].kind = "claude")
    BY <1>1 DEF Process
  <1>3. q = [procs EXCEPT ![s] = p]
    BY <1>1 DEF Kill
  <1> HIDE DEF p
  <1>4. q \in Seq(Process) /\ Len(q) = Len(procs) /\ \A r \in 1..Len(procs) : q[r] = IF r = s THEN p ELSE procs[r]
    BY <1>1, <1>2, <1>3
  <1> QED  BY <1>2, <1>4

LEMMA KillEvolves ==
    ASSUME TypeOK, NEW s \in 1..Len(procs), procs' = Kill(procs, s)
    PROVE  Evolves
BY KillFacts, ProcessFacts DEF Evolves

LEMMA AppendFacts ==
    ASSUME TypeOK, NEW p \in Process, NEW q, q = Append(procs, p)
    PROVE  /\ q \in Seq(Process) /\ Len(q) = Len(procs) + 1 /\ q[Len(procs) + 1] = p
           /\ \A r \in 1..Len(procs) : q[r] = procs[r]
BY ProcessFacts

LEMMA AppendEvolves ==
    ASSUME TypeOK, Basis, NEW p \in Process, Len(procs) < MaxProcs, procs' = Append(procs, p)
    PROVE  Evolves
BY AppendFacts, ProcessFacts DEF Evolves, Basis

LEMMA SameEvolves ==
    ASSUME TypeOK, UNCHANGED procs
    PROVE  Evolves
  BY ProcessFacts DEF Evolves

LEMMA DrainedFacts ==
    ASSUME TypeOK, NEW q, q = [s \in DOMAIN procs |-> IF s \in Listed THEN Kill(procs, s)[s] ELSE procs[s]]
    PROVE  /\ q \in Seq(Process) /\ Len(q) = Len(procs)
           /\ \A r \in 1..Len(procs) :
                /\ q[r].kind = procs[r].kind /\ q[r].of = procs[r].of /\ (r \notin Listed => q[r] = procs[r])
                /\ r \in Listed => ~q[r].child /\ q[r].killed /\ (q[r].alive => procs[r].alive /\ procs[r].kind = "claude")
BY ProcessFacts, KillFacts

LEMMA DrainedEvolves ==
    ASSUME TypeOK, procs' = [s \in DOMAIN procs |-> IF s \in Listed THEN Kill(procs, s)[s] ELSE procs[s]]
    PROVE  Evolves
BY DrainedFacts, ProcessFacts DEF Evolves

LEMMA ExitFacts ==
    ASSUME TypeOK, NEW s \in DOMAIN procs, Exit(s) \/ ChildExit(s)
    PROVE  /\ Evolves /\ UNCHANGED <<mode, entries, fresh, sessions, lock, calls, made, crossed>>
           /\ Len(procs') = Len(procs)
           /\ \A r \in 1..Len(procs) :
                /\ procs'[r].killed = procs[r].killed /\ (r # s => procs'[r] = procs[r])
                /\ procs[r].kind = "codex" /\ procs[r].child = procs[r].alive => procs'[r].child = procs'[r].alive
  <1>1. PICK p : p = IF Exit(s) THEN [procs[s] EXCEPT !.alive = FALSE, !.child = @ /\ procs[s].kind = "claude"]
                     ELSE [procs[s] EXCEPT !.child = FALSE]
    OBVIOUS
  <1>2. procs \in Seq(Process) /\ Len(procs) \in Nat /\ Len(procs) <= MaxProcs /\ s \in 1..Len(procs)
        /\ procs[s] \in Process
    BY ProcessFacts
  <1>3. p \in Process /\ p.kind = procs[s].kind /\ p.of = procs[s].of /\ p.killed = procs[s].killed
        /\ (p.alive => procs[s].alive) /\ (p.child => procs[s].child)
        /\ (procs[s].kind = "codex" /\ procs[s].child = procs[s].alive => p.child = p.alive)
    BY <1>1, <1>2 DEF Process, ChildExit
  <1>4. procs' = [procs EXCEPT ![s] = p] /\ UNCHANGED <<mode, entries, fresh, sessions, lock, calls, made, crossed>>
    BY <1>1, <1>2 DEF Exit, ChildExit
  <1>5. procs' \in Seq(Process) /\ Len(procs') = Len(procs)
        /\ \A r \in 1..Len(procs) : procs'[r] = IF r = s THEN p ELSE procs[r]
    BY <1>2, <1>3, <1>4
  <1> QED  BY <1>2, <1>3, <1>4, <1>5 DEF Evolves


(* A command begins; a call goes on; a process exits.                       *)
Begins == (\E w \in Workspaces : Connect(w) \/ Add(w) \/ Remove(w) \/ Respawn(w) \/ \E a \in Args : SetArgs(w, a))
          \/ SetMode
GoesOn(c) ==
    \/ Acquire(c) \/ Own(c) \/ Probe(c) \/ AskMode(c) \/ Take(c) \/ Try(c) \/ Spawn(c)
    \/ Write(c) \/ Insert(c) \/ Current(c) \/ Replace(c) \/ KillOld(c)
    \/ TakeOff(c) \/ Stop(c) \/ Git(c) \/ Forget(c) \/ Drop(c) \/ Look(c) \/ Drain(c)
Exits == \E s \in DOMAIN procs : Exit(s) \/ ChildExit(s)

LEMMA NextSplit == [Next]_vars => Begins \/ (\E c \in calls : GoesOn(c)) \/ Exits \/ UNCHANGED vars
  BY DEF Next, Begins, GoesOn, Exits

Added(e) ==
    /\ calls' = calls \cup {e} /\ made < MaxCalls /\ made' = made + 1 /\ crossed' = crossed \cup Overlapping(e.do)
    /\ e.n = made + 1 /\ e.s = 0 /\ e.old = 0 /\ ~e.new /\ e.now = None /\ e.gone = {}
    /\ UNCHANGED <<entries, sessions, procs, lock>>

LEMMA BeginFacts ==
    ASSUME TypeOK, Basis, Begins
    PROVE  \E e \in Call :
              /\ Added(e)
              /\ \/ e.do = "connect" /\ e.at = "lock" /\ e.of \in entries /\ UNCHANGED <<mode, fresh>>
                 \/ e.do = "add" /\ e.at = "lock" /\ e.of \in fresh /\ fresh' = fresh \ {e.of} /\ UNCHANGED mode
                 \/ e.do = "args" /\ e.at = "lock" /\ e.of \in entries /\ UNCHANGED <<mode, fresh>>
                 \/ e.do = "remove" /\ e.at = "take" /\ e.of \in entries /\ UNCHANGED <<mode, fresh>>
                 \/ /\ e.do = "respawn" /\ e.at = "drop" /\ e.of \in Workspaces /\ UNCHANGED <<mode, fresh>>
                    /\ sessions[e.of] # 0 /\ procs[sessions[e.of]].kind = "claude"
                 \/ /\ e.do = "settings" /\ e.at = "drain" /\ UNCHANGED fresh
                    /\ mode' = IF mode = "codex" THEN "claude" ELSE "codex"
  <1>1. ASSUME NEW k \in Kinds, NEW w \in Workspaces \cup {None}, NEW step \in Steps, NEW args \in Args,
               NEW todo \in SUBSET Workspaces, Begin(k, w, step, args, todo), UNCHANGED <<entries, sessions, procs, lock>>
        PROVE  \E e \in Call : Added(e) /\ e.do = k /\ e.of = w /\ e.at = step
    <2> DEFINE e == [n |-> made', do |-> k, of |-> w, at |-> step, s |-> 0, old |-> 0, new |-> FALSE,
                     args |-> args, now |-> None, todo |-> todo, gone |-> {}]
    <2>1. made' = made + 1 /\ made' \in 1..MaxCalls /\ made < MaxCalls
      BY <1>1 DEF Begin, TypeOK, Basis
    <2>2. e \in Call
      BY <1>1, <2>1 DEF Call, Basis, Sessions
    <2>3. calls' = calls \cup {e} /\ crossed' = crossed \cup Overlapping(k)
      BY <1>1 DEF Begin, Overlapping
    <2>4. e.n = made + 1 /\ e.do = k /\ e.of = w /\ e.at = step /\ e.s = 0 /\ e.old = 0 /\ ~e.new /\ e.now = None
          /\ e.gone = {}
      BY <2>1
    <2> HIDE DEF e
    <2> QED  BY <1>1, <2>1, <2>2, <2>3, <2>4 DEF Added
  <1>2. /\ "lock" \in Steps /\ "take" \in Steps /\ "drop" \in Steps /\ "drain" \in Steps
        /\ "connect" \in Kinds /\ "add" \in Kinds /\ "args" \in Kinds /\ "remove" \in Kinds /\ "respawn" \in Kinds
        /\ "settings" \in Kinds /\ Default \in Args /\ {} \in SUBSET Workspaces
    BY DEF Steps, Kinds, Basis
  <1>3. ASSUME NEW w \in Workspaces, Connect(w)
        PROVE  \E e \in Call : Added(e) /\ e.do = "connect" /\ e.of = w /\ e.at = "lock" /\ w \in entries /\ UNCHANGED <<mode, fresh>>
    BY <1>3, <1>1, <1>2 DEF Connect
  <1>4. ASSUME NEW w \in Workspaces, Add(w)
        PROVE  \E e \in Call : Added(e) /\ e.do = "add" /\ e.of = w /\ e.at = "lock" /\ w \in fresh
                               /\ fresh' = fresh \ {w} /\ UNCHANGED mode
    BY <1>4, <1>1, <1>2 DEF Add
  <1>5. ASSUME NEW w \in Workspaces, NEW a \in Args, SetArgs(w, a)
        PROVE  \E e \in Call : Added(e) /\ e.do = "args" /\ e.of = w /\ e.at = "lock" /\ w \in entries /\ UNCHANGED <<mode, fresh>>
    BY <1>5, <1>1, <1>2 DEF SetArgs
  <1>6. ASSUME NEW w \in Workspaces, Remove(w)
        PROVE  \E e \in Call : Added(e) /\ e.do = "remove" /\ e.of = w /\ e.at = "take" /\ w \in entries /\ UNCHANGED <<mode, fresh>>
    <2>1. Begin("remove", w, "take", Default, Children(w) \cup {w}) /\ w \in entries
          /\ UNCHANGED <<mode, entries, fresh, sessions, procs, lock>>
      BY <1>6 DEF Remove
    <2>2. PICK todo \in SUBSET Workspaces : todo = Children(w) \cup {w}
      BY DEF Children, TypeOK
    <2>3. Begin("remove", w, "take", Default, todo)
      BY <2>1, <2>2 DEF Begin
    <2> QED  BY <1>1, <1>2, <2>1, <2>3
  <1>7. ASSUME NEW w \in Workspaces, Respawn(w)
        PROVE  \E e \in Call : Added(e) /\ e.do = "respawn" /\ e.of = w /\ e.at = "drop" /\ sessions[w] # 0
                               /\ procs[sessions[w]].kind = "claude" /\ UNCHANGED <<mode, fresh>>
    BY <1>7, <1>1, <1>2 DEF Respawn
  <1>8. ASSUME SetMode
        PROVE  \E e \in Call : Added(e) /\ e.do = "settings" /\ e.at = "drain" /\ UNCHANGED fresh
                               /\ mode' = IF mode = "codex" THEN "claude" ELSE "codex"
    BY <1>8, <1>1, <1>2 DEF SetMode
  <1> QED  BY <1>3, <1>4, <1>5, <1>6, <1>7, <1>8 DEF Begins

LEMMA Evolution ==
    ASSUME Basis, TypeOK, CallsOK, [Next]_vars
    PROVE  Evolves
  <1>1. CASE Begins
    BY <1>1, BeginFacts, SameEvolves DEF Added
  <1>2. ASSUME NEW c \in calls, GoesOn(c)
        PROVE  Evolves
    <2>1. CASE UNCHANGED procs
      BY <2>1, SameEvolves
    <2>2. CASE Spawn(c)
      BY <2>2, SpawnFacts, AppendEvolves, SameEvolves
    <2>3. CASE Write(c)
      BY <2>3, WriteFacts, CallTyped, KillEvolves, SameEvolves DEF CallOK, Entering
    <2>4. CASE KillOld(c)
      BY <2>4, KillOldFacts, CallTyped, DoesWhat, KillEvolves DEF CallOK
    <2>5. CASE Stop(c)
      BY <2>5, StopFacts, CallTyped, KillEvolves DEF CallOK
    <2>6. CASE Drain(c)
      BY <2>6, DrainFacts, DrainedEvolves
    <2>7. UNCHANGED procs \/ Spawn(c) \/ Write(c) \/ KillOld(c) \/ Stop(c) \/ Drain(c)
      BY <1>2 DEF GoesOn, Acquire, Own, Probe, AskMode, Take, Try, Insert, Current, Replace, TakeOff, Git, Forget, Drop, Look
    <2> QED  BY <2>1, <2>2, <2>3, <2>4, <2>5, <2>6, <2>7
  <1>3. CASE Exits
    BY <1>3, ExitFacts DEF Exits
  <1>4. CASE UNCHANGED vars
    BY <1>4, SameEvolves DEF vars
  <1> QED  BY <1>1, <1>2, <1>3, <1>4, NextSplit


LEMMA CallIds ==
    ASSUME TypeOK, CallsOK, NEW c \in calls, NEW d \in calls
    PROVE  (c.n = d.n => c = d) /\ (c # d => {c.do, d.do} \in crossed)
  BY DEF CallsOK

(* The typing of the calls and the lock after a call went on or returned.   *)
LEMMA LockReplaced ==
    ASSUME TypeOK, CallsOK, NEW c \in calls, NEW e \in Call, Replaces(c, e), UNCHANGED lock \/ lock' = c.n, UNCHANGED made
    PROVE  calls' \subseteq Call /\ lock' \in 0..made' /\ (lock' # 0 => \E d \in calls' : d.n = lock')
BY CallTyped DEF Replaces, Keeps, TypeOK

LEMMA LockRemoved ==
    ASSUME TypeOK, CallsOK, NEW c \in calls, Removed(c), UNCHANGED made
    PROVE  calls' \subseteq Call /\ lock' \in 0..made' /\ (lock' # 0 => \E d \in calls' : d.n = lock')
BY DEF Removed, Released, TypeOK

LEMMA CallsReplaced ==
    ASSUME Basis, TypeOK, CallsOK, NEW c \in calls, NEW e \in Call, Replaces(c, e), Evolves, CallOK(e)',
           UNCHANGED lock \/ (lock = 0 /\ lock' = c.n), UNCHANGED <<made, fresh>>, crossed \subseteq crossed'
    PROVE  CallsOK'
  <1>1. calls' = (calls \ {c}) \cup {e} /\ e.n = c.n /\ e.do = c.do
    BY DEF Replaces, Keeps
  <1>2. ASSUME NEW d \in calls'
        PROVE  CallOK(d)'
    BY CallTyped, ProcessFacts, <1>1 DEF Evolves, CallOK, Basis, Locked
  <1>3. ASSUME NEW b \in calls', NEW d \in calls', b # d
        PROVE  b.n # d.n /\ {b.do, d.do} \in crossed'
    BY <1>1, <1>3, CallIds
  <1> QED  BY <1>2, <1>3 DEF CallsOK

LEMMA CallsRemoved ==
    ASSUME Basis, TypeOK, CallsOK, NEW c \in calls, Removed(c), Evolves, UNCHANGED <<made, fresh>>, crossed \subseteq crossed'
    PROVE  CallsOK'
  <1>1. calls' = calls \ {c} /\ lock' = IF lock = c.n THEN 0 ELSE lock
    BY DEF Removed, Released
  <1>2. ASSUME NEW d \in calls'
        PROVE  CallOK(d)'
    <2>1. CallOK(d) /\ d.n \in 1..MaxCalls /\ d.s \in 0..Len(procs) /\ d.old \in 0..Len(procs) /\ d.n # c.n
      BY <1>1, CallTyped, CallIds
    <2>2. Len(procs) <= Len(procs') /\ Len(procs) \in Nat /\ Len(procs') \in Nat
      BY ProcessFacts DEF Evolves
    <2>3. Locked(d) => lock' = lock
      BY <1>1, <2>1 DEF CallOK
    <2>4. d.s <= Len(procs') /\ d.old <= Len(procs')
      BY <2>1, <2>2
    <2> QED  BY <2>1, <2>3, <2>4 DEF CallOK, Locked
  <1> QED  BY <1>1, <1>2, CallIds DEF CallsOK

LEMMA PairSwap == \A a, b : {a, b} = {b, a}
  OBVIOUS

LEMMA CallsAdded ==
    ASSUME Basis, TypeOK, CallsOK, NEW e \in Call, Added(e), e.at \in StepsOf(e.do), ~Locked(e),
           e.do # "settings" => e.of \in Workspaces, e.do = "add" => e.of \notin fresh',
           e.at \in {"lock", "take", "drop", "drain"}, fresh' \subseteq fresh
    PROVE  CallsOK'
  <1>1. calls' = calls \cup {e} /\ made' = made + 1 /\ crossed' = crossed \cup Overlapping(e.do)
        /\ e.n = made + 1 /\ e.s = 0 /\ e.old = 0 /\ UNCHANGED <<procs, lock>>
    BY DEF Added
  <1>2. made \in Nat /\ Len(procs) \in Nat
    BY ProcessFacts DEF TypeOK, Basis
  <1>3. CallOK(e)'
    BY <1>1, <1>2 DEF CallOK, Entering
  <1>4. ASSUME NEW d \in calls
        PROVE  CallOK(d)' /\ d.n # e.n /\ {e.do, d.do} \in crossed' /\ {d.do, e.do} \in crossed'
    BY CallTyped, <1>1, <1>2, PairSwap DEF Basis, CallOK, Locked, Overlapping
  <1>5. crossed \subseteq crossed'
    BY <1>1
  <1> QED  BY <1>1, <1>3, <1>4, <1>5, CallIds DEF CallsOK


(* What a call that went on has to satisfy, whatever it did.                *)
LEMMA MovedOK ==
    ASSUME Basis, TypeOK, CallsOK, NEW c \in calls, NEW e \in Call, Replaces(c, e), Evolves, UNCHANGED <<made, fresh>>,
           UNCHANGED lock, c.at # "lock", e.at # "lock", e.at \in StepsOf(c.do),
           e.s \in 0..Len(procs'), e.old \in 0..Len(procs'),
           e.at \in Entering \cup {"probe", "try", "stop", "kill"} => e.s # 0,
           c.do = "args" /\ e.at \in {"spawn", "replace", "kill"} => e.old # 0,
           e.at \in {"stop", "git"} => e.now \in Workspaces
    PROVE  CallOK(e)'
BY CallTyped DEF Replaces, Keeps, Evolves, CallOK, Locked, Entering

LEMMA SameMovedOK ==
    ASSUME Basis, TypeOK, CallsOK, NEW c \in calls, NEW e \in Call, Replaces(c, e), SameData(e, c), Evolves,
           UNCHANGED <<made, fresh, lock>>, c.at # "lock", e.at # "lock", e.at \in StepsOf(c.do),
           e.at \in Entering \cup {"probe", "try", "stop", "kill"} => c.s # 0,
           c.do = "args" /\ e.at \in {"spawn", "replace", "kill"} => c.old # 0,
           e.at \in {"stop", "git"} => c.now \in Workspaces
    PROVE  CallOK(e)'
BY CallTyped, ProcessFacts, MovedOK DEF SameData, Evolves

(* Every step of a call keeps the calls in order.                           *)
Orderly(c) == (Removed(c) \/ \E e \in Call : Replaces(c, e) /\ CallOK(e)' /\ (UNCHANGED lock \/ (lock = 0 /\ lock' = c.n)))
              /\ UNCHANGED <<made, fresh>> /\ crossed \subseteq crossed'

LEMMA LockSteps ==
    ASSUME Basis, TypeOK, CallsOK, Evolves, NEW c \in calls,
           Acquire(c) \/ Own(c) \/ Probe(c) \/ AskMode(c) \/ Take(c) \/ Try(c)
    PROVE  Orderly(c)
  <1>1. CASE Acquire(c)
    BY <1>1, AcquireFacts, DoesWhat, CallTyped DEF StepsOf, Replaces, Keeps, SameData, CallOK,
       Entering, Orderly
  <1>2. CASE Own(c)
    <2>1. PICK e \in Call :
              /\ Replaces(c, e) /\ c.at = "own" /\ e.old = c.old /\ e.gone = c.gone /\ Quiet /\ UNCHANGED lock
              /\ \/ sessions[c.of] = 0 /\ e.at = "mode" /\ e.s = c.s /\ ~e.new
                 \/ sessions[c.of] = 0 /\ e.at = "mode" /\ e.s = c.s /\ e.new
                 \/ sessions[c.of] # 0 /\ e.at = "probe" /\ e.s = sessions[c.of] /\ ~e.new
      BY <1>2, OwnFacts
    <2>2. c.do = "connect" /\ CallOK(c) /\ c.s \in 0..Len(procs) /\ c.old \in 0..Len(procs)
      BY <2>1, DoesWhat, CallTyped
    <2>3. c.of \in Workspaces /\ sessions[c.of] \in 0..Len(procs)
      BY <2>2, ListedIn DEF CallOK
    <2>4. e.at \in {"mode", "probe"} /\ e.at \in StepsOf(c.do) /\ e.s \in 0..Len(procs) /\ (e.at = "probe" => e.s # 0)
      BY <2>1, <2>2, <2>3 DEF StepsOf
    <2>5. CallOK(e)'
      BY <2>1, <2>2, <2>4, MovedOK DEF Quiet, Entering
    <2> QED  BY <2>1, <2>5 DEF Orderly, Quiet
  <1>3. CASE Probe(c)
    BY <1>3, ProbeFacts, DoesWhat, SameMovedOK DEF Orderly, StepsOf, Entering
  <1>4. CASE AskMode(c)
    BY <1>4, AskModeFacts, DoesWhat, SameMovedOK DEF StepsOf, Entering, Quiet, Orderly
  <1>5. CASE Take(c)
    BY <1>5, TakeFacts, DoesWhat, CallTyped, ListedIn, MovedOK DEF StepsOf, Entering, Quiet,
       Orderly
  <1>6. CASE Try(c)
    <2>1. PICK e \in Call :
              /\ Replaces(c, e) /\ SameData(e, c) /\ c.at = "try" /\ UNCHANGED <<mode, entries, fresh, procs, lock, made>>
              /\ e.at \in {IF c.do = "add" THEN "write" ELSE "insert", "share"} /\ crossed \subseteq crossed'
      BY <1>6, TryFacts
    <2>2. c.do \in {"connect", "add"} /\ c.s # 0
      BY <2>1, DoesWhat, CallTyped DEF CallOK
    <2>3. e.at \in StepsOf(c.do) /\ e.at \in {"write", "insert", "share"}
      BY <2>1, <2>2 DEF StepsOf
    <2>4. CallOK(e)'
      BY <2>1, <2>2, <2>3, SameMovedOK
    <2> QED  BY <2>1, <2>4 DEF Orderly
  <1> QED  BY <1>1, <1>2, <1>3, <1>4, <1>5, <1>6


LEMMA SpawnSteps ==
    ASSUME Basis, TypeOK, CallsOK, Evolves, NEW c \in calls, Spawn(c) \/ Write(c) \/ Insert(c) \/ Current(c) \/ Replace(c) \/ KillOld(c)
    PROVE  Orderly(c)
  <1>1. CASE Spawn(c)
    <2>1. c.at = "spawn" /\ UNCHANGED <<mode, entries, fresh, sessions, made, crossed>>
      BY <1>1, SpawnFacts
    <2>2. CASE Removed(c)
      BY <2>1, <2>2 DEF Orderly
    <2>3. CASE ~Removed(c)
      <3>1. PICK e \in Call, p \in Process :
                    /\ Len(procs) < MaxProcs /\ procs' = Append(procs, p) /\ UNCHANGED lock
                    /\ Replaces(c, e) /\ e.s = Len(procs) + 1 /\ e.new /\ e.old = c.old
                    /\ e.at = (IF c.do = "add" THEN "write" ELSE IF c.do = "args" THEN "replace" ELSE "insert")
        BY <1>1, <2>3, SpawnFacts
      <3>2. c.do \in {"connect", "add", "args", "respawn"} /\ (c.do = "args" => c.old # 0) /\ c.old \in 0..Len(procs)
        BY <2>1, DoesWhat, CallTyped DEF CallOK
      <3>3. e.at \in StepsOf(c.do) /\ e.at \in {"write", "replace", "insert"}
        BY <3>1, <3>2 DEF StepsOf
      <3>4. Len(procs') = Len(procs) + 1 /\ Len(procs) \in Nat
        BY <3>1, ProcessFacts
      <3>5. e.s \in 0..Len(procs') /\ e.old \in 0..Len(procs') /\ e.s # 0
        BY <3>1, <3>2, <3>4
      <3>6. CallOK(e)'
        BY <2>1, <3>1, <3>2, <3>3, <3>5, MovedOK
      <3> QED  BY <2>1, <3>1, <3>6 DEF Orderly
    <2> QED  BY <2>2, <2>3
  <1>2. CASE Write(c)
    BY <1>2, WriteFacts, DoesWhat, CallTyped, SameMovedOK DEF Orderly, CallOK, Entering, StepsOf
  <1>3. CASE Insert(c)
    BY <1>3, InsertFacts DEF Orderly
  <1>4. CASE Current(c)
    BY <1>4, CurrentFacts, DoesWhat, CallTyped, ListedIn, MovedOK DEF Orderly, Quiet, StepsOf,
       Entering
  <1>5. CASE Replace(c)
    BY <1>5, ReplaceFacts, DoesWhat, CallTyped, SameMovedOK DEF CallOK, Entering, StepsOf,
       Orderly
  <1>6. CASE KillOld(c)
    BY <1>6, KillOldFacts DEF Orderly
  <1> QED  BY <1>1, <1>2, <1>3, <1>4, <1>5, <1>6

LEMMA RemoveSteps ==
    ASSUME Basis, TypeOK, CallsOK, Evolves, NEW c \in calls,
           TakeOff(c) \/ Stop(c) \/ Git(c) \/ Forget(c) \/ Drop(c) \/ Look(c) \/ Drain(c)
    PROVE  Orderly(c)
  <1>1. CASE TakeOff(c)
    BY <1>1, TakeOffFacts, DoesWhat, CallTyped, ListedIn, MovedOK DEF StepsOf, Entering, Orderly
  <1>2. CASE Stop(c)
    BY <1>2, StopFacts, DoesWhat, CallTyped, SameMovedOK DEF CallOK, StepsOf, Entering, Orderly
  <1>3. CASE Git(c)
    BY <1>3, GitFacts, DoesWhat, CallTyped, MovedOK DEF Orderly, Quiet, StepsOf, Entering
  <1>4. CASE Forget(c)
    BY <1>4, ForgetFacts DEF Orderly
  <1>5. CASE Drop(c)
    BY <1>5, DropFacts, DoesWhat, SameMovedOK DEF StepsOf, Entering, Orderly
  <1>6. CASE Look(c)
    BY <1>6, LookFacts, DoesWhat, SameMovedOK DEF Orderly, Quiet, StepsOf, Entering
  <1>7. CASE Drain(c)
    BY <1>7, DrainFacts DEF Orderly
  <1> QED  BY <1>1, <1>2, <1>3, <1>4, <1>5, <1>6, <1>7

LEMMA OrderlySteps ==
    ASSUME Basis, TypeOK, CallsOK, Evolves, NEW c \in calls, GoesOn(c)
    PROVE  Orderly(c)
  BY LockSteps, SpawnSteps, RemoveSteps DEF GoesOn

LEMMA AddedFits ==
    ASSUME Basis, TypeOK, Begins
    PROVE  \E e \in Call :
              /\ Added(e) /\ e.at \in StepsOf(e.do) /\ ~Locked(e) /\ (e.do # "settings" => e.of \in Workspaces)
              /\ (e.do = "add" => e.of \notin fresh') /\ e.at \in {"lock", "take", "drop", "drain"} /\ fresh' \subseteq fresh
              /\ mode' \in Modes
BY BeginFacts DEF TypeOK, StepsOf, Locked, Modes

LEMMA CallsKept ==
    ASSUME Basis, TypeOK, CallsOK, Evolves, [Next]_vars
    PROVE  CallsOK'
BY AddedFits, CallsAdded, OrderlySteps, CallsReplaced, CallsRemoved, ExitFacts, CallTyped,
   NextSplit DEF Orderly, Exits, CallOK, Locked, CallsOK, vars

LEMMA EachOfSeq == ASSUME NEW S, NEW q \in Seq(S), NEW r \in 1..Len(q) PROVE q[r] \in S
  OBVIOUS

LEMMA StillNumbered ==
    ASSUME TypeOK, Evolves, UNCHANGED sessions
    PROVE  sessions' \in [Workspaces -> 0..Len(procs')]
BY ProcessFacts DEF TypeOK, Evolves

LEMMA SessionsKept ==
    ASSUME Basis, TypeOK, CallsOK, Evolves, NEW c \in calls, GoesOn(c)
    PROVE  sessions' \in [Workspaces -> 0..Len(procs')]
  <1>1. sessions \in [Workspaces -> 0..Len(procs)] /\ Len(procs) \in Nat
    BY ProcessFacts DEF TypeOK
  <1>2. CASE UNCHANGED sessions
    BY <1>2, StillNumbered
  <1>3. ASSUME UNCHANGED procs, NEW r \in 0..Len(procs), sessions' = [w \in Workspaces |-> IF sessions[w] = r THEN 0 ELSE sessions[w]]
        PROVE  sessions' \in [Workspaces -> 0..Len(procs')]
    BY <1>1, <1>3
  <1>4. ASSUME UNCHANGED procs, NEW r \in 0..Len(procs), NEW w, sessions' = [sessions EXCEPT ![w] = r]
        PROVE  sessions' \in [Workspaces -> 0..Len(procs')]
    BY <1>1, <1>4
  <1>5. c.s \in 0..Len(procs) /\ 0 \in 0..Len(procs)
    BY <1>1, CallTyped
  <1>6. CASE Probe(c)
    BY <1>2, <1>3, <1>5, <1>6, ProbeFacts DEF Without
  <1>7. CASE Try(c)
    BY <1>2, <1>3, <1>5, <1>7, TryFacts DEF Without
  <1>8. CASE Insert(c)
    BY <1>4, <1>5, <1>8, InsertFacts
  <1>9. CASE Replace(c)
    BY <1>9, ReplaceFacts, <1>1, <1>5
  <1>10. CASE TakeOff(c)
    BY <1>10, TakeOffFacts, <1>4, <1>5
  <1>11. CASE Drop(c)
    BY <1>11, DropFacts, <1>4, <1>5
  <1>12. CASE Drain(c)
    BY <1>12, DrainFacts DEF Evolves
  <1>13. UNCHANGED sessions \/ Probe(c) \/ Try(c) \/ Insert(c) \/ Replace(c) \/ TakeOff(c) \/ Drop(c) \/ Drain(c)
    BY DEF GoesOn, Acquire, Own, AskMode, Take, Spawn, Write, Current, KillOld, Stop, Git, Forget, Look
  <1> QED  BY <1>2, <1>6, <1>7, <1>8, <1>9, <1>10, <1>11, <1>12, <1>13

LEMMA EntriesKept ==
    ASSUME Basis, TypeOK, CallsOK, NEW c \in calls, GoesOn(c)
    PROVE  entries' \subseteq Workspaces /\ fresh' \subseteq Workspaces \ entries' /\ mode' \in Modes
  <1>1. entries \subseteq Workspaces /\ fresh \subseteq Workspaces \ entries /\ mode \in Modes
    BY DEF TypeOK
  <1>2. UNCHANGED <<mode, fresh>>
    BY DEF GoesOn, Acquire, Own, Probe, AskMode, Take, Try, Spawn, Write, Insert, Current, Replace, KillOld, TakeOff, Stop,
           Git, Forget, Drop, Look, Drain
  <1>3. CASE UNCHANGED entries
    BY <1>1, <1>2, <1>3
  <1>4. CASE Write(c)
    BY <1>4, WriteFacts, DoesWhat, CallTyped, <1>1, <1>2 DEF CallOK
  <1>5. CASE Forget(c)
    BY <1>1, <1>2, <1>5, ForgetFacts
  <1>6. UNCHANGED entries \/ Write(c) \/ Forget(c)
    BY DEF GoesOn, Acquire, Own, Probe, AskMode, Take, Try, Spawn, Insert, Current, Replace, KillOld, TakeOff, Stop,
           Git, Drop, Look, Drain
  <1> QED  BY <1>3, <1>4, <1>5, <1>6

LEMMA TypeKept ==
    ASSUME Basis, TypeOK, CallsOK, Evolves, [Next]_vars
    PROVE  TypeOK'
  <1>1. procs' \in Seq(Process) /\ Len(procs') <= MaxProcs
    BY DEF Evolves
  <1>2. CASE Begins
    BY <1>2, AddedFits, StillNumbered, <1>1 DEF Added, TypeOK, Basis
  <1>3. ASSUME NEW c \in calls, GoesOn(c)
        PROVE  TypeOK'
    BY <1>3, OrderlySteps, SessionsKept, EntriesKept, LockReplaced, LockRemoved, <1>1 DEF
       Orderly, TypeOK
  <1>4. CASE Exits
    BY <1>4, ExitFacts, StillNumbered, <1>1 DEF Exits, TypeOK
  <1>5. CASE UNCHANGED vars
    BY <1>5 DEF vars, TypeOK
  <1> QED  BY <1>2, <1>3, <1>4, <1>5, NextSplit

LEMMA ProcsKept ==
    ASSUME Basis, TypeOK, CallsOK, ProcsOK, [Next]_vars
    PROVE  ProcsOK'
  <1>1. DOMAIN procs = 1..Len(procs) /\ procs \in Seq(Process) /\ Len(procs) \in Nat
        /\ \A s \in 1..Len(procs) : procs[s].kind \in Modes /\ procs[s].alive \in BOOLEAN /\ procs[s].child \in BOOLEAN
    BY ProcessFacts
  <1>2. CASE UNCHANGED procs
    BY <1>2 DEF ProcsOK
  <1>3. ASSUME NEW s \in 1..Len(procs), procs' = Kill(procs, s)
        PROVE  ProcsOK'
    <2>1. PICK q : q = procs'
      OBVIOUS
    <2>2. /\ q \in Seq(Process) /\ Len(q) = Len(procs)
          /\ \A r \in 1..Len(procs) : /\ q[r].kind = procs[r].kind /\ (r # s => q[r] = procs[r])
          /\ ~q[s].child /\ q[s].killed /\ (q[s].alive => procs[s].alive /\ procs[s].kind = "claude")
      BY <1>3, <2>1, KillFacts
    <2>3. DOMAIN q = 1..Len(procs) /\ q[s].alive \in BOOLEAN /\ q[s].child \in BOOLEAN
      <3>1. DOMAIN q = 1..Len(procs)
        BY <1>1, <2>2
      <3>2. q[s] \in Process
        BY <1>1, <2>2, EachOfSeq
      <3> QED  BY <3>1, <3>2 DEF Process
    <2>4. ASSUME NEW r \in 1..Len(procs)
          PROVE  (q[r].kind = "codex" => q[r].child = q[r].alive) /\ (q[r].killed => ~q[r].child)
      BY <2>2, <2>3, <1>1 DEF ProcsOK
    <2> QED  BY <2>1, <2>3, <2>4 DEF ProcsOK
  <1>4. CASE Begins
    BY <1>2, <1>4, BeginFacts DEF Added
  <1>5. ASSUME NEW c \in calls, GoesOn(c)
        PROVE  ProcsOK'
    <2>1. CASE Spawn(c)
      BY <2>1, SpawnFacts, AppendFacts, <1>1, <1>2 DEF Process, ProcsOK
    <2>2. CASE Write(c)
      BY <2>2, WriteFacts, CallTyped, <1>2, <1>3 DEF CallOK, Entering
    <2>3. CASE KillOld(c)
      BY <2>3, KillOldFacts, CallTyped, DoesWhat, <1>3 DEF CallOK
    <2>4. CASE Stop(c)
      BY <2>4, StopFacts, CallTyped, <1>3 DEF CallOK
    <2>5. CASE Drain(c)
      <3>1. PICK q : q = procs'
        OBVIOUS
      <3>2. /\ q \in Seq(Process) /\ Len(q) = Len(procs)
            /\ \A r \in 1..Len(procs) :
                 /\ q[r].kind = procs[r].kind /\ (r \notin Listed => q[r] = procs[r])
                 /\ r \in Listed => ~q[r].child /\ q[r].killed /\ (q[r].alive => procs[r].alive /\ procs[r].kind = "claude")
        BY <2>5, <3>1, DrainFacts, DrainedFacts
      <3>3. DOMAIN q = 1..Len(procs) /\ \A r \in 1..Len(procs) : q[r].alive \in BOOLEAN /\ q[r].child \in BOOLEAN
        <4>1. DOMAIN q = 1..Len(procs)
          BY <1>1, <3>2
        <4>2. \A r \in 1..Len(procs) : q[r] \in Process
          BY <1>1, <3>2, EachOfSeq
        <4> QED  BY <4>1, <4>2 DEF Process
      <3>4. ASSUME NEW r \in 1..Len(procs)
            PROVE  (q[r].kind = "codex" => q[r].child = q[r].alive) /\ (q[r].killed => ~q[r].child)
        BY <3>2, <3>3, <1>1 DEF ProcsOK
      <3> QED  BY <3>1, <3>3, <3>4 DEF ProcsOK
    <2>6. UNCHANGED procs \/ Spawn(c) \/ Write(c) \/ KillOld(c) \/ Stop(c) \/ Drain(c)
      BY <1>5 DEF GoesOn, Acquire, Own, Probe, AskMode, Take, Try, Insert, Current, Replace, TakeOff, Git, Forget, Drop, Look
    <2> QED  BY <1>2, <2>1, <2>2, <2>3, <2>4, <2>5, <2>6
  <1>6. CASE Exits
    BY <1>6, ExitFacts, <1>1 DEF Exits, Evolves, ProcsOK
  <1>7. CASE UNCHANGED vars
    BY <1>2, <1>7 DEF vars
  <1> QED  BY <1>4, <1>5, <1>6, <1>7, NextSplit

----------------------------------------------------------------------------
(* What a call becomes, by the step it comes to.                            *)
Still == UNCHANGED <<sessions, procs>>
FreshFor(c, e) ==
    /\ e.s = Len(procs) + 1 /\ Len(procs') = Len(procs) + 1 /\ e.new /\ e.old = c.old /\ UNCHANGED <<sessions, crossed>>
    /\ procs'[e.s].kind = (IF c.do = "respawn" THEN "claude" ELSE mode) /\ procs'[e.s].of = c.of /\ ~procs'[e.s].killed
    /\ \A r \in 1..Len(procs) : procs'[r] = procs[r]
Became(c, e) ==
    /\ e.at # "drain"
    /\ e.at = "share" => c.do = "add" \/ (c.at = "mode" /\ mode # "claude") \/ c.at = "try"
    /\ e.at = "try" => c.at = "share" /\ e.s \in Listed /\ ~e.new /\ Still
    /\ e.at = "spawn" => /\ Still /\ UNCHANGED entries
                         /\ \/ c.at = "mode" /\ mode = "claude"
                            \/ c.at = "share" /\ Listed = {}
                            \/ c.at = "current" /\ e.old \in Listed
                            \/ c.at = "look" /\ c.of \in entries
    /\ e.at \in {"write", "insert"} =>
        \/ /\ c.at = "try" /\ procs[c.s].child /\ SameData(e, c) /\ Still /\ UNCHANGED entries
           /\ IF c.do = "add" THEN e.at = "write" /\ Lent(c.s) \subseteq crossed' ELSE e.at = "insert"
        \/ c.at = "write" /\ e.at = "insert" /\ SameData(e, c) /\ Still /\ c.of \in entries'
        \/ c.at = "spawn" /\ FreshFor(c, e) /\ UNCHANGED entries /\ e.at = (IF c.do = "add" THEN "write" ELSE "insert")
    /\ e.at = "replace" => c.at = "spawn" /\ FreshFor(c, e)
    /\ e.at = "kill" => c.at = "replace" /\ SameData(e, c)
    /\ e.at = "stop" => /\ c.at = "take" /\ Listed' = Listed \ {e.s} /\ sessions'[e.now] = 0 /\ UNCHANGED procs
    /\ e.at = "git" => (c.at = "take" /\ sessions'[e.now] = 0) \/ (c.at = "stop" /\ SameData(e, c) /\ UNCHANGED sessions)
    /\ e.gone = c.gone \/ (c.at = "git" /\ e.gone \subseteq c.gone \cup {c.now} /\ UNCHANGED sessions)
    /\ e.new => e.at \in Entering \cup {"kill"} \/ (c.new /\ c.at \notin Entering \cup {"kill"})
    /\ e.s \in {0, c.s} \cup Listed \/ (c.at = "spawn" /\ e.s = Len(procs) + 1)
    /\ e.old \in {c.old} \cup Listed

LEMMA Unlists ==
    ASSUME TypeOK, NEW w \in Workspaces, sessions' = [sessions EXCEPT ![w] = 0]
    PROVE  /\ Listed' \subseteq Listed /\ sessions'[w] = 0 /\ \A v \in Workspaces \ {w} : sessions'[v] = sessions[v]
           /\ (sessions[w] # 0 /\ \A v \in Workspaces \ {w} : sessions[v] # sessions[w]) => Listed' = Listed \ {sessions[w]}
           /\ (sessions[w] = 0 \/ \E v \in Workspaces \ {w} : sessions[v] = sessions[w]) => Listed' = Listed
BY DEF TypeOK, Listed

LEMMA Becoming1 ==
    ASSUME Basis, TypeOK, CallsOK, NEW c \in calls,
           Acquire(c) \/ Own(c) \/ Probe(c) \/ AskMode(c) \/ Take(c) \/ Try(c)
    PROVE  Removed(c) \/ \E e \in Call : Replaces(c, e) /\ Became(c, e)
  <1> USE DEF Entering
  <1>1. CASE Acquire(c)
    BY <1>1, AcquireFacts DEF Became, SameData
  <1>2. CASE Own(c)
    BY <1>2, OwnFacts, DoesWhat, CallTyped, ListedIn DEF CallOK, Became
  <1>3. CASE Probe(c)
    BY <1>3, ProbeFacts DEF Became, SameData
  <1>4. CASE AskMode(c)
    BY <1>4, AskModeFacts DEF Became, SameData, Quiet, Still
  <1>5. CASE Take(c)
    BY <1>5, TakeFacts DEF Became, Quiet, Still
  <1>6. CASE Try(c)
    BY <1>6, TryFacts DEF SameData, Became, Still
  <1> QED  BY <1>1, <1>2, <1>3, <1>4, <1>5, <1>6

LEMMA Becoming2 ==
    ASSUME Basis, TypeOK, CallsOK, NEW c \in calls, Spawn(c) \/ Write(c) \/ Insert(c) \/ Current(c) \/ Replace(c) \/ KillOld(c)
    PROVE  Removed(c) \/ \E e \in Call : Replaces(c, e) /\ Became(c, e)
  <1> USE DEF Entering
  <1>0. SUFFICES ASSUME ~Removed(c) PROVE \E e \in Call : Replaces(c, e) /\ Became(c, e)
    OBVIOUS
  <1>1. CASE Spawn(c)
    BY <1>1, SpawnFacts, <1>0, AppendFacts DEF FreshFor, Became
  <1>2. CASE Write(c)
    BY <1>0, <1>2, WriteFacts DEF SameData, Became, Still
  <1>3. CASE Insert(c)
    BY <1>0, <1>3, InsertFacts
  <1>4. CASE Current(c)
    BY <1>0, <1>4, CurrentFacts DEF Became, Quiet, Still
  <1>5. CASE Replace(c)
    BY <1>5, ReplaceFacts DEF Became, SameData
  <1>6. CASE KillOld(c)
    BY <1>0, <1>6, KillOldFacts
  <1> QED  BY <1>1, <1>2, <1>3, <1>4, <1>5, <1>6

LEMMA Becoming3 ==
    ASSUME Basis, TypeOK, CallsOK, NEW c \in calls,
           TakeOff(c) \/ Stop(c) \/ Git(c) \/ Forget(c) \/ Drop(c) \/ Look(c) \/ Drain(c)
    PROVE  Removed(c) \/ \E e \in Call : Replaces(c, e) /\ Became(c, e)
  <1> USE DEF Entering
  <1>0. SUFFICES ASSUME ~Removed(c) PROVE \E e \in Call : Replaces(c, e) /\ Became(c, e)
    OBVIOUS
  <1>1. CASE TakeOff(c)
    BY <1>1, TakeOffFacts, Unlists, ListedIn DEF Became
  <1>2. CASE Stop(c)
    BY <1>2, StopFacts DEF SameData, Became
  <1>3. CASE Git(c)
    BY <1>0, <1>3, GitFacts DEF Became, Quiet
  <1>4. CASE Forget(c)
    BY <1>0, <1>4, ForgetFacts
  <1>5. CASE Drop(c)
    BY <1>5, DropFacts DEF Became, SameData
  <1>6. CASE Look(c)
    BY <1>0, <1>6, LookFacts DEF Became, SameData, Quiet, Still
  <1>7. CASE Drain(c)
    BY <1>0, <1>7, DrainFacts
  <1> QED  BY <1>1, <1>2, <1>3, <1>4, <1>5, <1>6, <1>7

LEMMA Becoming ==
    ASSUME Basis, TypeOK, CallsOK, NEW c \in calls, GoesOn(c)
    PROVE  Removed(c) \/ \E e \in Call : Replaces(c, e) /\ Became(c, e)
  BY Becoming1, Becoming2, Becoming3 DEF GoesOn


(* What a call does to the map and to the processes, by the step it is at.  *)
LEMMA ListedAre ==
    ASSUME TypeOK
    PROVE  /\ \A s : s \in Listed <=> s # 0 /\ \E w \in Workspaces : sessions[w] = s
           /\ \A s : s \in Listed' <=> s # 0 /\ \E w \in Workspaces : sessions'[w] = s
  BY DEF Listed

LEMMA WithoutOne ==
    ASSUME TypeOK, NEW r, sessions' = [w \in Workspaces |-> IF sessions[w] = r THEN 0 ELSE sessions[w]]
    PROVE  Listed' = Listed \ {r} /\ \A w \in Workspaces : sessions'[w] \in {0, sessions[w]}
BY ListedAre

Remaps(c) ==
    \/ UNCHANGED sessions /\ c.at \notin {"insert", "replace", "drain"}
    \/ c.at \in {"probe", "try"} /\ ~procs[c.s].child /\ Listed' = Listed \ {c.s} /\ UNCHANGED procs
       /\ \A w \in Workspaces : sessions'[w] \in {0, sessions[w]}
    \/ c.at = "insert" /\ sessions' = [sessions EXCEPT ![c.of] = c.s] /\ UNCHANGED <<procs, entries>>
    \/ c.at = "replace" /\ sessions' = [w \in Workspaces |-> IF sessions[w] # 0 THEN c.s ELSE 0] /\ UNCHANGED <<procs, entries>>
    \/ c.at = "take" /\ UNCHANGED procs /\ Listed' \subseteq Listed /\ \A w \in Workspaces : sessions'[w] \in {0, sessions[w]}
    \/ c.at = "drop" /\ UNCHANGED procs /\ Listed' \subseteq Listed /\ \A w \in Workspaces : sessions'[w] \in {0, sessions[w]}
    \/ c.at = "drain" /\ Listed' = {} /\ \A w \in Workspaces : sessions'[w] = 0

LEMMA Remapping ==
    ASSUME Basis, TypeOK, CallsOK, NEW c \in calls, GoesOn(c)
    PROVE  Remaps(c)
  <1>1. CASE UNCHANGED sessions /\ c.at \notin {"insert", "replace", "drain"}
    BY <1>1 DEF Remaps
  <1>2. CASE Probe(c)
    BY <1>2, ProbeFacts, <1>1, WithoutOne DEF Remaps, Without
  <1>3. CASE Try(c)
    BY <1>3, TryFacts, <1>1, WithoutOne DEF Remaps, Without
  <1>4. CASE Insert(c)
    BY <1>4, InsertFacts DEF Remaps
  <1>5. CASE Replace(c)
    BY <1>5, ReplaceFacts DEF Remaps
  <1>6. CASE TakeOff(c)
    BY <1>6, TakeOffFacts, Unlists DEF Remaps
  <1>7. CASE Drop(c)
    BY <1>7, DropFacts, DoesWhat, CallTyped, Unlists DEF CallOK, Remaps
  <1>8. CASE Drain(c)
    BY <1>8, DrainFacts, ListedAre DEF Remaps
  <1>9. (UNCHANGED sessions /\ c.at \notin {"insert", "replace", "drain"})
        \/ Probe(c) \/ Try(c) \/ Insert(c) \/ Replace(c) \/ TakeOff(c) \/ Drop(c) \/ Drain(c)
    BY DEF GoesOn, At, Acquire, Own, AskMode, Take, Spawn, Write, Current, KillOld, Stop, Git, Forget, Look
  <1> QED  BY <1>1, <1>2, <1>3, <1>4, <1>5, <1>6, <1>7, <1>8, <1>9

LEMMA Remapped ==
    ASSUME TypeOK, NEW c \in calls, Remaps(c)
    PROVE  /\ c.at \notin {"insert", "replace"} => Listed' \subseteq Listed /\ \A w \in Workspaces : sessions'[w] \in {0, sessions[w]}
           /\ c.at = "insert" => Listed' \subseteq Listed \cup {c.s}
           /\ c.at = "replace" => Listed' \subseteq {c.s} /\ (Listed # {} => c.s = 0 \/ Listed' = {c.s})
           /\ Listed' \subseteq Listed \cup {c.s}
BY ListedAre DEF TypeOK, Remaps

Kills(c) ==
    \A r \in 1..Len(procs) : procs'[r].killed /\ ~procs[r].killed =>
        \/ c.at = "write" /\ c.new /\ r = c.s
        \/ c.at = "stop" /\ r = c.s
        \/ c.at = "kill" /\ r = c.old
        \/ c.at = "drain" /\ r \in Listed

LEMMA Killing ==
    ASSUME Basis, TypeOK, CallsOK, NEW c \in calls, GoesOn(c)
    PROVE  /\ Kills(c)
           /\ c.at = "stop" => (procs[c.s].kind = "codex" => ~procs'[c.s].alive)
           /\ c.at = "kill" => (procs[c.old].kind = "codex" => ~procs'[c.old].alive)
           /\ c.at = "drain" => \A r \in Listed : procs[r].kind = "codex" => ~procs'[r].alive
           /\ c.at = "write" /\ c.new =>
                (procs[c.s].kind = "codex" => ~procs'[c.s].alive) \/ {"unsaved"} \in crossed' \/ ~Removed(c)
  <1>0. /\ c.at = "stop" => c.s \in 1..Len(procs)
        /\ c.at = "kill" => c.old \in 1..Len(procs)
        /\ c.at = "write" => c.s \in 1..Len(procs)
    BY DoesWhat, CallTyped DEF CallOK, Entering
  <1>1. ASSUME NEW s \in 1..Len(procs), procs' = Kill(procs, s)
        PROVE  /\ \A r \in 1..Len(procs) : procs'[r].killed /\ ~procs[r].killed => r = s
               /\ procs[s].kind = "codex" => ~procs'[s].alive
    BY <1>1, KillFacts
  <1>2. CASE UNCHANGED procs /\ c.at \notin {"stop", "kill", "drain", "write"}
    BY <1>2 DEF Kills
  <1>3. CASE Spawn(c)
    BY <1>3, SpawnFacts, AppendFacts DEF Kills
  <1>4. CASE Write(c)
    <2>1. c.at = "write"
      BY <1>4, WriteFacts
    <2>2. CASE procs' = Kill(procs, c.s) /\ c.new
      BY <1>0, <1>1, <2>1, <2>2 DEF Kills
    <2>3. CASE ~(procs' = Kill(procs, c.s) /\ c.new)
      BY <1>4, <2>3, WriteFacts, CallTyped, <2>1 DEF Replaces, Removed, Keeps, CallsOK, Kills
    <2> QED  BY <2>2, <2>3
  <1>5. CASE KillOld(c)
    BY <1>5, KillOldFacts, <1>0, <1>1 DEF Kills
  <1>6. CASE Stop(c)
    BY <1>6, StopFacts, <1>0, <1>1 DEF Kills
  <1>7. CASE Drain(c)
    BY <1>7, DrainFacts, DrainedFacts, ListedIn DEF Kills
  <1>8. (UNCHANGED procs /\ c.at \notin {"stop", "kill", "drain", "write"})
        \/ Spawn(c) \/ Write(c) \/ KillOld(c) \/ Stop(c) \/ Drain(c)
    BY DEF GoesOn, At, Acquire, Own, Probe, AskMode, Take, Try, Insert, Current, Replace, TakeOff, Git, Forget, Drop, Look
  <1> QED  BY <1>2, <1>3, <1>4, <1>5, <1>6, <1>7, <1>8

LEMMA TheCalls ==
    ASSUME Basis, TypeOK, CallsOK, NEW c \in calls, GoesOn(c)
    PROVE  /\ calls \ {c} \subseteq calls'
           /\ \A d \in calls' : d \in calls \ {c} \/ (Keeps(d, c) /\ Became(c, d) /\ ~Removed(c))
BY Becoming DEF Removed, Replaces

LEMMA StepKeeps ==
    ASSUME Basis, TypeOK, CallsOK, NEW c \in calls, GoesOn(c)
    PROVE  UNCHANGED <<mode, fresh, made>> /\ crossed \subseteq crossed'
  <1>1. Evolves
    BY Evolution DEF GoesOn, Next
  <1>2. Orderly(c)
    BY <1>1, OrderlySteps
  <1>3. UNCHANGED mode
    BY DEF GoesOn, Acquire, Own, Probe, AskMode, Take, Try, Spawn, Write, Insert, Current, Replace, KillOld, TakeOff, Stop,
           Git, Forget, Drop, Look, Drain
  <1> QED  BY <1>2, <1>3 DEF Orderly

----------------------------------------------------------------------------
LEMMA OwnedKept ==
    ASSUME Basis, TypeOK, CallsOK, ProcsOK, OwnedOK, CallsOK', TypeOK', [Next]_vars
    PROVE  OwnedOK'
  <1>0. Evolves
    BY Evolution
  <1>1. \A d \in calls : /\ d.at \in Entering => d.s \in 1..Len(procs)
                         /\ d.s \in 0..Len(procs) /\ d.old \in 0..Len(procs)
    BY CallTyped DEF CallOK
  <1>2. Listed \subseteq 1..Len(procs) /\ Len(procs) \in Nat
    BY ListedIn
  <1>3. CASE Begins
    BY <1>3, AddedFits, <1>1, <1>2 DEF Added, OwnedOK, Listed, Owned, Entering
  <1>4. ASSUME NEW c \in calls, GoesOn(c)
        PROVE  OwnedOK'
    <2>1. /\ calls \ {c} \subseteq calls'
          /\ \A d \in calls' : d \in calls \ {c} \/ (Keeps(d, c) /\ Became(c, d) /\ ~Removed(c))
      BY <1>4, TheCalls
    <2>2. Listed' \subseteq Listed \cup {c.s}
      BY <1>4, Remapping, Remapped
    <2>3. Kills(c)
      BY <1>4, Killing
    <2>4. ASSUME NEW d \in calls \ {c}, d.at \in Entering, d.new
          PROVE  Owned(d)'
      BY <1>1, <2>4, <2>2, <2>3, <1>2, <2>1, <1>0 DEF OwnedOK, Owned, Kills, Became, Evolves
    <2>7. ASSUME NEW e, Became(c, e), e.new
          PROVE  e.at \in Entering \cup {"kill"}
      BY <2>7 DEF Became, OwnedOK
    <2>5. ASSUME NEW e \in calls', Keeps(e, c), Became(c, e)
          PROVE  /\ e.at \in Entering /\ e.new => Owned(e)'
                 /\ e.do \in {"args", "respawn"} /\ e.at \in Entering => e.new
                 /\ e.new => e.at \in Entering \cup {"kill"}
      <3>1. e.do = c.do /\ e.of = c.of /\ e \in Call
        BY <2>5 DEF Keeps
      <3>2. CASE c.at = "spawn" /\ FreshFor(c, e)
        <4>1. /\ e.s = Len(procs) + 1 /\ e.new /\ e.old = c.old /\ UNCHANGED sessions
              /\ procs'[e.s].kind = (IF c.do = "respawn" THEN "claude" ELSE mode) /\ procs'[e.s].of = c.of /\ ~procs'[e.s].killed
          BY <3>2 DEF FreshFor
        <4>2. Listed' = Listed
          BY <4>1 DEF Listed
        <4>3. e.s \notin Listed' /\ e.old # e.s
          BY <1>1, <1>2, <4>1, <4>2
        <4>4. ASSUME NEW x \in calls' \ {e}
              PROVE  x.s # e.s /\ x.old # e.s
          <5>1. CASE x \in calls \ {c}
            BY <1>1, <1>2, <4>1, <5>1
          <5>2. CASE Keeps(x, c)
            BY <2>5, <5>2 DEF Keeps, CallsOK
          <5> QED  BY <2>1, <5>1, <5>2
        <4>5. Owned(e)'
          BY <3>1, <4>1, <4>3, <4>4 DEF Owned
        <4> QED  BY <2>5, <2>7, <4>1, <4>5
      <3>3. CASE c.at = "write" /\ e.at = "insert" /\ SameData(e, c) /\ Still
        <4>1. e.s = c.s /\ e.old = c.old /\ e.new = c.new /\ UNCHANGED <<sessions, procs>> /\ e.at \in Entering /\ c.at \in Entering
          BY <3>3 DEF SameData, Still, Entering
        <4>2. c.new => Owned(c)
          BY <4>1 DEF OwnedOK
        <4>3. Listed' = Listed
          BY <4>1 DEF Listed
        <4>4. ASSUME NEW x \in calls' \ {e}
              PROVE  x \in calls \ {c}
          BY <2>5, <2>1 DEF Keeps, CallsOK
        <4>5. c.new => Owned(e)'
          BY <3>1, <4>1, <4>2, <4>3, <4>4 DEF Owned
        <4>6. c.do \in {"args", "respawn"} => c.new
          BY <4>1 DEF OwnedOK
        <4> QED  BY <3>1, <4>1, <4>5, <4>6
      <3>4. CASE c.at = "try" /\ SameData(e, c)
        BY <3>4, DoesWhat, <3>1 DEF SameData, OwnedOK, Entering
      <3>5. CASE e.at \notin Entering
        BY <2>5, <2>7, <3>5
      <3>6. (c.at = "spawn" /\ FreshFor(c, e)) \/ (c.at = "write" /\ e.at = "insert" /\ SameData(e, c) /\ Still)
            \/ (c.at = "try" /\ SameData(e, c)) \/ e.at \notin Entering
        BY <2>5 DEF Became, Entering
      <3> QED  BY <3>2, <3>3, <3>4, <3>5, <3>6
    <2>6. \A d \in calls \ {c} : /\ d.do \in {"args", "respawn"} /\ d.at \in Entering => d.new
                                 /\ d.new => d.at \in Entering \cup {"kill"}
      BY DEF OwnedOK
    <2> QED  BY <2>1, <2>4, <2>5, <2>6 DEF OwnedOK
  <1>5. CASE Exits
    BY <1>5, ExitFacts, <1>1, <1>0 DEF Exits, Listed, OwnedOK, Owned, Evolves
  <1>6. CASE UNCHANGED vars
    BY <1>6 DEF vars, OwnedOK, Owned, Listed
  <1> QED  BY <1>3, <1>4, <1>5, <1>6, NextSplit

----------------------------------------------------------------------------
(* What overlaps is on record, and only one call holds the lock.            *)
LEMMA OnRecord ==
    ASSUME TypeOK, CallsOK, NEW c \in calls, NEW d \in calls, c # d
    PROVE  /\ c.do = "settings" /\ d.do \in {"connect", "add", "args", "respawn"} => Switched
           /\ c.do = "settings" /\ d.do \in {"connect", "add"} => Crossed("settings", {"connect", "add"})
           /\ c.do = "remove" /\ d.do \in {"connect", "add"} => Crossed("remove", {"connect", "add"})
           /\ c.do = "remove" /\ d.do \in {"connect", "add", "respawn"} => Crossed("remove", {"connect", "add", "respawn"})
           /\ c.do = "args" /\ d.do = "remove" => Crossed("args", {"remove"})
           /\ ~(Locked(c) /\ Locked(d))
BY CallIds DEF CallsOK, CallOK, Switched, Crossed

LEMMA RecordKept ==
    ASSUME crossed \subseteq crossed'
    PROVE  /\ Switched => Switched'
           /\ Crossed("args", {"remove"}) => Crossed("args", {"remove"})'
           /\ Crossed("remove", {"connect", "add"}) => Crossed("remove", {"connect", "add"})'
           /\ Crossed("settings", {"connect", "add"}) => Crossed("settings", {"connect", "add"})'
           /\ Crossed("remove", {"connect", "add", "respawn"}) => Crossed("remove", {"connect", "add", "respawn"})'
           /\ {"lent"} \in crossed => {"lent"} \in crossed'
           /\ {"unsaved"} \in crossed => {"unsaved"} \in crossed'
  BY DEF Switched, Crossed

LEMMA NewRecord ==
    ASSUME NEW e, Added(e), NEW d \in calls
    PROVE  {e.do, d.do} \in crossed' /\ {d.do, e.do} \in crossed' /\ crossed \subseteq crossed'
BY PairSwap DEF Added, Overlapping

LEMMA CalledFor ==
    ASSUME TypeOK, CallsOK, NEW d \in calls
    PROVE  /\ d.at \in Entering \cup {"try"} => d.s \in 1..Len(procs) /\ d.do \in {"connect", "add", "args", "respawn"}
           /\ d.at \in {"write", "insert", "try"} => d.do \in {"connect", "add", "respawn"}
           /\ d.at = "drain" <=> d.do = "settings"
           /\ d.at \in Entering \cup {"try", "spawn", "share", "kill"} /\ d.do \in {"connect", "add", "args"} => Locked(d)
           /\ d.at \in Entering \cup {"try", "spawn", "share", "kill", "probe"} /\ d.do # "respawn" => Locked(d)
BY CallTyped, DoesWhat DEF CallOK, StepsOf, Kinds, Entering, Locked

LEMMA ModeKept ==
    ASSUME Basis, TypeOK, CallsOK, ProcsOK, ModeOK, [Next]_vars, ~Switched'
    PROVE  /\ Draining' \/ \A s \in Listed' : procs'[s].kind = mode'
           /\ \A d \in calls' : /\ d.at \in Entering \cup {"try"} => procs'[d.s].kind = mode'
                                /\ d.do = "respawn" => mode' = "claude"
                                /\ d.do = "connect" /\ d.at \in {"share", "try"} => mode' = "codex"
  <1>0. Evolves
    BY Evolution
  <1>1. Listed \subseteq 1..Len(procs) /\ Len(procs) \in Nat /\ mode \in Modes
    BY ListedIn DEF TypeOK
  <1>2. CASE Begins
    <2>1. PICK e \in Call :
              /\ Added(e)
              /\ \/ e.do = "connect" /\ e.at = "lock" /\ UNCHANGED mode
                 \/ e.do = "add" /\ e.at = "lock" /\ UNCHANGED mode
                 \/ e.do = "args" /\ e.at = "lock" /\ UNCHANGED mode
                 \/ e.do = "remove" /\ e.at = "take" /\ UNCHANGED mode
                 \/ /\ e.do = "respawn" /\ e.at = "drop" /\ e.of \in Workspaces /\ UNCHANGED mode
                    /\ sessions[e.of] # 0 /\ procs[sessions[e.of]].kind = "claude"
                 \/ e.do = "settings" /\ e.at = "drain"
      BY <1>2, BeginFacts
    <2>2. calls' = calls \cup {e} /\ UNCHANGED <<sessions, procs>>
      BY <2>1 DEF Added
    <2>3. Listed' = Listed
      BY <2>2 DEF Listed
    <2>4. \A d \in calls : {e.do, d.do} \in crossed' /\ {d.do, e.do} \in crossed' /\ crossed \subseteq crossed'
      BY <2>1, NewRecord
    <2>5. \A d \in calls : e.do = "settings" => d.do \notin {"connect", "add", "args", "respawn"}
      BY <2>4 DEF Switched, Crossed
    <2>6. crossed \subseteq crossed' /\ ~Switched
      BY <2>1, RecordKept DEF Added
    <2>7. CASE e.do = "settings"
      BY <2>1, <2>2, <2>7, <2>5, CalledFor DEF Draining, Entering
    <2>8. CASE e.do # "settings"
      BY <2>1, <2>8, <2>2, CalledFor, <2>4, ListedIn, <2>6, <2>3 DEF Draining, Switched,
         Crossed, ModeOK, Entering
    <2> QED  BY <2>7, <2>8
  <1>3. ASSUME NEW c \in calls, GoesOn(c)
        PROVE  /\ Draining' \/ \A s \in Listed' : procs'[s].kind = mode'
               /\ \A d \in calls' : /\ d.at \in Entering \cup {"try"} => procs'[d.s].kind = mode'
                                    /\ d.do = "respawn" => mode' = "claude"
                                    /\ d.do = "connect" /\ d.at \in {"share", "try"} => mode' = "codex"
    <2>1. /\ calls \ {c} \subseteq calls'
          /\ \A d \in calls' : d \in calls \ {c} \/ (Keeps(d, c) /\ Became(c, d) /\ ~Removed(c))
      BY <1>3, TheCalls
    <2>2. UNCHANGED mode /\ crossed \subseteq crossed'
      BY <1>3, StepKeeps
    <2>3. ~Switched
      BY <2>2, RecordKept
    <2>4. /\ Draining \/ \A s \in Listed : procs[s].kind = mode
          /\ \A d \in calls : /\ d.at \in Entering \cup {"try"} => procs[d.s].kind = mode
                              /\ d.do = "respawn" => mode = "claude"
                              /\ d.do = "connect" /\ d.at \in {"share", "try"} => mode = "codex"
      BY <2>3 DEF ModeOK
    <2>5. Remaps(c)
      BY <1>3, Remapping
    <2>6. c.at \in Entering \cup {"try", "share"} => ~Draining
      BY CalledFor, DoesWhat, <2>3, OnRecord DEF Entering, Draining
    <2>7. Draining' \/ \A s \in Listed' : procs'[s].kind = mode'
      BY <2>5, Remapped, <2>1, <2>4, <1>1, CalledFor, <1>0, <2>2 DEF Remaps, Draining, Entering,
         Evolves
    <2>8. ASSUME NEW d \in calls
          PROVE  /\ d.at \in Entering \cup {"try"} => procs'[d.s].kind = mode'
                 /\ d.do = "respawn" => mode' = "claude"
                 /\ d.do = "connect" /\ d.at \in {"share", "try"} => mode' = "codex"
      BY CalledFor, <1>0, <2>2, <2>4 DEF Evolves
    <2>9. ASSUME NEW e \in calls', Keeps(e, c), Became(c, e)
          PROVE  /\ e.at \in Entering \cup {"try"} => procs'[e.s].kind = mode'
                 /\ e.do = "respawn" => mode' = "claude"
                 /\ e.do = "connect" /\ e.at \in {"share", "try"} => mode' = "codex"
      <3>1. e.do = c.do
        BY <2>9 DEF Keeps
      <3>2. c.do = "respawn" => mode = "claude"
        BY <2>4
      <3>3. e.do = "connect" /\ e.at \in {"share", "try"} => mode' = "codex"
        BY <2>9, <1>1, <2>2, <2>4, <3>1 DEF Became, Modes
      <3>4. CASE c.at = "spawn" /\ FreshFor(c, e)
        BY <3>2, <3>4, <2>2, <3>1, <3>3 DEF FreshFor
      <3>5. CASE c.at \in {"try", "write"} /\ SameData(e, c)
        BY <2>4, <3>5, CalledFor, <1>0, <2>2, <3>1, <3>2, <3>3 DEF SameData, Entering, Evolves
      <3>6. CASE c.at = "share" /\ e.s \in Listed
        <4>1. procs[e.s].kind = mode /\ e.s \in 1..Len(procs)
          BY <1>1, <2>4, <2>6, <3>6
        <4> QED  BY <1>0, <2>2, <3>1, <3>2, <3>3, <4>1 DEF Evolves
      <3>7. CASE e.at \notin Entering \cup {"try"}
        BY <2>2, <3>1, <3>2, <3>3, <3>7
      <3>8. (c.at = "spawn" /\ FreshFor(c, e)) \/ (c.at \in {"try", "write"} /\ SameData(e, c)) \/ (c.at = "share" /\ e.s \in Listed)
            \/ e.at \notin Entering \cup {"try"}
        BY <2>9 DEF Became, Entering
      <3> QED  BY <3>4, <3>5, <3>6, <3>7, <3>8
    <2> QED  BY <2>1, <2>7, <2>8, <2>9
  <1>4. CASE Exits
    <2>1. UNCHANGED <<mode, sessions, calls, crossed>>
      BY <1>4, ExitFacts DEF Exits
    <2>2. Listed' = Listed /\ ~Switched /\ (Draining => Draining')
      BY <2>1 DEF Listed, Switched, Crossed, Draining
    <2>3. /\ Draining \/ \A s \in Listed : procs[s].kind = mode
          /\ \A d \in calls : /\ d.at \in Entering \cup {"try"} => procs[d.s].kind = mode
                              /\ d.do = "respawn" => mode = "claude"
                              /\ d.do = "connect" /\ d.at \in {"share", "try"} => mode = "codex"
      BY <2>2 DEF ModeOK
    <2>4. \A d \in calls : d.at \in Entering \cup {"try"} => d.s \in 1..Len(procs)
      BY CalledFor
    <2> QED  BY <1>0, <1>1, <2>1, <2>2, <2>3, <2>4 DEF Evolves
  <1>5. CASE UNCHANGED vars
    BY <1>5 DEF vars, ModeOK, Switched, Crossed, Draining, Listed
  <1> QED  BY <1>2, <1>3, <1>4, <1>5, NextSplit

LEMMA ModeStays ==
    ASSUME Basis, TypeOK, CallsOK, ProcsOK, ModeOK, [Next]_vars
    PROVE  ModeOK'
  BY ModeKept DEF ModeOK

----------------------------------------------------------------------------
LEMMA ServersAre ==
    /\ \A s : s \in Servers <=> s \in Listed /\ procs[s].kind = "codex" /\ procs[s].alive
    /\ \A s : s \in Servers' <=> s \in Listed' /\ procs'[s].kind = "codex" /\ procs'[s].alive
  BY DEF Servers, Runs

LEMMA ServersShrink ==
    ASSUME TypeOK, Evolves, NEW s, s \in Servers', s \in Listed
    PROVE  s \in Servers
  BY ListedIn, ServersAre DEF Evolves

ServerPart(d) ==
    /\ d.at = "spawn" /\ mode = "codex" => Servers = {}
    /\ d.at \in Entering \cup {"try"} /\ procs[d.s].kind = "codex" /\ Runs(d.s) => Servers \subseteq {d.s}

LEMMA ServerStays ==
    ASSUME Basis, TypeOK, CallsOK, OwnedOK, ServerOK, [Next]_vars
    PROVE  ServerOK'
  <1>0. Evolves
    BY Evolution
  <1>1. Listed \subseteq 1..Len(procs) /\ Len(procs) \in Nat
    BY ListedIn
  <1>2. SUFFICES ASSUME ~Draining'
                 PROVE  /\ \A s, r \in Servers' : s = r
                        /\ \A d \in calls' : d.do \in {"connect", "add"} => ServerPart(d)'
    BY DEF ServerOK, ServerPart
  <1>3. ~Draining => /\ \A s, r \in Servers : s = r
                     /\ \A d \in calls : d.do \in {"connect", "add"} => ServerPart(d)
    BY DEF ServerOK, ServerPart
  <1>4. CASE Begins
    BY <1>4, AddedFits, <1>2, BeginFacts, <1>3 DEF Added, Listed, Servers, Runs, Draining,
       ServerPart, Entering
  <1>5. ASSUME NEW c \in calls, GoesOn(c)
        PROVE  /\ \A s, r \in Servers' : s = r
               /\ \A d \in calls' : d.do \in {"connect", "add"} => ServerPart(d)'
    <2>1. /\ calls \ {c} \subseteq calls'
          /\ \A d \in calls' : d \in calls \ {c} \/ (Keeps(d, c) /\ Became(c, d) /\ ~Removed(c))
      BY <1>5, TheCalls
    <2>2. UNCHANGED mode
      BY <1>5, StepKeeps
    <2>3. Remaps(c)
      BY <1>5, Remapping
    <2>4. CASE c.at = "drain"
      BY <2>3, <2>4, ServersAre DEF Remaps, ServerPart
    <2>5. CASE c.at # "drain"
      <3>1. ~Draining
        BY <1>2, <2>1, <2>5 DEF Draining
      <3>2. /\ \A s, r \in Servers : s = r
            /\ \A d \in calls : d.do \in {"connect", "add"} => ServerPart(d)
        BY <1>3, <3>1
      <3>3. ASSUME Servers' \subseteq Servers, NEW d \in calls, d.do \in {"connect", "add"}
            PROVE  ServerPart(d)'
        BY <3>2, <3>3, CalledFor, <1>0, <2>2 DEF Evolves, ServerPart, Runs
      <3>4. CASE c.at = "insert" /\ c.do \in {"connect", "add"}
        <4>1. ServerPart(c) /\ Locked(c) /\ c.s \in 1..Len(procs)
          BY <3>2, <3>4, CalledFor DEF Entering
        <4>2. Listed' \subseteq Listed \cup {c.s}
          BY <2>3, Remapped
        <4>3. \A s \in Servers' : s \in Servers \/ s = c.s
          BY <1>0, <4>2, ServersAre, ServersShrink
        <4>4. c.s \in Servers' => procs[c.s].kind = "codex" /\ Runs(c.s)
          BY <1>0, <4>1, ServersAre DEF Evolves, Runs
        <4>5. \A s, r \in Servers' : s = r
          BY <3>2, <3>4, <4>1, <4>3, <4>4 DEF ServerPart, Entering
        <4>6. ASSUME NEW d \in calls \ {c}, d.do \in {"connect", "add"}
              PROVE  ServerPart(d)'
          BY <4>1, OnRecord, <4>6, CalledFor DEF ServerPart
        <4>7. \A d \in calls' : d \in calls \ {c}
          <5>1. ASSUME NEW d, Became(c, d)
                PROVE  d.at \notin Entering \cup {"try", "spawn"}
            BY <3>4, <5>1 DEF Became, Entering
          <5>2. Removed(c)
            BY <1>5, <3>4, InsertFacts DEF GoesOn, At, Acquire, Own, Probe, AskMode, Take, Try, Spawn, Write, Current, Replace,
               KillOld, TakeOff, Stop, Git, Forget, Drop, Look, Drain
          <5> QED  BY <2>1, <5>2
        <4> QED  BY <4>5, <4>6, <4>7
      <3>5. CASE c.at = "replace"
        BY <2>3, <3>5, Remapped, ServersAre, CalledFor, DoesWhat, OnRecord, <2>1 DEF Entering,
           ServerPart, Keeps
      <3>6. CASE ~(c.at = "insert" /\ c.do \in {"connect", "add"}) /\ c.at # "replace"
        <4>1. Servers' \subseteq Servers
          <5>1. CASE c.at = "insert"
            <6>1. c.do = "respawn"
              BY <3>6, <5>1, DoesWhat
            <6>2. procs[c.s].kind = "claude" /\ c.s \in 1..Len(procs)
              BY <5>1, <6>1, CalledFor DEF OwnedOK, Owned, Entering
            <6>3. Listed' \subseteq Listed \cup {c.s} /\ c.s \notin Servers'
              BY <1>0, <2>3, <6>2, Remapped, ServersAre DEF Evolves
            <6> QED  BY <1>0, <6>3, ServersAre, ServersShrink
          <5>2. CASE c.at # "insert"
            BY <2>3, <3>6, <5>2, Remapped, <1>0, ServersAre, ServersShrink
          <5> QED  BY <5>1, <5>2
        <4>2. ASSUME NEW e \in calls', Keeps(e, c), Became(c, e), e.do \in {"connect", "add"}
              PROVE  ServerPart(e)'
          <5>1. c.do = e.do /\ c.do \in {"connect", "add"}
            BY <4>2 DEF Keeps
          <5>2. ServerPart(c)
            BY <3>2, <5>1
          <5>3. CASE c.at = "spawn" /\ FreshFor(c, e)
            BY <3>2, <5>1, <5>3, <4>2, <4>1, <5>2 DEF FreshFor, Became, ServerPart
          <5>4. CASE c.at \in {"try", "write"} /\ SameData(e, c) /\ e.at # "spawn"
            BY <5>4, CalledFor, <1>0, <4>1, <5>2 DEF SameData, Entering, Evolves, ServerPart,
               Runs
          <5>5. CASE c.at = "share" /\ e.s \in Listed /\ e.at = "try"
            <6>1. e.s \in 1..Len(procs)
              BY <1>1, <5>5
            <6>2. procs'[e.s].kind = "codex" /\ procs'[e.s].alive => e.s \in Servers
              BY <1>0, <5>5, <6>1, ServersAre DEF Evolves
            <6> QED  BY <3>2, <4>1, <5>5, <6>2 DEF ServerPart, Runs
          <5>6. CASE e.at = "spawn"
            BY <4>2, <5>6, <5>1, DoesWhat, <4>1, ServersAre, <2>2 DEF Became, ServerPart,
               Entering
          <5>7. CASE e.at \notin Entering \cup {"try", "spawn"}
            BY <5>7 DEF ServerPart
          <5>8. \/ c.at = "spawn" /\ FreshFor(c, e)
                \/ c.at \in {"try", "write"} /\ SameData(e, c) /\ e.at # "spawn"
                \/ c.at = "share" /\ e.s \in Listed /\ e.at = "try"
                \/ e.at = "spawn"
                \/ e.at \notin Entering \cup {"try", "spawn"}
            BY <4>2 DEF Became, Entering
          <5> QED  BY <5>3, <5>4, <5>5, <5>6, <5>7, <5>8
        <4> QED  BY <2>1, <3>2, <3>3, <4>1, <4>2
      <3> QED  BY <3>4, <3>5, <3>6
    <2> QED  BY <2>4, <2>5
  <1>6. CASE Exits
    BY <1>6, ExitFacts, <1>2, <1>0, ServersAre, ServersShrink, <1>3, CalledFor DEF Exits,
       Listed, Draining, Evolves, ServerPart, Runs
  <1>7. CASE UNCHANGED vars
    BY <1>2, <1>7, ServersAre, <1>3 DEF vars, Listed, Draining, ServerPart, Runs
  <1> QED  BY <1>4, <1>5, <1>6, <1>7, NextSplit

----------------------------------------------------------------------------
SharedPart(d) ==
    /\ d.do \in {"connect", "add"} /\ d.at = "spawn" => Listed = {}
    /\ d.do \in {"connect", "add"} /\ d.at \in Entering \cup {"try"} => Listed \subseteq {d.s}
    /\ d.do = "args" /\ d.at \in {"spawn", "replace"} =>
            Listed \subseteq {d.old} /\ (Crossed("args", {"remove"}) \/ Listed # {})

LEMMA SharedStays ==
    ASSUME Basis, TypeOK, CallsOK, ProcsOK, OwnedOK, ModeOK, SharedOK, [Next]_vars
    PROVE  SharedOK'
  <1>1. Listed \subseteq 1..Len(procs) /\ Len(procs) \in Nat /\ mode \in Modes
    BY ListedIn DEF TypeOK
  <1>2. SUFFICES ASSUME ~Switched', mode' # "claude"
                 PROVE  /\ Draining' \/ \A s, r \in Listed' : s = r
                        /\ \A d \in calls' : SharedPart(d)'
    BY DEF SharedOK, SharedPart
  <1>3. ~Switched /\ mode = "codex" => /\ Draining \/ \A s, r \in Listed : s = r
                                       /\ \A d \in calls : SharedPart(d)
    BY DEF SharedOK, SharedPart
  <1>4. CASE Begins
    <2>1. PICK e \in Call : Added(e) /\ e.at \in {"lock", "take", "drop", "drain"} /\ (UNCHANGED mode \/ (e.do = "settings" /\ e.at = "drain"))
      BY <1>4, BeginFacts
    <2>2. calls' = calls \cup {e} /\ UNCHANGED <<sessions, procs>>
      BY <2>1 DEF Added
    <2>3. Listed' = Listed
      BY <2>2 DEF Listed
    <2>4. \A d \in calls : {e.do, d.do} \in crossed' /\ crossed \subseteq crossed'
      BY <2>1, NewRecord
    <2>5. crossed \subseteq crossed' /\ ~Switched
      BY <1>2, <2>1, RecordKept DEF Added
    <2>6. SharedPart(e)'
      BY <2>1 DEF SharedPart, Entering
    <2>7. CASE e.do = "settings" /\ e.at = "drain"
      BY <2>2, <2>7, <1>2, <2>4, <2>6 DEF Draining, Switched, Crossed, SharedPart
    <2>8. CASE UNCHANGED mode
      <3>1. Draining => Draining'
        BY <2>2 DEF Draining
      <3>2. \A d \in calls : SharedPart(d) => SharedPart(d)'
        BY <2>3, <2>5, RecordKept DEF SharedPart
      <3>3. mode = "codex"
        BY <1>1, <1>2, <2>8 DEF Modes
      <3> QED  BY <1>3, <2>2, <2>3, <2>5, <2>6, <3>1, <3>2, <3>3
    <2> QED  BY <2>1, <2>7, <2>8
  <1>5. ASSUME NEW c \in calls, GoesOn(c)
        PROVE  /\ Draining' \/ \A s, r \in Listed' : s = r
               /\ \A d \in calls' : SharedPart(d)'
    <2>1. /\ calls \ {c} \subseteq calls'
          /\ \A d \in calls' : d \in calls \ {c} \/ (Keeps(d, c) /\ Became(c, d) /\ ~Removed(c))
      BY <1>5, TheCalls
    <2>2. UNCHANGED mode /\ crossed \subseteq crossed'
      BY <1>5, StepKeeps
    <2>3. Remaps(c)
      BY <1>5, Remapping
    <2>4. ~Switched /\ mode = "codex"
      BY <1>1, <1>2, <2>2, RecordKept DEF Modes
    <2>5. /\ Draining \/ \A s, r \in Listed : s = r
          /\ \A d \in calls : SharedPart(d)
      BY <1>3, <2>4
    <2>6. \A d \in calls : d.do # "respawn"
      BY <2>4 DEF ModeOK
    <2>7. c.do \in {"connect", "add", "args"} => ~Draining
      BY CalledFor, <2>4, OnRecord DEF Draining
    <2>8. CASE c.at = "drain"
      BY <2>3, <2>8, CalledFor, <2>4, OnRecord, <2>1 DEF Remaps, Keeps, SharedPart
    <2>9. CASE c.at \in {"insert", "replace"}
      <3>1. Locked(c) /\ c.do \in {"connect", "add", "args"} /\ c.s # 0 /\ (c.at = "insert" => c.do \in {"connect", "add"})
        BY <2>6, <2>9, CalledFor, DoesWhat DEF Entering
      <3>2. Listed' \subseteq {c.s}
        BY <2>5, <3>1, <2>3, <2>9, Remapped DEF SharedPart, Entering
      <3>3. ASSUME NEW d \in calls \ {c}
            PROVE  SharedPart(d)'
        BY <3>1, OnRecord, CalledFor DEF SharedPart, Locked, Entering
      <3>4. ASSUME NEW e, Keeps(e, c), Became(c, e)
            PROVE  SharedPart(e)'
        BY <2>9, <3>4 DEF Became, Entering, SharedPart
      <3> QED  BY <2>1, <3>2, <3>3, <3>4
    <2>10. CASE c.at \notin {"insert", "replace", "drain"}
      <3>1. Listed' \subseteq Listed
        BY <2>3, <2>10, Remapped
      <3>2. Draining' \/ \A s, r \in Listed' : s = r
        BY <2>1, <2>10, <2>5, <3>1 DEF Draining
      <3>3. ASSUME NEW d \in calls \ {c}
            PROVE  SharedPart(d)'
        <4>1. SharedPart(d)
          BY <2>5
        <4>2. CASE d.do = "args" /\ d.at \in {"spawn", "replace"}
          <5>1. Locked(d)
            BY <4>2, CalledFor DEF Entering
          <5>2. c.at \notin {"probe", "try"}
            BY <2>6, <5>1, CalledFor, OnRecord
          <5>3. c.at = "take" => Crossed("args", {"remove"})
            BY <4>2, DoesWhat, OnRecord
          <5>4. c.at # "drop"
            BY <2>6, DoesWhat
          <5>5. UNCHANGED sessions \/ Crossed("args", {"remove"})
            BY <2>3, <2>10, <5>2, <5>3, <5>4 DEF Remaps
          <5>6. Listed # {} => Listed' # {} \/ Crossed("args", {"remove"})
            BY <5>5 DEF Listed
          <5> QED  BY <2>2, <3>1, <4>1, <4>2, <5>6, RecordKept DEF SharedPart
        <4>3. CASE ~(d.do = "args" /\ d.at \in {"spawn", "replace"})
          BY <3>1, <4>1, <4>3 DEF SharedPart
        <4> QED  BY <4>2, <4>3
      <3>4. ASSUME NEW e \in calls', Keeps(e, c), Became(c, e)
            PROVE  SharedPart(e)'
        <4>1. e.do = c.do /\ SharedPart(c)
          BY <2>5, <3>4 DEF Keeps
        <4>2. CASE c.at = "spawn" /\ FreshFor(c, e)
          BY <3>4, <4>2, <2>2, <4>1, RecordKept DEF Became, FreshFor, Listed, SharedPart
        <4>3. CASE c.at \in {"try", "write"} /\ SameData(e, c) /\ e.at \in {"write", "insert"}
          BY <4>3, DoesWhat, <3>1, <4>1 DEF SameData, SharedPart, Entering
        <4>4. CASE c.at = "share" /\ e.s \in Listed /\ e.at = "try"
          BY <4>4, DoesWhat, <2>5, <2>7, <3>1, <4>1 DEF SharedPart
        <4>5. CASE e.at = "spawn"
          <5>1. /\ UNCHANGED sessions
                /\ \/ c.at = "mode" /\ mode = "claude"
                   \/ c.at = "share" /\ Listed = {}
                   \/ c.at = "current" /\ e.old \in Listed
                   \/ c.at = "look"
            BY <3>4, <4>5 DEF Became, Still
          <5>2. c.at # "look" /\ (c.at = "current" => c.do = "args") /\ (c.at = "share" => c.do \in {"connect", "add"})
            BY <2>6, DoesWhat
          <5>3. Listed' = Listed
            BY <5>1 DEF Listed
          <5>4. CASE c.at = "share" /\ Listed = {}
            BY <4>1, <4>5, <5>2, <5>3, <5>4 DEF SharedPart, Entering
          <5>5. CASE c.at = "current" /\ e.old \in Listed
            BY <2>5, <2>7, <5>2, <5>5, <4>1, <4>5, <5>3 DEF SharedPart, Entering
          <5> QED  BY <2>4, <5>1, <5>2, <5>4, <5>5
        <4>6. CASE e.at \notin Entering \cup {"try", "spawn"}
          BY <4>6 DEF SharedPart, Entering
        <4>7. \/ c.at = "spawn" /\ FreshFor(c, e)
              \/ c.at \in {"try", "write"} /\ SameData(e, c) /\ e.at \in {"write", "insert"}
              \/ c.at = "share" /\ e.s \in Listed /\ e.at = "try"
              \/ e.at = "spawn"
              \/ e.at \notin Entering \cup {"try", "spawn"}
          BY <3>4 DEF Became, Entering
        <4> QED  BY <4>2, <4>3, <4>4, <4>5, <4>6, <4>7
      <3> QED  BY <2>1, <3>2, <3>3, <3>4
    <2> QED  BY <2>8, <2>9, <2>10
  <1>6. CASE Exits \/ UNCHANGED vars
    <2>1. UNCHANGED <<mode, sessions, calls, crossed>>
      BY <1>6, ExitFacts DEF Exits, vars
    <2>2. Listed' = Listed /\ (Draining => Draining') /\ ~Switched
      BY <1>2, <2>1, RecordKept DEF Listed, Draining
    <2>3. mode = "codex"
      BY <1>1, <1>2, <2>1 DEF Modes
    <2>4. \A d \in calls : SharedPart(d) => SharedPart(d)'
      BY <2>1, <2>2 DEF SharedPart, Crossed
    <2> QED  BY <1>3, <2>1, <2>2, <2>3, <2>4
  <1> QED  BY <1>4, <1>5, <1>6, NextSplit

----------------------------------------------------------------------------
MindedBy(c, s) ==
    \/ c.s = s /\ (c.at = "stop" \/ (c.new /\ c.at \in Entering))
    \/ c.old = s /\ c.at = "kill"

LEMMA StrayStays ==
    ASSUME Basis, TypeOK, CallsOK, ProcsOK, OwnedOK, ModeOK, SharedOK, StrayOK, [Next]_vars
    PROVE  StrayOK'
  <1>0. Evolves
    BY Evolution
  <1>1. /\ Listed \subseteq 1..Len(procs) /\ Len(procs) \in Nat /\ mode \in Modes
        /\ DOMAIN procs = 1..Len(procs) /\ DOMAIN procs' = 1..Len(procs') /\ Len(procs') \in Nat
        /\ \A s \in 1..Len(procs) : procs[s].kind \in Modes
    BY <1>0, ListedIn, ProcessFacts DEF TypeOK, Evolves
  <1>2. \A s : Minded(s) <=> \E d \in calls : MindedBy(d, s)
    BY DEF Minded, MindedBy
  <1>3. \A s : Minded(s)' <=> \E d \in calls' : MindedBy(d, s)
    BY DEF Minded, MindedBy
  <1>4. SUFFICES ASSUME {"unsaved"} \notin crossed', ~Switched', ~Crossed("args", {"remove"})',
                        NEW s \in 1..Len(procs'), procs'[s].kind = "codex", procs'[s].alive
                 PROVE  s \in Listed' \/ \E d \in calls' : MindedBy(d, s)
    BY <1>1, <1>3 DEF StrayOK, Runs
  <1>5. crossed \subseteq crossed' => {"unsaved"} \notin crossed /\ ~Switched /\ ~Crossed("args", {"remove"})
    BY <1>4, RecordKept
  <1>6. s \in 1..Len(procs) => procs[s].kind = "codex" /\ procs[s].alive
    BY <1>0, <1>4 DEF Evolves
  <1>7. crossed \subseteq crossed' /\ s \in 1..Len(procs) => s \in Listed \/ \E d \in calls : MindedBy(d, s)
    BY <1>1, <1>2, <1>5, <1>6 DEF StrayOK, Runs
  <1>8. CASE Begins
    BY <1>8, AddedFits, <1>4, <1>7 DEF Added, Listed
  <1>9. ASSUME NEW c \in calls, GoesOn(c)
        PROVE  s \in Listed' \/ \E d \in calls' : MindedBy(d, s)
    <2>1. /\ calls \ {c} \subseteq calls'
          /\ \A d \in calls' : d \in calls \ {c} \/ (Keeps(d, c) /\ Became(c, d) /\ ~Removed(c))
      BY <1>9, TheCalls
    <2>2. UNCHANGED mode /\ crossed \subseteq crossed'
      BY <1>9, StepKeeps
    <2>3. Remaps(c) /\ (Removed(c) \/ \E e \in calls' : Keeps(e, c) /\ Became(c, e))
      BY <1>9, Remapping, Becoming DEF Replaces
    <2>4. ~Switched /\ {"unsaved"} \notin crossed /\ ~Crossed("args", {"remove"})
      BY <1>5, <2>2
    <2>5. c.do \in {"connect", "add", "args", "respawn"} => ~Draining
      BY CalledFor, <2>4, OnRecord DEF Draining
    <2>6. c.do \in {"connect", "add", "args", "respawn"} /\ mode = "claude" => \A r \in Listed : procs[r].kind = "claude"
      BY <2>4, <2>5 DEF ModeOK
    <2>7. c.do = "respawn" => mode = "claude"
      BY <2>4 DEF ModeOK
    <2>8. CASE s \notin 1..Len(procs)
      <3>1. Len(procs') # Len(procs)
        BY <1>4, <2>8
      <3>2. Spawn(c)
        <4>1. ASSUME NEW r \in 1..Len(procs), procs' = Kill(procs, r)
              PROVE  FALSE
          BY <3>1, <4>1, KillFacts
        <4>2. CASE Write(c)
          BY <4>2, WriteFacts, CalledFor, <3>1, <4>1 DEF Entering
        <4>3. CASE KillOld(c)
          BY <4>3, KillOldFacts, CallTyped, DoesWhat, <4>1 DEF CallOK
        <4>4. CASE Stop(c)
          BY <4>4, StopFacts, CallTyped, <4>1 DEF CallOK
        <4>5. CASE Drain(c)
          BY <3>1, <4>5, DrainFacts, DrainedFacts
        <4>6. UNCHANGED procs \/ Spawn(c) \/ Write(c) \/ KillOld(c) \/ Stop(c) \/ Drain(c)
          BY <1>9 DEF GoesOn, Acquire, Own, Probe, AskMode, Take, Try, Insert, Current, Replace, TakeOff, Git, Forget, Drop, Look
        <4> QED  BY <3>1, <4>2, <4>3, <4>4, <4>5, <4>6
      <3>3. PICK e \in Call, p \in Process :
                    /\ procs' = Append(procs, p) /\ Replaces(c, e) /\ e.s = Len(procs) + 1 /\ e.new
                    /\ e.at = (IF c.do = "add" THEN "write" ELSE IF c.do = "args" THEN "replace" ELSE "insert")
        BY <3>1, <3>2, SpawnFacts
      <3>4. Len(procs') = Len(procs) + 1
        BY <3>3, AppendFacts
      <3>5. s = e.s
        BY <1>1, <1>4, <2>8, <3>3, <3>4
      <3> QED  BY <3>3, <3>5 DEF MindedBy, Entering, Replaces
    <2>9. CASE s \in 1..Len(procs)
      <3>0. procs[s].kind = "codex" /\ procs[s].alive /\ procs[s].child
        BY <1>1, <1>6, <2>9 DEF ProcsOK
      <3>1. s \in Listed \/ \E d \in calls : MindedBy(d, s)
        BY <1>7, <2>2, <2>9
      <3>2. CASE \E d \in calls \ {c} : MindedBy(d, s)
        BY <2>1, <3>2
      <3>3. CASE MindedBy(c, s)
        <4>1. CASE c.at = "stop" /\ c.s = s
          BY <1>4, <1>9, <3>0, <4>1, Killing
        <4>2. CASE c.at = "kill" /\ c.old = s
          BY <1>4, <1>9, <3>0, <4>2, Killing
        <4>3. CASE c.at = "write" /\ c.new /\ c.s = s
          <5>1. ~Removed(c)
            BY <1>4, <1>9, <3>0, <4>3, Killing
          <5>2. PICK e \in calls' : Keeps(e, c) /\ Became(c, e)
            BY <2>3, <5>1
          <5>3. e.at = "insert" /\ SameData(e, c)
            <6>1. Write(c)
              BY <1>9, <4>3 DEF GoesOn, At, Acquire, Own, Probe, AskMode, Take, Try, Spawn, Insert, Current, Replace,
                 KillOld, TakeOff, Stop, Git, Forget, Drop, Look, Drain
            <6>2. PICK f \in Call : Replaces(c, f) /\ SameData(f, c) /\ f.at = "insert"
              BY <5>1, <6>1, WriteFacts
            <6>3. e = f
              BY <2>1, <5>2, <6>2 DEF Replaces, Keeps, CallsOK
            <6> QED  BY <6>2, <6>3
          <5> QED  BY <4>3, <5>2, <5>3 DEF MindedBy, SameData, Entering
        <4>4. CASE c.at = "insert" /\ c.s = s
          BY <2>9, <4>4, DoesWhat, CallTyped, <2>3, ListedAre DEF CallOK, Remaps, TypeOK
        <4>5. CASE c.at = "replace" /\ c.s = s
          BY <2>4, <4>5, DoesWhat, <3>0, <1>1, <2>3, <2>9, Remapped DEF ModeOK, Entering,
             SharedOK
        <4> QED  BY <3>3, <4>1, <4>2, <4>3, <4>4, <4>5 DEF MindedBy, Entering
      <3>4. CASE s \in Listed
        <4>1. CASE c.at = "insert"
          <5>1. c.do \in {"connect", "add", "respawn"} /\ c.of \in Workspaces
            BY <4>1, DoesWhat, CallTyped DEF CallOK
          <5>2. mode = "codex"
            BY <1>1, <2>6, <3>0, <3>4, <5>1 DEF Modes
          <5>3. s = c.s
            BY <2>4, <2>7, <3>4, <4>1, <5>1, <5>2 DEF SharedOK, Entering
          <5>4. PICK w \in Workspaces : w = c.of
            BY <5>1
          <5>5. sessions' = [sessions EXCEPT ![w] = s]
            BY <2>3, <4>1, <5>3, <5>4 DEF Remaps
          <5>6. sessions'[w] = s /\ s # 0
            BY <2>9, <5>5 DEF TypeOK
          <5> QED  BY <5>6, ListedAre
        <4>2. CASE c.at = "replace"
          <5>1. c.do = "args"
            BY <4>2, DoesWhat
          <5>2. mode = "codex"
            BY <1>1, <2>6, <3>0, <3>4, <5>1 DEF Modes
          <5>3. s = c.old
            BY <2>4, <3>4, <4>2, <5>1, <5>2 DEF SharedOK
          <5>4. PICK e \in Call : Replaces(c, e) /\ SameData(e, c) /\ e.at = "kill"
            <6>1. Replace(c)
              BY <1>9, <4>2 DEF GoesOn, At, Acquire, Own, Probe, AskMode, Take, Try, Spawn, Insert, Current, Write,
                 KillOld, TakeOff, Stop, Git, Forget, Drop, Look, Drain
            <6> QED  BY <6>1, ReplaceFacts
          <5> QED  BY <5>3, <5>4 DEF MindedBy, SameData, Replaces
        <4>3. CASE c.at \in {"probe", "try"}
          BY <2>3, <4>3, <3>0, <3>4 DEF Remaps, Listed
        <4>4. CASE c.at = "take"
          <5>1. TakeOff(c)
            BY <1>9, <4>4 DEF GoesOn, At, Acquire, Own, Probe, AskMode, Take, Try, Spawn, Insert, Current, Write,
                 KillOld, Replace, Stop, Git, Forget, Drop, Look, Drain
          <5>2. PICK w \in Workspaces, e \in Call :
                  /\ Replaces(c, e) /\ sessions' = [sessions EXCEPT ![w] = 0] /\ e.s = sessions[w]
                  /\ \/ e.at = "git" /\ (sessions[w] = 0 \/ \E v \in Workspaces \ {w} : sessions[v] = sessions[w])
                     \/ e.at = "stop" /\ sessions[w] # 0 /\ \A v \in Workspaces \ {w} : sessions[v] # sessions[w]
            BY <5>1, TakeOffFacts
          <5>3. Listed' = Listed \/ (Listed' = Listed \ {sessions[w]} /\ e.at = "stop")
            BY <5>2, Unlists
          <5> QED  BY <3>4, <5>2, <5>3 DEF MindedBy, Replaces
        <4>5. CASE c.at = "drop"
          BY <4>5, DoesWhat, <2>6, <2>7, <3>0, <3>4
        <4>6. CASE c.at = "drain"
          BY <1>4, <1>9, <3>0, <3>4, <4>6, Killing
        <4>7. CASE c.at \notin {"insert", "replace", "probe", "try", "take", "drop", "drain"}
          BY <2>3, <4>7, <3>4 DEF Remaps, Listed
        <4> QED  BY <4>1, <4>2, <4>3, <4>4, <4>5, <4>6, <4>7
      <3> QED  BY <3>1, <3>2, <3>3, <3>4
    <2> QED  BY <2>8, <2>9
  <1>10. CASE Exits \/ UNCHANGED vars
    BY <1>10, ExitFacts, <1>4, <1>7 DEF Exits, vars, Listed
  <1> QED  BY <1>8, <1>9, <1>10, NextSplit

----------------------------------------------------------------------------
Nowhere(d) == d.gone \cup (IF d.at \in {"stop", "git"} THEN {d.now} ELSE {})
KnownPart(d) ==
    /\ d.do = "connect" \/ d.at = "insert" \/ (d.do = "respawn" /\ d.at = "spawn") => d.of \in entries
    /\ d.gone # {} => d.do = "remove"
    /\ \A w \in Nowhere(d) : sessions[w] = 0

LEMMA NowhereIn ==
    ASSUME TypeOK, CallsOK, NEW d \in calls
    PROVE  Nowhere(d) \subseteq Workspaces /\ (Nowhere(d) # {} => d.gone # {} \/ d.do = "remove")
  BY CallTyped, DoesWhat DEF Nowhere, CallOK

LEMMA KnownStays ==
    ASSUME Basis, TypeOK, CallsOK, KnownOK, [Next]_vars
    PROVE  KnownOK'
  <1>0. SUFFICES ASSUME ~Crossed("remove", {"connect", "add", "respawn"})'
                 PROVE  /\ \A w \in Workspaces : sessions'[w] # 0 => w \in entries'
                        /\ \A d \in calls' : KnownPart(d)'
    BY DEF KnownOK, KnownPart, Nowhere
  <1>1. crossed \subseteq crossed' => /\ ~Crossed("remove", {"connect", "add", "respawn"})
                                      /\ \A w \in Workspaces : sessions[w] # 0 => w \in entries
                                      /\ \A d \in calls : KnownPart(d)
    BY <1>0, RecordKept DEF KnownOK, KnownPart, Nowhere
  <1>2. CASE Begins
    BY <1>2, BeginFacts, <1>1 DEF Added, KnownPart, Nowhere
  <1>3. ASSUME NEW c \in calls, GoesOn(c)
        PROVE  /\ \A w \in Workspaces : sessions'[w] # 0 => w \in entries'
               /\ \A d \in calls' : KnownPart(d)'
    <2>1. /\ calls \ {c} \subseteq calls'
          /\ \A d \in calls' : d \in calls \ {c} \/ (Keeps(d, c) /\ Became(c, d) /\ ~Removed(c))
      BY <1>3, TheCalls
    <2>2. Remaps(c) /\ crossed \subseteq crossed'
      BY <1>3, Remapping, StepKeeps
    <2>3. /\ ~Crossed("remove", {"connect", "add", "respawn"})
          /\ \A w \in Workspaces : sessions[w] # 0 => w \in entries
          /\ \A d \in calls : KnownPart(d)
      BY <1>1, <2>2
    <2>4. entries \subseteq entries' \/ (c.at = "forget" /\ entries' = entries \ c.gone /\ UNCHANGED sessions)
      <3>1. CASE Write(c)
        BY <3>1, WriteFacts
      <3>2. CASE Forget(c)
        BY <3>2, ForgetFacts
      <3>3. UNCHANGED entries \/ Write(c) \/ Forget(c)
        BY <1>3 DEF GoesOn, Acquire, Own, Probe, AskMode, Take, Try, Spawn, Insert, Current, Replace, KillOld, TakeOff, Stop,
           Git, Drop, Look, Drain
      <3> QED  BY <3>1, <3>2, <3>3
    <2>5. \A w \in Workspaces : sessions[w] = 0 /\ sessions'[w] # 0 => c.at = "insert" /\ w = c.of
      BY <2>2, Remapped DEF Remaps, TypeOK
    <2>6. \A w \in Workspaces : sessions'[w] # 0 => w \in entries'
      BY <2>3, <2>5, <2>4 DEF KnownPart, Nowhere
    <2>7. \A d \in calls \ {c} : Nowhere(d) # {} /\ c.do \in {"connect", "add", "respawn"} => FALSE
      BY <2>3, NowhereIn, OnRecord DEF KnownPart
    <2>8. ASSUME NEW d \in calls \ {c}
          PROVE  KnownPart(d)'
      BY <2>3, NowhereIn, DoesWhat, <2>5, <2>7, OnRecord, <2>4 DEF KnownPart, Nowhere
    <2>9. ASSUME NEW e \in calls', Keeps(e, c), Became(c, e)
          PROVE  KnownPart(e)'
      <3>1. e.do = c.do /\ e.of = c.of /\ e \in Call /\ c \in Call
        BY <2>9, CallTyped DEF Keeps
      <3>2. KnownPart(c) /\ c.gone \in SUBSET Workspaces
        BY <2>3, CallTyped
      <3>3. e.gone # {} => e.do = "remove"
        BY <2>9, <3>1, <3>2, DoesWhat DEF Became, KnownPart
      <3>4. \A w \in e.gone : sessions'[w] = 0
        BY <3>2, DoesWhat, <2>5, <2>9 DEF KnownPart, Nowhere, Became
      <3>5. e.at \in {"stop", "git"} => sessions'[e.now] = 0
        BY <2>9, <3>2 DEF Became, KnownPart, Nowhere, SameData
      <3>6. \A w \in Nowhere(e) : sessions'[w] = 0
        BY <3>4, <3>5 DEF Nowhere
      <3>7. e.do = "connect" \/ e.at = "insert" \/ (e.do = "respawn" /\ e.at = "spawn") => e.of \in entries'
        <4>2. c.of \in entries => c.at = "forget" \/ c.of \in entries'
          BY <2>4
        <4>3. CASE e.do = "connect"
          BY <3>1, <4>3, DoesWhat, <3>2, <4>2 DEF KnownPart
        <4>4. CASE e.at = "insert" /\ e.do # "connect"
          <5>1. \/ c.at = "try" /\ c.do # "add"
                \/ c.of \in entries'
                \/ c.at = "spawn" /\ c.do # "add" /\ UNCHANGED entries
            BY <2>9, <4>4 DEF Became
          <5>2. c.at = "try" => c.do \in {"connect", "add"}
            BY DoesWhat
          <5>3. CASE c.at = "spawn" /\ c.do # "add" /\ UNCHANGED entries
            <6>1. c.do = "respawn"
              <7>1. c.do # "args"
                <8>1. CASE Removed(c)
                  BY <2>9, <8>1 DEF Removed, CallsOK, Keeps
                <8>2. CASE ~Removed(c)
                  <9>1. Spawn(c)
                    BY <1>3, <5>3 DEF GoesOn, At, Acquire, Own, Probe, AskMode, Take, Try, Forget, Insert, Current, Write,
                       KillOld, TakeOff, Replace, Stop, Git, Drop, Look, Drain
                  <9>2. PICK f \in Call : Replaces(c, f) /\ f.at = (IF c.do = "add" THEN "write" ELSE IF c.do = "args" THEN "replace" ELSE "insert")
                    BY <8>2, <9>1, SpawnFacts
                  <9>3. e = f
                    BY <2>1, <2>9, <9>2 DEF Replaces, Keeps, CallsOK
                  <9> QED  BY <4>4, <9>2, <9>3
                <8> QED  BY <8>1, <8>2
              <7> QED  BY <3>1, <4>4, <5>3, <7>1, DoesWhat
            <6> QED  BY <3>1, <3>2, <5>3, <6>1 DEF KnownPart
          <5> QED  BY <3>1, <4>4, <5>1, <5>2, <5>3
        <4>5. CASE e.do = "respawn" /\ e.at = "spawn"
          BY <2>9, <4>5, <3>1, DoesWhat DEF Became
        <4> QED  BY <4>3, <4>4, <4>5
      <3> QED  BY <3>3, <3>6, <3>7 DEF KnownPart, Nowhere
    <2> QED  BY <2>1, <2>6, <2>8, <2>9
  <1>4. CASE Exits \/ UNCHANGED vars
    BY <1>4, ExitFacts, <1>1 DEF Exits, vars, KnownPart, Nowhere
  <1> QED  BY <1>2, <1>3, <1>4, NextSplit

----------------------------------------------------------------------------
LEMMA LentClaude ==
    ASSUME NEW s, procs[s].kind = "claude", Lent(s) \subseteq crossed'
    PROVE  {"lent"} \in crossed'
  BY DEF Lent

FolderPart(d) == d.at \in {"write", "insert"} /\ procs[d.s].kind = "claude" => procs[d.s].of = d.of

LEMMA FolderStays ==
    ASSUME Basis, TypeOK, CallsOK, ModeOK, FolderOK, [Next]_vars
    PROVE  FolderOK'
  <1>0. Evolves
    BY Evolution
  <1>1. SUFFICES ASSUME {"lent"} \notin crossed', ~Switched'
                 PROVE  /\ \A w \in Workspaces : sessions'[w] # 0 /\ procs'[sessions'[w]].kind = "claude" => procs'[sessions'[w]].of = w
                        /\ \A d \in calls' : FolderPart(d)'
    BY DEF FolderOK, FolderPart
  <1>2. crossed \subseteq crossed' =>
           /\ ~Switched
           /\ \A w \in Workspaces : sessions[w] # 0 /\ procs[sessions[w]].kind = "claude" => procs[sessions[w]].of = w
           /\ \A d \in calls : FolderPart(d)
    BY <1>1, RecordKept DEF FolderOK, FolderPart
  <1>3. \A w \in Workspaces : sessions[w] \in 0..Len(procs)
    BY ListedIn
  <1>4. ASSUME NEW d \in calls
        PROVE  FolderPart(d) => FolderPart(d)'
    BY CalledFor, <1>0 DEF Entering, FolderPart, Evolves
  <1>5. ASSUME NEW w \in Workspaces, sessions'[w] = sessions[w], sessions[w] # 0, procs'[sessions[w]].kind = "claude",
               procs[sessions[w]].kind = "claude" => procs[sessions[w]].of = w
        PROVE  procs'[sessions[w]].of = w
    BY <1>3, <1>5, ListedIn, <1>0 DEF Evolves
  <1>6. CASE Begins
    BY <1>6, AddedFits, <1>2, <1>4 DEF Added, FolderPart
  <1>7. ASSUME NEW c \in calls, GoesOn(c)
        PROVE  /\ \A w \in Workspaces : sessions'[w] # 0 /\ procs'[sessions'[w]].kind = "claude" => procs'[sessions'[w]].of = w
               /\ \A d \in calls' : FolderPart(d)'
    <2>1. /\ calls \ {c} \subseteq calls'
          /\ \A d \in calls' : d \in calls \ {c} \/ (Keeps(d, c) /\ Became(c, d) /\ ~Removed(c))
      BY <1>7, TheCalls
    <2>2. Remaps(c) /\ crossed \subseteq crossed'
      BY <1>7, Remapping, StepKeeps
    <2>3. /\ ~Switched
          /\ \A w \in Workspaces : sessions[w] # 0 /\ procs[sessions[w]].kind = "claude" => procs[sessions[w]].of = w
          /\ \A d \in calls : FolderPart(d)
      BY <1>2, <2>2
    <2>4. ASSUME NEW w \in Workspaces, sessions'[w] # 0, procs'[sessions'[w]].kind = "claude"
          PROVE  procs'[sessions'[w]].of = w
      <3>1. CASE sessions'[w] = sessions[w]
        BY <1>5, <2>3, <2>4, <3>1
      <3>2. CASE c.at = "insert" /\ sessions'[w] # sessions[w]
        BY <2>2, <3>2, <2>3, <2>4 DEF Remaps, TypeOK, FolderPart
      <3>3. CASE c.at = "replace"
        <4>1. sessions'[w] = c.s /\ UNCHANGED procs
          BY <2>2, <2>4, <3>3 DEF Remaps
        <4>2. Lent(c.s) \subseteq crossed'
          <5>1. Replace(c)
            BY <1>7, <3>3 DEF GoesOn, At, Acquire, Own, Probe, AskMode, Take, Try, Spawn, Insert, Current, Write,
               KillOld, TakeOff, Forget, Stop, Git, Drop, Look, Drain
          <5> QED  BY <5>1, ReplaceFacts
        <4> QED  BY <1>1, <2>4, <4>1, <4>2, LentClaude
      <3>4. CASE c.at \notin {"insert", "replace"}
        BY <2>2, <3>4, Remapped, <2>4, <3>1
      <3> QED  BY <3>1, <3>2, <3>3, <3>4
    <2>5. ASSUME NEW e \in calls', Keeps(e, c), Became(c, e)
          PROVE  FolderPart(e)'
      BY <2>5, <2>3, DoesWhat, <1>1, LentClaude DEF Keeps, FolderPart, FreshFor, SameData,
         Still, ModeOK, Entering, Became
    <2> QED  BY <1>4, <2>1, <2>3, <2>4, <2>5
  <1>8. CASE Exits \/ UNCHANGED vars
    BY <1>8, ExitFacts, <1>2, <1>4, <1>5 DEF Exits, vars
  <1> QED  BY <1>6, <1>7, <1>8, NextSplit

----------------------------------------------------------------------------
KilledPart(d) ==
    /\ d.at \in {"write", "insert"} /\ procs[d.s].kind = "codex" => ~procs[d.s].killed
    /\ d.at = "stop" /\ procs[d.s].kind = "codex" => d.s \notin Listed
    /\ d.at = "kill" /\ procs[d.old].kind = "codex" => d.old \notin Listed

LEMMA KilledStays ==
    ASSUME Basis, TypeOK, CallsOK, ProcsOK, OwnedOK, KilledOK, [Next]_vars
    PROVE  KilledOK'
  <1>0. Evolves
    BY Evolution
  <1>1. SUFFICES ASSUME ~Crossed("settings", {"connect", "add"})', ~Crossed("remove", {"connect", "add"})'
                 PROVE  /\ \A s \in Listed' : procs'[s].kind = "codex" => ~procs'[s].killed
                        /\ \A d \in calls' : KilledPart(d)'
    BY DEF KilledOK, KilledPart
  <1>2. crossed \subseteq crossed' => /\ ~Crossed("settings", {"connect", "add"}) /\ ~Crossed("remove", {"connect", "add"})
                                      /\ \A s \in Listed : procs[s].kind = "codex" => ~procs[s].killed
                                      /\ \A d \in calls : KilledPart(d)
    BY <1>1, RecordKept DEF KilledOK, KilledPart
  <1>3. Listed \subseteq 1..Len(procs)
    BY ListedIn
  <1>4. ASSUME NEW d \in calls
        PROVE  /\ d.at \in {"write", "insert", "stop"} => d.s \in 1..Len(procs)
               /\ d.at = "kill" => d.old \in 1..Len(procs)
    BY DoesWhat, CallTyped DEF CallOK, Entering
  <1>5. CASE Begins
    BY <1>5, AddedFits, <1>2 DEF Added, KilledPart, Listed
  <1>6. ASSUME NEW c \in calls, GoesOn(c)
        PROVE  /\ \A s \in Listed' : procs'[s].kind = "codex" => ~procs'[s].killed
               /\ \A d \in calls' : KilledPart(d)'
    <2>1. /\ calls \ {c} \subseteq calls'
          /\ \A d \in calls' : d \in calls \ {c} \/ (Keeps(d, c) /\ Became(c, d) /\ ~Removed(c))
      BY <1>6, TheCalls
    <2>2. Remaps(c) /\ crossed \subseteq crossed' /\ Kills(c)
      BY <1>6, Remapping, StepKeeps, Killing
    <2>3. /\ ~Crossed("settings", {"connect", "add"}) /\ ~Crossed("remove", {"connect", "add"})
          /\ \A s \in Listed : procs[s].kind = "codex" => ~procs[s].killed
          /\ \A d \in calls : KilledPart(d)
      BY <1>2, <2>2
    (* Whoever enters a session has it for himself or shares a live one.    *)
    <2>4. c.at = "insert" => c.s \in 1..Len(procs) /\ c.do \in {"connect", "add", "respawn"} /\ (c.do = "respawn" => c.new)
      BY <1>4, DoesWhat DEF OwnedOK, Entering
    <2>5. c.at = "replace" => c.s \in 1..Len(procs) /\ c.do = "args" /\ c.new
      BY CalledFor, DoesWhat DEF OwnedOK, Entering
    <2>6. c.at \in Entering /\ c.new => Owned(c)
      BY DEF OwnedOK
    <2>7. ASSUME NEW d \in calls \ {c}, d.at = "stop", c.at \in {"insert", "replace"}
          PROVE  d.s # c.s
      BY <2>7, DoesWhat, <2>3, OnRecord, <2>4, <2>5, <2>6 DEF Entering, Owned
    <2>8. ASSUME NEW d \in calls \ {c}, d.at = "kill", c.at \in {"insert", "replace"}
          PROVE  d.old # c.s
      BY <2>8, CalledFor, DoesWhat, OnRecord, <2>4, <2>5, <2>6 DEF Entering, Owned
    <2>9. Listed' \subseteq Listed \cup {c.s} /\ (c.at \notin {"insert", "replace"} => Listed' \subseteq Listed)
      BY <2>2, Remapped
    <2>10. c.at \in {"insert", "replace"} => UNCHANGED procs
      BY <2>2 DEF Remaps
    <2>11. ASSUME NEW s \in Listed', procs'[s].kind = "codex"
           PROVE  ~procs'[s].killed
      <3>1. CASE c.at \in {"insert", "replace"} /\ s = c.s
        BY <2>10, <2>11, <3>1, <2>3, <2>5, <2>6 DEF KilledPart, Entering, Owned
      <3>2. CASE s \in Listed
        BY <1>0, <1>3, <2>3, <2>11, <3>2, <2>6, <2>2 DEF Evolves, Owned, Entering, KilledPart,
           Remaps, Kills
      <3> QED  BY <2>9, <3>1, <3>2
    <2>12. ASSUME NEW d \in calls \ {c}
           PROVE  KilledPart(d)'
      <3>1. KilledPart(d)
        BY <2>3
      <3>2. d.at = "stop" /\ procs'[d.s].kind = "codex" => d.s \notin Listed'
        BY <1>0, <1>4, <2>7, <2>9, <3>1 DEF KilledPart, Evolves
      <3>3. d.at = "kill" /\ procs'[d.old].kind = "codex" => d.old \notin Listed'
        BY <1>0, <1>4, <2>8, <2>9, <3>1 DEF KilledPart, Evolves
      <3>4. ASSUME d.at \in {"write", "insert"}, procs'[d.s].kind = "codex"
            PROVE  ~procs'[d.s].killed
        <4>1. d.s \in 1..Len(procs) /\ procs[d.s].kind = "codex" /\ ~procs[d.s].killed
          BY <1>0, <1>4, <3>1, <3>4 DEF KilledPart, Evolves
        <4>2. d.do \in {"connect", "add", "respawn"} /\ (d.do = "respawn" => Owned(d))
          BY <3>4, DoesWhat DEF OwnedOK, Entering
        <4>3. CASE c.at = "write" /\ c.new /\ d.s = c.s
          BY <2>6, <4>3 DEF Owned, Entering
        <4>4. CASE c.at = "stop" /\ d.s = c.s
          BY <4>4, DoesWhat, <2>3, <4>2, OnRecord DEF Owned
        <4>5. CASE c.at = "kill" /\ d.s = c.old
          BY <4>5, CalledFor, DoesWhat, <3>4, <4>2, OnRecord DEF Entering, Owned
        <4>6. CASE c.at = "drain" /\ d.s \in Listed
          BY <4>6, DoesWhat, <2>3, <4>2, OnRecord DEF Owned
        <4> QED  BY <2>2, <4>1, <4>3, <4>4, <4>5, <4>6 DEF Kills
      <3> QED  BY <3>2, <3>3, <3>4 DEF KilledPart
    <2>13. ASSUME NEW e \in calls', Keeps(e, c), Became(c, e)
           PROVE  KilledPart(e)'
      BY <2>13, <2>3, CalledFor, ProcessFacts, <2>2, <2>5, <2>6, Remapped DEF FreshFor, Became,
         KilledPart, SameData, Still, ProcsOK, Entering, Owned
    <2> QED  BY <2>1, <2>11, <2>12, <2>13
  <1>7. CASE Exits \/ UNCHANGED vars
    BY <1>7, ExitFacts, <1>0, <1>4, <1>3, <1>2 DEF Exits, vars, Listed, KilledPart, Evolves
  <1> QED  BY <1>5, <1>6, <1>7, NextSplit

LEMMA IInvInit ==
    ASSUME Basis, Init
    PROVE  IInv
  <1>1. Listed = {} /\ Servers = {} /\ Len(procs) = 0 /\ DOMAIN procs = {} /\ procs \in Seq(Process)
    BY DEF Init, Listed, Servers
  <1>2. TypeOK
    BY <1>1 DEF Init, TypeOK, Basis
  <1>3. CallsOK /\ ProcsOK /\ OwnedOK /\ ModeOK /\ ServerOK /\ SharedOK /\ StrayOK /\ KnownOK /\ FolderOK /\ KilledOK
    BY <1>1 DEF Init, CallsOK, ProcsOK, OwnedOK, ModeOK, ServerOK, SharedOK, StrayOK, KnownOK, FolderOK, KilledOK
  <1> QED  BY <1>2, <1>3 DEF IInv

LEMMA IInvStep ==
    ASSUME Basis, IInv, [Next]_vars
    PROVE  IInv'
  <1>1. TypeOK /\ CallsOK /\ ProcsOK /\ OwnedOK /\ ModeOK /\ ServerOK /\ SharedOK /\ StrayOK /\ KnownOK /\ FolderOK /\ KilledOK
    BY DEF IInv
  <1>2. TypeOK' /\ CallsOK'
    BY <1>1, Evolution, TypeKept, CallsKept
  <1>3. ProcsOK' /\ OwnedOK' /\ ModeOK' /\ ServerOK' /\ SharedOK'
    BY <1>1, <1>2, ProcsKept, OwnedKept, ModeStays, ServerStays, SharedStays
  <1>4. StrayOK' /\ KnownOK' /\ FolderOK' /\ KilledOK'
    BY <1>1, StrayStays, KnownStays, FolderStays, KilledStays
  <1> QED  BY <1>2, <1>3, <1>4 DEF IInv

(* At rest: nobody drains, and nobody minds a stray server.                 *)
LEMMA IInvSettles ==
    ASSUME IInv
    PROVE  TypeOK /\ OneServer /\ NoStrayServer /\ ListedIsKnown /\ OfTheMode /\ OwnFolder /\ NotKilled
  <1>1. AtRest => ~Draining /\ \A s : ~Minded(s)
    BY DEF AtRest, Draining, Minded
  <1>2. AtRest /\ ~Draining => OneServer
    BY DEF Servers, IInv, ServerOK, OneServer
  <1>3. OneServer /\ NoStrayServer
    BY <1>1, <1>2 DEF IInv, OneServer, NoStrayServer, StrayOK
  <1>4. ListedIsKnown /\ OfTheMode /\ OwnFolder /\ NotKilled
    BY <1>1 DEF IInv, ListedIsKnown, OfTheMode, OwnFolder, NotKilled, KnownOK, ModeOK, FolderOK, KilledOK
  <1> QED  BY <1>3, <1>4 DEF IInv

----------------------------------------------------------------------------
(* Theorem: modes, entries, sessions, processes and calls have their types, *)
(* a session is always one of the processes there were, and who holds the   *)
(* spawn lock is under way.                                                *)
THEOREM SessionsTypeCorrect == ASSUME Basis PROVE Spec => []TypeOK
  <1>1. Init => IInv
    BY IInvInit
  <1>2. IInv /\ [Next]_vars => IInv'
    BY IInvStep
  <1>3. IInv => TypeOK
    BY IInvSettles
  <1> QED  BY <1>1, <1>2, <1>3, PTL DEF Spec

(* Theorem: when no command is under way one app-server at most serves the  *)
(* workspaces, whatever connecting, adding, removing, new arguments and     *)
(* changes of mode overlapped; none runs that nobody is connected to, and   *)
(* nobody is connected to one the program has killed, but for the crossings *)
(* the properties name (connect_workspace_core, add_workspace_core,         *)
(* remove_workspace_core, kill_session_by_id).                              *)
THEOREM OneServerServes == ASSUME Basis PROVE Spec => [](OneServer /\ NoStrayServer /\ NotKilled)
  <1>1. Init => IInv
    BY IInvInit
  <1>2. IInv /\ [Next]_vars => IInv'
    BY IInvStep
  <1>3. IInv => OneServer /\ NoStrayServer /\ NotKilled
    BY IInvSettles
  <1> QED  BY <1>1, <1>2, <1>3, PTL DEF Spec

(* Theorem: when no command is under way who is connected has an entry, is  *)
(* served by the backend the settings ask for and, if by a Claude session,  *)
(* by one of its own folder, but for the crossings the properties name.     *)
THEOREM MapSettles == ASSUME Basis PROVE Spec => [](ListedIsKnown /\ OfTheMode /\ OwnFolder)
  <1>1. Init => IInv
    BY IInvInit
  <1>2. IInv /\ [Next]_vars => IInv'
    BY IInvStep
  <1>3. IInv => ListedIsKnown /\ OfTheMode /\ OwnFolder
    BY IInvSettles
  <1> QED  BY <1>1, <1>2, <1>3, PTL DEF Spec

----------------------------------------------------------------------------
(* The items of a Claude session.  The CLI writes a block without           *)
(* interruption, so a delta or a stop follows a line of the same block      *)
(* (LinksOK), and a block follows a message_start or the end of the block   *)
(* before.  It is then enough to know of the maps what the next line needs  *)
(* (FirstOK), or, when all is read, what the next one the CLI may write     *)
(* needs (CliOK): within a block, at its index, they name its own item or   *)
(* none, and nothing at higher indices.                                    *)
CONSTANTS MaxPrompts, MaxMessages, MaxBlocks, MaxIndex, MaxText, MaxUnread

VARIABLES
    turn_started, turn_has_content, block_items, block_item_payloads, block_tool_use_ids,
    tool_items, prompts, stdout, cli, items, blocks, cut

Items == INSTANCE BridgeItems

(* The constants are numbers.                                              *)
Bounds == MaxPrompts \in Nat /\ MaxMessages \in Nat /\ MaxBlocks \in Nat /\ MaxIndex \in Nat

(* Nothing is known of the index n.                                         *)
Empty(n) == block_items[n] = Items!NoItem /\ block_tool_use_ids[n] = Items!NoBlock

(* The maps as they may be within the block b, and before one.              *)
Held(b, n) ==
    /\ block_items[n] # Items!NoItem => items[block_items[n]].block = Items!Home(b)
    /\ block_tool_use_ids[n] \in {Items!NoBlock, Items!Home(b)}
    /\ \A m \in Items!Indices : m > n => Empty(m)
Fresh(n) == \A m \in Items!Indices : m >= n => Empty(m)

(* The kinds of the lines that go on with a block; the line before is of the*)
(* block b at n; the line before lets a block begin at n.                   *)
Rest == {"delta", "stop"}
Within(p, b, n) == p.kind \in Items!Kinds \cup {"delta"} /\ p.block = b /\ p.index = n
Before(p, n) ==
    \/ p.kind = "message_start" /\ n = 0
    \/ p.kind = "stop" /\ n = p.index + 1

(* A line is of a block that was written, and begins one of its own kind.   *)
LinesOK ==
    \A k \in 1..Len(stdout) : stdout[k].kind \in Items!Kinds \cup Rest =>
        /\ stdout[k].block \in DOMAIN blocks
        /\ stdout[k].kind \in Items!Kinds => blocks[stdout[k].block].kind = stdout[k].kind

(* Each line follows one it may follow.                                     *)
LinksOK ==
    \A k \in 1..Len(stdout) : k > 1 =>
        /\ stdout[k].kind \in Rest => Within(stdout[k - 1], stdout[k].block, stdout[k].index)
        /\ stdout[k].kind \in Items!Kinds => Before(stdout[k - 1], stdout[k].index)

(* The maps are as the first line unread needs them.                        *)
FirstOK ==
    stdout # <<>> =>
        /\ stdout[1].kind \in Rest => Held(stdout[1].block, stdout[1].index)
        /\ stdout[1].kind \in Items!Kinds => Fresh(stdout[1].index)

(* So they, or the last line unread, are for what the CLI writes next.      *)
CliOK ==
    /\ cli.open # Items!NoBlock =>
          /\ cli.open \in DOMAIN blocks /\ cli.index \in Items!Indices
          /\ IF stdout = <<>> THEN Held(cli.open, cli.index)
             ELSE Within(stdout[Len(stdout)], cli.open, cli.index)
    /\ cli.open = Items!NoBlock /\ cli.busy /\ cli.messages > 0 =>
          IF stdout = <<>> THEN Fresh(cli.index)
          ELSE Before(stdout[Len(stdout)], cli.index)

(* The maps name items there are, and a tool use its own.                   *)
MapsOK ==
    /\ \A n \in Items!Indices : block_items[n] # Items!NoItem => block_items[n] \in DOMAIN items
    /\ \A t \in Items!Blocks : tool_items[t].item # Items!NoItem =>
          tool_items[t].item \in DOMAIN items /\ items[tool_items[t].item].block = t

(* A tool's result names a tool use, an item's parts are blocks.            *)
HistoryOK ==
    /\ \A b \in DOMAIN blocks : blocks[b].kind = "tool_result" => blocks[b].tool \in Items!Blocks
    /\ \A i \in DOMAIN items : items[i].from \subseteq DOMAIN blocks

(* The inductive invariant.                                                 *)
HomeInv ==
    /\ Items!TypeOK /\ LinesOK /\ LinksOK /\ FirstOK /\ CliOK /\ MapsOK /\ HistoryOK /\ Items!PartsStayHome

(* The types of what the reader changes.                                    *)
BridgeTyped ==
    /\ turn_started \in BOOLEAN /\ turn_has_content \in BOOLEAN
    /\ block_items \in [Items!Indices -> Nat] /\ block_item_payloads \in [Items!Indices -> Nat]
    /\ block_tool_use_ids \in [Items!Indices -> Items!Blocks \cup {Items!NoBlock}]
    /\ tool_items \in [Items!Blocks -> [item : Nat, text : Nat]]
    /\ items \in Seq(Items!Item)

(* The line l leaves the maps as the lines that may follow it need them.    *)
After(l) ==
    /\ \A b \in Items!Blocks, n \in Items!Indices : Within(l, b, n) => Held(b, n)'
    /\ \A n \in 0..MaxIndex + 1 : Before(l, n) => Fresh(n)'

(* What has to hold after the line l, before it is taken from the pipe.     *)
Kept(l) == BridgeTyped' /\ MapsOK' /\ HistoryOK' /\ Items!PartsStayHome' /\ After(l)

(* An item with one part more is an item of the same block.                 *)
LEMMA PartAdded ==
    ASSUME NEW r \in Items!Item, NEW b \in Items!Blocks
    PROVE  LET new == [r EXCEPT !.told = @ + 1, !.from = @ \cup {b}]
               end(text) == [r EXCEPT !.completed = @ + 1, !.from = @ \cup {b}, !.final = text]
           IN  /\ new \in Items!Item /\ new.block = r.block /\ new.from = r.from \cup {b}
               /\ \A text \in Nat : /\ end(text) \in Items!Item /\ end(text).block = r.block
                                    /\ end(text).from = r.from \cup {b}
<1> DEFINE from == r.from \cup {b}
<1>1. from \in SUBSET Items!Blocks /\ r.told + 1 \in Nat /\ r.completed + 1 \in Nat
  BY DEF Items!Item
<1> HIDE DEF from
<1>3. [r EXCEPT !.told = @ + 1, !.from = from] \in Items!Item
  BY <1>1 DEF Items!Item
<1>4. \A text \in Nat : [r EXCEPT !.completed = @ + 1, !.from = from, !.final = text] \in Items!Item
  BY <1>1 DEF Items!Item
<1>5. QED
  BY <1>3, <1>4 DEF Items!Item, from

(* Telling an item of a part that is its own keeps what is known of items.  *)
LEMMA PartTold ==
    ASSUME Bounds, HomeInv, NEW i \in DOMAIN items, NEW b \in DOMAIN blocks,
           Items!Home(b) = items[i].block, UNCHANGED blocks,
           \/ items' = Items!Told(i, b)
           \/ \E text \in Nat : items' = Items!Completed(i, b, text)
    PROVE  /\ items' \in Seq(Items!Item) /\ DOMAIN items' = DOMAIN items
           /\ \A j \in DOMAIN items : items'[j].block = items[j].block
           /\ HistoryOK' /\ Items!PartsStayHome'
<1>1. /\ items \in Seq(Items!Item) /\ DOMAIN blocks \subseteq Items!Blocks /\ HistoryOK /\ Items!PartsStayHome
  <2>1. DOMAIN blocks = 1..Len(blocks) /\ Len(blocks) \in Nat
    BY DEF HomeInv, Items!TypeOK
  <2>2. QED
    BY <2>1 DEF HomeInv, Items!TypeOK, Items!Blocks, Bounds
<1>2. PICK new \in Items!Item : /\ items' = [items EXCEPT ![i] = new]
                                /\ new.block = items[i].block
                                /\ new.from \subseteq items[i].from \cup {b}
  <2>1. items[i] \in Items!Item
    BY <1>1
  <2>2. CASE items' = Items!Told(i, b)
    <3> DEFINE new == [items[i] EXCEPT !.told = @ + 1, !.from = @ \cup {b}]
    <3>0. b \in Items!Blocks
      BY <1>1
    <3>1. new \in Items!Item /\ new.block = items[i].block /\ new.from = items[i].from \cup {b}
      BY <3>0, <2>1, PartAdded
    <3>2. items' = [items EXCEPT ![i] = new]
      BY <2>1, <2>2 DEF Items!Told
    <3>3. QED
      BY <3>1, <3>2
  <2>3. ASSUME NEW text \in Nat, items' = Items!Completed(i, b, text)
        PROVE  \E new \in Items!Item : /\ items' = [items EXCEPT ![i] = new]
                                       /\ new.block = items[i].block
                                       /\ new.from \subseteq items[i].from \cup {b}
    <3> DEFINE new == [items[i] EXCEPT !.completed = @ + 1, !.from = @ \cup {b}, !.final = text]
    <3>0. b \in Items!Blocks
      BY <1>1
    <3>1. new \in Items!Item /\ new.block = items[i].block /\ new.from = items[i].from \cup {b}
      BY <3>0, <2>1, PartAdded
    <3>2. items' = [items EXCEPT ![i] = new]
      BY <2>1, <2>3 DEF Items!Completed
    <3>3. QED
      BY <3>1, <3>2
  <2>4. QED
    BY <2>2, <2>3
<1>6. /\ items' \in Seq(Items!Item) /\ DOMAIN items' = DOMAIN items
      /\ \A j \in DOMAIN items : /\ items'[j].block = items[j].block
                                 /\ items'[j].from \subseteq items[j].from \cup {b}
                                 /\ j # i => items'[j].from = items[j].from
  BY <1>1, <1>2
<1>3. HistoryOK'
  BY <1>1, <1>6 DEF HistoryOK
<1>4. Items!PartsStayHome'
  BY <1>6, <1>1 DEF Items!PartsStayHome, Items!Home
<1>5. QED
  BY <1>6, <1>3, <1>4

(* A new item has no parts yet.                                             *)
LEMMA ItemBegun ==
    ASSUME Bounds, HomeInv, NEW b \in Items!Blocks, items' = Items!Begun(b), UNCHANGED blocks
    PROVE  /\ items' \in Seq(Items!Item) /\ Len(items) + 1 \in DOMAIN items'
           /\ DOMAIN items \subseteq DOMAIN items'
           /\ \A j \in DOMAIN items : items'[j] = items[j]
           /\ items'[Len(items) + 1].block = b
           /\ HistoryOK' /\ Items!PartsStayHome'
<1>1. items \in Seq(Items!Item) /\ HistoryOK /\ Items!PartsStayHome
  BY DEF HomeInv, Items!TypeOK
<1> DEFINE new == [block |-> b, told |-> 0, from |-> {}, completed |-> 0, final |-> 0]
<1>2. new \in Items!Item
  BY DEF Items!Item
<1>3. /\ items' \in Seq(Items!Item) /\ DOMAIN items' = 1..Len(items) + 1 /\ DOMAIN items = 1..Len(items)
      /\ Len(items) \in Nat
      /\ \A j \in DOMAIN items : items'[j] = items[j]
      /\ items'[Len(items) + 1] = new
  BY <1>1, <1>2 DEF Items!Begun
<1>4. HistoryOK'
  BY <1>1, <1>3 DEF HistoryOK
<1>5. Items!PartsStayHome'
  BY <1>1, <1>3 DEF Items!PartsStayHome, Items!Home
<1>6. QED
  BY <1>3, <1>4, <1>5

(* What is known of the line the reader takes.                              *)
LEMMA FirstLine ==
    ASSUME Bounds, HomeInv, stdout # <<>>, NEW l, l = Head(stdout)
    PROVE  /\ l \in Items!Line /\ l.index \in Items!Indices
           /\ l.kind \in Rest => l.block \in DOMAIN blocks /\ Held(l.block, l.index)
           /\ l.kind \in Items!Kinds => /\ l.block \in DOMAIN blocks /\ Fresh(l.index)
                                        /\ blocks[l.block].kind = l.kind
           /\ DOMAIN blocks \subseteq Items!Blocks /\ blocks \in Seq(Items!Block)
<1>1. stdout \in Seq(Items!Line) /\ blocks \in Seq(Items!Block) /\ Len(blocks) <= MaxBlocks
  BY DEF HomeInv, Items!TypeOK
<1>2. l = stdout[1] /\ 1 \in 1..Len(stdout) /\ l \in Items!Line
  BY <1>1
<1>3. l.index \in Items!Indices
  BY <1>2 DEF Items!Line
<1>4. DOMAIN blocks \subseteq Items!Blocks
  BY <1>1 DEF Items!Blocks, Bounds
<1>5. QED
  BY <1>1, <1>2, <1>3, <1>4 DEF HomeInv, LinesOK, FirstOK

(* Maps that are cleared know nothing.                                      *)
LEMMA Unwritten ==
    ASSUME Bounds, HomeInv, Items!Cleared
    PROVE  /\ block_items' \in [Items!Indices -> Nat] /\ block_item_payloads' \in [Items!Indices -> Nat]
           /\ block_tool_use_ids' \in [Items!Indices -> Items!Blocks \cup {Items!NoBlock}]
           /\ \A n \in Items!Indices : Empty(n)'
BY DEF Items!Cleared, Empty, Items!NoItem, Items!NoBlock

(* The lines, one by one: a message's start clears what indices mean.       *)
LEMMA MessageKept ==
    ASSUME Bounds, HomeInv, stdout # <<>>, NEW l, l = Head(stdout), Items!MessageStart(l),
           UNCHANGED blocks
    PROVE  Kept(l)
<1>1. Items!TypeOK /\ MapsOK /\ HistoryOK /\ Items!PartsStayHome
  BY DEF HomeInv
<1>2. BridgeTyped'
  BY <1>1, Unwritten DEF Items!MessageStart, BridgeTyped, Items!TypeOK
<1>3. MapsOK'
  BY <1>1, Unwritten DEF Items!MessageStart, MapsOK, Empty
<1>4. HistoryOK' /\ Items!PartsStayHome'
  BY <1>1 DEF Items!MessageStart, HistoryOK, Items!PartsStayHome, Items!Home
<1>5. After(l)
  BY Unwritten DEF Items!MessageStart, After, Within, Items!Kinds, Fresh
<1>6. QED
  BY <1>2, <1>3, <1>4, <1>5 DEF Kept

(* The item of a text is its block's own.                                   *)
LEMMA TextKept ==
    ASSUME Bounds, HomeInv, stdout # <<>>, NEW l, l = Head(stdout), Items!TextStart(l),
           UNCHANGED blocks
    PROVE  Kept(l)
<1> DEFINE n == l.index
<1>1. Items!TypeOK /\ MapsOK
  BY DEF HomeInv
<1>2. l.kind = "text" /\ n \in Items!Indices /\ l.block \in Items!Blocks /\ Fresh(n) /\ Items!Home(l.block) = l.block
  BY FirstLine DEF Items!TextStart, Items!Kinds, Items!Home
<1>3. /\ items' \in Seq(Items!Item) /\ Len(items) + 1 \in DOMAIN items'
      /\ DOMAIN items \subseteq DOMAIN items'
      /\ \A j \in DOMAIN items : items'[j] = items[j]
      /\ items'[Len(items) + 1].block = l.block /\ HistoryOK' /\ Items!PartsStayHome'
  BY <1>2, ItemBegun DEF Items!TextStart
<1>4. Len(items) + 1 \in Nat /\ Len(items) + 1 # Items!NoItem
  BY <1>1 DEF Items!TypeOK, Items!NoItem
<1>5. /\ block_items' \in [Items!Indices -> Nat] /\ block_items'[n] = Len(items) + 1
      /\ \A m \in Items!Indices : m # n => block_items'[m] = block_items[m]
      /\ block_item_payloads' \in [Items!Indices -> Nat]
  BY <1>1, <1>2, <1>4 DEF Items!TextStart, Items!TypeOK
<1>6. BridgeTyped'
  BY <1>1, <1>3, <1>5 DEF Items!TextStart, BridgeTyped, Items!TypeOK
<1>7. MapsOK'
  BY <1>1, <1>3, <1>5 DEF Items!TextStart, MapsOK
<1>8. After(l)
  BY <1>2, <1>5, <1>3 DEF Fresh, Items!Indices, Bounds, Empty, Items!TextStart, Items!Home,
     Held, After, Within, Before
<1>9. QED
  BY <1>3, <1>6, <1>7, <1>8 DEF Kept

(* So is that of a tool use, which the map of tools names too.              *)
LEMMA ToolKept ==
    ASSUME Bounds, HomeInv, stdout # <<>>, NEW l, l = Head(stdout), Items!ToolStart(l),
           UNCHANGED blocks
    PROVE  Kept(l)
<1> DEFINE n == l.index
<1>1. Items!TypeOK /\ MapsOK
  BY DEF HomeInv
<1>2. /\ l.kind = "tool_use" /\ n \in Items!Indices /\ l.block \in Items!Blocks /\ Fresh(n)
      /\ Items!Home(l.block) = l.block
  BY FirstLine DEF Items!ToolStart, Items!Kinds, Items!Home
<1>3. /\ items' \in Seq(Items!Item) /\ Len(items) + 1 \in DOMAIN items'
      /\ DOMAIN items \subseteq DOMAIN items'
      /\ \A j \in DOMAIN items : items'[j] = items[j]
      /\ items'[Len(items) + 1].block = l.block /\ HistoryOK' /\ Items!PartsStayHome'
  BY <1>2, ItemBegun DEF Items!ToolStart
<1>4. Len(items) + 1 \in Nat /\ Len(items) + 1 # Items!NoItem
  BY <1>1 DEF Items!TypeOK, Items!NoItem
<1>5. /\ block_items' \in [Items!Indices -> Nat] /\ block_items'[n] = Len(items) + 1
      /\ \A m \in Items!Indices : m # n => block_items'[m] = block_items[m]
      /\ block_tool_use_ids' \in [Items!Indices -> Items!Blocks \cup {Items!NoBlock}]
      /\ block_tool_use_ids'[n] = l.block
      /\ \A m \in Items!Indices : m # n => block_tool_use_ids'[m] = block_tool_use_ids[m]
  BY <1>1, <1>2, <1>4 DEF Items!ToolStart, Items!TypeOK
<1>6. /\ tool_items' \in [Items!Blocks -> [item : Nat, text : Nat]]
      /\ tool_items'[l.block].item = Len(items) + 1
      /\ \A t \in Items!Blocks : t # l.block => tool_items'[t] = tool_items[t]
  BY <1>1, <1>2, <1>4 DEF Items!ToolStart, Items!TypeOK
<1>7. BridgeTyped'
  BY <1>1, <1>3, <1>5, <1>6 DEF Items!ToolStart, BridgeTyped, Items!TypeOK
<1>8. MapsOK'
  <2>1. \A m \in Items!Indices : block_items'[m] # Items!NoItem => block_items'[m] \in DOMAIN items'
    BY <1>1, <1>3, <1>5 DEF MapsOK
  <2>2. ASSUME NEW t \in Items!Blocks, tool_items'[t].item # Items!NoItem
        PROVE  /\ tool_items'[t].item \in DOMAIN items'
               /\ items'[tool_items'[t].item].block = t
    BY <1>3, <1>6, <1>1, <2>2 DEF MapsOK
  <2>3. QED
    BY <2>1, <2>2 DEF MapsOK
<1>9. After(l)
  <2>1. ASSUME NEW m \in Items!Indices, m > n PROVE Empty(m)'
    <3>1. m # n /\ Empty(m)
      BY <1>2, <2>1 DEF Fresh, Items!Indices, Bounds
    <3>2. QED
      BY <1>5, <3>1 DEF Empty
  <2>2. Items!Home(l.block)' = l.block
    BY <1>2 DEF Items!Home
  <2>3. Held(l.block, n)'
    BY <1>3, <1>5, <2>1, <2>2 DEF Held, Items!Home
  <2>4. QED
    BY <1>2, <2>3 DEF After, Within, Before
<1>10. QED
  BY <1>3, <1>7, <1>8, <1>9 DEF Kept

(* More text for a tool use leaves it its item.                             *)
LEMMA MoreText ==
    ASSUME HomeInv, NEW t \in Items!Blocks, tool_items' = Items!Grown(t)
    PROVE  /\ tool_items' \in [Items!Blocks -> [item : Nat, text : Nat]]
           /\ \A u \in Items!Blocks : tool_items'[u].item = tool_items[u].item
<1> DEFINE Info == [item : Nat, text : Nat]
           new == [item |-> tool_items[t].item, text |-> tool_items[t].text + 1]
<1>1. tool_items \in [Items!Blocks -> Info]
  BY DEF HomeInv, Items!TypeOK
<1>2. tool_items[t] \in Info /\ new \in Info
  BY <1>1
<1>3. tool_items' = [tool_items EXCEPT ![t] = new]
  <2>1. [tool_items[t] EXCEPT !.text = @ + 1] = new
    BY <1>2
  <2>2. QED
    BY <2>1, <1>1, <1>2 DEF Items!Grown
<1> HIDE DEF Info
<1>4. /\ tool_items' \in [Items!Blocks -> Info] /\ tool_items'[t] = new
      /\ \A u \in Items!Blocks : u # t => tool_items'[u] = tool_items[u]
  BY <1>1, <1>2, <1>3
<1>5. QED
  BY <1>4 DEF Info

(* A tool's result goes to the item of its tool use, if that is known.      *)
LEMMA ResultOfKept ==
    ASSUME Bounds, HomeInv, stdout # <<>>, NEW l, l = Head(stdout), Items!ToolResult(l),
           UNCHANGED blocks
    PROVE  Kept(l)
<1> DEFINE n == l.index
           t == blocks[l.block].tool
<1>1. Items!TypeOK /\ MapsOK /\ HistoryOK /\ Items!PartsStayHome
  BY DEF HomeInv
<1>2. /\ l.kind = "tool_result" /\ n \in Items!Indices /\ l.block \in DOMAIN blocks /\ Fresh(n)
      /\ blocks[l.block].kind = "tool_result"
  BY FirstLine DEF Items!ToolResult, Items!Kinds
<1>3. Items!Home(l.block) = t /\ t \in Items!Blocks
  BY <1>1, <1>2 DEF Items!Home, HistoryOK
<1>4. /\ block_tool_use_ids' \in [Items!Indices -> Items!Blocks \cup {Items!NoBlock}]
      /\ block_tool_use_ids'[n] = t
      /\ \A m \in Items!Indices : m # n => block_tool_use_ids'[m] = block_tool_use_ids[m]
      /\ UNCHANGED block_items
  BY <1>1, <1>2, <1>3 DEF Items!ToolResult, Items!TypeOK
<1>5. /\ items' \in Seq(Items!Item) /\ DOMAIN items' = DOMAIN items
      /\ \A j \in DOMAIN items : items'[j].block = items[j].block
      /\ tool_items' \in [Items!Blocks -> [item : Nat, text : Nat]]
      /\ \A u \in Items!Blocks : tool_items'[u].item = tool_items[u].item
      /\ HistoryOK' /\ Items!PartsStayHome'
  <2>1. CASE tool_items[t].item # Items!NoItem /\ blocks[l.block].text > 0
    BY <1>1, <1>3, <2>1, MoreText, <1>2, PartTold DEF MapsOK, Items!ToolResult
  <2>2. CASE ~(tool_items[t].item # Items!NoItem /\ blocks[l.block].text > 0)
    BY <2>2, <1>1 DEF Items!ToolResult, Items!TypeOK, HistoryOK, Items!PartsStayHome, Items!Home
  <2>3. QED
    BY <2>1, <2>2
<1>6. BridgeTyped'
  BY <1>1, <1>4, <1>5 DEF Items!ToolResult, BridgeTyped, Items!TypeOK
<1>7. MapsOK'
  BY <1>1, <1>4, <1>5 DEF MapsOK
<1>8. After(l)
  BY <1>2, <1>4, <1>3 DEF Fresh, Items!Indices, Bounds, Empty, Items!Home, Held, After, Within,
     Before
<1>9. QED
  BY <1>5, <1>6, <1>7, <1>8 DEF Kept

(* The item the maps name for the next line is that of its block.           *)
LEMMA OwnItem ==
    ASSUME Bounds, HomeInv, NEW b \in DOMAIN blocks, NEW n \in Items!Indices, Held(b, n)
    PROVE  /\ block_items[n] # Items!NoItem =>
                 block_items[n] \in DOMAIN items /\ Items!Home(b) = items[block_items[n]].block
           /\ block_tool_use_ids[n] # Items!NoBlock /\ tool_items[block_tool_use_ids[n]].item # Items!NoItem =>
                 /\ tool_items[block_tool_use_ids[n]].item \in DOMAIN items
                 /\ Items!Home(b) = items[tool_items[block_tool_use_ids[n]].item].block
BY DEF HomeInv, MapsOK, Held, Items!TypeOK

(* A delta comes with its block's index and so goes to the block's item.    *)
LEMMA DeltaKept ==
    ASSUME Bounds, HomeInv, stdout # <<>>, NEW l, l = Head(stdout), Items!Delta(l), UNCHANGED blocks
    PROVE  Kept(l)
<1> DEFINE n == l.index
           i == block_items[n]
           t == block_tool_use_ids[n]
           known == t # Items!NoBlock /\ tool_items[t].item # Items!NoItem
<1>1. Items!TypeOK /\ MapsOK /\ HistoryOK /\ Items!PartsStayHome
  BY DEF HomeInv
<1>2. l.kind = "delta" /\ n \in Items!Indices /\ l.block \in DOMAIN blocks /\ Held(l.block, n)
  BY FirstLine DEF Items!Delta, Rest
<1>3. /\ i # Items!NoItem => i \in DOMAIN items /\ Items!Home(l.block) = items[i].block
      /\ known => /\ tool_items[t].item \in DOMAIN items
                  /\ Items!Home(l.block) = items[tool_items[t].item].block
                  /\ t \in Items!Blocks
  BY <1>1, <1>2, OwnItem DEF Items!TypeOK
<1>4. /\ items' \in Seq(Items!Item) /\ DOMAIN items' = DOMAIN items
      /\ \A j \in DOMAIN items : items'[j].block = items[j].block
      /\ HistoryOK' /\ Items!PartsStayHome'
  <2>1. CASE i = Items!NoItem
    BY <2>1, <1>1 DEF Items!Delta, Items!TypeOK, HistoryOK, Items!PartsStayHome, Items!Home
  <2>2. CASE i # Items!NoItem /\ items' = Items!Told(i, l.block)
    <3>1. i \in DOMAIN items /\ Items!Home(l.block) = items[i].block
      BY <1>3, <2>2
    <3> HIDE DEF i
    <3>2. QED
      BY <1>2, <2>2, <3>1, PartTold
  <2>3. CASE known /\ items' = Items!Told(tool_items[t].item, l.block)
    <3> DEFINE m == tool_items[t].item
    <3>1. /\ m \in DOMAIN items /\ Items!Home(l.block) = items[m].block
          /\ items' = Items!Told(m, l.block)
      BY <1>3, <2>3
    <3> HIDE DEF m
    <3>2. QED
      BY <1>2, <3>1, PartTold
  <2>4. QED
    BY <2>1, <2>2, <2>3 DEF Items!Delta
<1>5. /\ tool_items' \in [Items!Blocks -> [item : Nat, text : Nat]]
      /\ \A u \in Items!Blocks : tool_items'[u].item = tool_items[u].item
  BY <1>1, <1>3, MoreText DEF Items!TypeOK, Items!Delta
<1>6. /\ UNCHANGED <<block_items, block_tool_use_ids, turn_started, turn_has_content>>
      /\ block_item_payloads' \in [Items!Indices -> Nat]
  <2>1. UNCHANGED <<block_items, block_tool_use_ids, turn_started, turn_has_content>>
    BY DEF Items!Delta
  <2>2. CASE UNCHANGED block_item_payloads
    BY <1>1, <2>1, <2>2 DEF Items!TypeOK
  <2>3. CASE block_item_payloads' = [block_item_payloads EXCEPT ![n] = @ + 1]
    BY <1>1, <1>2, <2>1, <2>3 DEF Items!TypeOK
  <2>4. QED
    BY <2>1, <2>2, <2>3 DEF Items!Delta
<1>7. BridgeTyped'
  BY <1>1, <1>4, <1>5, <1>6 DEF BridgeTyped, Items!TypeOK
<1>8. MapsOK'
  BY <1>1, <1>4, <1>5, <1>6 DEF MapsOK
<1>9. After(l)
  BY <1>2, <1>3, <1>4, <1>6 DEF Held, Items!Home, Empty, After, Within, Before
<1>10. QED
  BY <1>4, <1>7, <1>8, <1>9 DEF Kept

(* So does the end of a block, after which its index is not used again.     *)
LEMMA StopKept ==
    ASSUME Bounds, HomeInv, stdout # <<>>, NEW l, l = Head(stdout), Items!Stop(l), UNCHANGED blocks
    PROVE  Kept(l)
<1> DEFINE n == l.index
           i == block_items[n]
           t == block_tool_use_ids[n]
           known == t # Items!NoBlock /\ tool_items[t].item # Items!NoItem
<1>1. Items!TypeOK /\ MapsOK /\ HistoryOK /\ Items!PartsStayHome
  BY DEF HomeInv
<1>2. l.kind = "stop" /\ n \in Items!Indices /\ l.block \in DOMAIN blocks /\ Held(l.block, n)
  BY FirstLine DEF Items!Stop, Rest
<1>3. /\ i # Items!NoItem => i \in DOMAIN items /\ Items!Home(l.block) = items[i].block
      /\ known => /\ tool_items[t].item \in DOMAIN items
                  /\ Items!Home(l.block) = items[tool_items[t].item].block
                  /\ tool_items[t].text \in Nat
  BY <1>1, <1>2, OwnItem DEF Items!TypeOK
<1>4. /\ items' \in Seq(Items!Item) /\ DOMAIN items' = DOMAIN items
      /\ \A j \in DOMAIN items : items'[j].block = items[j].block
      /\ HistoryOK' /\ Items!PartsStayHome'
  BY <1>2, <1>3, PartTold, <1>1 DEF Items!Stop, Items!TypeOK, HistoryOK, Items!PartsStayHome,
     Items!Home
<1>5. UNCHANGED <<turn_started, turn_has_content, Items!block_maps, tool_items>>
  BY DEF Items!Stop
<1>6. BridgeTyped'
  BY <1>1, <1>4, <1>5 DEF BridgeTyped, Items!TypeOK, Items!block_maps
<1>7. MapsOK'
  BY <1>1, <1>4, <1>5 DEF MapsOK, Items!block_maps
<1>8. After(l)
  BY <1>2, <1>5 DEF Held, Fresh, Empty, Items!block_maps, Items!Indices, Bounds, After, Within,
     Before, Items!Kinds
<1>9. QED
  BY <1>4, <1>6, <1>7, <1>8 DEF Kept

(* A new turn knows no items.                                               *)
LEMMA Renewed ==
    ASSUME Bounds, HomeInv, NEW started \in BOOLEAN, Items!NewTurn(started), UNCHANGED items
    PROVE  BridgeTyped' /\ MapsOK' /\ \A n \in Items!Indices : Empty(n)'
BY Unwritten DEF HomeInv, Items!NewTurn, Items!NoInfo, Items!NoItem, BridgeTyped,
   Items!TypeOK, MapsOK, Empty

(* A result ends the turn, or is taken for that of an earlier one.          *)
LEMMA EndKept ==
    ASSUME Bounds, HomeInv, stdout # <<>>, NEW l, l = Head(stdout), Items!Result(l), UNCHANGED blocks
    PROVE  Kept(l)
<1>1. Items!TypeOK /\ MapsOK /\ HistoryOK /\ Items!PartsStayHome
  BY DEF HomeInv
<1>2. /\ l.kind = "result" /\ UNCHANGED items
      /\ \/ UNCHANGED <<turn_started, turn_has_content, Items!block_maps, tool_items>>
         \/ Items!NewTurn(FALSE)
  BY DEF Items!Result
<1>3. BridgeTyped' /\ MapsOK'
  BY <1>1, <1>2, Renewed DEF Items!block_maps, BridgeTyped, Items!TypeOK, MapsOK
<1>4. HistoryOK' /\ Items!PartsStayHome'
  BY <1>1, <1>2 DEF HistoryOK, Items!PartsStayHome, Items!Home
<1>5. After(l)
  BY <1>2 DEF After, Within, Before, Items!Kinds
<1>6. QED
  BY <1>3, <1>4, <1>5 DEF Kept

(* The line read leaves the maps as the line after it needs them.           *)
LEMMA LineRead ==
    ASSUME Bounds, HomeInv, stdout # <<>>, NEW l, l = Head(stdout), stdout' = Tail(stdout), Kept(l),
           UNCHANGED <<prompts, cli, blocks, cut>>
    PROVE  HomeInv'
<1>1. Items!TypeOK /\ LinesOK /\ LinksOK /\ CliOK
  BY DEF HomeInv
<1>2. /\ stdout \in Seq(Items!Line) /\ stdout' \in Seq(Items!Line) /\ Len(stdout) \in Nat /\ Len(stdout) >= 1
      /\ l = stdout[1] /\ Len(stdout') = Len(stdout) - 1
      /\ \A k \in 1..Len(stdout') : k + 1 \in 1..Len(stdout) /\ stdout'[k] = stdout[k + 1]
      /\ stdout' = <<>> <=> Len(stdout) = 1
  <2>1. stdout \in Seq(Items!Line) /\ Len(stdout) \in Nat /\ Len(stdout) >= 1
    BY <1>1 DEF Items!TypeOK
  <2>2. /\ stdout' \in Seq(Items!Line) /\ Len(stdout') = Len(stdout) - 1
        /\ \A k \in 1..Len(stdout') : k + 1 \in 1..Len(stdout) /\ stdout'[k] = stdout[k + 1]
    BY <2>1
  <2>3. l = stdout[1] /\ (stdout' = <<>> <=> Len(stdout) = 1)
    BY <2>1, <2>2
  <2>4. QED
    BY <2>1, <2>2, <2>3
<1>3. Items!TypeOK'
  BY <1>1, <1>2 DEF Kept, BridgeTyped, Items!TypeOK
<1>4. LinesOK'
  BY <1>2, <1>1 DEF LinesOK
<1>5. LinksOK'
  BY <1>2, <1>1 DEF LinksOK, Within, Before
<1>6. FirstOK'
  <2>1. CASE stdout' = <<>>
    BY <2>1 DEF FirstOK
  <2>2. CASE stdout' # <<>>
    <3>1. PICK next : next = stdout[2]
      OBVIOUS
    <3>2. 2 \in 1..Len(stdout) /\ stdout'[1] = next /\ next \in Items!Line
      BY <1>2, <2>2, <3>1
    <3>3. next.index \in Items!Indices /\ next.index \in 0..MaxIndex + 1
      BY <3>2 DEF Items!Line, Items!Indices, Bounds
    <3>4. /\ next.kind \in Rest => Within(l, next.block, next.index)
          /\ next.kind \in Items!Kinds => Before(l, next.index)
      BY <1>1, <1>2, <3>1, <3>2 DEF LinksOK
    <3>5. next.kind \in Rest => next.block \in Items!Blocks
      BY <1>1, <3>1, <3>2, FirstLine DEF LinesOK
    <3>6. next.kind \in Rest => Held(next.block, next.index)'
      BY <3>3, <3>4, <3>5 DEF Kept, After
    <3>7. next.kind \in Items!Kinds => Fresh(next.index)'
      BY <3>3, <3>4 DEF Kept, After
    <3>8. QED
      BY <3>2, <3>6, <3>7 DEF FirstOK, Held, Fresh, Empty, Items!Home
  <2>3. QED
    BY <2>1, <2>2
<1>7. CliOK'
  <2>1. \/ stdout' = <<>> /\ stdout[Len(stdout)] = l
        \/ stdout' # <<>> /\ stdout'[Len(stdout')] = stdout[Len(stdout)]
    BY <1>2
  <2>2. PICK b, n : b = cli.open /\ n = cli.index
    OBVIOUS
  <2>3. b \in Items!Blocks \cup {Items!NoBlock} /\ n \in 0..MaxIndex + 1
    BY <1>1, <2>2 DEF Items!TypeOK
  <2>4. ASSUME b # Items!NoBlock
        PROVE  /\ b \in DOMAIN blocks /\ n \in Items!Indices
               /\ IF stdout' = <<>> THEN Held(b, n)' ELSE Within(stdout'[Len(stdout')], b, n)
    BY <1>1, <2>2, <2>4, <2>3, <2>1 DEF CliOK, Kept, After
  <2>5. ASSUME b = Items!NoBlock, cli.busy, cli.messages > 0
        PROVE  IF stdout' = <<>> THEN Fresh(n)' ELSE Before(stdout'[Len(stdout')], n)
    BY <1>1, <2>2, <2>5, <2>3, <2>1 DEF CliOK, Kept, After
  <2>6. QED
    BY <2>2, <2>4, <2>5 DEF CliOK, Held, Items!Home, Fresh, Empty, Within, Before
<1>8. QED
  BY <1>3, <1>4, <1>5, <1>6, <1>7 DEF Kept, HomeInv

(* What the CLI may write after what it has written, and the state it is    *)
(* in then.                                                                 *)
Follows(new) ==
    /\ new.kind \in Rest => cli.open # Items!NoBlock /\ new.block = cli.open /\ new.index = cli.index
    /\ new.kind \in Items!Kinds =>
          /\ cli.open = Items!NoBlock /\ cli.busy /\ cli.messages > 0 /\ new.index = cli.index
          /\ new.block \in DOMAIN blocks' /\ blocks'[new.block].kind = new.kind
    /\ cli'.open # Items!NoBlock =>
          /\ cli'.open \in DOMAIN blocks' /\ cli'.index \in Items!Indices
          /\ Within(new, cli'.open, cli'.index)
    /\ cli'.open = Items!NoBlock /\ cli'.busy /\ cli'.messages > 0 => Before(new, cli'.index)

(* Blocks are added, or changed in their text or their end.                 *)
Written ==
    /\ blocks' \in Seq(Items!Block) /\ Len(blocks') <= MaxBlocks
    /\ DOMAIN blocks \subseteq DOMAIN blocks'
    /\ \A b \in DOMAIN blocks :
          blocks'[b].kind = blocks[b].kind /\ blocks'[b].tool = blocks[b].tool
    /\ \A b \in DOMAIN blocks' : blocks'[b].kind = "tool_result" => blocks'[b].tool \in Items!Blocks

(* A line printed in its place keeps the invariant.                         *)
LEMMA LinePrinted ==
    ASSUME Bounds, HomeInv, NEW new \in Items!Line, stdout' = Append(stdout, new),
           Follows(new), Written,
           cli' \in [prompt : 0..MaxPrompts, busy : BOOLEAN, messages : 0..MaxMessages,
                     open : Items!Blocks \cup {Items!NoBlock}, index : 0..MaxIndex + 1],
           UNCHANGED <<turn_started, turn_has_content, Items!block_maps, tool_items, prompts, items, cut>>
    PROVE  HomeInv'
<1>1. /\ Items!TypeOK /\ LinesOK /\ LinksOK /\ FirstOK /\ CliOK /\ MapsOK /\ HistoryOK
      /\ Items!PartsStayHome
  BY DEF HomeInv
<1>2. /\ stdout \in Seq(Items!Line) /\ Len(stdout) \in Nat /\ stdout' \in Seq(Items!Line)
      /\ Len(stdout') = Len(stdout) + 1 /\ stdout' # <<>>
      /\ \A k \in 1..Len(stdout) : stdout'[k] = stdout[k]
      /\ stdout'[Len(stdout) + 1] = new
      /\ stdout = <<>> <=> Len(stdout) = 0
  <2>1. stdout \in Seq(Items!Line) /\ Len(stdout) \in Nat /\ (stdout = <<>> <=> Len(stdout) = 0)
    BY <1>1 DEF Items!TypeOK
  <2>2. stdout' \in Seq(Items!Line) /\ Len(stdout') = Len(stdout) + 1
    BY <2>1
  <2>3. /\ \A k \in 1..Len(stdout) : stdout'[k] = stdout[k]
        /\ stdout'[Len(stdout) + 1] = new
    BY <2>1
  <2>4. QED
    BY <2>1, <2>2, <2>3
<1>3. Items!TypeOK'
  BY <1>1, <1>2 DEF Items!TypeOK, Written, Items!block_maps
<1>4. LinesOK'
  BY <1>1, <1>2 DEF LinesOK, Written, Follows, CliOK
<1>5. LinksOK'
  BY <1>2, <1>1 DEF LinksOK, Within, Before, Follows, CliOK
<1>6. /\ UNCHANGED <<items, block_items, block_tool_use_ids, tool_items>>
      /\ \A b \in DOMAIN blocks : blocks'[b].kind = blocks[b].kind
                                  /\ blocks'[b].tool = blocks[b].tool
  BY DEF Items!block_maps, Written
<1>7. FirstOK'
  BY <1>2, <1>1, <1>6 DEF Follows, CliOK, FirstOK, Held, Items!Home, Fresh, Empty, LinesOK
<1>8. CliOK'
  BY <1>2 DEF Follows, CliOK, Within, Before
<1>9. MapsOK'
  BY <1>1, <1>6 DEF MapsOK
<1>10. HistoryOK'
  BY <1>1, <1>6 DEF HistoryOK, Written
<1>11. Items!PartsStayHome'
  BY <1>6, <1>1 DEF Items!PartsStayHome, Items!Home, HistoryOK
<1>12. QED
  BY <1>3, <1>4, <1>5, <1>7, <1>8, <1>9, <1>10, <1>11 DEF HomeInv

(* The steps of the CLI print their lines in their places.  A message may   *)
(* start after any line.                                                    *)
LEMMA MessageStep ==
    ASSUME Bounds, HomeInv, Items!Message PROVE HomeInv'
<1> DEFINE new == [kind |-> "message_start", index |-> 0, block |-> Items!NoBlock, is_error |-> FALSE]
<1>1. Items!TypeOK /\ HistoryOK
  BY DEF HomeInv
<1>2. /\ cli' = [cli EXCEPT !.messages = @ + 1, !.open = Items!NoBlock, !.index = 0]
      /\ stdout' = Append(stdout, new) /\ cli.messages < MaxMessages /\ UNCHANGED blocks
      /\ UNCHANGED <<turn_started, turn_has_content, Items!block_maps, tool_items, prompts, items, cut>>
  BY DEF Items!Message, Items!Prints
<1>3. new \in Items!Line
  BY DEF Items!Line, Items!Indices, Bounds
<1>4. /\ cli' \in [prompt : 0..MaxPrompts, busy : BOOLEAN, messages : 0..MaxMessages,
                   open : Items!Blocks \cup {Items!NoBlock}, index : 0..MaxIndex + 1]
      /\ cli'.open = Items!NoBlock /\ cli'.index = 0
  <2> DEFINE next == cli.messages + 1
  <2>1. next \in 0..MaxMessages /\ 0 \in 0..MaxIndex + 1 /\ Items!NoBlock \in Items!Blocks \cup {Items!NoBlock}
    BY <1>1, <1>2 DEF Items!TypeOK, Bounds
  <2>2. cli' = [cli EXCEPT !.messages = next, !.open = Items!NoBlock, !.index = 0]
    BY <1>1, <1>2 DEF Items!TypeOK
  <2> HIDE DEF next
  <2>3. QED
    BY <1>1, <2>1, <2>2 DEF Items!TypeOK
<1>5. Follows(new)
  BY <1>4 DEF Follows, Rest, Items!Kinds, Before
<1>6. Written
  BY <1>1, <1>2 DEF Written, Items!TypeOK, HistoryOK
<1> HIDE DEF new
<1>7. QED
  BY <1>2, <1>3, <1>4, <1>5, <1>6, LinePrinted

(* The end of a turn prints its result.                                     *)
LEMMA EndStep ==
    ASSUME Bounds, HomeInv, Items!End PROVE HomeInv'
<1>1. Items!TypeOK /\ HistoryOK
  BY DEF HomeInv
<1>2. PICK is_error \in BOOLEAN :
         /\ cli' = [cli EXCEPT !.busy = FALSE, !.open = Items!NoBlock] /\ UNCHANGED blocks
         /\ stdout' = Append(stdout, [kind |-> "result", index |-> 0, block |-> Items!NoBlock,
                                      is_error |-> is_error])
         /\ UNCHANGED <<turn_started, turn_has_content, Items!block_maps, tool_items, prompts, items,
                        cut>>
  BY DEF Items!End, Items!Prints
<1> DEFINE new == [kind |-> "result", index |-> 0, block |-> Items!NoBlock, is_error |-> is_error]
<1>3. new \in Items!Line
  BY DEF Items!Line, Items!Indices, Bounds
<1>4. /\ cli' \in [prompt : 0..MaxPrompts, busy : BOOLEAN, messages : 0..MaxMessages,
                   open : Items!Blocks \cup {Items!NoBlock}, index : 0..MaxIndex + 1]
      /\ cli'.open = Items!NoBlock /\ ~cli'.busy
  BY <1>1, <1>2 DEF Items!TypeOK
<1>5. Follows(new)
  BY <1>4 DEF Follows, Rest, Items!Kinds
<1>6. Written
  BY <1>1, <1>2 DEF Written, Items!TypeOK, HistoryOK
<1>7. stdout' = Append(stdout, new)
  BY <1>2
<1> HIDE DEF new
<1>8. QED
  BY <1>2, <1>3, <1>4, <1>5, <1>6, <1>7, LinePrinted

(* Blocks whose text or end is changed.                                     *)
LEMMA BlockGrown ==
    ASSUME Bounds, HomeInv, NEW b \in DOMAIN blocks,
           \/ blocks' = [blocks EXCEPT ![b].text = @ + 1]
           \/ blocks' = [blocks EXCEPT ![b].ended = TRUE]
    PROVE  Written /\ DOMAIN blocks' = DOMAIN blocks
<1>1. blocks \in Seq(Items!Block) /\ Len(blocks) <= MaxBlocks /\ HistoryOK
  BY DEF HomeInv, Items!TypeOK
<1>2. PICK new \in Items!Block : /\ blocks' = [blocks EXCEPT ![b] = new]
                                 /\ new.kind = blocks[b].kind /\ new.tool = blocks[b].tool
  <2>1. blocks[b] \in Items!Block
    BY <1>1
  <2> DEFINE more == [blocks[b] EXCEPT !.text = @ + 1]
             over == [blocks[b] EXCEPT !.ended = TRUE]
  <2>2. /\ more \in Items!Block /\ more.kind = blocks[b].kind /\ more.tool = blocks[b].tool
        /\ over \in Items!Block /\ over.kind = blocks[b].kind /\ over.tool = blocks[b].tool
    <3> DEFINE text == blocks[b].text + 1
    <3>1. text \in Nat
      BY <2>1 DEF Items!Block
    <3>2. more = [blocks[b] EXCEPT !.text = text]
      BY <2>1 DEF Items!Block
    <3> HIDE DEF text
    <3>3. /\ more \in Items!Block /\ more.kind = blocks[b].kind /\ more.tool = blocks[b].tool
      BY <2>1, <3>1, <3>2 DEF Items!Block
    <3>4. /\ over \in Items!Block /\ over.kind = blocks[b].kind /\ over.tool = blocks[b].tool
      BY <2>1 DEF Items!Block
    <3>5. QED
      BY <3>3, <3>4
  <2>3. blocks' = [blocks EXCEPT ![b] = more] \/ blocks' = [blocks EXCEPT ![b] = over]
    BY <2>1
  <2> HIDE DEF more, over
  <2>4. QED
    BY <2>2, <2>3
<1>3. /\ blocks' \in Seq(Items!Block) /\ Len(blocks') = Len(blocks) /\ DOMAIN blocks' = DOMAIN blocks
      /\ \A c \in DOMAIN blocks : blocks'[c].kind = blocks[c].kind
                                  /\ blocks'[c].tool = blocks[c].tool
  BY <1>1, <1>2
<1>4. QED
  BY <1>1, <1>3 DEF Written, HistoryOK

(* A delta comes while its block is open.                                   *)
LEMMA WriteStep ==
    ASSUME Bounds, HomeInv, Items!Write PROVE HomeInv'
<1> DEFINE new == [kind |-> "delta", index |-> cli.index, block |-> cli.open, is_error |-> FALSE]
<1>1. Items!TypeOK /\ CliOK
  BY DEF HomeInv
<1>2. /\ cli.open # Items!NoBlock /\ UNCHANGED cli /\ stdout' = Append(stdout, new)
      /\ blocks' = [blocks EXCEPT ![cli.open].text = @ + 1]
      /\ UNCHANGED <<turn_started, turn_has_content, Items!block_maps, tool_items, prompts, items, cut>>
  BY DEF Items!Write, Items!Prints
<1>3. cli.open \in DOMAIN blocks /\ cli.index \in Items!Indices /\ cli.open \in Items!Blocks
  BY <1>1, <1>2 DEF CliOK, Items!TypeOK
<1>4. Written /\ DOMAIN blocks' = DOMAIN blocks
  BY <1>2, <1>3, BlockGrown
<1>5. new \in Items!Line
  BY <1>3 DEF Items!Line, Items!Indices
<1>6. Follows(new)
  BY <1>2, <1>3, <1>4 DEF Follows, Rest, Items!Kinds, Within
<1>7. cli' \in [prompt : 0..MaxPrompts, busy : BOOLEAN, messages : 0..MaxMessages,
                open : Items!Blocks \cup {Items!NoBlock}, index : 0..MaxIndex + 1]
  BY <1>1, <1>2 DEF Items!TypeOK
<1> HIDE DEF new
<1>8. QED
  BY <1>2, <1>4, <1>5, <1>6, <1>7, LinePrinted

(* The end of a block comes while it is open.                               *)
LEMMA CloseStep ==
    ASSUME Bounds, HomeInv, Items!Close PROVE HomeInv'
<1> DEFINE new == [kind |-> "stop", index |-> cli.index, block |-> cli.open, is_error |-> FALSE]
<1>1. Items!TypeOK /\ CliOK
  BY DEF HomeInv
<1>2. /\ cli.open # Items!NoBlock /\ stdout' = Append(stdout, new)
      /\ cli' = [cli EXCEPT !.open = Items!NoBlock, !.index = @ + 1]
      /\ blocks' = [blocks EXCEPT ![cli.open].ended = TRUE]
      /\ UNCHANGED <<turn_started, turn_has_content, Items!block_maps, tool_items, prompts, items, cut>>
  BY DEF Items!Close, Items!Prints
<1>3. cli.open \in DOMAIN blocks /\ cli.index \in Items!Indices /\ cli.open \in Items!Blocks
  BY <1>1, <1>2 DEF CliOK, Items!TypeOK
<1>4. Written
  BY <1>2, <1>3, BlockGrown
<1>5. new \in Items!Line
  BY <1>3 DEF Items!Line, Items!Indices
<1>6. /\ cli' \in [prompt : 0..MaxPrompts, busy : BOOLEAN, messages : 0..MaxMessages,
                   open : Items!Blocks \cup {Items!NoBlock}, index : 0..MaxIndex + 1]
      /\ cli'.open = Items!NoBlock /\ cli'.index = cli.index + 1
  <2> DEFINE next == cli.index + 1
  <2>1. next \in 0..MaxIndex + 1 /\ Items!NoBlock \in Items!Blocks \cup {Items!NoBlock}
    BY <1>3 DEF Items!Indices, Bounds
  <2>2. cli' = [cli EXCEPT !.open = Items!NoBlock, !.index = next]
    BY <1>1, <1>2 DEF Items!TypeOK
  <2> HIDE DEF next
  <2>3. cli' \in [prompt : 0..MaxPrompts, busy : BOOLEAN, messages : 0..MaxMessages,
                  open : Items!Blocks \cup {Items!NoBlock}, index : 0..MaxIndex + 1]
    BY <1>1, <2>1, <2>2 DEF Items!TypeOK
  <2>4. cli'.open = Items!NoBlock /\ cli'.index = next
    BY <1>1, <2>2 DEF Items!TypeOK
  <2>5. QED
    BY <2>3, <2>4 DEF next
<1>7. Follows(new)
  BY <1>2, <1>6 DEF Follows, Rest, Items!Kinds, Before
<1> HIDE DEF new
<1>8. QED
  BY <1>2, <1>4, <1>5, <1>6, <1>7, LinePrinted

(* A block begins after a message's start or the end of the block before.   *)
LEMMA OpenStep ==
    ASSUME Bounds, HomeInv, Items!Open PROVE HomeInv'
<1>1. Items!TypeOK /\ CliOK /\ HistoryOK
  BY DEF HomeInv
<1> DEFINE b == Len(blocks) + 1
<1>2. PICK kind \in Items!Kinds, tool \in Items!Unanswered \cup {Items!NoBlock}, text \in 0..1 :
         /\ kind = "tool_result" <=> tool # Items!NoBlock
         /\ blocks' = Append(blocks, [of |-> cli.prompt, kind |-> kind, tool |-> tool,
                                      message |-> cli.messages, text |-> text,
                                      ended |-> FALSE])
         /\ stdout' = Append(stdout, [kind |-> kind, index |-> cli.index, block |-> b,
                                      is_error |-> FALSE])
         /\ UNCHANGED <<turn_started, turn_has_content, Items!block_maps, tool_items, prompts, items,
                        cut>>
  BY DEF Items!Open, Items!Prints
<1>3. /\ cli.busy /\ cli.messages > 0 /\ cli.open = Items!NoBlock /\ cli.index <= MaxIndex
      /\ Len(blocks) < MaxBlocks /\ cli' = [cli EXCEPT !.open = b]
  BY DEF Items!Open
<1> DEFINE new == [kind |-> kind, index |-> cli.index, block |-> b, is_error |-> FALSE]
           block == [of |-> cli.prompt, kind |-> kind, tool |-> tool, message |-> cli.messages,
                     text |-> text, ended |-> FALSE]
<1>4. /\ blocks \in Seq(Items!Block) /\ DOMAIN blocks = 1..Len(blocks) /\ Len(blocks) \in Nat
      /\ b \in Items!Blocks /\ cli.index \in Items!Indices /\ b # Items!NoBlock
  BY <1>1, <1>3 DEF Items!TypeOK, Items!Blocks, Items!Indices, Bounds, Items!NoBlock
<1>5. Items!Unanswered \subseteq Items!Blocks
  BY <1>3, <1>4 DEF Items!Unanswered, Items!Blocks, Bounds
<1>6. block \in Items!Block /\ block.kind = kind /\ block.tool = tool
      /\ (block.kind = "tool_result" => block.tool \in Items!Blocks)
  BY <1>1, <1>2, <1>5 DEF Items!Block, Items!TypeOK
<1>7. blocks' = Append(blocks, block) /\ stdout' = Append(stdout, new)
  BY <1>2
<1>8. new \in Items!Line
  BY <1>4 DEF Items!Line
<1>9. /\ cli' \in [prompt : 0..MaxPrompts, busy : BOOLEAN, messages : 0..MaxMessages,
                   open : Items!Blocks \cup {Items!NoBlock}, index : 0..MaxIndex + 1]
      /\ cli'.open = b /\ cli'.index = cli.index
  BY <1>1, <1>3, <1>4 DEF Items!TypeOK
<1> HIDE DEF block
<1>10. /\ blocks' \in Seq(Items!Block) /\ Len(blocks') = b /\ DOMAIN blocks' = 1..b
       /\ \A c \in DOMAIN blocks : blocks'[c] = blocks[c]
       /\ blocks'[b] = block
  BY <1>4, <1>6, <1>7
<1>11. Written
  BY <1>3, <1>4, <1>10, <1>1, <1>6 DEF Bounds, HistoryOK, Written
<1>12. Follows(new)
  <2>1. b \in DOMAIN blocks' /\ blocks'[b].kind = kind
    BY <1>4, <1>6, <1>10
  <2>2. kind \notin Rest
    BY DEF Items!Kinds, Rest
  <2> HIDE DEF b
  <2>3. QED
    BY <1>3, <1>4, <1>9, <2>1, <2>2 DEF Follows, Within
<1> HIDE DEF new, b
<1>13. QED
  BY <1>2, <1>7, <1>8, <1>9, <1>11, <1>12, LinePrinted

(* A turn installed leaves empty maps: every line may come next.            *)
LEMMA InstallStep ==
    ASSUME Bounds, HomeInv, Items!Install PROVE HomeInv'
<1>1. /\ Items!TypeOK /\ LinesOK /\ LinksOK /\ FirstOK /\ CliOK /\ HistoryOK /\ Items!PartsStayHome
  BY DEF HomeInv
<1>2. /\ prompts < MaxPrompts /\ prompts' = prompts + 1 /\ Items!NewTurn(TRUE)
      /\ UNCHANGED <<stdout, cli, blocks, items>>
      /\ cut' = cut \cup {items[i].block : i \in
                    {j \in DOMAIN items : items[j].completed = 0 \/ items[j].block \in
                        {t \in Items!Blocks : tool_items[t].item # Items!NoItem}}}
  BY DEF Items!Install
<1>3. BridgeTyped' /\ MapsOK' /\ \A n \in Items!Indices : Empty(n)'
  BY <1>2, Renewed
<1>4. Items!TypeOK'
  <2>1. prompts' \in 0..MaxPrompts
    BY <1>1, <1>2 DEF Items!TypeOK, Bounds
  <2>2. cut' \subseteq Items!Blocks
    <3>1. ASSUME NEW i \in DOMAIN items PROVE items[i].block \in Items!Blocks
      <4>1. items[i] \in Items!Item
        BY <1>1 DEF Items!TypeOK
      <4>2. QED
        BY <4>1 DEF Items!Item
    <3>2. QED
      BY <1>1, <1>2, <3>1 DEF Items!TypeOK
  <2>3. QED
    BY <1>1, <1>2, <1>3, <2>1, <2>2 DEF Items!TypeOK, BridgeTyped
<1>5. LinesOK' /\ LinksOK' /\ HistoryOK' /\ Items!PartsStayHome'
  BY <1>1, <1>2 DEF LinesOK, LinksOK, Within, Before, HistoryOK, Items!PartsStayHome, Items!Home
<1>6. ASSUME NEW b, NEW n \in Items!Indices PROVE Held(b, n)'
  BY <1>3 DEF Held, Empty
<1>7. ASSUME NEW n PROVE Fresh(n)'
  BY <1>3 DEF Fresh
<1>8. FirstOK'
  <2>1. ASSUME stdout # <<>> PROVE stdout[1].index \in Items!Indices
    <3>1. stdout[1] \in Items!Line
      BY <1>1, <2>1 DEF Items!TypeOK
    <3>2. QED
      BY <3>1 DEF Items!Line
  <2>2. QED
    BY <1>2, <1>3, <2>1 DEF FirstOK, Held, Fresh, Empty
<1>9. CliOK'
  BY <1>1, <1>2, <1>3 DEF CliOK, Held, Fresh, Empty, Within, Before
<1>10. QED
  BY <1>3, <1>4, <1>5, <1>8, <1>9 DEF HomeInv

(* A prompt taken has no message yet.                                       *)
LEMMA TakeStep ==
    ASSUME Bounds, HomeInv, Items!Take PROVE HomeInv'
<1>1. /\ Items!TypeOK /\ LinesOK /\ LinksOK /\ FirstOK /\ MapsOK /\ HistoryOK /\ Items!PartsStayHome
  BY DEF HomeInv
<1>2. /\ cli.prompt < prompts
      /\ cli' = [prompt |-> cli.prompt + 1, busy |-> TRUE, messages |-> 0, open |-> Items!NoBlock,
                 index |-> 0]
      /\ UNCHANGED <<turn_started, turn_has_content, Items!block_maps, tool_items, prompts, stdout,
                     blocks, items, cut>>
  BY DEF Items!Take
<1>3. Items!TypeOK'
  <2>1. cli' \in [prompt : 0..MaxPrompts, busy : BOOLEAN, messages : 0..MaxMessages,
                  open : Items!Blocks \cup {Items!NoBlock}, index : 0..MaxIndex + 1]
    BY <1>1, <1>2 DEF Items!TypeOK, Bounds
  <2>2. QED
    BY <1>1, <1>2, <2>1 DEF Items!TypeOK, Items!block_maps
<1>4. LinesOK' /\ LinksOK' /\ FirstOK' /\ MapsOK' /\ HistoryOK' /\ Items!PartsStayHome'
  BY <1>1, <1>2 DEF Items!block_maps, LinesOK, LinksOK, Within, Before, FirstOK, Held, Fresh, Empty,
                    MapsOK, HistoryOK, Items!PartsStayHome, Items!Home
<1>5. CliOK'
  BY <1>2 DEF CliOK
<1>6. QED
  BY <1>3, <1>4, <1>5 DEF HomeInv

(* A line of any kind is read.                                              *)
LEMMA ReadStep ==
    ASSUME Bounds, HomeInv, Items!ReadLine PROVE HomeInv'
BY MessageKept, TextKept, ToolKept, ResultOfKept, DeltaKept, StopKept, EndKept, LineRead DEF
   Items!ReadLine

(* The types and PartsStayHome, of every instance of the module.            *)
THEOREM PartsAlwaysHome ==
    ASSUME Bounds PROVE Items!Spec => [](Items!TypeOK /\ Items!PartsStayHome)
<1>1. Items!Init => HomeInv
  <2>1. SUFFICES ASSUME Items!Init PROVE HomeInv
    OBVIOUS
  <2>2. Items!TypeOK
    <3>1. 0 \in 0..MaxPrompts /\ 0 \in 0..MaxMessages /\ 0 \in 0..MaxIndex + 1 /\ 0 <= MaxBlocks
      BY DEF Bounds
    <3>2. /\ block_items \in [Items!Indices -> Nat] /\ block_item_payloads \in [Items!Indices -> Nat]
          /\ block_tool_use_ids \in [Items!Indices -> Items!Blocks \cup {Items!NoBlock}]
      BY <2>1 DEF Items!Init, Items!NoItem
    <3>3. tool_items \in [Items!Blocks -> [item : Nat, text : Nat]]
      BY <2>1 DEF Items!Init, Items!NoInfo, Items!NoItem
    <3>4. /\ stdout \in Seq(Items!Line) /\ items \in Seq(Items!Item)
          /\ blocks \in Seq(Items!Block) /\ Len(blocks) = 0
      BY <2>1 DEF Items!Init
    <3>5. /\ prompts \in 0..MaxPrompts /\ cut \subseteq Items!Blocks
          /\ turn_started \in BOOLEAN /\ turn_has_content \in BOOLEAN
      BY <2>1, <3>1 DEF Items!Init
    <3>6. cli \in [prompt : 0..MaxPrompts, busy : BOOLEAN, messages : 0..MaxMessages,
                   open : Items!Blocks \cup {Items!NoBlock}, index : 0..MaxIndex + 1]
      BY <2>1, <3>1 DEF Items!Init
    <3>7. QED
      BY <3>1, <3>2, <3>3, <3>4, <3>5, <3>6 DEF Items!TypeOK
  <2>3. stdout = <<>> /\ items = <<>> /\ blocks = <<>> /\ cli.open = Items!NoBlock /\ ~cli.busy
    BY <2>1 DEF Items!Init
  <2>4. \A n \in Items!Indices : block_items[n] = Items!NoItem
    BY <2>1 DEF Items!Init
  <2>5. \A t \in Items!Blocks : tool_items[t].item = Items!NoItem
    BY <2>1 DEF Items!Init, Items!NoInfo
  <2>6. QED
    BY <2>2, <2>3, <2>4, <2>5
       DEF HomeInv, LinesOK, LinksOK, FirstOK, CliOK, MapsOK, HistoryOK, Items!PartsStayHome
<1>2. HomeInv /\ [Items!Next]_(Items!vars) => HomeInv'
  <2>1. SUFFICES ASSUME HomeInv, [Items!Next]_(Items!vars) PROVE HomeInv'
    OBVIOUS
  <2>2. CASE Items!Next
    BY <2>1, <2>2, InstallStep, ReadStep, TakeStep, MessageStep, OpenStep, WriteStep, CloseStep,
       EndStep DEF Items!Next
  <2>3. CASE UNCHANGED Items!vars
    BY <2>1, <2>3
       DEF Items!vars, Items!block_maps, Items!written, HomeInv, Items!TypeOK, LinesOK, LinksOK, Within,
           Before, FirstOK,
           Held, Fresh, Empty, CliOK, MapsOK, HistoryOK, Items!PartsStayHome, Items!Home
  <2>4. QED
    BY <2>1, <2>2, <2>3
<1>3. HomeInv => Items!TypeOK /\ Items!PartsStayHome
  BY DEF HomeInv
<1>4. QED
  BY <1>1, <1>2, <1>3, PTL DEF Items!Spec
=============================================================================
