------------------------------ MODULE AppsList ------------------------------
(***************************************************************************)
(* useApps: the apps the composer offers, of the active workspace and       *)
(* thread.  One request at a time; what is asked for meanwhile waits in     *)
(* pendingTarget, of which only the last is kept; a failure is tried again  *)
(* after a while; the server announces a changed list itself.               *)
(***************************************************************************)
EXTENDS Naturals

CONSTANTS
    Keys,      \* a workspace with a thread of it, or without one
    None,
    MaxRequests, MaxSwitches   \* bounds

VARIABLES
    props,    \* the key of workspace and thread, and whether apps are to be had for it
    apps,     \* what is shown: of which key, and whether it was ever loaded
    known,    \* appsByKey: the keys whose apps were loaded
    refs,     \* lastFetchedKey, visibleKey, inFlightKey, pendingTarget, retryTimer
    requests, switches

vars == <<props, apps, known, refs, requests, switches>>

TypeOK ==
    /\ props \in [key : Keys, available : BOOLEAN]
    /\ apps \in [of : Keys \cup {None}, loaded : BOOLEAN] /\ known \subseteq Keys
    /\ refs \in [last : Keys \cup {None}, visible : Keys \cup {None},
                 flight : Keys \cup {None}, pending : Keys \cup {None}, retry : BOOLEAN]
    /\ requests \in 0..MaxRequests /\ switches \in 0..MaxSwitches

----------------------------------------------------------------------------
(* executeFetch, from the refs r.                                          *)
ExecuteFetch(key, r) ==
    IF r.flight # None
    THEN refs' = [r EXCEPT !.pending = key] /\ UNCHANGED requests
    ELSE /\ requests < MaxRequests /\ requests' = requests + 1
         /\ refs' = [r EXCEPT !.flight = key]

Cleared ==
    /\ apps' = [of |-> None, loaded |-> FALSE]
    /\ refs' = [refs EXCEPT !.last = None, !.visible = None, !.pending = None, !.retry = FALSE]
    /\ UNCHANGED requests

(* The effect: what is known of the key at once, then the request.          *)
Effect(p, r) ==
    IF ~p.available THEN Cleared
    ELSE LET seen == [r EXCEPT !.visible = p.key]
         IN  /\ apps' = IF r.visible = p.key THEN apps
                        ELSE [of |-> p.key, loaded |-> p.key \in known]
             /\ IF r.last = p.key THEN refs' = seen /\ UNCHANGED requests
                ELSE ExecuteFetch(p.key, seen)

Switch(p) ==
    /\ p # props /\ switches < MaxSwitches /\ switches' = switches + 1
    /\ props' = p /\ Effect(p, refs)
    /\ UNCHANGED known

RefreshApps ==
    /\ IF props.available THEN ExecuteFetch(props.key, refs) /\ UNCHANGED apps ELSE Cleared
    /\ UNCHANGED <<props, known, switches>>

(* The target is still what the window looks at.                           *)
Wanted(key) == props.available /\ props.key = key

(* Mutant: what waits is forgotten when the request ends.                  *)
NextForgotten(r) == refs' = [r EXCEPT !.flight = None, !.pending = None] /\ UNCHANGED requests

(* finally: what waits is fetched now, if it is still looked at.           *)
NextFetched(r) ==
    LET free == [r EXCEPT !.flight = None]
    IN  IF r.pending \in {None, r.flight} THEN refs' = free /\ UNCHANGED requests
        ELSE IF r.pending = props.key THEN ExecuteFetch(r.pending, [free EXCEPT !.pending = None])
        ELSE refs' = [free EXCEPT !.pending = None] /\ UNCHANGED requests

Answered ==
    LET key == refs.flight
    IN  /\ key # None /\ known' = known \cup {key}
        /\ apps' = IF Wanted(key) THEN [of |-> key, loaded |-> TRUE] ELSE apps
        /\ NextFetched([refs EXCEPT !.visible = IF Wanted(key) THEN key ELSE @,
                                    !.last = key, !.retry = FALSE])
        /\ UNCHANGED <<props, switches>>

Failed ==
    /\ refs.flight # None
    /\ NextFetched([refs EXCEPT !.retry = @ \/ Wanted(refs.flight)])
    /\ UNCHANGED <<props, apps, known, switches>>

Retry ==
    /\ refs.retry /\ Effect(props, [refs EXCEPT !.retry = FALSE])
    /\ UNCHANGED <<props, known, switches>>

(* app/list/updated, of the thread looked at or of none.                   *)
Updated ==
    /\ props.available /\ known' = known \cup {props.key}
    /\ apps' = [of |-> props.key, loaded |-> TRUE]
    /\ refs' = [refs EXCEPT !.visible = props.key, !.last = props.key]
    /\ UNCHANGED <<props, requests, switches>>

----------------------------------------------------------------------------
Init ==
    /\ props \in [key : Keys, available : {FALSE}]
    /\ apps = [of |-> None, loaded |-> FALSE] /\ known = {}
    /\ refs = [last |-> None, visible |-> None, flight |-> None, pending |-> None,
               retry |-> FALSE]
    /\ requests = 0 /\ switches = 0

Next ==
    \/ \E p \in [key : Keys, available : BOOLEAN] : Switch(p)
    \/ RefreshApps \/ Answered \/ Failed \/ Retry \/ Updated

Spec == Init /\ [][Next]_vars

----------------------------------------------------------------------------
(* The apps shown are always those of the workspace and thread looked at,   *)
(* and once nothing is under way and no retry is due they have been loaded: *)
(* no sequence of switches during a request may lose the last one's.        *)
AppsAreOfTheThread ==
    props.available =>
        /\ apps.of = props.key
        /\ refs.flight = None /\ ~refs.retry => apps.loaded

(* What every step keeps: what is shown is of visibleKey, and the key       *)
(* looked at is known, asked for, next to be asked for, or due for a retry. *)
IInv ==
    /\ props \in [key : Keys, available : BOOLEAN]
    /\ apps \in [of : Keys \cup {None}, loaded : BOOLEAN]
    /\ refs \in [last : Keys \cup {None}, visible : Keys \cup {None},
                 flight : Keys \cup {None}, pending : Keys \cup {None}, retry : BOOLEAN]
    /\ apps.of = refs.visible
    /\ refs.visible = IF props.available THEN props.key ELSE None
    /\ refs.last # None => refs.last \in known
    /\ props.available /\ props.key \in known => apps.loaded
    /\ props.available /\ refs.flight = None /\ ~refs.retry => props.key \in known
    /\ props.available /\ refs.flight # None =>
          refs.flight = props.key \/ refs.pending = props.key \/ props.key \in known
=============================================================================
