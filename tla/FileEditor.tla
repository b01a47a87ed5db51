----------------------------- MODULE FileEditor -----------------------------
(***************************************************************************)
(* The editor of one file of what is selected: AGENTS.md of a workspace,    *)
(* the global AGENTS.md and config.toml (useFileEditor, FileEditorCard).    *)
(* Reads and writes are numbered together; an answer counts if its number   *)
(* is the last and its key is the selected one.                            *)
(***************************************************************************)
EXTENDS Naturals, FiniteSets

CONSTANTS
    Keys, None,     \* workspaces; None when none is selected
    Versions,       \* texts of each file
    MaxRequests, MaxSteps  \* bounds: reads and writes; switches and edits

VARIABLES
    key,        \* the prop, and latestKeyRef
    content, loaded,    \* state.content and lastLoadedContentRef
    dirty,      \* isDirty, recomputed only when the content changes
    loading, saving,
    request, inFlight,  \* requestIdRef, inFlightRef
    calls,      \* reads and writes under way
    file,       \* history and backend: what each file holds
    behind,     \* history: typed back to what was loaded while a save was under way,
                \* or read before a write that was asked for earlier
    steps

vars == <<key, content, loaded, dirty, loading, saving, request, inFlight, calls, file, behind, steps>>

Texts == Keys \X Versions
Blank == <<None, 0>>
Calls == [kind : {"read", "write"}, key : Keys, id : 1..MaxRequests, text : Texts \cup {Blank},
          step : {"asked", "done", "failed"}]

TypeOK ==
    /\ key \in Keys \cup {None}
    /\ content \in Texts \cup {Blank} /\ loaded \in Texts \cup {Blank}
    /\ {dirty, loading, saving, inFlight, behind} \subseteq BOOLEAN
    /\ request \in 0..MaxRequests /\ calls \subseteq Calls
    /\ file \in [Keys -> Texts] /\ steps \in 0..MaxSteps

----------------------------------------------------------------------------
(* A new content recomputes isDirty; the same one leaves it.                *)
Shows(text) ==
    /\ content' = text
    /\ dirty' = IF text = content THEN dirty ELSE text # loaded'

(* An answer of the last request, for what is still selected.               *)
Current(c) == c.id = request /\ c.key = key

Asks(kind, k, n, text) ==
    [kind |-> kind, key |-> k, id |-> n, text |-> text, step |-> "asked"]

(* The effect on the key: everything is forgotten and the file is read.     *)
Switch(k) ==
    /\ steps < MaxSteps /\ steps' = steps + 1 /\ k # key
    /\ request < MaxRequests
    /\ key' = k /\ loaded' = Blank /\ Shows(Blank)
    /\ saving' = FALSE /\ behind' = FALSE
    /\ request' = request + 1
    /\ loading' = (k # None) /\ inFlight' = (k # None)
    /\ calls' = IF k = None THEN calls ELSE calls \cup {Asks("read", k, request', Blank)}
    /\ UNCHANGED file

(* refresh, by its button.                                                  *)
Refresh ==
    /\ key # None /\ ~loading /\ ~saving /\ ~inFlight /\ request < MaxRequests
    /\ request' = request + 1 /\ inFlight' = TRUE /\ loading' = TRUE
    /\ calls' = calls \cup {Asks("read", key, request', Blank)}
    /\ UNCHANGED <<key, content, loaded, dirty, saving, file, behind, steps>>

(* setContent: the text can be edited while it is being saved.              *)
Type(n) ==
    /\ steps < MaxSteps /\ steps' = steps + 1 /\ key # None /\ ~loading
    /\ UNCHANGED <<key, loaded, loading, saving, request, inFlight, calls, file>>
    /\ Shows(<<key, n>>)
    /\ behind' = (behind \/ (saving /\ <<key, n>> = loaded))

(* save, by its button.                                                     *)
Save ==
    /\ key # None /\ ~loading /\ ~saving /\ dirty /\ request < MaxRequests
    /\ request' = request + 1 /\ saving' = TRUE
    /\ calls' = calls \cup {Asks("write", key, request', content)}
    /\ UNCHANGED <<key, content, loaded, dirty, loading, inFlight, file, behind, steps>>

(* The backend reads or writes, or fails.                                   *)
Done(c) ==
    /\ c.step = "asked"
    /\ IF c.kind = "read"
       THEN calls' = (calls \ {c}) \cup {[c EXCEPT !.step = "done", !.text = file[c.key]]} /\ UNCHANGED file
            /\ UNCHANGED behind
       ELSE /\ calls' = (calls \ {c}) \cup {[c EXCEPT !.step = "done"]}
            /\ file' = [file EXCEPT ![c.key] = c.text]
            /\ behind' = (behind \/ (c.key = key /\ ~Current(c)))
    /\ UNCHANGED <<key, content, loaded, dirty, loading, saving, request, inFlight, steps>>
Fails(c) ==
    /\ c.step = "asked" /\ steps < MaxSteps /\ steps' = steps + 1
    /\ calls' = (calls \ {c}) \cup {[c EXCEPT !.step = "failed"]}
    /\ UNCHANGED <<key, content, loaded, dirty, loading, saving, request, inFlight, file, behind>>

(* refresh's answer; one that is too old still frees inFlightRef.           *)
ReadAnswered(c) ==
    /\ c.kind = "read" /\ c.step # "asked"
    /\ calls' = calls \ {c} /\ inFlight' = FALSE
    /\ CASE Current(c) /\ c.step = "done" ->
              /\ loaded' = c.text /\ Shows(c.text)
              /\ loading' = FALSE /\ saving' = FALSE /\ behind' = (c.text # file[key])
         [] Current(c) /\ c.step = "failed" ->
              loading' = FALSE /\ UNCHANGED <<loaded, content, dirty, saving, behind>>
         [] OTHER -> UNCHANGED <<loaded, content, dirty, loading, saving, behind>>
    /\ UNCHANGED <<key, request, file, steps>>

(* save's answer: isDirty is not looked at again.                           *)
WriteAnswered(c) ==
    /\ c.kind = "write" /\ c.step # "asked"
    /\ calls' = calls \ {c}
    /\ saving' = (saving /\ ~Current(c))
    /\ loaded' = IF Current(c) /\ c.step = "done" THEN c.text ELSE loaded
    /\ UNCHANGED <<key, content, dirty, loading, request, inFlight, file, behind, steps>>

Init ==
    /\ key = None /\ content = Blank /\ loaded = Blank /\ dirty = FALSE
    /\ loading = FALSE /\ saving = FALSE /\ request = 0 /\ inFlight = FALSE
    /\ calls = {} /\ file = [k \in Keys |-> <<k, 0>>] /\ behind = FALSE /\ steps = 0

Next ==
    \/ \E k \in Keys \cup {None} : Switch(k)
    \/ Refresh \/ Save \/ \E n \in Versions : Type(n)
    \/ \E c \in calls : Done(c) \/ Fails(c) \/ ReadAnswered(c) \/ WriteAnswered(c)

Spec == Init /\ [][Next]_vars

----------------------------------------------------------------------------
(* What is shown, and what was ever written, belongs to its file.           *)
TextsStayHome ==
    /\ content = Blank \/ content[1] = key
    /\ \A k \in Keys : file[k][1] = k

(* The buttons wait only for an answer that is still to come.               *)
WaitsForAnAnswer ==
    /\ loading => \E c \in calls : c.kind = "read" /\ Current(c)
    /\ saving => \E c \in calls : c.kind = "write" /\ Current(c)

(* A text that may not be saved because it is not dirty is what the file    *)
(* holds, unless it was typed back during a save (isDirty is kept), or the  *)
(* file was left during one and read again before it was written.          *)
CleanIsSaved ==
    calls = {} /\ content # Blank /\ ~dirty /\ ~behind => content = file[key]

(* What every step keeps, of which the first two properties are part: only  *)
(* a text of the file is ever dirty, written or read.                       *)
AnyCalls == [kind : {"read", "write"}, key : Keys, id : Nat, text : Texts \cup {Blank},
             step : {"asked", "done", "failed"}]
IInv ==
    /\ key \in Keys \cup {None} /\ request \in Nat /\ calls \subseteq AnyCalls
    /\ content \in Texts \cup {Blank} /\ loaded \in Texts \cup {Blank}
    /\ dirty \in BOOLEAN /\ behind \in BOOLEAN /\ loading \in BOOLEAN /\ saving \in BOOLEAN
    /\ file \in [Keys -> Texts]
    /\ TextsStayHome /\ WaitsForAnAnswer
    /\ content = Blank => ~dirty
    /\ \A c \in calls : c.kind = "write" \/ c.step = "done" => c.text \in Texts /\ c.text[1] = c.key

(* Numbers are used once, and the save that is under way is the only write  *)
(* that counts: until it is answered the text is dirty or known to be       *)
(* behind, and but for it what was loaded is what the file holds.           *)
CurrentWrite(c) == c.kind = "write" /\ Current(c)
SavedInv ==
    /\ \A c \in calls : c.id <= request /\ \A d \in calls : c.id = d.id => c = d
    /\ \A c \in calls : CurrentWrite(c) => saving /\ (dirty \/ behind)
    /\ content # Blank /\ ~dirty /\ ~behind => content = loaded
    /\ \A c \in calls : CurrentWrite(c) /\ c.step = "done" /\ ~behind => c.text = file[key]
    /\ loaded # Blank /\ ~behind /\ (\A c \in calls : CurrentWrite(c) => c.step # "done") =>
          loaded = file[key]
=============================================================================
