---------------------------- MODULE ServerAccess ----------------------------
(***************************************************************************)
(* How a desktop shares its backend and how a phone reaches it.  On the      *)
(* desktop, the Server section of the settings asks for Tailscale, for the    *)
(* command that starts the daemon and for the daemon itself, in an effect    *)
(* that its own answers run again (useSettingsServerSection).  On a phone,   *)
(* the wizard stays in front until a server was reached                      *)
(* (useMobileServerSetup), and the section adds, tests and deletes servers    *)
(* (SettingsServerSection).                                                 *)
(***************************************************************************)
EXTENDS Naturals, FiniteSets, Sequences, Bags
LOCAL INSTANCE BagsExt

CONSTANTS
    Hosts,          \* host and token of a server, NoHost if none is configured
    NoHost,
    None,
    MaxSteps        \* bound: what the user does

VARIABLES
    mobile,         \* isMobilePlatform
    host,           \* the active server: of the settings, and as typed in the section
    saves,          \* queueSaveSettings: saves of the settings, one at a time
    busy,           \* tailscaleStatusBusy, tailscaleCommandBusy, tcpDaemonBusyAction, mobileConnectBusy
    shown,          \* what the answers left
    calls,          \* bag of calls under way
    wizard,         \* useMobileServerSetup
    form,           \* the form that adds a server
    world,          \* the daemon, the servers that can be reached
    noted           \* history

vars == <<mobile, host, saves, busy, shown, calls, wizard, form, world, noted>>

Parts == {"tail", "preview", "runner", "test"}
Runner == {"start", "stop", "status"}
Actions == Runner \cup {"tail", "preview", "test", "check", "old check", "wizard", "add"}
Values == Hosts \cup {"running", "stopped", "failed", "found"}
Calls == [do : Actions, of : Hosts, answer : Values \cup {None}]
Afters == {None, "test", "tested", "wizard", "wizarded", "add", "added", "undo"}
Saves == [host : Hosts, after : Afters, of : Hosts]

TypeOK ==
    /\ mobile \in BOOLEAN
    /\ host \in [active : Hosts, draft : Hosts]
    /\ saves \in Seq(Saves)
    /\ busy \in [Parts -> Actions \cup {None}]
    /\ shown \in [tail : {None, "found", "failed"}, preview : Hosts \cup {None},
                  runner : {None, "running", "stopped", "failed"}, test : Hosts \cup {None, "failed"}]
    /\ BagToSet(calls) \subseteq Calls
    /\ wizard \in [ready : BOOLEAN, checking : BOOLEAN, busy : BOOLEAN, dismissed : BOOLEAN, draft : Hosts]
    /\ form \in [open : BOOLEAN, busy : BOOLEAN, back : Hosts]
    /\ world \in [daemon : {"running", "stopped"}, reach : SUBSET Hosts]
    /\ noted.steps \in 0..MaxSteps

Call(do, of) == [do |-> do, of |-> of, answer |-> None]
UnderWay(cs, do) == {c \in BagToSet(cs) : c.do \in do}
Step == noted.steps < MaxSteps
Stepped == [noted EXCEPT !.steps = @ + 1]
Save(h, after, of) == saves' = Append(saves, [host |-> h, after |-> after, of |-> of])

----------------------------------------------------------------------------
(* The effect of the section: the command and the daemon are asked for.       *)
(* Tailscale is asked for when neither its status, nor its failure, nor its  *)
(* busy is set: when the section is mounted.                                *)
Asked == SetToBag({Call("preview", NoHost), Call("status", NoHost)})
SectionEffect(cs, b, n) ==
    /\ calls' = cs (+) Asked
    /\ busy' = [b EXCEPT !["preview"] = "preview", !["runner"] = "status"]
    /\ noted' = [n EXCEPT !.overlap = @ \/ UnderWay(cs, Runner) # {}]
(* handleRefreshTailscaleStatus, handleRefreshTailscaleCommandPreview and    *)
(* runTcpDaemonAction by their buttons.                                     *)
TailscaleButton(part) == ~mobile /\ busy[part] = None
DaemonButton == ~mobile /\ busy["runner"] = None
DetectTailscale ==
    /\ Step /\ TailscaleButton("tail") /\ host' = host
    /\ SectionEffect(BagAdd(calls, Call("tail", NoHost)), [busy EXCEPT !["tail"] = "tail"], Stepped)
    /\ shown' = IF shown.tail = "failed" THEN [shown EXCEPT !.tail = None] ELSE shown
    /\ UNCHANGED <<mobile, saves, wizard, form, world>>
RefreshCommand ==
    /\ Step /\ TailscaleButton("preview")
    /\ calls' = BagAdd(calls, Call("preview", NoHost)) /\ busy' = [busy EXCEPT !["preview"] = "preview"]
    /\ noted' = Stepped
    /\ UNCHANGED <<mobile, host, saves, shown, wizard, form, world>>
RunTcpDaemonAction(do) ==
    /\ Step /\ DaemonButton
    /\ calls' = BagAdd(calls, Call(do, NoHost)) /\ busy' = [busy EXCEPT !["runner"] = do]
    /\ noted' = [Stepped EXCEPT !.overlap = @ \/ UnderWay(calls, Runner) # {}]
    /\ UNCHANGED <<mobile, host, saves, shown, wizard, form, world>>

(* The backend handles a call.                                              *)
Handle(c) ==
    LET to(v) == BagAdd(BagRemove(calls, c), [c EXCEPT !.answer = v])
    IN  /\ c.answer = None
        /\ \/ c.do = "preview" /\ calls' = to(host.active) /\ world' = world
           \/ /\ c.do \in {"start", "stop"}
              /\ world' = [world EXCEPT !.daemon = IF c.do = "start" THEN "running" ELSE "stopped"]
              /\ calls' = to(world'.daemon)
           \/ c.do \in Runner /\ calls' = to("failed") /\ world' = world
           \/ c.do = "status" /\ calls' = to(world.daemon) /\ world' = world
           \/ /\ c.do \in {"test", "check", "old check", "wizard", "add"}
              /\ calls' = to(IF host.active \in world.reach THEN host.active ELSE "failed") /\ world' = world
    /\ UNCHANGED <<mobile, host, saves, busy, shown, wizard, form, noted>>

TailAnswered(c) ==
    /\ c.do = "tail" /\ host' = host
    /\ \E v \in {"found", "failed"} : shown' = [shown EXCEPT !.tail = v]
    /\ SectionEffect(BagRemove(calls, c), [busy EXCEPT !["tail"] = None], noted)
    /\ UNCHANGED <<mobile, saves, wizard, form, world>>
PreviewAnswered(c) ==
    /\ c.do = "preview" /\ c.answer # None
    /\ shown' = [shown EXCEPT !.preview = c.answer] /\ busy' = [busy EXCEPT !["preview"] = None]
    /\ calls' = BagRemove(calls, c)
    /\ noted' = [noted EXCEPT !.raced = c.answer # host.active]
    /\ UNCHANGED <<mobile, host, saves, wizard, form, world>>
RunnerAnswered(c) ==
    /\ c.do \in Runner /\ c.answer # None
    /\ shown' = [shown EXCEPT !.runner = c.answer] /\ busy' = [busy EXCEPT !["runner"] = None]
    /\ calls' = BagRemove(calls, c)
    /\ noted' = [noted EXCEPT !.overlap = @ /\ UnderWay(calls', Runner) # {}, !.crossed = noted.overlap]
    /\ UNCHANGED <<mobile, host, saves, wizard, form, world>>

----------------------------------------------------------------------------
(* The effect of the wizard, after any change of settings or of its busy:     *)
(* the check before is not the active one any more, a configured server is   *)
(* checked anew.                                                            *)
Aged(cs) ==
    LET active == UnderWay(cs, {"check"})
    IN  IF active = {} THEN cs
        ELSE LET c == CHOOSE x \in active : TRUE
             IN  BagAdd(BagRemove(cs, c), [c EXCEPT !.do = "old check"])
CheckEffect(cs, w, h) ==
    IF w.busy THEN calls' = Aged(cs) /\ wizard' = w
    ELSE IF h = NoHost THEN calls' = Aged(cs) /\ wizard' = [w EXCEPT !.ready = FALSE, !.checking = FALSE]
    ELSE calls' = BagAdd(Aged(cs), Call("check", h)) /\ wizard' = [w EXCEPT !.checking = TRUE]

(* A host and token are committed.  The settings change when the save is     *)
(* answered: drafts follow, what was told of a test is cleared if the draft   *)
(* changed, and both effects run, the section's only for another token.      *)
Valid(h) == h # NoHost
Testing(h) == h # host.draft /\ busy["test"] # None
Commit(h) ==
    /\ Step /\ Valid(h) /\ h # host.active
    /\ noted' = [Stepped EXCEPT !.edited = @ \/ Testing(h)]
    /\ host' = [host EXCEPT !.draft = h] /\ Save(h, None, h)
    /\ shown' = [shown EXCEPT !.test = IF h = host.draft THEN @ ELSE None]
    /\ UNCHANGED <<mobile, busy, calls, wizard, form, world>>
Reaches(h, cs, w, s, b) ==
    /\ host' = [active |-> h, draft |-> h]
    /\ shown' = [s EXCEPT !.test = IF h = host.draft THEN @ ELSE None]
    /\ IF mobile
       THEN /\ CheckEffect(cs, [w EXCEPT !.draft = IF h = host.active THEN @ ELSE h], h)
            /\ noted' = [noted EXCEPT !.edited = @ \/ Testing(h)] /\ busy' = b
       ELSE /\ wizard' = w
            /\ IF h = host.active THEN calls' = cs /\ noted' = noted /\ busy' = b
               ELSE SectionEffect(cs, b, noted)
(* What awaited the save goes on: a test, the wizard or the form calls the    *)
(* backend; one that noted its success tells it, whether this save succeeds. *)
Told(s, after) == IF after.after = "tested" THEN [s EXCEPT !.test = after.of] ELSE s
Ended(b, after) == IF after.after = "tested" THEN [b EXCEPT !["test"] = None] ELSE b
Success(w, after) ==
    IF after.after \in {"tested", "added"} THEN [w EXCEPT !.ready = TRUE, !.dismissed = FALSE]
    ELSE IF after.after = "wizarded" THEN [w EXCEPT !.busy = FALSE]
    ELSE w
SaveAnswered ==
    /\ saves # <<>> /\ saves' = Tail(saves)
    /\ LET s == Head(saves)
           cs == IF s.after \in {"test", "wizard", "add"} THEN BagAdd(calls, Call(s.after, s.host)) ELSE calls
       IN  /\ Reaches(s.host, cs, Success(wizard, s), Told(shown, s), Ended(busy, s))
           /\ form' = IF s.after \in {"added", "undo"} THEN [form EXCEPT !.open = s.after = "undo", !.busy = FALSE]
                      ELSE form
    /\ UNCHANGED <<mobile, world>>
SaveFailed ==
    /\ saves # <<>>
    /\ LET s == Head(saves)
           test == s.after = "test"
       IN  /\ saves' = IF s.after # "added" THEN Tail(saves)
                       ELSE Append(Tail(saves), [host |-> form.back, after |-> "undo", of |-> form.back])
           /\ IF s.after \in {"wizard", "wizarded"}
              THEN CheckEffect(calls, [wizard EXCEPT !.ready = FALSE, !.busy = FALSE], host.active)
              ELSE calls' = calls /\ wizard' = IF s.after = "tested" THEN Success(wizard, s) ELSE wizard
           /\ busy' = IF test THEN [busy EXCEPT !["test"] = None] ELSE Ended(busy, s)
           /\ shown' = IF test THEN [shown EXCEPT !.test = "failed"] ELSE Told(shown, s)
           /\ form' = IF s.after \in {"add", "undo"} THEN [form EXCEPT !.busy = FALSE] ELSE form
    /\ noted' = [noted EXCEPT !.late = @ \/ (Head(saves).after = "tested" /\ Head(saves).of # host.active)]
    /\ UNCHANGED <<mobile, host, world>>

(* runConnectivityCheck answers: ready follows, whichever check it is.       *)
CheckAnswered(c) ==
    /\ c.do \in {"check", "old check"} /\ c.answer # None
    /\ calls' = BagRemove(calls, c)
    /\ wizard' = [wizard EXCEPT !.ready = c.answer # "failed", !.checking = @ /\ c.do # "check"]
    /\ noted' = [noted EXCEPT !.late = c.do = "old check" /\ UnderWay(calls', {"check"}) = {}]
    /\ UNCHANGED <<mobile, host, saves, busy, shown, form, world>>

WizardShown == mobile /\ ~wizard.ready /\ ~wizard.dismissed
InWizard == WizardShown /\ ~wizard.busy /\ ~wizard.checking
TypeInWizard(h) ==
    /\ Step /\ InWizard /\ h # wizard.draft /\ wizard' = [wizard EXCEPT !.draft = h]
    /\ noted' = Stepped
    /\ UNCHANGED <<mobile, host, saves, busy, shown, calls, form, world>>
CloseWizard ==
    /\ WizardShown /\ wizard' = [wizard EXCEPT !.dismissed = TRUE]
    /\ UNCHANGED <<mobile, host, saves, busy, shown, calls, form, world, noted>>
OnConnectTest ==
    /\ Step /\ InWizard /\ noted' = Stepped
    /\ IF wizard.draft = NoHost
       THEN wizard' = [wizard EXCEPT !.ready = FALSE] /\ UNCHANGED <<saves, calls>>
       ELSE /\ Save(wizard.draft, "wizard", wizard.draft)
            /\ CheckEffect(calls, [wizard EXCEPT !.busy = TRUE, !.dismissed = FALSE], host.active)
    /\ UNCHANGED <<mobile, host, busy, shown, form, world>>
(* The end of onConnectTest: a server that was reached is noted in the        *)
(* settings it saved; the end of its busy checks once more.                  *)
WizardAnswered(c) ==
    /\ c.do = "wizard" /\ c.answer # None
    /\ IF c.answer # "failed"
       THEN /\ wizard' = [wizard EXCEPT !.ready = TRUE] /\ calls' = BagRemove(calls, c)
            /\ Save(c.of, "wizarded", c.of)
       ELSE /\ CheckEffect(BagRemove(calls, c), [wizard EXCEPT !.busy = FALSE, !.ready = FALSE], host.active)
            /\ saves' = saves
    /\ UNCHANGED <<mobile, host, busy, shown, form, world, noted>>

(* The test of the section saves what is typed, and its outcome is cleared    *)
(* when something else is typed.                                            *)
TypeInSection(h) ==
    /\ Step /\ mobile /\ h # host.draft /\ host' = [host EXCEPT !.draft = h]
    /\ shown' = [shown EXCEPT !.test = None] /\ noted' = [Stepped EXCEPT !.edited = @ \/ Testing(h)]
    /\ UNCHANGED <<mobile, saves, busy, calls, wizard, form, world>>
TestButton == mobile /\ busy["test"] = None
HandleMobileConnectTest ==
    /\ Step /\ TestButton /\ noted' = [Stepped EXCEPT !.edited = FALSE]
    /\ shown' = [shown EXCEPT !.test = IF host.draft = NoHost THEN "failed" ELSE None]
    /\ IF host.draft = NoHost THEN UNCHANGED <<busy, saves, calls>>
       ELSE /\ busy' = [busy EXCEPT !["test"] = "test"]
            /\ IF host.draft = host.active
               THEN calls' = BagAdd(calls, Call("test", host.draft)) /\ saves' = saves
               ELSE calls' = calls /\ Save(host.draft, "test", host.draft)
    /\ UNCHANGED <<mobile, host, wizard, form, world>>
TestAnswered(c) ==
    /\ c.do = "test" /\ c.answer # None /\ calls' = BagRemove(calls, c)
    /\ IF c.answer # "failed" THEN Save(host.active, "tested", c.answer) /\ UNCHANGED <<busy, shown>>
       ELSE /\ busy' = [busy EXCEPT !["test"] = None] /\ shown' = [shown EXCEPT !.test = "failed"]
            /\ saves' = saves
    /\ UNCHANGED <<mobile, host, wizard, form, world, noted>>

----------------------------------------------------------------------------
(* The form that adds a server stays open while it connects; the settings go  *)
(* back to those before it if the server is not reached.                     *)
FormButtons == form.open /\ ~form.busy
OpenAddRemoteModal ==
    /\ mobile /\ ~form.open /\ form' = [form EXCEPT !.open = TRUE]
    /\ UNCHANGED <<mobile, host, saves, busy, shown, calls, wizard, world, noted>>
CloseAddRemoteModal ==
    /\ FormButtons /\ form' = [form EXCEPT !.open = FALSE]
    /\ UNCHANGED <<mobile, host, saves, busy, shown, calls, wizard, world, noted>>
HandleAddRemoteConfirm(h) ==
    /\ Step /\ Valid(h) /\ FormButtons /\ form' = [form EXCEPT !.busy = TRUE, !.back = host.active]
    /\ Save(h, "add", h) /\ noted' = Stepped
    /\ UNCHANGED <<mobile, host, busy, shown, calls, wizard, world>>
AddAnswered(c) ==
    /\ c.do = "add" /\ c.answer # None /\ calls' = BagRemove(calls, c)
    /\ IF c.answer # "failed" THEN Save(c.of, "added", c.of) ELSE Save(form.back, "undo", c.of)
    /\ UNCHANGED <<mobile, host, busy, shown, wizard, form, world, noted>>

(* The section was mounted and the answers to its first calls came.          *)
Idle == [p \in Parts |-> None]
Init ==
    /\ mobile \in BOOLEAN
    /\ \E h \in Hosts :
          /\ host = [active |-> h, draft |-> h] /\ form = [open |-> FALSE, busy |-> FALSE, back |-> h]
          /\ wizard = [ready |-> ~mobile, checking |-> mobile /\ h # NoHost, busy |-> FALSE, dismissed |-> FALSE,
                       draft |-> h]
          /\ calls = IF mobile /\ h # NoHost THEN SetToBag({Call("check", h)}) ELSE EmptyBag
          /\ \E tail \in IF mobile THEN {"found"} ELSE {"found", "failed"} :
                shown = [tail |-> tail, preview |-> IF mobile THEN None ELSE h,
                         runner |-> IF mobile THEN None ELSE "stopped", test |-> None]
    /\ busy = Idle /\ saves = <<>>
    /\ \E up \in IF mobile THEN Hosts \ {NoHost} ELSE {NoHost} : world = [daemon |-> "stopped", reach |-> {up} \ {NoHost}]
    /\ noted = [steps |-> 0, overlap |-> FALSE, crossed |-> FALSE, raced |-> FALSE, late |-> FALSE, edited |-> FALSE]

Next ==
    \/ DetectTailscale \/ RefreshCommand \/ CloseWizard \/ OnConnectTest \/ HandleMobileConnectTest
    \/ OpenAddRemoteModal \/ CloseAddRemoteModal \/ SaveAnswered \/ SaveFailed
    \/ \E do \in Runner : RunTcpDaemonAction(do)
    \/ \E h \in Hosts : Commit(h) \/ TypeInWizard(h) \/ TypeInSection(h) \/ HandleAddRemoteConfirm(h)
    \/ \E c \in BagToSet(calls) :
          \/ Handle(c) \/ TailAnswered(c) \/ PreviewAnswered(c) \/ RunnerAnswered(c)
          \/ CheckAnswered(c) \/ WizardAnswered(c) \/ TestAnswered(c) \/ AddAnswered(c)

Spec == Init /\ [][Next]_vars

----------------------------------------------------------------------------
(* Once the calls of the section are answered, no button is held back; the    *)
(* daemon is shown as it is, unless its calls failed or a call was under way  *)
(* when another was begun; the command is that of the token of the settings, *)
(* unless an older answer came last.  Tailscale is never asked twice at once. *)
Runs == UnderWay(calls, Runner)
SectionSettles ==
    /\ ~mobile /\ BagCardinality(calls) = 0 => busy = Idle
    /\ shown.tail = None => busy["tail"] # None
    /\ ~noted.overlap => (busy["runner"] # None <=> Runs # {})
    /\ Runs = {} /\ ~noted.crossed => shown.runner \in {None, "failed", world.daemon}
    /\ UnderWay(calls, {"preview"}) = {} /\ ~noted.raced => shown.preview \in {None, host.active}
    /\ \A c \in UnderWay(calls, {"tail"}) : calls[c] = 1
    /\ Cardinality(UnderWay(calls, {"tail"})) <= 1 /\ (busy["tail"] # None <=> UnderWay(calls, {"tail"}) # {})

(* Once all calls and saves are answered the wizard does not wait, and is in  *)
(* front only while the server of the settings is not reached; but for the   *)
(* answer of an older check that comes last.                                *)
ReadyIsReached ==
    mobile /\ BagCardinality(calls) = 0 /\ saves = <<>> =>
        /\ ~wizard.checking /\ ~wizard.busy
        /\ ~noted.late /\ wizard.draft # NoHost => (wizard.ready <=> host.active \in world.reach)

(* What a test of the section told is of the server typed in it, unless it    *)
(* was typed while the test was under way; a busy form is open and exactly    *)
(* one call or save of it is under way; the test is busy while it runs.       *)
FormCalls == UnderWay(calls, {"add"})
FormSaves == {i \in DOMAIN saves : saves[i].after \in {"add", "added", "undo"}}
TestIsOfItsServer ==
    /\ shown.test \notin {None, "failed"} /\ ~noted.edited => shown.test = host.draft
    /\ form.busy => form.open /\ Cardinality(FormCalls) + Cardinality(FormSaves) = 1
    /\ busy["test"] # None <=> \/ UnderWay(calls, {"test"}) # {}
                              \/ \E i \in DOMAIN saves : saves[i].after \in {"test", "tested"}
=============================================================================
