---------------------------- MODULE ProtocolLab ----------------------------
(***************************************************************************)
(* The pages of the desktop application that act on other machines: the    *)
(* Protocol Lab with its scenario runs, and the confirmation dialogs it    *)
(* shares with the Fleet and Network pages.  An action is allowed by the   *)
(* SafetyContext of the moment (safety.rs); a destructive one is reviewed  *)
(* in a dialog first, which a change of the session must spoil.            *)
(*                                                                         *)
(* One scenario run is current.  A fixture plays back in a task; a live    *)
(* run is a child process that a blocking thread polls every 50 ms         *)
(* (scenario_process.rs).  start, cancel, wait and export each take the    *)
(* lock on the current run; the tasks of the page queue for it in order.   *)
(***************************************************************************)
EXTENDS Naturals, Sequences, SequencesExt, FiniteSets

CONSTANTS
  FleetCapabilities, NetworkCapabilities,  \* of the destructive operations
  Runtimes,          \* kinds of profile the operator chooses from
  Grants,            \* what a server may leave undegraded
  MaxRuns, MaxLabTaps, MaxContexts, MaxLabFaults

ASSUME LabAssumption ==
  /\ FleetCapabilities \subseteq {"rpc.exec", "rpc.reboot", "rpc.fleet_apply", "policy.update"}
  /\ NetworkCapabilities \subseteq
       {"network.link_close", "network.request_cancel", "network.resource_cancel"}
  /\ Runtimes \subseteq {"live", "embedded", "fixture"} /\ Runtimes # {}
  /\ {} \in Grants
  /\ {MaxRuns, MaxLabTaps, MaxContexts, MaxLabFaults} \subseteq Nat

VARIABLES
  context,       \* SafetyContext of the session, as last rendered
  route,         \* the page that is mounted
  dialog,        \* its pending confirmation
  submitted,     \* flips when a destructive action is carried out
  labRuns,       \* every run that was current, the last one is
  shownRun,      \* scenario.run in the stores
  asked,         \* tasks of the page that queue for the lock
  waiting,       \* runs a task waits for
  writing,       \* exports that are being written
  labTaps, contexts, labFaults

review  == <<context, route, dialog, submitted, contexts>>
labVars == <<review, labRuns, shownRun, asked, waiting, writing, labTaps, labFaults>>

NoRun == [run |-> 0, status |-> "none", exported |-> FALSE]
NoDialog == [action |-> "none"]

-----------------------------------------------------------------------------
(* What the session allows. *)

(* plane and requires_daemon_session follow from the kind of the action;
   capability "" is none (operate_session). *)
Operate(c)      == [session |-> TRUE, capability |-> c, external |-> FALSE, destructive |-> TRUE]
FixtureScenario == [session |-> TRUE, capability |-> "fixture.scenarios", external |-> FALSE,
                    destructive |-> FALSE]
LiveScenario    == [session |-> FALSE, capability |-> "", external |-> TRUE, destructive |-> TRUE]
EvidenceExport  == [session |-> FALSE, capability |-> "", external |-> FALSE,
                    destructive |-> FALSE]
ScenarioAction(profile) == IF profile = "fixture" THEN FixtureScenario ELSE LiveScenario

(* allowed: the operations and runtime capabilities that are not degraded. *)
Authorises(c, action) ==
  /\ action.external => c.runtime # "fixture"
  /\ action.session =>
       /\ c.connected /\ c.server # 0 /\ c.current
       /\ action.capability # "" => action.capability \in c.allowed

GenerationKey(c) == <<c.client, c.server>>

(* asks: what the Lab page does when it is confirmed, nothing for a command. *)
BeginConfirmation(action, asks) ==
  /\ Authorises(context, action)
  /\ dialog' = [action |-> action, asks |-> asks, key |-> GenerationKey(context), fresh |-> TRUE]

Confirms(c, d) ==
  d.key = GenerationKey(c) /\ Authorises(c, d.action)

Reviewable == FleetCapabilities \cup NetworkCapabilities \cup {"fixture.scenarios"}

LabInit ==
  /\ context = [runtime |-> CHOOSE r \in Runtimes : TRUE, client |-> 0, server |-> 1,
                connected |-> TRUE, current |-> TRUE, allowed |-> Reviewable]
  /\ route = "lab" /\ dialog = NoDialog /\ submitted = FALSE
  /\ labRuns = <<>> /\ shownRun = NoRun /\ asked = <<>> /\ waiting = {} /\ writing = {}
  /\ labTaps = 0 /\ contexts = 0 /\ labFaults = 0

Tap     == labTaps < MaxLabTaps /\ labTaps' = labTaps + 1
LabFault == labFaults < MaxLabFaults /\ labFaults' = labFaults + 1

Others == UNCHANGED <<labRuns, shownRun, asked, waiting, writing, labFaults>>

ContextIs(c) ==
  /\ c # context /\ contexts < MaxContexts /\ contexts' = contexts + 1
  /\ context' = c
  /\ dialog' = IF dialog = NoDialog THEN dialog ELSE [dialog EXCEPT !.fresh = FALSE]
  /\ UNCHANGED <<route, submitted, labTaps, labRuns, asked, waiting, writing, labFaults>>

NothingGranted(c) == [c EXCEPT !.server = 0, !.current = FALSE, !.allowed = {}]

(* A profile was chosen: the stores begin again, and forget the run on show. *)
SessionBegins ==
  /\ \E r \in Runtimes :
       ContextIs([NothingGranted(context) EXCEPT !.runtime = r, !.connected = FALSE,
                                                !.client = @ + 1])
  /\ shownRun' = NoRun
Connected == ContextIs([context EXCEPT !.connected = TRUE]) /\ UNCHANGED shownRun
SessionLost ==
  ContextIs([NothingGranted(context) EXCEPT !.connected = FALSE]) /\ UNCHANGED shownRun

(* A status of another generation first takes back what the one before granted. *)
StatusReported ==
  /\ \E s \in ({context.server} \ {0}) \cup {contexts + 2}, allowed \in Grants,
        new \in BOOLEAN :
       /\ new \/ allowed = {}
       /\ ContextIs(IF context.server \notin {0, s} THEN NothingGranted(context)
                    ELSE [context EXCEPT !.server = s, !.current = new, !.allowed = allowed])
  /\ UNCHANGED shownRun

-----------------------------------------------------------------------------
(* The pages.  Leaving a page drops its dialog. *)

Navigate(page) ==
  /\ page # route /\ Tap
  /\ route' = page /\ dialog' = NoDialog
  /\ UNCHANGED <<context, submitted, contexts>> /\ Others

Review(page, c) ==
  /\ route = page /\ dialog = NoDialog /\ Tap
  /\ BeginConfirmation(Operate(c), <<>>)
  /\ UNCHANGED <<context, route, submitted, contexts>> /\ Others

(* The device of the Fleet page.  The Network page: closing a link; cancelling an
   operation, which needs no capability, a request or a resource. *)
ReviewFleet   == \E c \in FleetCapabilities : Review("fleet", c)
ReviewLink    == "network.link_close" \in NetworkCapabilities /\ Review("network", "network.link_close")
ReviewCancel  ==
  \E c \in (NetworkCapabilities \ {"network.link_close"}) \cup {""} : Review("network", c)

(* The effect of the Network page: any change of the context resets its dialog. *)
NetworkEffect ==
  /\ route = "network" /\ dialog # NoDialog /\ ~dialog.fresh
  /\ dialog' = NoDialog
  /\ UNCHANGED <<context, route, submitted, contexts, labTaps>> /\ Others

Dismiss ==
  /\ dialog # NoDialog /\ dialog' = NoDialog
  /\ UNCHANGED <<context, route, submitted, contexts, labTaps>> /\ Others

StartOf(profile) == [is |-> "start", profile |-> profile]
CancelOf(i)      == [is |-> "cancel", run |-> i]
WaitOf(i)        == [is |-> "wait", run |-> i]
ExportOf(i)      == [is |-> "export", run |-> i]
MarkOf(i)        == [is |-> "mark", run |-> i]
Ask(request)     == asked' = Append(asked, request)
LabKeeps == UNCHANGED <<labRuns, shownRun, waiting, writing, labFaults>>

(* The Confirm button.  The dialog of the Fleet page stays when it is refused. *)
Confirm ==
  /\ dialog # NoDialog
  /\ IF Confirms(context, dialog)
     THEN /\ submitted' = ~submitted
          /\ asked' = asked \o dialog.asks
          /\ dialog' = NoDialog
     ELSE /\ UNCHANGED <<submitted, asked>>
          /\ dialog' = IF route = "fleet" THEN dialog ELSE NoDialog
  /\ UNCHANGED <<context, route, contexts, labTaps>> /\ LabKeeps

(* The buttons of the Lab page: asked at once, or reviewed if destructive. *)
Click(action, request) ==
  /\ route = "lab" /\ dialog = NoDialog /\ Tap
  /\ IF action.destructive THEN BeginConfirmation(action, <<request>>) /\ UNCHANGED asked
     ELSE Authorises(context, action) /\ Ask(request) /\ UNCHANGED dialog
  /\ UNCHANGED <<context, route, submitted, contexts>> /\ LabKeeps

IsTerminal(status) == status \in {"passed", "failed", "timed_out", "cancelled"}
ProfileOfShown == labRuns[shownRun.run].profile

ClickStart(profile) == Click(ScenarioAction(profile), StartOf(profile))
ClickCancel ==
  /\ shownRun.status = "running"
  /\ Click(ScenarioAction(ProfileOfShown), CancelOf(shownRun.run))
ClickRerun ==
  /\ IsTerminal(shownRun.status)
  /\ Click(ScenarioAction(ProfileOfShown), StartOf(ProfileOfShown))
ClickExport ==
  /\ IsTerminal(shownRun.status)
  /\ Click(EvidenceExport, ExportOf(shownRun.run))

-----------------------------------------------------------------------------
(* The tasks of the page, each atomic from the lock to the stores. *)

Current == Len(labRuns)
Shows(i) == [run |-> i, status |-> labRuns'[i].status, exported |-> labRuns'[i].exported]
UpdateShown(i) == shownRun' = IF shownRun.run = i THEN Shows(i) ELSE shownRun

Served(kind) == asked # <<>> /\ Head(asked).is = kind
Unqueue == asked' = Tail(asked)
Busy == Current # 0 /\ ~IsTerminal(labRuns[Current].status)

(* start, set_scenario_run, and the task that waits.  A live run may turn out
   to be unavailable. *)
NewRun(profile) ==
  [profile |-> profile, status |-> "running", exported |-> FALSE,
   worker |-> "queued", child |-> "none", signalled |-> FALSE, told |-> FALSE]

StartRun ==
  /\ Served("start") /\ ~Busy /\ Current < MaxRuns
  /\ labRuns' = Append(labRuns, NewRun(Head(asked).profile))
  /\ shownRun' = Shows(Current + 1)
  /\ asked' = Append(Tail(asked), WaitOf(Current + 1))
  /\ UNCHANGED <<review, waiting, writing, labTaps, labFaults>>
StartRefused ==
  /\ Served("start")
  /\ Busy \/ Head(asked).profile = "live" \/ Current = MaxRuns
  /\ Unqueue /\ UNCHANGED <<review, labRuns, shownRun, waiting, writing, labTaps, labFaults>>

(* A live run is told to stop; a fixture is cancelled at once. *)
CancelCurrent(i) ==
  IF labRuns[i].profile = "live"
  THEN [labRuns EXCEPT ![i].told = TRUE, ![i].status = "cancelling"]
  ELSE [labRuns EXCEPT ![i].status = "cancelled"]
CancelRun ==
  /\ Served("cancel") /\ Head(asked).run = Current /\ Busy
  /\ labRuns' = CancelCurrent(Current)
  /\ UpdateShown(Current)
  /\ Unqueue /\ UNCHANGED <<review, waiting, writing, labTaps, labFaults>>
CancelRefused ==
  /\ Served("cancel") /\ ~(Head(asked).run = Current /\ Busy)
  /\ Unqueue /\ UNCHANGED <<review, labRuns, shownRun, waiting, writing, labTaps, labFaults>>

(* wait: subscribe to the current run, then return what is terminal.  The
   channel keeps its last value when the next run replaces it. *)
SubscribeRun ==
  /\ Served("wait")
  /\ waiting' = IF Head(asked).run = Current THEN waiting \cup {Current} ELSE waiting
  /\ Unqueue /\ UNCHANGED <<review, labRuns, shownRun, writing, labTaps, labFaults>>
WaitEnds(i) ==
  /\ i \in waiting /\ IsTerminal(labRuns[i].status)
  /\ waiting' = waiting \ {i}
  /\ UNCHANGED labRuns /\ UpdateShown(i)
  /\ UNCHANGED <<review, asked, writing, labTaps, labFaults>>

(* export: a copy is written without the lock, then the current run is marked. *)
ExportRun ==
  /\ Served("export") /\ Unqueue
  /\ writing' = IF Head(asked).run = Current /\ ~Busy THEN writing \cup {Current} ELSE writing
  /\ UNCHANGED <<review, labRuns, shownRun, waiting, labTaps, labFaults>>
WriteEnds(i) ==
  /\ i \in writing /\ writing' = writing \ {i}
  /\ \/ Ask(MarkOf(i)) /\ UNCHANGED labFaults
     \/ LabFault /\ UNCHANGED asked
  /\ UNCHANGED <<review, labRuns, shownRun, waiting, labTaps>>
MarkExported ==
  /\ Served("mark") /\ Unqueue
  /\ LET i == Head(asked).run
     IN IF i = Current
        THEN labRuns' = [labRuns EXCEPT ![i].exported = TRUE] /\ UpdateShown(i)
        ELSE UNCHANGED <<labRuns, shownRun>>
  /\ UNCHANGED <<review, waiting, writing, labTaps, labFaults>>

-----------------------------------------------------------------------------
(* The workers. *)

Works(i, change) ==
  /\ labRuns' = [labRuns EXCEPT ![i] = change]
  /\ UNCHANGED <<review, shownRun, asked, waiting, writing, labTaps>>

(* A fixture passes, if it is the current run and still running. *)
(* Mutant for OutcomeReachesPage. *)
FixtureEndsAnyway(i) ==
  /\ labRuns[i].profile = "fixture" /\ labRuns[i].worker = "queued"
  /\ Works(i, [labRuns[i] EXCEPT !.worker = "over", !.status = "passed"])
  /\ UNCHANGED labFaults
FixtureEnds(i) ==
  /\ labRuns[i].profile = "fixture" /\ labRuns[i].worker = "queued"
  /\ LET r == [labRuns[i] EXCEPT !.worker = "over"]
     IN Works(i, IF i = Current /\ r.status = "running" THEN [r EXCEPT !.status = "passed"] ELSE r)
  /\ UNCHANGED labFaults

Spawn(i) ==
  /\ labRuns[i].profile = "live" /\ labRuns[i].worker = "queued"
  /\ \/ /\ Works(i, [labRuns[i] EXCEPT !.worker = "polling", !.child = "runs"])
        /\ UNCHANGED labFaults
     \/ LabFault /\ Works(i, [labRuns[i] EXCEPT !.worker = "failed"])

(* One round: the cancel file, then whether the child has ended. *)
SignalCancel(i) ==
  /\ labRuns[i].worker = "polling" /\ labRuns[i].told /\ ~labRuns[i].signalled
  /\ \/ Works(i, [labRuns[i] EXCEPT !.signalled = TRUE]) /\ UNCHANGED labFaults
     \/ LabFault /\ Works(i, [labRuns[i] EXCEPT !.worker = "failed", !.child = "ended"])
(* The evidence tells how the scenario ended, or cannot be read. *)
ReadEvidence(i) ==
  /\ labRuns[i].worker = "polling" /\ labRuns[i].child = "ended"
  /\ \/ \E s \in {"passed", "failed", "timed_out", "cancelled"} :
          /\ s = "cancelled" => labRuns[i].signalled
          /\ Works(i, [labRuns[i] EXCEPT !.worker = s]) /\ UNCHANGED labFaults
     \/ LabFault /\ Works(i, [labRuns[i] EXCEPT !.worker = "failed"])
(* try_wait fails: the worker gives up, and the child is left to itself. *)
RunnerPollFails(i) ==
  /\ labRuns[i].worker = "polling" /\ LabFault
  /\ Works(i, [labRuns[i] EXCEPT !.worker = "failed",
                                 !.child = IF @ = "runs" THEN "stray" ELSE @])

(* The result of a live run, whatever was asked of it meanwhile. *)
LiveEnds(i) ==
  /\ IsTerminal(labRuns[i].worker)
  /\ LET r == [labRuns[i] EXCEPT !.worker = "over"]
     IN Works(i, IF i = Current THEN [r EXCEPT !.status = labRuns[i].worker] ELSE r)
  /\ UNCHANGED labFaults

(* External: the runner ends by itself, when its time is over, or when it sees
   the cancel file. *)
ChildEnds(i) ==
  /\ labRuns[i].child \in {"runs", "stray"}
  /\ Works(i, [labRuns[i] EXCEPT !.child = "ended"]) /\ UNCHANGED labFaults

ServeStep ==
  \/ StartRun \/ StartRefused \/ CancelRun \/ CancelRefused
  \/ SubscribeRun \/ ExportRun \/ MarkExported
WorkStep(i) == FixtureEnds(i) \/ Spawn(i) \/ SignalCancel(i) \/ ReadEvidence(i) \/ LiveEnds(i)

LabNext ==
  \/ SessionBegins \/ Connected \/ StatusReported \/ SessionLost
  \/ \E p \in {"lab", "fleet", "network"} : Navigate(p)
  \/ ReviewFleet \/ ReviewLink \/ ReviewCancel
  \/ NetworkEffect \/ Dismiss \/ Confirm
  \/ \E profile \in {"fixture", "live"} : ClickStart(profile)
  \/ ClickCancel \/ ClickRerun \/ ClickExport
  \/ ServeStep
  \/ \E i \in DOMAIN labRuns :
       WaitEnds(i) \/ WriteEnds(i) \/ WorkStep(i) \/ RunnerPollFails(i) \/ ChildEnds(i)

LabSpec == LabInit /\ [][LabNext]_labVars

-----------------------------------------------------------------------------
(* Nobody waits in vain: for a run that is shown unfinished a task of the page
   waits, or will, and unless its outcome is there a worker still owes it. *)
OutcomeIsAwaited ==
  shownRun.run # 0 /\ ~IsTerminal(shownRun.status) =>
    LET i == shownRun.run
    IN /\ i \in waiting \/ WaitOf(i) \in ToSet(asked)
       /\ IsTerminal(labRuns[i].status) \/ labRuns[i].worker # "over"

OutcomeStands ==
  /\ \A i \in DOMAIN labRuns : IsTerminal(labRuns[i].status) =>
       labRuns'[i].status = labRuns[i].status
  /\ IsTerminal(shownRun.status) =>
       \/ shownRun'.run > shownRun.run \/ shownRun'.status = shownRun.status
       \/ shownRun' = NoRun

(* A run gets one outcome and the page hears of it: an outcome stands, and the one
   that is shown stands, through a playback that ends after its cancellation, a
   second cancellation, a wait or an export that returns late
   (FixtureScenarioBackend); and until it is there somebody owes it and somebody
   waits for it, through refused starts and exports of the same run. *)
OutcomeReachesPage == [][OutcomeIsAwaited' /\ OutcomeStands]_labVars
=============================================================================
