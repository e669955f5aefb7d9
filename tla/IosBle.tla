------------------------------- MODULE IosBle -------------------------------
(***************************************************************************)
(* The iOS Bluetooth controller: the operator's taps, the command queue,   *)
(* IosBleHost::run, the adapter it installs, and CoreBluetooth.            *)
(*                                                                         *)
(* The host future, the UI and every CoreBluetooth callback run on the     *)
(* main dispatch queue, so host code between two awaits is one step and    *)
(* pc names the await.  A select with a branch that is ready does not      *)
(* suspend: once polled, the host handles what is queued before a tap or   *)
(* a callback can run again (running).  A byte pump (RNodePump) is one     *)
(* await here: it starts when the host handles Ready, and ends by closing  *)
(* the adapter.                                                            *)
(*                                                                         *)
(* An adapter serves one scan and one attempt and its event stream is      *)
(* replaced with it, so the generation numbers are left out.               *)
(***************************************************************************)
EXTENDS CoreBluetoothAttempt, Sequences, FiniteSets

CONSTANTS
  Peripherals,      \* RNodes the operator may meet
  NoPeripheral,
  CommandCapacity,  \* COMMAND_CAPACITY, bound of the command queue
  EventCapacity,    \* EVENT_CAPACITY, bound of an adapter's event queue
  MaxTaps,          \* taps of the operator
  MaxToggles,       \* times Bluetooth is switched on or off
  MaxLaunches       \* launches of the application, the first included

ASSUME IosBleAssumption ==
  /\ NoPeripheral \notin Peripherals
  /\ CommandCapacity \in Nat \ {0} /\ EventCapacity \in Nat \ {0}
  /\ MaxTaps \in Nat /\ MaxToggles \in Nat /\ MaxLaunches \in Nat \ {0}

VARIABLES
  control,        \* BleControlState, published whenever a handler ends
  stored,         \* approved peripheral in UserDefaults
  flag,           \* the backend's "Bluetooth approved"
  pc,             \* where the host awaits
  target,         \* peripheral of the handler in progress
  adapter,        \* the installed IosBleAdapter and its connection
  events,         \* the event stream of the installed adapter
  pendingScan, pendingConnect, deadline,
  forgotten,      \* run_connected saw a Forget
  running,        \* the host is being polled and has work queued
  commands,       \* the command queue
  offered,        \* commands the controls offer, as last rendered
  radio,          \* Bluetooth is on
  taps, toggles, launches,
  asked,          \* history: peripherals the operator chose since the last
                  \* launch or Forget
  missed          \* history: the attempt lost an event to a full queue

hostVars == <<control, stored, flag, pc, target, pendingScan, pendingConnect,
              deadline, forgotten>>
linkVars == <<adapter, events>>
vars == <<hostVars, linkVars, running, commands, offered, radio, taps, toggles,
          launches, asked, missed>>

MaybePeripheral == Peripherals \cup {NoPeripheral}

NoAdapter == [installed |-> FALSE, known |-> FALSE, scanning |-> FALSE,
              attempted |-> FALSE, active |-> NoPeripheral,
              boundary |-> Close(NewBoundary), link |-> "none", owed |-> FALSE]

FreshAdapter == [NoAdapter EXCEPT !.installed = TRUE]

Command(is, of) == [is |-> is, of |-> of]
Event(is) == [is |-> is, of |-> NoPeripheral]

-----------------------------------------------------------------------------
(* Operations of the adapter. *)

PoweredOn(a) == a.known /\ radio

(* IosBleAdapter::close *)
CloseAdapter(a) ==
  [a EXCEPT !.scanning = FALSE, !.active = NoPeripheral, !.owed = FALSE,
            !.boundary = Close(@), !.link = "none"]

(* The peripheral's attempt as the delegate forgets it (take_active). *)
TakeActive(a) ==
  [a EXCEPT !.active = NoPeripheral, !.owed = FALSE, !.boundary = Close(@),
            !.link = "none"]

(* Mutation: a second attempt on the same adapter is admitted. *)
MayConnectAgain(a) == a.installed /\ PoweredOn(a)

(* IosBleAdapter::connect succeeds at most once on an adapter. *)
MayConnect(a) == a.installed /\ PoweredOn(a) /\ ~a.attempted

Connected(a, p) ==
  [a EXCEPT !.attempted = TRUE, !.active = p, !.scanning = FALSE, !.owed = FALSE,
            !.boundary = ManagerChanged(NewBoundary, TRUE).b, !.link = "connecting"]

(* force_send of an event: a full queue loses its oldest one. *)
Push(e) ==
  events' = Append(IF Len(events) = EventCapacity THEN Tail(events) ELSE events, e)

-----------------------------------------------------------------------------
(* Launch: an adapter only if permission was granted before, the remembered
   peripheral shown, no connection. *)

LaunchControl(permission, remembered) ==
  [permission |-> permission, adapter |-> "Unavailable", phase |-> "Idle",
   candidates |-> {}, approved |-> remembered, failure |-> FALSE]

LaunchAdapter(permission) == IF permission = "Granted" THEN FreshAdapter ELSE NoAdapter

(* Mutation: a launch reconnects to the remembered peripheral. *)
LaunchReconnects(remembered) == remembered

(* The peripheral a launch asks to connect to: none. *)
LaunchConnect(remembered) == NoPeripheral

Init ==
  /\ stored \in MaybePeripheral
  /\ \E permission \in {"NotDetermined", "Granted"} :
       /\ stored # NoPeripheral => permission = "Granted"
       /\ control = LaunchControl(permission, stored)
       /\ adapter = LaunchAdapter(permission)
  /\ flag = FALSE /\ pc = "loop" /\ target = NoPeripheral
  /\ pendingScan = FALSE /\ pendingConnect = LaunchConnect(stored)
  /\ deadline = "None" /\ forgotten = FALSE
  /\ events = <<>> /\ commands = <<>> /\ radio \in BOOLEAN
  /\ running = FALSE /\ offered = {}
  /\ taps = 0 /\ toggles = 0 /\ launches = 1 /\ asked = {} /\ missed = FALSE

(* The process is killed anywhere and launched again: only UserDefaults and
   the system's permission survive. *)
Relaunch ==
  /\ launches < MaxLaunches
  /\ launches' = launches + 1
  /\ control' = LaunchControl(control.permission, stored)
  /\ adapter' = LaunchAdapter(control.permission)
  /\ flag' = FALSE /\ pc' = "loop" /\ target' = NoPeripheral
  /\ pendingScan' = FALSE /\ pendingConnect' = LaunchConnect(stored)
  /\ deadline' = "None" /\ forgotten' = FALSE
  /\ events' = <<>> /\ commands' = <<>> /\ asked' = {}
  /\ running' = FALSE /\ offered' = {} /\ missed' = FALSE
  /\ UNCHANGED <<stored, radio, taps, toggles>>

-----------------------------------------------------------------------------
(* The operator.  The controls offer a command according to the state last
   published; until they are rendered again, a tap may be on a stale view. *)

Busy == control.phase # "Idle"

ScanOffered ==
  /\ ~Busy
  /\ \/ control.permission = "NotDetermined"
     \/ control.permission = "Granted" /\ control.adapter = "Ready"

Offered(command) ==
  CASE command.is = "Scan"   -> ScanOffered
    [] command.is = "Select" -> /\ command.of \in control.candidates
                                /\ control.permission # "NotDetermined" /\ ScanOffered
    [] command.is = "Retry"  -> control.approved # NoPeripheral /\ ScanOffered
    [] command.is = "Cancel" -> control.phase \in {"Connecting", "Reconnecting"}
    [] command.is = "Forget" -> control.approved # NoPeripheral

OperatorCommands ==
  {Command(is, NoPeripheral) : is \in {"Scan", "Retry", "Cancel", "Forget"}}
    \cup {Command("Select", p) : p \in Peripherals}

(* The state of a handler in progress is not published before it ends. *)
Render ==
  /\ pc \in {"loop", "pumping"}
  /\ offered' = {command \in OperatorCommands : Offered(command)}
  /\ UNCHANGED <<hostVars, linkVars, commands, radio, taps, toggles, launches, asked>>

Tap(command) ==
  /\ command \in offered /\ taps < MaxTaps
  /\ Len(commands) < CommandCapacity
  /\ taps' = taps + 1
  /\ commands' = Append(commands, command)
  /\ UNCHANGED <<hostVars, linkVars, offered, radio, toggles, launches, asked>>

-----------------------------------------------------------------------------
(* Command handlers of the host loop. *)

Take(is) ==
  /\ pc = "loop" /\ commands # <<>> /\ Head(commands).is = is
  /\ commands' = Tail(commands)

World == <<offered, radio, taps, toggles, launches>>

DropCommand == UNCHANGED <<hostVars, linkVars, asked>>

ArmScan == deadline' = "Scan"

(* Mutation: the deadline stays as it was. *)
ArmsNothing == UNCHANGED deadline

ArmConnect == deadline' = "Connect"

TellBackend == flag' = TRUE

(* Mutation: Retry leaves a pending scan in place. *)
RetryKeepsScan == UNCHANGED pendingScan

RetryDropsScan == pendingScan' = FALSE

HandleScan ==
  /\ Take("Scan")
  /\ pc' = "permission"
  /\ UNCHANGED <<control, stored, flag, target, pendingScan, pendingConnect,
                 deadline, forgotten, linkVars, World, asked>>

(* request_permission answers: the operator decides the first time only. *)
PermissionAnswered ==
  /\ pc = "permission" /\ pc' = "loop"
  /\ \E permission \in {"Granted", "Denied"} :
       /\ control.permission # "NotDetermined" => permission = control.permission
       /\ control' = [control EXCEPT !.permission = permission, !.failure = FALSE,
                        !.candidates = {},
                        !.phase = IF permission = "Granted" THEN "Scanning" ELSE "Idle"]
       /\ IF permission = "Granted"
            THEN /\ adapter' = FreshAdapter /\ events' = <<>>
                 /\ pendingScan' = TRUE /\ pendingConnect' = NoPeripheral
                 /\ ArmScan
            ELSE UNCHANGED <<adapter, events, pendingScan, pendingConnect, deadline>>
  /\ UNCHANGED <<stored, flag, target, forgotten, commands, World, asked>>

(* A candidate still listed is approved and remembered at once; the backend
   is told, then the connection starts on the adapter installed now. *)
HandleSelect ==
  /\ Take("Select")
  /\ LET p == Head(commands).of
     IN  IF p \in control.candidates /\ adapter.installed
           THEN /\ control' = [control EXCEPT !.approved = p]
                /\ stored' = p /\ target' = p /\ asked' = asked \cup {p}
                /\ pc' = "approving"
                /\ UNCHANGED <<flag, pendingScan, pendingConnect, deadline,
                               forgotten, linkVars>>
           ELSE DropCommand
  /\ UNCHANGED World

StartFailed == [control EXCEPT !.phase = "Idle", !.failure = TRUE]

(* connect after the backend was told: Select shows Connecting under a
   deadline; the peripheral may be gone from the system's list. *)
SelectConnects ==
  /\ pc = "approving" /\ pc' = "loop" /\ TellBackend
  /\ \/ /\ MayConnect(adapter)
        /\ adapter' = Connected(adapter, target)
        /\ control' = [control EXCEPT !.phase = "Connecting", !.failure = FALSE]
        /\ ArmConnect
     \/ /\ adapter' = adapter /\ control' = StartFailed /\ deadline' = "None"
  /\ UNCHANGED <<stored, target, pendingScan, pendingConnect, forgotten, events,
                 commands, World, asked>>

HandleRetry ==
  /\ Take("Retry")
  /\ IF control.approved = NoPeripheral THEN DropCommand
     ELSE /\ adapter' = FreshAdapter /\ events' = <<>>
          /\ pendingConnect' = control.approved /\ RetryDropsScan
          /\ control' = [control EXCEPT !.phase = "Reconnecting", !.failure = FALSE]
          /\ ArmConnect
          /\ asked' = asked \cup {control.approved}
          /\ UNCHANGED <<stored, flag, pc, target, forgotten>>
  /\ UNCHANGED World

HandleCancel ==
  /\ Take("Cancel")
  /\ IF control.phase \notin {"Connecting", "Reconnecting"} THEN DropCommand
     ELSE /\ adapter' = NoAdapter /\ events' = <<>>
          /\ pendingConnect' = NoPeripheral /\ deadline' = "None"
          /\ control' = [control EXCEPT !.phase = "Idle", !.failure = FALSE]
          /\ UNCHANGED <<stored, flag, pc, target, pendingScan, forgotten, asked>>
  /\ UNCHANGED World

HandleForget ==
  /\ Take("Forget")
  /\ adapter' = NoAdapter /\ events' = <<>>
  /\ pendingScan' = FALSE /\ pendingConnect' = NoPeripheral /\ deadline' = "None"
  /\ stored' = NoPeripheral /\ asked' = {}
  /\ pc' = "forgetting"
  /\ UNCHANGED <<control, flag, target, forgotten, World>>

ForgetDone ==
  /\ pc = "forgetting" /\ pc' = "loop" /\ flag' = FALSE
  /\ control' = [control EXCEPT !.approved = NoPeripheral, !.phase = "Idle",
                                !.failure = FALSE]
  /\ UNCHANGED <<stored, target, pendingScan, pendingConnect, deadline, forgotten,
                 linkVars, commands, World, asked>>

-----------------------------------------------------------------------------
(* Event handlers of the host loop. *)

TakeEvent(is) ==
  /\ pc = "loop" /\ events # <<>> /\ Head(events).is = is
  /\ events' = Tail(events)

EventFrame == UNCHANGED <<stored, forgotten, commands, World, asked>>

(* AdapterChanged(Ready) starts what was pending, a scan before a connection. *)
HandleAdapterReady ==
  /\ TakeEvent("AdapterReady")
  /\ control' = [control EXCEPT !.adapter = "Ready"]
  /\ IF pendingScan
       THEN /\ IF adapter.installed /\ PoweredOn(adapter) /\ ~adapter.scanning
                 THEN adapter' = [adapter EXCEPT !.scanning = TRUE] /\ pendingScan' = FALSE
                 ELSE UNCHANGED <<adapter, pendingScan>>
            /\ UNCHANGED <<pendingConnect, pc, target>>
       ELSE /\ IF pendingConnect # NoPeripheral
                 THEN /\ pc' = "reconnecting" /\ target' = pendingConnect
                      /\ pendingConnect' = NoPeripheral
                 ELSE UNCHANGED <<pc, target, pendingConnect>>
            /\ UNCHANGED <<adapter, pendingScan>>
  /\ UNCHANGED <<flag, deadline>> /\ EventFrame

ReconnectStarts ==
  /\ pc = "reconnecting" /\ pc' = "loop" /\ TellBackend
  /\ \/ /\ MayConnect(adapter)
        /\ adapter' = Connected(adapter, target)
        /\ UNCHANGED <<control, deadline>>
     \/ /\ adapter' = adapter /\ control' = StartFailed /\ deadline' = "None"
  /\ UNCHANGED <<stored, target, pendingScan, pendingConnect, forgotten, events,
                 commands, World, asked>>

HandleAdapterOff ==
  /\ TakeEvent("AdapterOff")
  /\ control' = [control EXCEPT !.adapter = "Unavailable"]
  /\ UNCHANGED <<flag, pc, target, adapter, pendingScan, pendingConnect, deadline>>
  /\ EventFrame

HandleCandidate ==
  /\ TakeEvent("Candidate")
  /\ control' = [control EXCEPT !.candidates = @ \cup {Head(events).of}]
  /\ UNCHANGED <<flag, pc, target, adapter, pendingScan, pendingConnect, deadline>>
  /\ EventFrame

(* The link exists: the deadline is lifted. *)
HandleConnected ==
  /\ TakeEvent("Connected")
  /\ deadline' = "None"
  /\ UNCHANGED <<control, flag, pc, target, adapter, pendingScan, pendingConnect>>
  /\ EventFrame

HandleReady ==
  /\ TakeEvent("Ready")
  /\ deadline' = "None"
  /\ control' = [control EXCEPT !.phase = "Connecting"]
  /\ pc' = IF adapter.installed THEN "pumping" ELSE pc
  /\ UNCHANGED <<flag, target, adapter, pendingScan, pendingConnect>>
  /\ EventFrame

HandleFailed ==
  /\ TakeEvent("Failed")
  /\ adapter' = CloseAdapter(adapter)
  /\ deadline' = "None" /\ control' = StartFailed
  /\ UNCHANGED <<flag, pc, target, pendingScan, pendingConnect>>
  /\ EventFrame

HandleDisconnected ==
  /\ TakeEvent("Disconnected")
  /\ deadline' = "None"
  /\ control' = IF control.approved # NoPeripheral THEN StartFailed ELSE control
  /\ UNCHANGED <<flag, pc, target, adapter, pendingScan, pendingConnect>>
  /\ EventFrame

(* The scan or connection deadline passes: at any time, events may wait. *)
Deadline ==
  /\ pc = "loop" /\ deadline # "None"
  /\ deadline' = "None" /\ pendingScan' = FALSE /\ pendingConnect' = NoPeripheral
  /\ IF deadline = "Scan"
       THEN /\ adapter' = [adapter EXCEPT !.scanning = FALSE]
            /\ control' = [control EXCEPT !.phase = "Idle"]
       ELSE /\ adapter' = CloseAdapter(adapter)
            /\ control' = StartFailed
  /\ UNCHANGED <<stored, flag, pc, target, forgotten, events, commands, World, asked>>

-----------------------------------------------------------------------------
(* run_connected: the pump runs, and of the commands only Forget is heard. *)

(* Mutation: run_connected hears no command. *)
HearsNothing(command) == command.is = "None"

Heard(command) == command.is = "Forget"

PumpCommand ==
  /\ pc = "pumping" /\ commands # <<>>
  /\ commands' = Tail(commands)
  /\ IF Heard(Head(commands))
       THEN /\ forgotten' = TRUE
            /\ control' = [control EXCEPT !.approved = NoPeripheral, !.failure = FALSE]
       ELSE UNCHANGED <<forgotten, control>>
  /\ UNCHANGED <<stored, flag, pc, target, pendingScan, pendingConnect, deadline,
                 linkVars, World, asked>>

Unremember == stored' = NoPeripheral

(* The pump ends, for an error or because Forget cancelled it; it has closed
   the link.  A forgotten peripheral leaves UserDefaults only now. *)
PumpEnds ==
  /\ pc = "pumping"
  /\ adapter' = CloseAdapter(adapter)
  /\ control' = [control EXCEPT !.phase = "Idle", !.failure = @ \/ ~forgotten]
  /\ IF forgotten THEN Unremember /\ pc' = "forgotten" /\ asked' = {}
                  ELSE pc' = "loop" /\ UNCHANGED <<stored, asked>>
  /\ forgotten' = FALSE
  /\ UNCHANGED <<flag, target, pendingScan, pendingConnect, deadline, events,
                 commands, World>>

PumpForgotten ==
  /\ pc = "forgotten" /\ pc' = "loop" /\ flag' = FALSE
  /\ UNCHANGED <<control, stored, target, pendingScan, pendingConnect, deadline,
                 forgotten, linkVars, commands, World, asked>>

-----------------------------------------------------------------------------
(* CoreBluetooth.  Callbacks of an adapter that was closed or replaced find
   no active peripheral and change nothing. *)

Callback == UNCHANGED <<hostVars, commands, World, asked>>

AdapterState == Event(IF radio THEN "AdapterReady" ELSE "AdapterOff")

ManagerReports ==
  /\ adapter.installed /\ ~adapter.known
  /\ adapter' = [adapter EXCEPT !.known = TRUE]
  /\ Push(AdapterState)
  /\ Callback

(* One sighting of a peripheral that is neither listed nor waiting. *)
DidDiscover(p) ==
  /\ adapter.installed /\ adapter.scanning /\ PoweredOn(adapter)
  /\ p \notin control.candidates
  /\ \A i \in DOMAIN events : events[i] # [is |-> "Candidate", of |-> p]
  /\ Push([is |-> "Candidate", of |-> p])
  /\ UNCHANGED adapter /\ Callback

DidConnect ==
  /\ adapter.link = "connecting"
  /\ adapter' = [adapter EXCEPT !.link = "up", !.owed = TRUE]
  /\ Push(Event("Connected"))
  /\ Callback

DidFailToConnect ==
  /\ adapter.link = "connecting"
  /\ adapter' = TakeActive(adapter)
  /\ Push(Event("Failed"))
  /\ Callback

(* The answer to the handshake request in flight. *)
Answer(good) ==
  LET b == adapter.boundary
  IN  CASE b.phase = "DiscoveringServices"        -> ServicesDiscovered(b, good)
        [] b.phase = "DiscoveringCharacteristics" -> CharacteristicsDiscovered(b, good)
        [] OTHER                                  -> NotificationsChanged(b, good)

DidAnswer(good) ==
  /\ adapter.link = "up" /\ adapter.owed
  /\ adapter' = [adapter EXCEPT !.boundary = Answer(good).b,
                                !.owed = Answer(good).is = "applied"]
  /\ CASE Answer(good).is = "ready"   -> Push(Event("Ready"))
       [] Answer(good).is = "failed"  -> Push(Event("Failed"))
       [] Answer(good).is = "applied" -> UNCHANGED events
  /\ Callback

(* A discovery callback with an error: reported, the boundary stays. *)
DidAnswerError ==
  /\ adapter.link = "up" /\ adapter.owed
  /\ adapter.boundary.phase \in {"DiscoveringServices", "DiscoveringCharacteristics"}
  /\ adapter' = [adapter EXCEPT !.owed = FALSE]
  /\ Push(Event("Failed"))
  /\ Callback

DidDisconnect ==
  /\ adapter.link \in {"up", "lost"}
  /\ adapter' = TakeActive(adapter)
  /\ Push(Event("Disconnected"))
  /\ Callback

(* Bluetooth is switched: off invalidates the connection, which CoreBluetooth
   may report as a disconnect or not at all. *)
ToggleRadio ==
  /\ toggles < MaxToggles
  /\ toggles' = toggles + 1 /\ radio' = ~radio
  /\ adapter' = [adapter EXCEPT
                   !.link = IF radio /\ @ \in {"connecting", "up"} THEN "lost" ELSE @,
                   !.owed = @ /\ ~radio]
  /\ IF adapter.installed /\ adapter.known
       THEN Push(Event(IF radio THEN "AdapterOff" ELSE "AdapterReady"))
       ELSE UNCHANGED events
  /\ UNCHANGED <<hostVars, commands, offered, taps, launches, asked>>

-----------------------------------------------------------------------------
HandleCommand ==
  \/ HandleScan \/ HandleSelect \/ HandleRetry \/ HandleCancel \/ HandleForget

HandleEvent ==
  \/ HandleAdapterReady \/ HandleAdapterOff \/ HandleCandidate \/ HandleConnected
  \/ HandleReady \/ HandleFailed \/ HandleDisconnected

Resume ==
  \/ PermissionAnswered \/ SelectConnects \/ ForgetDone \/ ReconnectStarts
  \/ PumpCommand \/ PumpForgotten

(* An event is pushed into a full queue. *)
Overflows == Len(events) = EventCapacity /\ Len(events') = EventCapacity /\ events' # events

Misses == missed' = (adapter'.attempted /\ (missed \/ Overflows))

(* The host suspends when it awaits inside a handler or nothing is queued. *)
Polled ==
  running' = (pc' = "loop" /\ (commands' # <<>> \/ events' # <<>>)) /\ Misses

Suspended == UNCHANGED running /\ Misses

Host == (HandleCommand \/ HandleEvent \/ Resume) /\ Polled

Outside ==
  \/ Render \/ (\E command \in OperatorCommands : Tap(command))
  \/ ManagerReports \/ (\E p \in Peripherals : DidDiscover(p))
  \/ DidConnect \/ DidFailToConnect \/ DidAnswer(TRUE) \/ DidAnswer(FALSE)
  \/ DidAnswerError \/ DidDisconnect \/ ToggleRadio

Next ==
  \/ Host
  \/ Deadline /\ Polled
  \/ PumpEnds /\ Polled
  \/ ~running /\ Outside /\ Suspended
  \/ Relaunch

Spec == Init /\ [][Next]_vars

(* The executor runs the host; its timer fires; a cancelled or disconnected
   pump ends (RNodePump: PumpStops). *)
FairSpec ==
  /\ Spec /\ WF_vars(Host) /\ WF_vars(Deadline /\ Polled)
  /\ WF_vars((forgotten \/ adapter.active = NoPeripheral) /\ PumpEnds /\ Polled)

(* CoreBluetooth reports a new manager's state. *)
ReportingSpec == FairSpec /\ WF_vars(~running /\ ManagerReports /\ Suspended)

-----------------------------------------------------------------------------
(* The application connects only to a peripheral the operator chose in this
   launch and has not forgotten since, whatever was remembered, however the
   commands queued and whichever callbacks were late. *)
NoUnaskedConnection == adapter.link # "none" => adapter.active \in asked

(* Events by which CoreBluetooth reports how the attempt went. *)
AttemptReports == {"Connected", "Ready", "Failed", "Disconnected"}

Unreported == \A i \in DOMAIN events : events[i].is \notin AttemptReports

(* A scan, or one that waits for the adapter, is under the scan deadline.  The
   exception is the code's: a selection on a stale view that cannot start its
   connection takes the deadline away and leaves the radio scanning, shown as a
   failed connection, until the next command replaces the adapter. *)
ScansAreArmed ==
  /\ pendingScan => control.phase = "Scanning" /\ deadline = "Scan"
  /\ adapter.scanning =>
       \/ deadline = "Scan" /\ (control.phase = "Scanning" \/ pc = "approving")
       \/ control.failure /\ adapter.installed /\ ~adapter.attempted

(* A connection shown in flight that CoreBluetooth has not reported on is under
   the connection deadline, unless the full event queue lost a report of it. *)
ConnectionsAreArmed ==
  /\ pc = "loop" /\ control.phase \in {"Connecting", "Reconnecting"}
  /\ adapter.link \in {"none", "connecting"} /\ Unreported /\ ~missed
  => deadline = "Connect"

(* Whatever the host shows in progress, a scan or a connection, has a deadline
   that ends it when CoreBluetooth does not (ios_ble.rs, run), but for the two
   exceptions above. *)
DeadlinesAreArmed == ScansAreArmed /\ ConnectionsAreArmed

(* The pump runs on the one attempt of the adapter it will close, and while
   that attempt is alive its handshake has gone through. *)
PumpOwnsAttempt ==
  pc = "pumping" => /\ adapter.installed /\ adapter.attempted /\ ~pendingScan
                    /\ adapter.active # NoPeripheral =>
                         adapter.boundary.phase = "Ready"

ScanEnds == (control.phase = "Scanning") ~> (control.phase # "Scanning")

(* A connection that CoreBluetooth has not established, whether it was asked to
   connect yet or not, is established or given up, unless the full event queue
   lost the report of its end.  Nothing makes CoreBluetooth report. *)
AwaitingEnds ==
  (control.phase \in {"Connecting", "Reconnecting"} /\ adapter.link \in {"none", "connecting"})
    ~> (control.phase = "Idle" \/ adapter.link = "up" \/ missed)

ForgetEnds ==
  \A launch \in 1 .. MaxLaunches :
    (launches = launch /\ \E i \in DOMAIN commands : commands[i].is = "Forget")
      ~> (launches > launch \/ (stored = NoPeripheral /\ adapter.link = "none"))

(* What the operator started ends: a scan and a connection CoreBluetooth never
   reports by their deadlines; and a queued Forget closes the connection and
   forgets, whatever the host was doing when the operator tapped it, unless the
   process is killed first. *)
EffortsEnd == ScanEnds /\ AwaitingEnds /\ ForgetEnds

-----------------------------------------------------------------------------
(* What documentation says of the controller and the runs refute. *)

(* styrene-ui-app/src/lib.rs:545 shows "The approved RNode is connected." while
   the pump runs. *)
PumpedIsApproved ==
  pc = "pumping" /\ ~forgotten => adapter.active \in {control.approved, NoPeripheral}

(* openspec/changes/mobile-ui-quality/specs/mobile-ui-quality.md:61 "a
   connection that CoreBluetooth has reported as connected is not cancelled by
   an application deadline". *)
DeadlineSparesConnected ==
  [][Deadline /\ deadline = "Connect" => adapter.link # "up"]_vars

(* mobile-ui-quality.md:60 "an operator action with a visible cancel": a Cancel
   the controls offered ends the connection. *)
CancelCancels ==
  (\E i \in DOMAIN commands : commands[i].is = "Cancel")
    ~> (adapter.link = "none")

(* styrene-ui-platform/src/ble.rs:398 "Reconnecting to the remembered
   peripheral is an operator action that is available whenever a peripheral is
   remembered and nothing is in flight": with Bluetooth on it is offered. *)
ReconnectIsAvailable ==
  (radio /\ control.approved # NoPeripheral /\ ~Busy)
    ~> (ScanOffered \/ Busy \/ control.approved = NoPeripheral \/ ~radio)

=============================================================================
