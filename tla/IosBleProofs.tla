---------------------------- MODULE IosBleProofs ----------------------------
(* Proofs about IosBle, for any set of peripherals, any capacity of the       *)
(* queues and any number of taps, switches of the radio and launches.         *)
EXTENDS IosBle, QueueLemmas

ControlPhases == {"Idle", "Scanning", "Connecting", "Reconnecting"}
Permissions   == {"NotDetermined", "Granted", "Denied"}
EventKinds    == {"AdapterReady", "AdapterOff", "Candidate"} \cup AttemptReports

Controls == [permission : Permissions, adapter : {"Unavailable", "Ready"}, phase : ControlPhases,
             candidates : SUBSET Peripherals, approved : MaybePeripheral, failure : BOOLEAN]
Adapters == [installed : BOOLEAN, known : BOOLEAN, scanning : BOOLEAN, attempted : BOOLEAN,
             active : MaybePeripheral, boundary : Boundaries,
             link : {"none", "connecting", "up", "lost"}, owed : BOOLEAN]
Events   == [is : EventKinds \ {"Candidate"}, of : {NoPeripheral}]
              \cup [is : {"Candidate"}, of : Peripherals]

HostTypeOK ==
  /\ control \in Controls /\ adapter \in Adapters /\ events \in Seq(Events)
  /\ stored \in MaybePeripheral /\ target \in MaybePeripheral
  /\ pendingConnect \in MaybePeripheral

(* Kinds of the events that wait. *)
Waiting == {events[i].is : i \in DOMAIN events}

(* Whatever is connected, or may be, was asked for.  What is left of an earlier
   wish may outlive a Forget only where the adapter will not connect again. *)
OperatorAsked ==
  /\ NoUnaskedConnection
  /\ pendingConnect # NoPeripheral => pendingConnect \in asked \/ adapter.attempted
  /\ pc = "approving" => target \in asked
  /\ pc = "reconnecting" => target \in asked \/ adapter.attempted

Handshaking == {"DiscoveringServices", "DiscoveringCharacteristics", "EnablingNotifications"}

(* Reports in the queue are of the one attempt of the adapter installed. *)
ReportsAreOfAttempt ==
  /\ adapter.link # "none" => adapter.installed /\ adapter.attempted
  /\ Waiting \cap AttemptReports # {} => adapter.installed /\ adapter.attempted
  /\ "Ready" \in Waiting /\ adapter.active # NoPeripheral => adapter.boundary.phase = "Ready"
  /\ adapter.link = "connecting" => /\ adapter.boundary.phase = "DiscoveringServices"
                                    /\ Waiting \cap AttemptReports = {}
  /\ adapter.owed => adapter.boundary.phase \in Handshaking
  /\ pc = "pumping" => /\ adapter.installed /\ adapter.attempted
                       /\ adapter.active # NoPeripheral => adapter.boundary.phase = "Ready"

(* A scan that waits has found nothing, and one that runs has no attempt beside it. *)
ScansAreAlone ==
  /\ pendingScan => /\ ~adapter.attempted /\ ~adapter.scanning
                    /\ control.permission = "Granted" /\ control.candidates = {}
                    /\ "Candidate" \notin Waiting /\ pc \in {"loop", "permission"}
  /\ adapter.scanning => /\ adapter.installed /\ ~adapter.attempted
                         /\ control.permission = "Granted" /\ pc # "forgetting"

(* Where the phase shown is that of a connection on its way. *)
InFlight == control.phase \in {"Connecting", "Reconnecting"} /\ pc \notin {"pumping", "forgetting"}

(* A connection on its way is under the deadline until it is reported on, and
   its end is in the queue unless the queue lost it. *)
FlightsEnd ==
  /\ pc = "approving" \/ InFlight => control.approved # NoPeripheral
  /\ InFlight /\ (~adapter.attempted \/ adapter.link = "connecting") => deadline = "Connect"
  /\ InFlight /\ adapter.attempted /\ adapter.link = "none" /\ ~missed =>
       "Failed" \in Waiting \/ "Disconnected" \in Waiting

IosBleInv ==
  /\ HostTypeOK /\ OperatorAsked /\ ReportsAreOfAttempt /\ ScansAreAlone
  /\ ScansAreArmed /\ FlightsEnd

-----------------------------------------------------------------------------
(* The adapter's operations and the event queue. *)

LEMMA BoundaryOps ==
  ASSUME NEW b \in Boundaries
  PROVE  /\ Close(b) \in Boundaries
         /\ [b EXCEPT !.phase = "DiscoveringServices"] \in Boundaries
  BY DEF Boundaries, Phases, Close, NoToken

(* An adapter that has not connected yet. *)
LEMMA UnusedAdapters ==
  ASSUME NEW a, a = NoAdapter \/ a = FreshAdapter
  PROVE  /\ a \in Adapters /\ ~a.attempted /\ ~a.scanning /\ a.link = "none" /\ ~a.owed
         /\ a.active = NoPeripheral
  <1>1. NewBoundary \in Boundaries
    BY DEF NewBoundary, Boundaries, Phases, NoToken
  <1>2. Close(NewBoundary) \in Boundaries
    BY <1>1, BoundaryOps
  <1>. DEFINE closed == Close(NewBoundary)
  <1>3. NoAdapter = [installed |-> FALSE, known |-> FALSE, scanning |-> FALSE,
                     attempted |-> FALSE, active |-> NoPeripheral, boundary |-> closed,
                     link |-> "none", owed |-> FALSE]
    BY DEF NoAdapter
  <1>4. closed \in Boundaries /\ NoPeripheral \in MaybePeripheral
    BY <1>2 DEF MaybePeripheral
  <1>. HIDE DEF closed
  <1>5. NoAdapter \in Adapters
    BY <1>3, <1>4 DEF Adapters
  <1>6. /\ ~NoAdapter.attempted /\ ~NoAdapter.scanning /\ NoAdapter.link = "none"
        /\ ~NoAdapter.owed /\ NoAdapter.active = NoPeripheral
    BY <1>3
  <1>. QED BY <1>5, <1>6 DEF FreshAdapter, Adapters

(* CloseAdapter, TakeActive and Connected, field by field. *)
LEMMA AdapterEnds ==
  ASSUME NEW a \in Adapters, NEW c, c = CloseAdapter(a) \/ c = TakeActive(a)
  PROVE  /\ c \in Adapters /\ c.installed = a.installed /\ c.attempted = a.attempted
         /\ c.scanning => a.scanning
         /\ c.link = "none" /\ c.active = NoPeripheral /\ ~c.owed
         /\ c = CloseAdapter(a) => ~c.scanning
  <1>1. a.boundary \in Boundaries
    BY DEF Adapters
  <1>2. Close(a.boundary) \in Boundaries
    BY <1>1, BoundaryOps
  <1>. QED BY <1>2 DEF CloseAdapter, TakeActive, Adapters, MaybePeripheral

LEMMA AdapterConnects ==
  ASSUME NEW a \in Adapters, NEW p \in MaybePeripheral, MayConnect(a)
  PROVE  LET c == Connected(a, p)
         IN /\ c \in Adapters /\ c.installed /\ ~a.attempted /\ c.attempted
            /\ ~c.scanning /\ ~c.owed /\ c.active = p /\ c.link = "connecting"
            /\ c.boundary.phase = "DiscoveringServices"
  <1>. DEFINE b == ManagerChanged(NewBoundary, TRUE).b
  <1>1. b \in Boundaries /\ b.phase = "DiscoveringServices"
    <2>1. NewBoundary \in Boundaries /\ NewBoundary.phase # "Closed"
      BY DEF NewBoundary, Boundaries, Phases, NoToken
    <2>2. b = [NewBoundary EXCEPT !.phase = "DiscoveringServices"]
      BY <2>1 DEF ManagerChanged, Applied
    <2>. QED BY <2>1, <2>2 DEF Boundaries, Phases
  <1>2. Connected(a, p) =
          [a EXCEPT !.attempted = TRUE, !.active = p, !.scanning = FALSE, !.owed = FALSE,
                    !.boundary = b, !.link = "connecting"]
    BY DEF Connected
  <1>. HIDE DEF b
  <1>. QED BY <1>1, <1>2 DEF MayConnect, Adapters

(* A push leaves nothing in the queue but its event and what was there, and
   loses something only by an overflow. *)
LEMMA PushIs ==
  ASSUME events \in Seq(Events), NEW e \in Events, Push(e)
  PROVE  /\ events' \in Seq(Events) /\ e.is \in Waiting'
         /\ Waiting' \subseteq Waiting \cup {e.is}
         /\ Overflows \/ Waiting \subseteq Waiting'
  <1>1. EventCapacity \in Nat \ {0}
    BY IosBleAssumption
  <1>2. CASE Len(events) = EventCapacity
    <2>1. /\ events # <<>> /\ Tail(events) \in Seq(Events)
          /\ Len(Tail(events)) = Len(events) - 1
          /\ \A i \in DOMAIN Tail(events) :
               i + 1 \in DOMAIN events /\ Tail(events)[i] = events[i + 1]
      BY <1>1, <1>2, QueueOperations, QueueItems
    <2>2. events' = Append(Tail(events), e)
      BY <1>2 DEF Push
    <2>3. /\ events' \in Seq(Events) /\ Len(events') = EventCapacity
          /\ DOMAIN events' = 1 .. EventCapacity /\ events'[EventCapacity] = e
          /\ \A i \in DOMAIN events' : \/ events'[i] = e
                                       \/ i \in DOMAIN Tail(events) /\ events'[i] = Tail(events)[i]
      BY <1>1, <1>2, <2>1, <2>2, QueueOperations, QueueItems, AppendProperties
    <2>4. Overflows \/ events' = events
      BY <1>2, <2>3 DEF Overflows
    <2>. QED BY <1>1, <2>1, <2>3, <2>4 DEF Waiting
  <1>3. CASE Len(events) # EventCapacity
    <2>1. events' = Append(events, e)
      BY <1>3 DEF Push
    <2>2. /\ events' \in Seq(Events) /\ DOMAIN events' = 1 .. Len(events) + 1
          /\ DOMAIN events = 1 .. Len(events) /\ Len(events) \in Nat
          /\ events'[Len(events) + 1] = e
          /\ \A i \in DOMAIN events : events'[i] = events[i]
      BY <2>1, QueueOperations, AppendProperties
    <2>. QED BY <2>2 DEF Waiting
  <1>. QED BY <1>2, <1>3

LEMMA TakeEventIs ==
  ASSUME events \in Seq(Events), NEW is, TakeEvent(is)
  PROVE  /\ pc = "loop" /\ events' \in Seq(Events) /\ Head(events) \in Events /\ Head(events).is = is
         /\ is \in Waiting /\ Waiting' \subseteq Waiting /\ Waiting \subseteq Waiting' \cup {is}
  <1>1. /\ pc = "loop" /\ events # <<>> /\ Head(events).is = is /\ events' = Tail(events)
    BY DEF TakeEvent
  <1>2. /\ events' \in Seq(Events) /\ Head(events) \in Events /\ Head(events) = events[1]
        /\ DOMAIN events = 1 .. Len(events) /\ Len(events) \in Nat \ {0}
        /\ DOMAIN events' = 1 .. Len(events) - 1
        /\ \A i \in DOMAIN events' : i + 1 \in DOMAIN events /\ events'[i] = events[i + 1]
    BY <1>1, QueueOperations, QueueItems
  <1>3. ASSUME NEW i \in DOMAIN events, i # 1
        PROVE  i - 1 \in DOMAIN events' /\ events[i] = events'[i - 1]
    BY <1>2, <1>3
  <1>4. Waiting' \subseteq Waiting /\ is \in Waiting
    BY <1>1, <1>2 DEF Waiting
  <1>5. ASSUME NEW i \in DOMAIN events
        PROVE  events[i].is \in Waiting' \cup {is}
    BY <1>1, <1>2, <1>3 DEF Waiting
  <1>. QED BY <1>1, <1>2, <1>4, <1>5 DEF Waiting

-----------------------------------------------------------------------------
(* The callbacks. *)

(* What every callback leaves alone, and what its event does to the queue. *)
LEMMA CallbackIs ==
  ASSUME IosBleInv, Callback, NEW e \in Events, Push(e)
  PROVE  /\ UNCHANGED <<control, stored, pc, target, pendingScan, pendingConnect, deadline, asked>>
         /\ events' \in Seq(Events) /\ e.is \in Waiting'
         /\ Waiting' \subseteq Waiting \cup {e.is}
         /\ Overflows \/ Waiting \subseteq Waiting'
  BY PushIs DEF Callback, hostVars, IosBleInv, HostTypeOK

(* A callback that leaves the attempt alone. *)
LEMMA AdapterReports ==
  ASSUME IosBleInv, Misses,
         UNCHANGED <<control, stored, pc, target, pendingScan, pendingConnect, deadline, asked>>,
         adapter' \in Adapters, events' \in Seq(Events),
         adapter'.installed = adapter.installed, adapter'.attempted = adapter.attempted,
         adapter'.scanning = adapter.scanning, adapter'.active = adapter.active,
         adapter'.boundary = adapter.boundary,
         adapter'.link = adapter.link \/ (adapter.link # "none" /\ adapter'.link = "lost"),
         adapter'.owed => adapter.owed,
         Waiting' \subseteq Waiting \cup {"AdapterReady", "AdapterOff", "Candidate"},
         "Candidate" \in Waiting' => "Candidate" \in Waiting \/ adapter.scanning,
         Overflows \/ Waiting \subseteq Waiting'
  PROVE  IosBleInv'
  <1>. USE DEF IosBleInv
  <1>1. Waiting' \cap AttemptReports \subseteq Waiting /\ ("Ready" \in Waiting' => "Ready" \in Waiting)
    BY DEF AttemptReports
  <1>2. HostTypeOK' /\ OperatorAsked' /\ ScansAreAlone' /\ ScansAreArmed'
    BY DEF HostTypeOK, OperatorAsked, NoUnaskedConnection, ScansAreAlone, ScansAreArmed
  <1>3. ReportsAreOfAttempt'
    BY <1>1 DEF ReportsAreOfAttempt
  <1>4. FlightsEnd'
    <2>1. adapter'.attempted /\ ~missed' => ~missed /\ Waiting \subseteq Waiting'
      BY DEF Misses
    <2>2. adapter'.link = "connecting" => adapter.link = "connecting"
      OBVIOUS
    <2>3. adapter'.link = "none" => adapter.link = "none"
      OBVIOUS
    <2>. QED BY <2>1, <2>2, <2>3 DEF FlightsEnd, InFlight
  <1>. QED BY <1>2, <1>3, <1>4

LEMMA ReportsSteps ==
  ASSUME IosBleInv, Misses,
         ManagerReports \/ (\E p \in Peripherals : DidDiscover(p)) \/ ToggleRadio
  PROVE  IosBleInv'
  <1>. DEFINE ready == Event("AdapterReady")
              off   == Event("AdapterOff")
  <1>1. adapter \in Adapters /\ events \in Seq(Events)
    BY DEF IosBleInv, HostTypeOK
  <1>2. /\ ready \in Events /\ ready.is = "AdapterReady"
        /\ off \in Events /\ off.is = "AdapterOff"
    BY DEF Event, Events, EventKinds, AttemptReports
  <1>3. CASE ManagerReports
    <2>1. adapter' = [adapter EXCEPT !.known = TRUE] /\ Callback /\ (Push(ready) \/ Push(off))
      BY <1>3 DEF ManagerReports, AdapterState
    <2>. HIDE DEF ready, off
    <2>2. /\ UNCHANGED <<control, stored, pc, target, pendingScan, pendingConnect, deadline, asked>>
          /\ events' \in Seq(Events) /\ Waiting' \subseteq Waiting \cup {"AdapterReady", "AdapterOff"}
          /\ Overflows \/ Waiting \subseteq Waiting'
      BY <1>2, <2>1, CallbackIs
    <2>3. /\ adapter' \in Adapters /\ adapter'.link = adapter.link /\ adapter'.owed = adapter.owed
          /\ adapter'.installed = adapter.installed /\ adapter'.attempted = adapter.attempted
          /\ adapter'.scanning = adapter.scanning /\ adapter'.active = adapter.active
          /\ adapter'.boundary = adapter.boundary
      BY <1>1, <2>1 DEF Adapters
    <2>. QED BY <2>2, <2>3, AdapterReports
  <1>4. ASSUME NEW p \in Peripherals, DidDiscover(p) PROVE IosBleInv'
    <2>. DEFINE e == [is |-> "Candidate", of |-> p]
    <2>1. adapter.scanning /\ adapter' = adapter /\ Callback /\ Push(e)
      BY <1>4 DEF DidDiscover
    <2>2. e \in Events /\ e.is = "Candidate"
      BY DEF Events
    <2>. HIDE DEF e
    <2>3. /\ UNCHANGED <<control, stored, pc, target, pendingScan, pendingConnect, deadline, asked>>
          /\ events' \in Seq(Events) /\ Waiting' \subseteq Waiting \cup {"Candidate"}
          /\ Overflows \/ Waiting \subseteq Waiting'
      BY <2>1, <2>2, CallbackIs
    <2>. QED BY <1>1, <2>1, <2>3, AdapterReports
  <1>5. CASE ToggleRadio
    <2>1. /\ UNCHANGED <<control, stored, pc, target, pendingScan, pendingConnect, deadline, asked>>
          /\ adapter' = [adapter EXCEPT
                           !.link = IF radio /\ @ \in {"connecting", "up"} THEN "lost" ELSE @,
                           !.owed = @ /\ ~radio]
          /\ Push(ready) \/ Push(off) \/ events' = events
      BY <1>5 DEF ToggleRadio, hostVars
    <2>. HIDE DEF ready, off
    <2>2. /\ events' \in Seq(Events) /\ Waiting' \subseteq Waiting \cup {"AdapterReady", "AdapterOff"}
          /\ Overflows \/ Waiting \subseteq Waiting'
      BY <1>1, <1>2, <2>1, PushIs DEF Waiting
    <2>3. /\ adapter' \in Adapters
          /\ adapter'.link = adapter.link \/ (adapter.link # "none" /\ adapter'.link = "lost")
          /\ adapter'.owed => adapter.owed
          /\ adapter'.installed = adapter.installed /\ adapter'.attempted = adapter.attempted
          /\ adapter'.scanning = adapter.scanning /\ adapter'.active = adapter.active
          /\ adapter'.boundary = adapter.boundary
      BY <1>1, <2>1 DEF Adapters
    <2>. QED BY <2>1, <2>2, <2>3, AdapterReports
  <1>. QED BY <1>3, <1>4, <1>5

(* A callback that reports on the attempt: what holds of the attempt after it. *)
LEMMA AttemptReported ==
  ASSUME IosBleInv, Misses,
         UNCHANGED <<control, stored, pc, target, pendingScan, pendingConnect, deadline, asked>>,
         adapter' \in Adapters, events' \in Seq(Events), adapter.link # "none",
         adapter'.installed = adapter.installed, adapter'.attempted = adapter.attempted,
         adapter'.scanning => adapter.scanning,
         adapter'.link # "connecting",
         adapter'.link # "none" => adapter'.active = adapter.active,
         adapter'.active = adapter.active \/ adapter'.active = NoPeripheral,
         adapter'.owed => adapter'.boundary.phase \in Handshaking,
         Waiting' \subseteq Waiting \cup AttemptReports,
         Overflows \/ Waiting \subseteq Waiting',
         "Ready" \in Waiting' /\ adapter'.active # NoPeripheral =>
           adapter'.boundary.phase = "Ready",
         pc = "pumping" /\ adapter'.active # NoPeripheral => adapter'.boundary.phase = "Ready",
         adapter'.link = "none" => "Failed" \in Waiting' \/ "Disconnected" \in Waiting'
  PROVE  IosBleInv'
  <1>. USE DEF IosBleInv
  <1>1. adapter.installed /\ adapter.attempted
    BY DEF ReportsAreOfAttempt
  <1>2. "Candidate" \in Waiting' => "Candidate" \in Waiting
    BY DEF AttemptReports
  <1>3. HostTypeOK' /\ OperatorAsked'
    BY DEF HostTypeOK, OperatorAsked, NoUnaskedConnection
  <1>4. ReportsAreOfAttempt'
    BY <1>1 DEF ReportsAreOfAttempt
  <1>5. ScansAreAlone' /\ ScansAreArmed'
    BY <1>1, <1>2 DEF ScansAreAlone, ScansAreArmed
  <1>6. FlightsEnd'
    BY <1>1 DEF FlightsEnd, InFlight
  <1>. QED BY <1>3, <1>4, <1>5, <1>6

(* The answer to a handshake request: the boundary moves on until it is Ready,
   and owes nothing then. *)
LEMMA AnswerIs ==
  ASSUME adapter \in Adapters, adapter.boundary.phase \in Handshaking, NEW good \in BOOLEAN
  PROVE  /\ Answer(good).b \in Boundaries
         /\ Answer(good).is \in {"ready", "failed", "applied"}
         /\ Answer(good).is = "ready" => Answer(good).b.phase = "Ready"
         /\ Answer(good).is = "applied" => Answer(good).b.phase \in Handshaking
  <1>. DEFINE b == adapter.boundary
  <1>1. b \in Boundaries
    BY DEF Adapters
  <1>. USE DEF Handshaking, Applied, Refused, Handshake
  <1>2. Close(b) \in Boundaries
    BY <1>1, BoundaryOps
  <1>3. CASE b.phase = "DiscoveringServices"
    <2>1. Answer(good) = ServicesDiscovered(b, good)
      BY <1>3 DEF Answer
    <2>2. [b EXCEPT !.phase = "DiscoveringCharacteristics"] \in Boundaries
      BY <1>1 DEF Boundaries, Phases
    <2>3. [b EXCEPT !.phase = "DiscoveringCharacteristics"].phase = "DiscoveringCharacteristics"
      BY <1>1 DEF Boundaries
    <2>. QED BY <1>2, <1>3, <2>1, <2>2, <2>3 DEF ServicesDiscovered
  <1>4. CASE b.phase = "DiscoveringCharacteristics"
    <2>. DEFINE t == [b EXCEPT !.phase = "EnablingNotifications", !.limit = TRUE]
    <2>1. Answer(good) = CharacteristicsDiscovered(b, good)
      BY <1>4 DEF Answer
    <2>2. t \in Boundaries /\ t.phase = "EnablingNotifications"
      BY <1>1 DEF Boundaries, Phases
    <2>3. Answer(good) = Handshake(b, "DiscoveringCharacteristics", good, t)
      BY <2>1 DEF CharacteristicsDiscovered
    <2>. HIDE DEF t
    <2>. QED BY <1>2, <1>4, <2>2, <2>3
  <1>5. CASE b.phase = "EnablingNotifications"
    <2>. DEFINE t == [b EXCEPT !.phase = "Ready"]
                answer == Handshake(b, "EnablingNotifications", good, t)
    <2>1. Answer(good) = NotificationsChanged(b, good)
      BY <1>5 DEF Answer
    <2>2. t \in Boundaries /\ t.phase = "Ready"
      BY <1>1 DEF Boundaries, Phases
    <2>3. Answer(good) = IF answer.is = "applied" THEN [answer EXCEPT !.is = "ready"] ELSE answer
      BY <2>1 DEF NotificationsChanged
    <2>. HIDE DEF t
    <2>4. CASE good
      <3>1. answer = [b |-> t, is |-> "applied"]
        BY <1>5, <2>4
      <3>. QED BY <2>2, <2>3, <3>1
    <2>5. CASE ~good
      <3>1. answer = [b |-> Close(b), is |-> "failed"]
        BY <1>5, <2>5
      <3>. QED BY <1>2, <2>3, <3>1
    <2>. QED BY <2>4, <2>5
  <1>. QED BY <1>3, <1>4, <1>5

LEMMA AttemptSteps ==
  ASSUME IosBleInv, Misses,
         DidConnect \/ DidFailToConnect \/ DidAnswerError \/ DidDisconnect
           \/ (\E good \in BOOLEAN : DidAnswer(good))
  PROVE  IosBleInv'
  <1>1. /\ adapter \in Adapters /\ events \in Seq(Events) /\ ReportsAreOfAttempt
        /\ UNCHANGED <<control, stored, pc, target, pendingScan, pendingConnect, deadline, asked>>
        /\ adapter.link # "none"
    BY DEF IosBleInv, HostTypeOK, Callback, hostVars,
           DidConnect, DidFailToConnect, DidAnswerError, DidDisconnect, DidAnswer
  <1>2. \A is \in AttemptReports : Event(is) \in Events /\ Event(is).is = is
    BY DEF Event, Events, EventKinds, AttemptReports
  <1>3. \A is \in AttemptReports :
          Push(Event(is)) => /\ events' \in Seq(Events) /\ is \in Waiting'
                             /\ Waiting' \subseteq Waiting \cup {is}
                             /\ Overflows \/ Waiting \subseteq Waiting'
    BY <1>1, <1>2, PushIs
  <1>4. CASE DidConnect
    <2>1. /\ adapter.link = "connecting" /\ Push(Event("Connected"))
          /\ adapter' = [adapter EXCEPT !.link = "up", !.owed = TRUE]
      BY <1>4 DEF DidConnect
    <2>2. /\ adapter' \in Adapters /\ adapter'.link = "up"
          /\ adapter'.installed = adapter.installed /\ adapter'.attempted = adapter.attempted
          /\ adapter'.scanning = adapter.scanning /\ adapter'.active = adapter.active
          /\ adapter'.boundary = adapter.boundary
      BY <1>1, <2>1 DEF Adapters
    <2>3. adapter.boundary.phase \in Handshaking /\ Waiting \cap AttemptReports = {}
      BY <1>1, <2>1 DEF ReportsAreOfAttempt, Handshaking
    <2>4. "Ready" \notin Waiting'
      BY <1>3, <2>1, <2>3 DEF AttemptReports
    <2>5. pc = "pumping" /\ adapter'.active # NoPeripheral => adapter'.boundary.phase = "Ready"
      BY <1>1, <2>2 DEF ReportsAreOfAttempt
    <2>. QED BY <1>1, <1>3, <2>1, <2>2, <2>3, <2>4, <2>5, AttemptReported DEF AttemptReports
  <1>5. CASE DidFailToConnect \/ DidDisconnect
    <2>1. PICK is \in {"Failed", "Disconnected"} : adapter' = TakeActive(adapter) /\ Push(Event(is))
      BY <1>5 DEF DidFailToConnect, DidDisconnect
    <2>2. /\ adapter' \in Adapters /\ adapter'.installed = adapter.installed
          /\ adapter'.attempted = adapter.attempted
          /\ adapter'.scanning => adapter.scanning
          /\ adapter'.link = "none" /\ adapter'.active = NoPeripheral /\ ~adapter'.owed
      BY <1>1, <2>1, AdapterEnds
    <2>. QED BY <1>1, <1>3, <2>1, <2>2, AttemptReported DEF AttemptReports
  <1>6. CASE DidAnswerError
    <2>1. /\ adapter.link = "up" /\ adapter.owed /\ Push(Event("Failed"))
          /\ adapter' = [adapter EXCEPT !.owed = FALSE]
      BY <1>6 DEF DidAnswerError
    <2>2. /\ adapter' \in Adapters /\ adapter'.link = "up" /\ ~adapter'.owed
          /\ adapter'.installed = adapter.installed /\ adapter'.attempted = adapter.attempted
          /\ adapter'.scanning = adapter.scanning /\ adapter'.active = adapter.active
          /\ adapter'.boundary = adapter.boundary
      BY <1>1, <2>1 DEF Adapters
    <2>3. "Ready" \in Waiting' => "Ready" \in Waiting
      BY <1>3, <2>1 DEF AttemptReports
    <2>4. /\ "Ready" \in Waiting' /\ adapter'.active # NoPeripheral =>
               adapter'.boundary.phase = "Ready"
          /\ pc = "pumping" /\ adapter'.active # NoPeripheral => adapter'.boundary.phase = "Ready"
      BY <1>1, <2>2, <2>3 DEF ReportsAreOfAttempt
    <2>. QED BY <1>1, <1>3, <2>1, <2>2, <2>4, AttemptReported DEF AttemptReports
  <1>7. ASSUME NEW good \in BOOLEAN, DidAnswer(good) PROVE IosBleInv'
    <2>. DEFINE b == Answer(good).b
                is == Answer(good).is
    <2>1. /\ adapter.link = "up" /\ adapter.owed
          /\ adapter' = [adapter EXCEPT !.boundary = b, !.owed = is = "applied"]
          /\ is = "ready" => Push(Event("Ready"))
          /\ is = "failed" => Push(Event("Failed"))
          /\ is = "applied" => UNCHANGED events
      BY <1>7 DEF DidAnswer
    <2>2. adapter.boundary.phase \in Handshaking
      BY <1>1, <2>1 DEF ReportsAreOfAttempt
    <2>3. /\ b \in Boundaries /\ is \in {"ready", "failed", "applied"}
          /\ is = "ready" => b.phase = "Ready"
          /\ is = "applied" => b.phase \in Handshaking
      BY <1>1, <2>2, AnswerIs
    <2>. HIDE DEF b, is
    <2>4. /\ adapter' \in Adapters /\ adapter'.link = "up" /\ adapter'.boundary = b
          /\ adapter'.owed => is = "applied"
          /\ adapter'.installed = adapter.installed /\ adapter'.attempted = adapter.attempted
          /\ adapter'.scanning = adapter.scanning /\ adapter'.active = adapter.active
      BY <1>1, <2>1, <2>3 DEF Adapters
    <2>5. /\ events' \in Seq(Events) /\ Waiting' \subseteq Waiting \cup AttemptReports
          /\ Overflows \/ Waiting \subseteq Waiting'
          /\ "Ready" \in Waiting' => "Ready" \in Waiting \/ is = "ready"
      <3>1. CASE is = "applied"
        BY <1>1, <2>1, <3>1 DEF Waiting
      <3>2. CASE is \in {"ready", "failed"}
        BY <1>3, <2>1, <3>2 DEF AttemptReports
      <3>. QED BY <2>3, <3>1, <3>2
    <2>6. pc = "pumping" \/ "Ready" \in Waiting => adapter.active = NoPeripheral
      BY <1>1, <2>2 DEF ReportsAreOfAttempt, Handshaking
    <2>. QED BY <1>1, <2>1, <2>3, <2>4, <2>5, <2>6, AttemptReported
  <1>. QED BY <1>4, <1>5, <1>6, <1>7

-----------------------------------------------------------------------------
(* The handlers of events. *)

LEMMA EventSteps ==
  ASSUME IosBleInv, Misses, HandleEvent
  PROVE  IosBleInv'
  <1>. USE DEF IosBleInv
  <1>1. PICK is \in EventKinds :
          /\ TakeEvent(is) /\ EventFrame
          /\ is = "AdapterReady" => HandleAdapterReady
          /\ is = "AdapterOff" => HandleAdapterOff
          /\ is = "Candidate" => HandleCandidate
          /\ is = "Connected" => HandleConnected
          /\ is = "Ready" => HandleReady
          /\ is = "Failed" => HandleFailed
          /\ is = "Disconnected" => HandleDisconnected
    BY DEF HandleEvent, HandleAdapterReady, HandleAdapterOff, HandleCandidate, HandleConnected,
           HandleReady, HandleFailed, HandleDisconnected, EventKinds, AttemptReports
  <1>2. /\ control \in Controls /\ adapter \in Adapters /\ events \in Seq(Events)
        /\ target \in MaybePeripheral /\ pendingConnect \in MaybePeripheral
    BY DEF HostTypeOK
  <1>3. /\ pc = "loop" /\ events' \in Seq(Events)
        /\ Head(events) \in Events /\ Head(events).is = is
        /\ is \in Waiting /\ Waiting' \subseteq Waiting /\ Waiting \subseteq Waiting' \cup {is}
    BY <1>1, <1>2, TakeEventIs
  <1>4. UNCHANGED <<stored, asked>>
    BY <1>1 DEF EventFrame
  <1>5. is \in AttemptReports => /\ adapter.installed /\ adapter.attempted
                                 /\ ~pendingScan /\ ~adapter.scanning
                                 /\ adapter.link # "connecting"
    BY <1>3 DEF ReportsAreOfAttempt, ScansAreAlone
  <1>6. adapter'.attempted /\ ~missed' => ~missed
    BY DEF Misses
  <1>7. CASE is = "AdapterReady"
    <2>1. /\ control' = [control EXCEPT !.adapter = "Ready"] /\ UNCHANGED deadline
          /\ \/ /\ pendingScan /\ UNCHANGED <<pendingConnect, pc, target>>
                /\ \/ /\ adapter.installed /\ ~adapter.scanning /\ ~pendingScan'
                      /\ adapter' = [adapter EXCEPT !.scanning = TRUE]
                   \/ UNCHANGED <<adapter, pendingScan>>
             \/ /\ ~pendingScan /\ UNCHANGED <<adapter, pendingScan>>
                /\ \/ /\ pc' = "reconnecting" /\ target' = pendingConnect
                      /\ pendingConnect # NoPeripheral /\ pendingConnect' = NoPeripheral
                   \/ UNCHANGED <<pendingConnect, pc, target>>
      BY <1>1, <1>7 DEF HandleAdapterReady
    <2>2. /\ control' \in Controls /\ control'.permission = control.permission
          /\ control'.phase = control.phase /\ control'.candidates = control.candidates
          /\ control'.approved = control.approved /\ control'.failure = control.failure
      BY <1>2, <2>1 DEF Controls
    <2>3. /\ adapter' \in Adapters /\ adapter'.attempted = adapter.attempted
          /\ adapter'.installed = adapter.installed /\ adapter'.active = adapter.active
          /\ adapter'.link = adapter.link /\ adapter'.boundary = adapter.boundary
          /\ adapter'.owed = adapter.owed
          /\ adapter'.scanning => adapter.scanning \/ (pendingScan /\ adapter.installed /\ ~pendingScan')
          /\ pendingScan' => pendingScan /\ (adapter'.scanning => adapter.scanning)
      <3>1. CASE adapter' = [adapter EXCEPT !.scanning = TRUE] /\ pendingScan /\ adapter.installed
                 /\ ~pendingScan'
        BY <1>2, <3>1 DEF Adapters
      <3>2. CASE UNCHANGED <<adapter, pendingScan>>
        BY <1>2, <3>2
      <3>. QED BY <2>1, <3>1, <3>2
    <2>4. pc' # "pumping" /\ pc' # "approving" /\ (pendingScan' => pc' = "loop")
      BY <1>3, <2>1
    <2>5. HostTypeOK' /\ OperatorAsked'
      BY <1>2, <1>3, <1>4, <2>1, <2>2, <2>3
      DEF HostTypeOK, OperatorAsked, NoUnaskedConnection, MaybePeripheral
    <2>6. ReportsAreOfAttempt'
      BY <1>3, <2>3, <2>4 DEF ReportsAreOfAttempt
    <2>7. ScansAreAlone' /\ ScansAreArmed'
      BY <1>3, <2>1, <2>2, <2>3, <2>4 DEF ScansAreAlone, ScansAreArmed
    <2>8. FlightsEnd'
      BY <1>3, <1>6, <1>7, <2>1, <2>2, <2>3, <2>4 DEF FlightsEnd, InFlight
    <2>. QED BY <2>5, <2>6, <2>7, <2>8
  <1>8. CASE is \in {"AdapterOff", "Candidate"}
    <2>1. /\ UNCHANGED <<pc, target, adapter, pendingScan, pendingConnect, deadline>>
          /\ \/ control' = [control EXCEPT !.adapter = "Unavailable"]
             \/ /\ control' = [control EXCEPT !.candidates = @ \cup {Head(events).of}]
                /\ is = "Candidate"
      BY <1>1, <1>8 DEF HandleAdapterOff, HandleCandidate
    <2>2. /\ control' \in Controls /\ control'.permission = control.permission
          /\ control'.phase = control.phase
          /\ control'.candidates = control.candidates \/ is = "Candidate"
          /\ control'.approved = control.approved /\ control'.failure = control.failure
      BY <1>2, <1>3, <2>1 DEF Controls, Events
    <2>3. pendingScan => is # "Candidate"
      BY <1>3 DEF ScansAreAlone
    <2>. QED
      BY <1>2, <1>3, <1>4, <1>6, <1>8, <2>1, <2>2, <2>3
      DEF HostTypeOK, OperatorAsked, NoUnaskedConnection, ReportsAreOfAttempt, ScansAreAlone,
          ScansAreArmed, FlightsEnd, InFlight
  <1>9. CASE is = "Connected"
    <2>1. UNCHANGED <<control, pc, target, adapter, pendingScan, pendingConnect>>
      BY <1>1, <1>9 DEF HandleConnected
    <2>2. HostTypeOK' /\ OperatorAsked' /\ ReportsAreOfAttempt' /\ ScansAreAlone' /\ ScansAreArmed'
      BY <1>2, <1>3, <1>4, <1>5, <1>9, <2>1
      DEF HostTypeOK, OperatorAsked, NoUnaskedConnection, ReportsAreOfAttempt, ScansAreAlone,
          ScansAreArmed, AttemptReports
    <2>3. FlightsEnd'
      BY <1>3, <1>5, <1>6, <1>9, <2>1 DEF FlightsEnd, InFlight, AttemptReports
    <2>. QED BY <2>2, <2>3
  <1>10. CASE is = "Ready"
    <2>1. /\ control' = [control EXCEPT !.phase = "Connecting"] /\ pc' = "pumping"
          /\ UNCHANGED <<target, adapter, pendingScan, pendingConnect>>
      BY <1>1, <1>5, <1>10 DEF HandleReady, AttemptReports
    <2>2. /\ control' \in Controls /\ control'.permission = control.permission
          /\ control'.candidates = control.candidates /\ control'.approved = control.approved
      BY <1>2, <2>1 DEF Controls, ControlPhases
    <2>3. adapter.active # NoPeripheral => adapter.boundary.phase = "Ready"
      BY <1>3, <1>10 DEF ReportsAreOfAttempt
    <2>. QED
      BY <1>2, <1>3, <1>4, <1>5, <1>10, <2>1, <2>2, <2>3
      DEF HostTypeOK, OperatorAsked, NoUnaskedConnection, ReportsAreOfAttempt, ScansAreAlone,
          ScansAreArmed, FlightsEnd, InFlight, AttemptReports
  <1>11. CASE is = "Failed"
    <2>1. /\ control' = StartFailed /\ adapter' = CloseAdapter(adapter)
          /\ UNCHANGED <<pc, target, pendingScan, pendingConnect>>
      BY <1>1, <1>11 DEF HandleFailed
    <2>2. control' \in Controls /\ control'.phase = "Idle"
      BY <1>2, <2>1 DEF StartFailed, Controls, ControlPhases
    <2>3. /\ adapter' \in Adapters /\ adapter'.installed = adapter.installed
          /\ adapter'.attempted = adapter.attempted /\ ~adapter'.scanning
          /\ adapter'.link = "none" /\ adapter'.active = NoPeripheral /\ ~adapter'.owed
      BY <1>2, <2>1, AdapterEnds
    <2>. QED
      BY <1>2, <1>3, <1>4, <1>5, <1>11, <2>1, <2>2, <2>3
      DEF HostTypeOK, OperatorAsked, NoUnaskedConnection, ReportsAreOfAttempt, ScansAreAlone,
          ScansAreArmed, FlightsEnd, InFlight, AttemptReports
  <1>12. CASE is = "Disconnected"
    <2>1. /\ control' = IF control.approved # NoPeripheral THEN StartFailed ELSE control
          /\ UNCHANGED <<pc, target, adapter, pendingScan, pendingConnect>>
      BY <1>1, <1>12 DEF HandleDisconnected
    <2>2. /\ control' \in Controls
          /\ control'.phase = "Idle" \/ (control.approved = NoPeripheral /\ control' = control)
      BY <1>2, <2>1 DEF StartFailed, Controls, ControlPhases
    <2>3. ~InFlight'
      BY <1>3, <2>1, <2>2 DEF FlightsEnd, InFlight
    <2>. QED
      BY <1>2, <1>3, <1>4, <1>5, <1>12, <2>1, <2>2, <2>3
      DEF HostTypeOK, OperatorAsked, NoUnaskedConnection, ReportsAreOfAttempt, ScansAreAlone,
          ScansAreArmed, FlightsEnd, AttemptReports
  <1>. QED BY <1>7, <1>8, <1>9, <1>10, <1>11, <1>12 DEF EventKinds, AttemptReports

-----------------------------------------------------------------------------
(* The handlers of commands, and what they await. *)

(* The host is elsewhere and nothing else is: it starts to ask for the
   permission, drops a command or is back from a forgotten connection. *)
LEMMA ElsewhereSteps ==
  ASSUME IosBleInv, Misses,
         UNCHANGED <<control, stored, target, pendingScan, pendingConnect, deadline, adapter,
                     events, asked>>,
         pc' = pc \/ (pc = "loop" /\ pc' = "permission")
                  \/ (pc = "forgotten" /\ pc' = "loop")
  PROVE  IosBleInv'
  <1>1. adapter'.attempted /\ ~missed' => ~missed
    BY DEF Misses
  <1>. QED
    BY <1>1
    DEF IosBleInv, HostTypeOK, OperatorAsked, NoUnaskedConnection, ReportsAreOfAttempt,
        ScansAreAlone, ScansAreArmed, FlightsEnd, InFlight, Waiting

(* A new adapter, or none, with nothing in its queue. *)
LEMMA AdapterReplaced ==
  ASSUME NEW a, a = NoAdapter \/ a = FreshAdapter, adapter' = a, events' = <<>>
  PROVE  /\ adapter' \in Adapters /\ ~adapter'.attempted /\ ~adapter'.scanning
         /\ adapter'.link = "none" /\ ~adapter'.owed /\ adapter'.active = NoPeripheral
         /\ events' \in Seq(Events) /\ Waiting' = {}
  BY UnusedAdapters, EmptyQueue DEF Waiting

LEMMA CommandSteps ==
  ASSUME IosBleInv, Misses, HandleCommand
  PROVE  IosBleInv'
  <1>. USE DEF IosBleInv
  <1>1. /\ pc = "loop" /\ control \in Controls /\ adapter \in Adapters
        /\ stored \in MaybePeripheral /\ target \in MaybePeripheral
        /\ pendingConnect \in MaybePeripheral
    BY DEF HandleCommand, HandleScan, HandleSelect, HandleRetry, HandleCancel, HandleForget, Take,
           HostTypeOK
  <1>2. CASE HandleScan
    BY <1>2, ElsewhereSteps DEF HandleScan, Take, linkVars
  <1>3. CASE HandleSelect
    <2>1. CASE DropCommand
      BY <1>1, <2>1, ElsewhereSteps DEF DropCommand, hostVars, linkVars
    <2>2. CASE ~DropCommand
      <3>1. PICK p \in control.candidates :
              /\ control' = [control EXCEPT !.approved = p]
              /\ stored' = p /\ target' = p /\ asked' = asked \cup {p} /\ pc' = "approving"
              /\ UNCHANGED <<pendingScan, pendingConnect, deadline, adapter, events>>
        BY <1>3, <2>2 DEF HandleSelect, linkVars
      <3>2. p \in Peripherals /\ p # NoPeripheral /\ control.candidates # {} /\ ~pendingScan
        BY <1>1, <3>1, IosBleAssumption DEF Controls, ScansAreAlone
      <3>3. /\ control' \in Controls /\ control'.permission = control.permission
            /\ control'.phase = control.phase /\ control'.candidates = control.candidates
            /\ control'.approved = p /\ control'.failure = control.failure
        BY <1>1, <3>1, <3>2 DEF Controls, MaybePeripheral
      <3>4. adapter'.attempted /\ ~missed' => ~missed
        BY DEF Misses
      <3>. QED
        BY <1>1, <3>1, <3>2, <3>3, <3>4
        DEF HostTypeOK, OperatorAsked, NoUnaskedConnection, ReportsAreOfAttempt,
            ScansAreAlone, ScansAreArmed, FlightsEnd, InFlight, Waiting, MaybePeripheral
    <2>. QED BY <2>1, <2>2
  <1>4. CASE HandleRetry
    <2>1. CASE DropCommand
      BY <1>1, <2>1, ElsewhereSteps DEF DropCommand, hostVars, linkVars
    <2>2. CASE ~DropCommand
      <3>1. /\ control.approved # NoPeripheral
            /\ adapter' = FreshAdapter /\ events' = <<>>
            /\ pendingConnect' = control.approved /\ pendingScan' = FALSE
            /\ control' = [control EXCEPT !.phase = "Reconnecting", !.failure = FALSE]
            /\ deadline' = "Connect"
            /\ asked' = asked \cup {control.approved} /\ UNCHANGED <<stored, pc, target>>
        BY <1>4, <2>2 DEF HandleRetry, RetryDropsScan, ArmConnect
      <3>2. /\ control' \in Controls /\ control'.approved = control.approved
            /\ control.approved \in MaybePeripheral
        BY <1>1, <3>1 DEF Controls, ControlPhases
      <3>. QED
        BY <1>1, <3>1, <3>2, AdapterReplaced
        DEF HostTypeOK, OperatorAsked, NoUnaskedConnection, ReportsAreOfAttempt,
            ScansAreAlone, ScansAreArmed, FlightsEnd, InFlight
    <2>. QED BY <2>1, <2>2
  <1>5. CASE HandleCancel
    <2>1. CASE DropCommand
      BY <1>1, <2>1, ElsewhereSteps DEF DropCommand, hostVars, linkVars
    <2>2. CASE ~DropCommand
      <3>1. /\ control.phase \in {"Connecting", "Reconnecting"}
            /\ adapter' = NoAdapter /\ events' = <<>> /\ pendingConnect' = NoPeripheral
            /\ control' = [control EXCEPT !.phase = "Idle", !.failure = FALSE]
            /\ UNCHANGED <<stored, pc, target, pendingScan, asked>>
        BY <1>5, <2>2 DEF HandleCancel
      <3>2. control' \in Controls /\ control'.phase = "Idle" /\ ~pendingScan
        BY <1>1, <3>1 DEF Controls, ControlPhases, ScansAreArmed
      <3>. QED
        BY <1>1, <3>1, <3>2, AdapterReplaced
        DEF HostTypeOK, OperatorAsked, NoUnaskedConnection, ReportsAreOfAttempt,
            ScansAreAlone, ScansAreArmed, FlightsEnd, InFlight, MaybePeripheral
    <2>. QED BY <2>1, <2>2
  <1>6. CASE HandleForget
    <2>1. /\ adapter' = NoAdapter /\ events' = <<>> /\ pc' = "forgetting"
          /\ pendingScan' = FALSE /\ pendingConnect' = NoPeripheral
          /\ stored' = NoPeripheral /\ UNCHANGED <<control, target>>
      BY <1>6 DEF HandleForget
    <2>. QED
      BY <1>1, <2>1, AdapterReplaced
      DEF HostTypeOK, OperatorAsked, NoUnaskedConnection, ReportsAreOfAttempt,
          ScansAreAlone, ScansAreArmed, FlightsEnd, InFlight, MaybePeripheral
  <1>. QED BY <1>2, <1>3, <1>4, <1>5, <1>6 DEF HandleCommand

(* The connection that was awaited starts, or is refused: its adapter has been
   used, is gone or is off. *)
LEMMA ConnectsSteps ==
  ASSUME IosBleInv, Misses, SelectConnects \/ ReconnectStarts
  PROVE  IosBleInv'
  <1>. USE DEF IosBleInv
  <1>1. /\ pc \in {"approving", "reconnecting"} /\ pc' = "loop"
        /\ control \in Controls /\ adapter \in Adapters /\ target \in MaybePeripheral
        /\ UNCHANGED <<stored, target, pendingScan, pendingConnect, events, asked>>
        /\ ~pendingScan
    BY DEF SelectConnects, ReconnectStarts, HostTypeOK, ScansAreAlone
  <1>2. CASE MayConnect(adapter) /\ adapter' = Connected(adapter, target)
    <2>1. /\ adapter' \in Adapters /\ adapter'.installed /\ ~adapter.attempted
          /\ adapter'.attempted /\ ~adapter'.scanning /\ ~adapter'.owed
          /\ adapter'.active = target /\ adapter'.link = "connecting"
          /\ adapter'.boundary.phase = "DiscoveringServices"
      BY <1>1, <1>2, AdapterConnects
    <2>2. Waiting \cap AttemptReports = {} /\ Waiting' = Waiting /\ "Ready" \notin Waiting
      BY <1>1, <2>1 DEF ReportsAreOfAttempt, Waiting, AttemptReports
    <2>3. target \in asked
      BY <1>1, <2>1 DEF OperatorAsked
    <2>4. /\ control' \in Controls /\ control'.approved = control.approved
          /\ pc = "approving" => deadline' = "Connect"
          /\ pc = "reconnecting" => UNCHANGED <<control, deadline>>
      <3>1. CASE pc = "approving"
        <4>1. \/ /\ control' = [control EXCEPT !.phase = "Connecting", !.failure = FALSE]
                 /\ deadline' = "Connect"
              \/ adapter' = adapter
          BY <3>1 DEF SelectConnects, ReconnectStarts, ArmConnect
        <4>. QED BY <1>1, <2>1, <3>1, <4>1 DEF Controls, ControlPhases
      <3>2. CASE pc = "reconnecting"
        <4>1. UNCHANGED <<control, deadline>> \/ adapter' = adapter
          BY <3>2 DEF SelectConnects, ReconnectStarts
        <4>. QED BY <1>1, <2>1, <3>2, <4>1
      <3>. QED BY <1>1, <3>1, <3>2
    <2>5. FlightsEnd'
      <3>1. pc = "reconnecting" /\ InFlight' => InFlight
        BY <1>1, <2>4 DEF InFlight
      <3>2. InFlight' => control.approved # NoPeripheral /\ deadline' = "Connect"
        BY <1>1, <2>1, <2>4, <3>1 DEF FlightsEnd
      <3>. QED BY <1>1, <2>1, <2>4, <3>2 DEF FlightsEnd
    <2>. QED
      BY <1>1, <2>1, <2>2, <2>3, <2>4, <2>5
      DEF HostTypeOK, OperatorAsked, NoUnaskedConnection, ReportsAreOfAttempt,
          ScansAreAlone, ScansAreArmed
  <1>3. CASE adapter' = adapter /\ control' = StartFailed
    <2>1. control' \in Controls /\ control'.phase = "Idle" /\ control'.failure
      BY <1>1, <1>3 DEF StartFailed, Controls, ControlPhases
    <2>2. control'.permission = control.permission /\ control'.candidates = control.candidates
      BY <1>1, <1>3 DEF StartFailed, Controls
    <2>. QED
      BY <1>1, <1>3, <2>1, <2>2
      DEF HostTypeOK, OperatorAsked, NoUnaskedConnection, ReportsAreOfAttempt,
          ScansAreAlone, ScansAreArmed, FlightsEnd, InFlight, Waiting
  <1>. QED BY <1>2, <1>3 DEF SelectConnects, ReconnectStarts

LEMMA ResumeSteps ==
  ASSUME IosBleInv, Misses, PermissionAnswered \/ ForgetDone \/ PumpCommand \/ PumpForgotten
  PROVE  IosBleInv'
  <1>. USE DEF IosBleInv
  <1>1. control \in Controls /\ adapter \in Adapters
    BY DEF HostTypeOK
  <1>2. CASE PermissionAnswered
    <2>1. PICK permission \in {"Granted", "Denied"} :
            /\ control.permission # "NotDetermined" => permission = control.permission
            /\ control' = [control EXCEPT !.permission = permission, !.failure = FALSE,
                             !.candidates = {},
                             !.phase = IF permission = "Granted" THEN "Scanning" ELSE "Idle"]
            /\ IF permission = "Granted"
               THEN /\ adapter' = FreshAdapter /\ events' = <<>>
                    /\ pendingScan' = TRUE /\ pendingConnect' = NoPeripheral
                    /\ deadline' = "Scan"
               ELSE UNCHANGED <<adapter, events, pendingScan, pendingConnect, deadline>>
      BY <1>2 DEF PermissionAnswered, ArmScan
    <2>2. /\ pc = "permission" /\ pc' = "loop" /\ UNCHANGED <<stored, target, asked>>
      BY <1>2 DEF PermissionAnswered
    <2>3. CASE permission = "Granted"
      <3>1. /\ control' \in Controls /\ control'.permission = "Granted"
            /\ control'.phase = "Scanning" /\ control'.candidates = {}
        BY <1>1, <2>1, <2>3 DEF Controls, ControlPhases, Permissions
      <3>. QED
        BY <2>1, <2>2, <2>3, <3>1, AdapterReplaced
        DEF HostTypeOK, OperatorAsked, NoUnaskedConnection, ReportsAreOfAttempt,
            ScansAreAlone, ScansAreArmed, FlightsEnd, InFlight, MaybePeripheral
    <2>4. CASE permission = "Denied"
      <3>1. control' \in Controls /\ control'.phase = "Idle"
        BY <1>1, <2>1, <2>4 DEF Controls, ControlPhases, Permissions
      <3>2. ~pendingScan /\ ~adapter.scanning
        BY <2>1, <2>4 DEF ScansAreAlone
      <3>3. UNCHANGED <<adapter, events, pendingScan, pendingConnect, deadline>>
        BY <2>1, <2>4
      <3>. QED
        BY <2>2, <3>1, <3>2, <3>3
        DEF HostTypeOK, OperatorAsked, NoUnaskedConnection, ReportsAreOfAttempt,
            ScansAreAlone, ScansAreArmed, FlightsEnd, InFlight, Waiting
    <2>. QED BY <2>3, <2>4
  <1>3. CASE ForgetDone
    <2>1. /\ pc = "forgetting" /\ pc' = "loop"
          /\ control' = [control EXCEPT !.approved = NoPeripheral, !.phase = "Idle",
                                        !.failure = FALSE]
          /\ UNCHANGED <<stored, target, pendingScan, pendingConnect, adapter, events, asked>>
      BY <1>3 DEF ForgetDone, linkVars
    <2>2. control' \in Controls /\ control'.phase = "Idle"
      BY <1>1, <2>1 DEF Controls, ControlPhases, MaybePeripheral
    <2>3. ~pendingScan /\ ~adapter.scanning
      BY <2>1 DEF ScansAreAlone
    <2>. QED
      BY <2>1, <2>2, <2>3
      DEF HostTypeOK, OperatorAsked, NoUnaskedConnection, ReportsAreOfAttempt,
          ScansAreAlone, ScansAreArmed, FlightsEnd, InFlight, Waiting
  <1>4. CASE PumpCommand
    <2>1. /\ pc = "pumping" /\ pc' = pc
          /\ UNCHANGED <<stored, target, pendingScan, pendingConnect, deadline, adapter,
                         events, asked>>
          /\ \/ control' = control
             \/ control' = [control EXCEPT !.approved = NoPeripheral, !.failure = FALSE]
      BY <1>4 DEF PumpCommand, linkVars
    <2>2. control' \in Controls
      BY <1>1, <2>1 DEF Controls, MaybePeripheral
    <2>3. ~pendingScan /\ ~adapter.scanning
      BY <2>1 DEF ScansAreAlone, ReportsAreOfAttempt
    <2>. QED
      BY <2>1, <2>2, <2>3
      DEF HostTypeOK, OperatorAsked, NoUnaskedConnection, ReportsAreOfAttempt,
          ScansAreAlone, ScansAreArmed, FlightsEnd, InFlight, Waiting
  <1>5. CASE PumpForgotten
    BY <1>5, ElsewhereSteps DEF PumpForgotten, linkVars
  <1>. QED BY <1>2, <1>3, <1>4, <1>5

-----------------------------------------------------------------------------
(* The deadline, the end of the pump and a new launch. *)

LEMMA EffortEnds ==
  ASSUME IosBleInv, Misses, Deadline \/ PumpEnds
  PROVE  IosBleInv'
  <1>. USE DEF IosBleInv
  <1>1. control \in Controls /\ adapter \in Adapters
    BY DEF HostTypeOK
  <1>2. CASE Deadline
    <2>1. /\ pc = "loop" /\ pc' = pc /\ ~pendingScan' /\ pendingConnect' = NoPeripheral
          /\ UNCHANGED <<stored, target, events, asked>>
          /\ \/ /\ adapter' = [adapter EXCEPT !.scanning = FALSE]
                /\ control' = [control EXCEPT !.phase = "Idle"]
             \/ adapter' = CloseAdapter(adapter) /\ control' = StartFailed
      BY <1>2 DEF Deadline
    <2>2. control' \in Controls /\ control'.phase = "Idle"
      BY <1>1, <2>1 DEF Controls, ControlPhases, StartFailed
    <2>3. CASE adapter' = [adapter EXCEPT !.scanning = FALSE]
      <3>1. /\ adapter' \in Adapters /\ adapter'.installed = adapter.installed
            /\ adapter'.attempted = adapter.attempted /\ ~adapter'.scanning
            /\ adapter'.link = adapter.link /\ adapter'.active = adapter.active
            /\ adapter'.owed = adapter.owed /\ adapter'.boundary = adapter.boundary
        BY <1>1, <2>3 DEF Adapters
      <3>. QED
        BY <2>1, <2>2, <3>1
        DEF HostTypeOK, OperatorAsked, NoUnaskedConnection, ReportsAreOfAttempt,
            ScansAreAlone, ScansAreArmed, FlightsEnd, InFlight, Waiting, MaybePeripheral
    <2>4. CASE adapter' = CloseAdapter(adapter)
      <3>1. /\ adapter' \in Adapters /\ adapter'.installed = adapter.installed
            /\ adapter'.attempted = adapter.attempted /\ ~adapter'.scanning
            /\ adapter'.link = "none" /\ adapter'.active = NoPeripheral /\ ~adapter'.owed
        BY <1>1, <2>4, AdapterEnds
      <3>. QED
        BY <2>1, <2>2, <3>1
        DEF HostTypeOK, OperatorAsked, NoUnaskedConnection, ReportsAreOfAttempt,
            ScansAreAlone, ScansAreArmed, FlightsEnd, InFlight, Waiting, MaybePeripheral
    <2>. QED BY <2>1, <2>3, <2>4
  <1>3. CASE PumpEnds
    <2>1. /\ pc = "pumping" /\ pc' \in {"loop", "forgotten"}
          /\ adapter' = CloseAdapter(adapter)
          /\ control' = [control EXCEPT !.phase = "Idle", !.failure = @ \/ ~forgotten]
          /\ UNCHANGED <<target, pendingScan, pendingConnect, events>>
          /\ stored' = stored \/ stored' = NoPeripheral
      BY <1>3 DEF PumpEnds, Unremember
    <2>2. control' \in Controls /\ control'.phase = "Idle"
      <3>. DEFINE failed == control.failure \/ ~forgotten
      <3>1. failed \in BOOLEAN
        OBVIOUS
      <3>2. control' = [control EXCEPT !.phase = "Idle", !.failure = failed]
        BY <1>1, <2>1 DEF Controls
      <3>. HIDE DEF failed
      <3>. QED BY <1>1, <3>1, <3>2 DEF Controls, ControlPhases
    <2>3. /\ adapter' \in Adapters /\ adapter'.installed = adapter.installed
          /\ adapter'.attempted = adapter.attempted /\ ~adapter'.scanning
          /\ adapter'.link = "none" /\ adapter'.active = NoPeripheral /\ ~adapter'.owed
      BY <1>1, <2>1, AdapterEnds
    <2>4. adapter.attempted /\ adapter.installed /\ ~pendingScan
      BY <2>1 DEF ReportsAreOfAttempt, ScansAreAlone
    <2>. QED
      BY <2>1, <2>2, <2>3, <2>4
      DEF HostTypeOK, OperatorAsked, NoUnaskedConnection, ReportsAreOfAttempt,
          ScansAreAlone, ScansAreArmed, FlightsEnd, InFlight, Waiting, MaybePeripheral
  <1>. QED BY <1>2, <1>3

(* A launch shows the remembered peripheral and asks for nothing. *)
LEMMA LaunchIs ==
  ASSUME NEW permission \in Permissions, NEW remembered \in MaybePeripheral
  PROVE  LET c == LaunchControl(permission, remembered)
         IN c \in Controls /\ c.phase = "Idle"
  BY DEF LaunchControl, Controls, ControlPhases

LEMMA RelaunchStep ==
  ASSUME IosBleInv, Relaunch
  PROVE  IosBleInv'
  <1>1. /\ control.permission \in Permissions /\ stored \in MaybePeripheral
        /\ target \in MaybePeripheral
    BY DEF IosBleInv, HostTypeOK, Controls
  <1>2. /\ control' = LaunchControl(control.permission, stored)
        /\ adapter' = FreshAdapter \/ adapter' = NoAdapter
        /\ events' = <<>> /\ pc' = "loop" /\ target' = NoPeripheral
        /\ ~pendingScan' /\ pendingConnect' = NoPeripheral /\ stored' = stored
    BY DEF Relaunch, LaunchAdapter, LaunchConnect
  <1>3. control' \in Controls /\ control'.phase = "Idle"
    BY <1>1, <1>2, LaunchIs
  <1>. QED
    BY <1>1, <1>2, <1>3, AdapterReplaced
    DEF IosBleInv, HostTypeOK, OperatorAsked, NoUnaskedConnection, ReportsAreOfAttempt,
        ScansAreAlone, ScansAreArmed, FlightsEnd, InFlight, MaybePeripheral

LEMMA HostStarts == Init => IosBleInv
  <1>. SUFFICES ASSUME Init PROVE IosBleInv
    OBVIOUS
  <1>1. PICK permission \in {"NotDetermined", "Granted"} :
          /\ control = LaunchControl(permission, stored)
          /\ adapter = LaunchAdapter(permission)
    BY DEF Init
  <1>2. /\ stored \in MaybePeripheral /\ pc = "loop" /\ target = NoPeripheral
        /\ ~pendingScan /\ pendingConnect = NoPeripheral /\ events = <<>>
    BY DEF Init, LaunchConnect
  <1>3. control \in Controls /\ control.phase = "Idle"
    BY <1>1, <1>2, LaunchIs DEF Permissions
  <1>4. /\ adapter \in Adapters /\ ~adapter.attempted /\ ~adapter.scanning
        /\ adapter.link = "none" /\ ~adapter.owed
    BY <1>1, UnusedAdapters DEF LaunchAdapter
  <1>5. events \in Seq(Events) /\ Waiting = {}
    BY <1>2, EmptyQueue DEF Waiting
  <1>. QED
    BY <1>2, <1>3, <1>4, <1>5
    DEF IosBleInv, HostTypeOK, OperatorAsked, NoUnaskedConnection, ReportsAreOfAttempt,
        ScansAreAlone, ScansAreArmed, FlightsEnd, InFlight, MaybePeripheral

LEMMA HostSteps == IosBleInv /\ [Next]_vars => IosBleInv'
  <1>. SUFFICES ASSUME IosBleInv, [Next]_vars PROVE IosBleInv'
    OBVIOUS
  <1>1. CASE Host
    <2>1. Misses
      BY <1>1 DEF Host, Polled
    <2>. QED
      BY <1>1, <2>1, CommandSteps, EventSteps, ConnectsSteps, ResumeSteps DEF Host, Resume
  <1>2. CASE (Deadline \/ PumpEnds) /\ Polled
    BY <1>2, EffortEnds DEF Polled
  <1>3. CASE Outside /\ Suspended
    <2>1. Misses
      BY <1>3 DEF Suspended
    <2>2. CASE Render \/ \E command \in OperatorCommands : Tap(command)
      <3>1. UNCHANGED <<hostVars, linkVars, asked>>
        BY <2>2 DEF Render, Tap
      <3>. QED BY <2>1, <3>1, ElsewhereSteps DEF hostVars, linkVars
    <2>. QED BY <1>3, <2>1, <2>2, ReportsSteps, AttemptSteps DEF Outside
  <1>4. CASE Relaunch
    BY <1>4, RelaunchStep
  <1>5. CASE UNCHANGED vars
    <2>1. /\ UNCHANGED <<control, stored, target, pendingScan, pendingConnect, deadline, adapter,
                         events, asked, pc, missed>>
      BY <1>5 DEF vars, hostVars, linkVars
    <2>. QED
      BY <2>1
      DEF IosBleInv, HostTypeOK, OperatorAsked, NoUnaskedConnection, ReportsAreOfAttempt,
          ScansAreAlone, ScansAreArmed, FlightsEnd, InFlight, Waiting
  <1>. QED BY <1>1, <1>2, <1>3, <1>4, <1>5 DEF Next

LEMMA HostInvariant == Spec => []IosBleInv
  BY HostStarts, HostSteps, PTL DEF Spec

(* No connection the operator did not ask for in this launch: whatever was
   remembered (ios_ble.rs, IosBleHost), queued or late. *)
THEOREM ConnectionsAreAsked == Spec => []NoUnaskedConnection
  BY HostInvariant, PTL DEF IosBleInv, OperatorAsked

(* Every scan, and every scan that waits, is under the scan deadline, but for a
   selection that failed to connect; every connection in flight that was not
   reported on is under the connection deadline, unless the full queue of events
   lost a report of it (ios_ble.rs, select and run). *)
THEOREM EffortsHaveDeadlines == Spec => []DeadlinesAreArmed
  <1>1. IosBleInv => ConnectionsAreArmed
    <2>. SUFFICES ASSUME IosBleInv, pc = "loop", control.phase \in {"Connecting", "Reconnecting"},
                         adapter.link \in {"none", "connecting"}, Unreported, ~missed
                  PROVE  deadline = "Connect"
      BY DEF ConnectionsAreArmed
    <2>1. "Failed" \notin Waiting /\ "Disconnected" \notin Waiting
      BY DEF Unreported, Waiting, AttemptReports
    <2>. QED BY <2>1 DEF IosBleInv, FlightsEnd, InFlight
  <1>2. IosBleInv => DeadlinesAreArmed
    BY <1>1 DEF DeadlinesAreArmed, IosBleInv
  <1>. QED BY <1>2, HostInvariant, PTL

(* The pump runs on the attempt it was started with, and while that lives its
   handshake has gone through (ios_ble.rs, run_connected). *)
THEOREM PumpsOwnAttempts == Spec => []PumpOwnsAttempt
  <1>1. IosBleInv => PumpOwnsAttempt
    BY DEF IosBleInv, PumpOwnsAttempt, ReportsAreOfAttempt, ScansAreAlone
  <1>. QED BY <1>1, HostInvariant, PTL
=============================================================================
