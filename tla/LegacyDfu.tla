------------------------------ MODULE LegacyDfu ------------------------------
(***************************************************************************)
(* A firmware update of the RNode over Nordic's Legacy DFU: the session    *)
(* state machine (legacy_dfu.rs), the future that drives it                *)
(* (legacy_dfu_transport.rs), the callback boundary (firmware.rs) and the  *)
(* CoreBluetooth adapter with its delegate (firmware_ios.rs).  It starts   *)
(* with the hand-over from the byte stream (ble_ios.rs, shutdown_for_dfu). *)
(*                                                                         *)
(* Sizes are counted in packets.  The bootloader and CoreBluetooth are     *)
(* external: packets are written without a response and may be lost, a     *)
(* control write is answered by a callback, and notifications, callbacks   *)
(* and the loss of the link come in any order.                             *)
(***************************************************************************)
EXTENDS Integers, Sequences

CONSTANTS
  MaxPackets,            \* sizes of an application
  InitLength,            \* packets of the init packet
  Interval,              \* RAK4631_PRN_INTERVAL
  NotificationCapacity,  \* CHANNEL_CAPACITY
  LinkBuffer,            \* writes CoreBluetooth takes before it asks to wait
  MaxDfuFaults           \* lost packets, refusals, errors, losses of the link

ASSUME DfuAssumption ==
  /\ MaxPackets \in Nat \ {0} /\ InitLength \in Nat \ {0} /\ Interval \in Nat \ {0}
  /\ NotificationCapacity \in Nat \ {0} /\ LinkBuffer \in Nat \ {0} /\ MaxDfuFaults \in Nat

VARIABLES
  runner,     \* where the future awaits
  session,    \* Rak4631LegacyDfuSession
  boundary,   \* CoreBluetoothDfuBoundary
  nus,        \* the attempt of the byte stream that is handed over
  gatt,       \* the delegate's channels
  outbound,   \* writes CoreBluetooth has taken, oldest first
  air,        \* what CoreBluetooth owes: notifications, a write's callback, room
  loader,     \* the bootloader
  dfuFaults

dfuVars == <<runner, session, boundary, nus, gatt, outbound, air, loader, dfuFaults>>

DfuFault == dfuFaults < MaxDfuFaults /\ dfuFaults' = dfuFaults + 1

Response(request, ok) == [is |-> "response", to |-> request, ok |-> ok]
Receipt(packets)      == [is |-> "receipt", packets |-> packets]

DfuInit ==
  /\ runner = "nus"
  /\ \E total \in 1 .. MaxPackets :
       session = [phase |-> "Start", total |-> total, init |-> 0, sent |-> 0, since |-> 0,
                  remote |-> 0]
  /\ boundary = [phase |-> "Discovering", completed |-> 0]
  /\ nus = [attempt |-> "connecting", writing |-> FALSE, asked |-> FALSE, token |-> FALSE]
  /\ gatt = [ready |-> FALSE, control |-> "none", notes |-> <<>>, flow |-> FALSE,
             disconnected |-> FALSE, failed |-> FALSE, active |-> FALSE, reset |-> FALSE]
  /\ outbound = <<>>
  /\ air = [notes |-> <<>>, written |-> FALSE, room |-> FALSE]
  /\ loader = [received |-> 0, seen |-> 0, validated |-> FALSE, activated |-> FALSE]
  /\ dfuFaults = 0

-----------------------------------------------------------------------------
(* The hand-over: the byte stream ends before the update connects. *)

UnchangedDfu == UNCHANGED <<session, boundary, gatt, outbound, air, loader, dfuFaults>>

NusConnects ==
  /\ nus.attempt = "connecting" /\ nus' = [nus EXCEPT !.attempt = "ready"]
  /\ UNCHANGED runner /\ UnchangedDfu

NusWrites ==
  /\ nus.attempt = "ready" /\ ~nus.asked
  /\ nus' = [nus EXCEPT !.writing = ~@]
  /\ UNCHANGED runner /\ UnchangedDfu

(* shutdown_for_dfu takes the adapter; a refusal drops it. *)
ShutdownForDfu ==
  /\ runner = "nus"
  /\ IF nus.attempt = "gone" \/ nus.writing
     THEN runner' = "failed" /\ UNCHANGED nus
     ELSE runner' = "handover" /\ nus' = [nus EXCEPT !.asked = TRUE]
  /\ UnchangedDfu

(* take_active: the disconnect mints the token, a connection that failed ends
   the attempt without one. *)
NusEnds ==
  /\ nus.attempt # "gone" /\ runner \in {"nus", "handover"}
  /\ \/ nus' = [nus EXCEPT !.attempt = "gone", !.writing = FALSE, !.token = nus.asked]
     \/ /\ nus.attempt = "connecting"
        /\ nus' = [nus EXCEPT !.attempt = "gone", !.writing = FALSE]
  /\ UNCHANGED runner /\ UnchangedDfu

(* The future drops the adapter if it fails; nothing else is left of it. *)
Connect ==
  /\ runner = "handover" /\ nus.token
  /\ runner' = "connecting" /\ gatt' = [gatt EXCEPT !.active = TRUE]
  /\ UNCHANGED <<session, boundary, nus, outbound, air, loader, dfuFaults>>

-----------------------------------------------------------------------------
(* Rak4631LegacyDfuSession: next_action. *)

Action(what, s, phase) == [what |-> what, session |-> [s EXCEPT !.phase = phase]]
Control(request) == [is |-> "control", request |-> request]
Packet(part)     == [is |-> "packet", part |-> part]

InitPacket(s)  == Action(Packet("init"), [s EXCEPT !.init = @ + 1], "InitPackets")

(* Mutation: one packet too many before the receipt. *)
LateReceipt(s) ==
  LET t == [s EXCEPT !.sent = @ + 1, !.since = @ + 1]
  IN Action(Packet("application"), t,
            IF t.since > Interval THEN "FirmwareNotification" ELSE "FirmwarePackets")

ApplicationPacket(s) ==
  LET t == [s EXCEPT !.sent = @ + 1, !.since = @ + 1]
  IN Action(Packet("application"), t,
            IF t.since = Interval THEN "FirmwareNotification" ELSE "FirmwarePackets")

Awaits == {"StartResponse", "InitResponse", "FirmwareNotification", "ValidateResponse"}

NextAction(s) ==
  CASE s.phase = "Start"     -> Action(Control("START"), s, "StartSize")
    [] s.phase = "StartSize" -> Action(Packet("size"), s, "StartResponse")
    [] s.phase = "InitStart" -> Action(Control("INIT"), s, "InitPackets")
    [] s.phase = "InitPackets" ->
         IF s.init < InitLength THEN InitPacket(s)
         ELSE Action(Control("INIT_DONE"), s, "InitResponse")
    [] s.phase = "SetPrn"    -> Action(Control("SET_PRN"), s, "Receive")
    [] s.phase = "Receive"   -> Action(Control("RECEIVE"), s, "FirmwarePackets")
    [] s.phase = "FirmwarePackets" ->
         IF s.sent < s.total THEN ApplicationPacket(s)
         ELSE Action([is |-> "await"], s, "FirmwareNotification")
    [] s.phase = "Validate"  -> Action(Control("VALIDATE"), s, "ValidateResponse")
    [] s.phase \in Awaits    -> Action([is |-> "await"], s, s.phase)
    [] s.phase = "ReportComplete" -> Action([is |-> "transferred"], s, "Activate")
    [] s.phase = "Activate"   -> Action([is |-> "activate"], s, "Disconnect")
    [] s.phase = "Disconnect" -> Action([is |-> "disconnect"], s, "Disconnect")
    [] s.phase = "Complete"   -> Action([is |-> "complete"], s, "Complete")

(* notification: a response the phase expects, or a receipt that counts what
   was sent so far; whatever else comes fails the session. *)
Answered(s) ==
  CASE s.phase = "StartResponse"        -> "START"
    [] s.phase = "InitResponse"         -> "INIT_DONE"
    [] s.phase = "FirmwareNotification" -> "RECEIVE"
    [] s.phase = "ValidateResponse"     -> "VALIDATE"

ReceiptAccepted(s, note) ==
  /\ s.phase = "FirmwareNotification" /\ note.is = "receipt"
  /\ note.packets > s.remote /\ note.packets = s.sent /\ note.packets <= s.total

(* Mutation: the status of a response is not looked at. *)
AnyStatusAccepted(s, note) ==
  /\ note.is = "response" /\ note.to = Answered(s)
  /\ s.phase = "FirmwareNotification" => s.sent = s.total

ResponseAccepted(s, note) ==
  /\ note = Response(Answered(s), TRUE)
  /\ s.phase = "FirmwareNotification" => s.sent = s.total

AfterResponse(s, note) ==
  IF ~ResponseAccepted(s, note) THEN [s EXCEPT !.phase = "Failed"]
  ELSE CASE s.phase = "StartResponse" -> [s EXCEPT !.phase = "InitStart"]
         [] s.phase = "InitResponse"  -> [s EXCEPT !.phase = "SetPrn"]
         [] s.phase = "FirmwareNotification" ->
              [s EXCEPT !.remote = s.total, !.phase = "Validate"]
         [] s.phase = "ValidateResponse" -> [s EXCEPT !.phase = "ReportComplete"]

Notification(s, note) ==
  IF ReceiptAccepted(s, note)
  THEN [s EXCEPT !.remote = note.packets, !.since = 0, !.phase = "FirmwarePackets"]
  ELSE AfterResponse(s, note)

-----------------------------------------------------------------------------
(* run_rak4631_legacy_dfu over the adapter. *)

Fails == runner' = "failed" /\ gatt' = [gatt EXCEPT !.active = FALSE]

(* recv_or_failure: with both there the race may take either. *)
Refused ==
  /\ runner \in {"connecting", "control", "room", "notification", "activating", "leaving"}
  /\ gatt.failed \/ (gatt.control = "error" /\ runner \in {"control", "activating"})
  /\ Fails
  /\ UNCHANGED <<session, boundary, nus, outbound, air, loader, dfuFaults>>

Connected ==
  /\ runner = "connecting" /\ gatt.ready
  /\ IF boundary.phase = "Ready"
     THEN boundary' = [boundary EXCEPT !.phase = "Writing"] /\ runner' = "run" /\ UNCHANGED gatt
     ELSE Fails /\ UNCHANGED boundary
  /\ UNCHANGED <<session, nus, outbound, air, loader, dfuFaults>>

Goes(place) == runner' = place /\ UNCHANGED gatt

WriteControl ==
  /\ runner = "run" /\ NextAction(session).what.is = "control"
  /\ session' = NextAction(session).session
  /\ outbound' = Append(outbound, NextAction(session).what)
  /\ Goes("control")
  /\ UNCHANGED <<boundary, nus, air, loader, dfuFaults>>

ControlWritten ==
  /\ runner = "control" /\ gatt.control = "ok"
  /\ runner' = "run" /\ gatt' = [gatt EXCEPT !.control = "none"]
  /\ UNCHANGED <<session, boundary, nus, outbound, air, loader, dfuFaults>>

(* write_packet: it looks again after every word that there is room. *)
CanSend == Len(outbound) < LinkBuffer

WritePacket ==
  /\ runner = "run" /\ NextAction(session).what.is = "packet"
  /\ IF CanSend
     THEN /\ session' = NextAction(session).session
          /\ outbound' = Append(outbound, NextAction(session).what)
          /\ Goes("run")
          /\ UNCHANGED air
     ELSE Goes("room") /\ air' = [air EXCEPT !.room = TRUE] /\ UNCHANGED <<session, outbound>>
  /\ UNCHANGED <<boundary, nus, loader, dfuFaults>>

RoomSeen ==
  /\ runner = "room" /\ gatt.flow
  /\ runner' = "run" /\ gatt' = [gatt EXCEPT !.flow = FALSE]
  /\ UNCHANGED <<session, boundary, nus, outbound, air, loader, dfuFaults>>

AwaitNotification ==
  /\ runner = "run" /\ NextAction(session).what.is = "await"
  /\ session' = NextAction(session).session
  /\ Goes("notification")
  /\ UNCHANGED <<boundary, nus, outbound, air, loader, dfuFaults>>

(* remote_progress goes through progress_changed, which refuses what is out of
   order; so does transfer_completed. *)
ProgressChanged(b, completed, total) ==
  IF b.phase = "Writing" /\ completed <= total /\ completed >= b.completed
  THEN [b EXCEPT !.completed = completed] ELSE [b EXCEPT !.phase = "Refused"]

Notified ==
  /\ runner = "notification" /\ gatt.notes # <<>>
  /\ LET s == Notification(session, Head(gatt.notes))
         b == IF s.remote = session.remote THEN boundary
              ELSE ProgressChanged(boundary, s.remote, s.total)
     IN /\ session' = s
        /\ IF s.phase = "Failed" \/ b.phase = "Refused"
           THEN Fails /\ UNCHANGED boundary
           ELSE /\ boundary' = b /\ runner' = "run"
                /\ gatt' = [gatt EXCEPT !.notes = Tail(@)]
  /\ UNCHANGED <<nus, outbound, air, loader, dfuFaults>>

TransferComplete ==
  /\ runner = "run" /\ NextAction(session).what.is = "transferred"
  /\ session' = NextAction(session).session
  /\ IF boundary.phase = "Writing" /\ boundary.completed = session.total
     THEN boundary' = [boundary EXCEPT !.phase = "TransferComplete"] /\ Goes("run")
     ELSE Fails /\ UNCHANGED boundary
  /\ UNCHANGED <<nus, outbound, air, loader, dfuFaults>>

ActivateAndReset ==
  /\ runner = "run" /\ NextAction(session).what.is = "activate"
  /\ session' = NextAction(session).session
  /\ IF boundary.phase = "TransferComplete"
     THEN /\ boundary' = [boundary EXCEPT !.phase = "Activating"]
          /\ outbound' = Append(outbound, Control("ACTIVATE"))
          /\ Goes("activating")
     ELSE Fails /\ UNCHANGED <<boundary, outbound>>
  /\ UNCHANGED <<nus, air, loader, dfuFaults>>

(* recv_activation: the callback of the write, or the reset itself. *)
Activated ==
  /\ runner = "activating"
  /\ \/ gatt.control = "ok" /\ gatt' = [gatt EXCEPT !.control = "none"]
     \/ gatt.disconnected /\ gatt' = [gatt EXCEPT !.disconnected = FALSE, !.reset = TRUE]
  /\ runner' = "leaving"
  /\ UNCHANGED <<session, boundary, nus, outbound, air, loader, dfuFaults>>

(* wait_disconnected, and Complete. *)
Leaves ==
  /\ runner = "leaving" /\ (gatt.reset \/ gatt.disconnected)
  /\ session' = [session EXCEPT !.phase = "Complete"]
  /\ runner' = "done" /\ gatt' = [gatt EXCEPT !.active = FALSE]
  /\ UNCHANGED <<boundary, nus, outbound, air, loader, dfuFaults>>

(* The caller's deadline drops the future wherever it awaits; the guard closes
   the connection. *)
Abandon ==
  /\ runner \notin {"done", "failed", "nus"} /\ DfuFault
  /\ Fails
  /\ UNCHANGED <<session, boundary, nus, outbound, air, loader>>

-----------------------------------------------------------------------------
(* The delegate's callbacks. *)

Listening == gatt.active

(* Discovery: one service, three characteristics with their properties, the
   notifications and the version; any of it may be refused. *)
Discovered ==
  /\ Listening /\ boundary.phase = "Discovering" /\ ~gatt.failed
  /\ \/ /\ boundary' = [boundary EXCEPT !.phase = "Ready"]
        /\ gatt' = [gatt EXCEPT !.ready = TRUE] /\ UNCHANGED dfuFaults
     \/ /\ DfuFault /\ gatt' = [gatt EXCEPT !.failed = TRUE]
        /\ boundary' \in {boundary, [boundary EXCEPT !.phase = "Closed"]}
  /\ UNCHANGED <<runner, session, nus, outbound, air, loader>>

DidWriteValue ==
  /\ Listening /\ air.written
  /\ \/ gatt' = [gatt EXCEPT !.control = "ok"] /\ UNCHANGED dfuFaults
     \/ DfuFault /\ gatt' = [gatt EXCEPT !.control = "error"]
  /\ air' = [air EXCEPT !.written = FALSE]
  /\ UNCHANGED <<runner, session, boundary, nus, outbound, loader>>

(* send_notification *)
DidUpdateValue ==
  /\ Listening /\ air.notes # <<>>
  /\ gatt' = IF Len(gatt.notes) < NotificationCapacity
             THEN [gatt EXCEPT !.notes = Append(@, Head(air.notes))]
             ELSE [gatt EXCEPT !.failed = TRUE]
  /\ air' = [air EXCEPT !.notes = Tail(@)]
  /\ UNCHANGED <<runner, session, boundary, nus, outbound, loader, dfuFaults>>

IsReadyToSend ==
  /\ Listening /\ air.room /\ CanSend
  /\ gatt' = [gatt EXCEPT !.flow = TRUE] /\ air' = [air EXCEPT !.room = FALSE]
  /\ UNCHANGED <<runner, session, boundary, nus, outbound, loader, dfuFaults>>

(* didDisconnect: expected only once the activation was begun. *)
DidDisconnect ==
  /\ Listening
  /\ (loader.activated /\ UNCHANGED dfuFaults) \/ DfuFault
  /\ boundary' = [boundary EXCEPT !.phase = "Closed"]
  /\ gatt' = IF boundary.phase = "Activating"
             THEN [gatt EXCEPT !.active = FALSE, !.disconnected = TRUE]
             ELSE [gatt EXCEPT !.active = FALSE, !.failed = TRUE]
  /\ outbound' = <<>> /\ air' = [notes |-> <<>>, written |-> FALSE, room |-> FALSE]
  /\ UNCHANGED <<runner, session, nus, loader>>

(* The radio is reset or switched off, the link up or not. *)
AdapterUnavailable ==
  /\ runner \notin {"nus", "handover", "done", "failed"} /\ DfuFault
  /\ gatt' = [gatt EXCEPT !.failed = TRUE]
  /\ UNCHANGED <<runner, session, boundary, nus, outbound, air, loader>>

-----------------------------------------------------------------------------
(* The bootloader takes the writes in order. *)

Answers(notes) == air' = [air EXCEPT !.notes = @ \o notes]
Acknowledges(notes) == air' = [air EXCEPT !.notes = @ \o notes, !.written = TRUE]
Outcome(request) ==
  \/ Acknowledges(<<Response(request, TRUE)>>) /\ UNCHANGED dfuFaults
  \/ DfuFault /\ Acknowledges(<<Response(request, FALSE)>>)

(* A receipt of what it has every Interval packets it saw, the response after
   the last; for the last packet a receipt too, or not.  A packet may be lost. *)
TakesApplication ==
  \E kept \in BOOLEAN :
    LET received == loader.received + IF kept THEN 1 ELSE 0
        due      == (loader.seen + 1) % Interval = 0
        receipt  == IF due THEN <<Receipt(received)>> ELSE <<>>
    IN /\ (kept /\ UNCHANGED dfuFaults) \/ (~kept /\ DfuFault)
       /\ loader' = [loader EXCEPT !.received = received, !.seen = @ + 1]
       /\ IF received < session.total THEN Answers(receipt)
          ELSE \/ Answers(receipt \o <<Response("RECEIVE", TRUE)>>)
               \/ Answers(<<Response("RECEIVE", TRUE)>>)

Takes(w) ==
  IF w.is = "packet"
  THEN CASE w.part = "application" -> TakesApplication
         [] w.part = "size" -> Answers(<<Response("START", TRUE)>>) /\ UNCHANGED <<loader, dfuFaults>>
         [] w.part = "init" -> UNCHANGED <<air, loader, dfuFaults>>
  ELSE CASE w.request \in {"START", "INIT", "SET_PRN", "RECEIVE"} ->
              Acknowledges(<<>>) /\ UNCHANGED <<loader, dfuFaults>>
         [] w.request = "INIT_DONE" -> Outcome("INIT_DONE") /\ UNCHANGED loader
         [] w.request = "VALIDATE"  ->
              LET whole == loader.received = session.total
              IN \/ /\ Acknowledges(<<Response("VALIDATE", whole)>>)
                    /\ loader' = [loader EXCEPT !.validated = whole] /\ UNCHANGED dfuFaults
                 \/ /\ DfuFault /\ Acknowledges(<<Response("VALIDATE", FALSE)>>)
                    /\ UNCHANGED loader
         [] w.request = "ACTIVATE"  ->
              /\ loader' = [loader EXCEPT !.activated = TRUE]
              /\ \E answered \in BOOLEAN : air' = [air EXCEPT !.written = answered]
              /\ UNCHANGED dfuFaults

LoaderTakes ==
  /\ Listening /\ outbound # <<>>
  /\ Takes(Head(outbound))
  /\ outbound' = Tail(outbound)
  /\ UNCHANGED <<runner, session, boundary, nus, gatt>>

-----------------------------------------------------------------------------
Runner == \/ Refused \/ Connected \/ WriteControl \/ ControlWritten \/ WritePacket \/ RoomSeen
          \/ AwaitNotification \/ Notified \/ TransferComplete \/ ActivateAndReset \/ Activated
          \/ Leaves
Handover == NusConnects \/ NusWrites \/ ShutdownForDfu \/ NusEnds \/ Connect
External == \/ Discovered \/ DidWriteValue \/ DidUpdateValue \/ IsReadyToSend \/ DidDisconnect
            \/ AdapterUnavailable \/ LoaderTakes

DfuNext == Runner \/ Handover \/ External \/ Abandon

DfuSpec == DfuInit /\ [][DfuNext]_dfuVars

(* The future is polled when it can move, CoreBluetooth delivers what it owes
   and the bootloader takes what it is sent. *)
DfuFair == WF_dfuVars(Runner) /\ WF_dfuVars(DidWriteValue) /\ WF_dfuVars(DidUpdateValue)
           /\ WF_dfuVars(IsReadyToSend) /\ WF_dfuVars(LoaderTakes) /\ WF_dfuVars(Discovered)
           /\ WF_dfuVars(loader.activated /\ DidDisconnect)

-----------------------------------------------------------------------------
(* Properties. *)

(* An image is activated only when the bootloader has all of it and found it
   valid: lost packets, refusals and receipts in any order included. *)
ActivatesOnlyValidated ==
  Control("ACTIVATE") \in {outbound[i] : i \in DOMAIN outbound} \/ loader.activated =>
    loader.validated /\ loader.received = session.total

(* An update that is connected succeeds when the link stays up and no packet is
   lost: the two halves of the protocol never wait for each other (also at
   the last packet, with a receipt, a response or both, legacy_dfu.rs:240). *)
UpdateEnds == runner = "run" /\ dfuFaults = 0 ~> runner = "done" \/ dfuFaults > 0
=============================================================================
