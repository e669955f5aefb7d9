-------------------------- MODULE LegacyDfuProofs --------------------------
(* Proofs about LegacyDfu, for images, init packets, receipt intervals and    *)
(* channels of any size, and any number of faults.                            *)
EXTENDS LegacyDfu, QueueLemmas

Requests == {"START", "INIT", "INIT_DONE", "SET_PRN", "RECEIVE", "VALIDATE", "ACTIVATE"}
Parts    == {"size", "init", "application"}

(* Phases before the validation is asked for, and after it has succeeded. *)
Sending   == {"Start", "StartSize", "StartResponse", "InitStart", "InitPackets", "InitResponse",
              "SetPrn", "Receive", "FirmwarePackets", "FirmwareNotification", "Validate"}
Succeeded == {"ReportComplete", "Activate", "Disconnect", "Complete"}

Sessions == [phase : Sending \cup {"ValidateResponse", "Failed"} \cup Succeeded,
             total : Nat, init : Nat, sent : Nat, since : Nat, remote : Nat]
Writes   == [is : {"control"}, request : Requests] \cup [is : {"packet"}, part : Parts]
Notes    == [is : {"response"}, to : Requests, ok : BOOLEAN] \cup [is : {"receipt"}, packets : Nat]
Gatts    == [ready : BOOLEAN, control : {"none", "ok", "error"}, notes : Seq(Notes), flow : BOOLEAN,
             disconnected : BOOLEAN, failed : BOOLEAN, active : BOOLEAN, reset : BOOLEAN]
Airs     == [notes : Seq(Notes), written : BOOLEAN, room : BOOLEAN]
Loaders  == [received : Nat, seen : Nat, validated : BOOLEAN, activated : BOOLEAN]

DfuTypeOK ==
  /\ session \in Sessions /\ outbound \in Seq(Writes)
  /\ gatt \in Gatts /\ air \in Airs /\ loader \in Loaders

Asking(w, request) == w.is = "control" /\ w.request = request
Application(w)     == w.is = "packet" /\ w.part = "application"
Verdict(n)         == n.is = "response" /\ n.to = "VALIDATE"

(* Before the validation is asked for nobody speaks of it. *)
NotYetAsked ==
  session.phase \in Sending =>
    /\ ~loader.validated
    /\ \A i \in DOMAIN outbound : ~Asking(outbound[i], "VALIDATE")
    /\ \A i \in DOMAIN air.notes : ~Verdict(air.notes[i])
    /\ \A i \in DOMAIN gatt.notes : ~Verdict(gatt.notes[i])

(* No part of the image is on its way behind the validation, nor once it has
   succeeded: what was found whole stays whole. *)
NothingFollows ==
  /\ \A i, j \in DOMAIN outbound :
       Asking(outbound[i], "VALIDATE") /\ i < j => ~Application(outbound[j])
  /\ loader.validated => /\ loader.received = session.total
                         /\ \A i \in DOMAIN outbound : ~Application(outbound[i])

(* The session believes the bootloader's verdict and nothing else. *)
VerdictIsTrue ==
  /\ \A i \in DOMAIN air.notes : Verdict(air.notes[i]) /\ air.notes[i].ok => loader.validated
  /\ \A i \in DOMAIN gatt.notes : Verdict(gatt.notes[i]) /\ gatt.notes[i].ok => loader.validated
  /\ session.phase \in Succeeded => loader.validated

ActivationIsEarned ==
  /\ \A i \in DOMAIN outbound : Asking(outbound[i], "ACTIVATE") => loader.validated
  /\ loader.activated => loader.validated

(* Where the future awaits tells how far its session is. *)
RunnerFollows ==
  /\ session.phase = "Failed" => runner = "failed"
  /\ runner = "notification" => session.phase \in Awaits
  /\ runner \in {"activating", "leaving"} => session.phase \in Succeeded

DfuInv ==
  /\ DfuTypeOK /\ RunnerFollows
  /\ NotYetAsked /\ NothingFollows /\ VerdictIsTrue /\ ActivationIsEarned

-----------------------------------------------------------------------------
(* The session. *)

(* What next_action asks for: VALIDATE only when everything is confirmed, the
   application only before, the activation only after the verdict. *)
LEMMA NextActionIs ==
  ASSUME NEW s \in Sessions, s.phase # "Failed"
  PROVE  LET what == NextAction(s).what
             t    == NextAction(s).session
         IN /\ what.is = "control" =>
                 /\ what \in Writes /\ t \in Sessions /\ t.total = s.total
                 /\ s.phase \in Sending /\ what.request # "ACTIVATE"
                 /\ \/ what.request = "VALIDATE" /\ t.phase = "ValidateResponse"
                    \/ what.request # "VALIDATE" /\ t.phase \in Sending
            /\ what.is = "packet" =>
                 /\ what \in Writes /\ t \in Sessions /\ t.total = s.total
                 /\ s.phase \in Sending /\ t.phase \in Sending
            /\ what.is = "await" =>
                 /\ t \in Sessions /\ t.total = s.total /\ t.phase \in Awaits
                 /\ s.phase \in Sending => t.phase \in Sending
                 /\ t.phase \in Sending => s.phase \in Sending
                 /\ t.phase \notin Succeeded
            /\ what.is = "transferred" =>
                 /\ t \in Sessions /\ t.total = s.total
                 /\ s.phase = "ReportComplete" /\ t.phase = "Activate"
            /\ what.is = "activate" =>
                 /\ t \in Sessions /\ t.total = s.total
                 /\ s.phase = "Activate" /\ t.phase = "Disconnect"
  <1>. USE DEF Sessions, Sending, Succeeded, Awaits, Writes, Requests, Parts, Action, Control, Packet
  <1>1. CASE s.phase \in {"Start", "StartSize", "InitStart"}
    BY <1>1 DEF NextAction
  <1>2. CASE s.phase = "InitPackets"
    <2>1. CASE s.init < InitLength
      <3>1. NextAction(s) = InitPacket(s)
        BY <1>2, <2>1 DEF NextAction
      <3>. DEFINE t == [s EXCEPT !.init = @ + 1]
      <3>2. t \in Sessions
        OBVIOUS
      <3>3. t.total = s.total
        OBVIOUS
      <3>4. NextAction(s) = Action(Packet("init"), t, "InitPackets")
        BY <3>1 DEF InitPacket
      <3>. HIDE DEF t
      <3>. QED BY <1>2, <3>2, <3>3, <3>4
    <2>2. CASE ~(s.init < InitLength)
      BY <1>2, <2>2 DEF NextAction
    <2>. QED BY <2>1, <2>2
  <1>3. CASE s.phase \in {"SetPrn", "Receive", "Validate"}
    BY <1>3 DEF NextAction
  <1>4. CASE s.phase = "FirmwarePackets"
    <2>1. CASE s.sent < s.total
      <3>. DEFINE t == [s EXCEPT !.sent = @ + 1, !.since = @ + 1]
      <3>1. NextAction(s) = ApplicationPacket(s)
        BY <1>4, <2>1 DEF NextAction
      <3>2. t \in Sessions
        <4>1. s.sent + 1 \in Nat /\ s.since + 1 \in Nat
          OBVIOUS
        <4>. QED BY <4>1
      <3>3. t.total = s.total
        OBVIOUS
      <3>4. PICK phase \in {"FirmwareNotification", "FirmwarePackets"} :
              NextAction(s) = Action(Packet("application"), t, phase)
        BY <3>1 DEF ApplicationPacket
      <3>. HIDE DEF t
      <3>. QED BY <1>4, <3>2, <3>3, <3>4
    <2>2. CASE ~(s.sent < s.total)
      BY <1>4, <2>2 DEF NextAction
    <2>. QED BY <2>1, <2>2
  <1>5. CASE s.phase \in {"StartResponse", "InitResponse", "FirmwareNotification", "ValidateResponse"}
    BY <1>5 DEF NextAction
  <1>6. CASE s.phase \in {"ReportComplete", "Activate", "Disconnect", "Complete"}
    BY <1>6 DEF NextAction
  <1>. QED BY <1>1, <1>2, <1>3, <1>4, <1>5, <1>6

(* What a notification does to a session that awaits one: only the accepted
   verdict takes it past the validation. *)
LEMMA NotificationIs ==
  ASSUME NEW s \in Sessions, s.phase \in Awaits, NEW note \in Notes
  PROVE  LET t == Notification(s, note)
         IN /\ t \in Sessions /\ t.total = s.total
            /\ t.phase \in Sending => s.phase \in Sending
            /\ t.phase # "ValidateResponse"
            /\ t.phase \in Succeeded => Verdict(note) /\ note.ok
  <1>. USE DEF Sessions, Sending, Succeeded, Awaits, Notes, Requests, Verdict
  <1>1. CASE ReceiptAccepted(s, note)
    BY <1>1 DEF Notification, ReceiptAccepted
  <1>2. CASE ~ReceiptAccepted(s, note) /\ ~ResponseAccepted(s, note)
    BY <1>2 DEF Notification, AfterResponse
  <1>3. CASE ~ReceiptAccepted(s, note) /\ ResponseAccepted(s, note)
    <2>. DEFINE t == AfterResponse(s, note)
    <2>1. CASE s.phase = "StartResponse"
      BY <1>3, <2>1 DEF Notification, AfterResponse
    <2>2. CASE s.phase = "InitResponse"
      BY <1>3, <2>2 DEF Notification, AfterResponse
    <2>3. CASE s.phase = "FirmwareNotification"
      BY <1>3, <2>3 DEF Notification, AfterResponse
    <2>4. CASE s.phase = "ValidateResponse"
      <3>1. t = [s EXCEPT !.phase = "ReportComplete"] /\ Notification(s, note) = t
        BY <1>3, <2>4 DEF Notification, AfterResponse
      <3>2. note = Response("VALIDATE", TRUE)
        BY <1>3, <2>4 DEF ResponseAccepted, Answered
      <3>3. Verdict(note) /\ note.ok
        BY <3>2 DEF Response
      <3>. QED BY <3>1, <3>3
    <2>. QED BY <2>1, <2>2, <2>3, <2>4
  <1>. QED BY <1>1, <1>2, <1>3

-----------------------------------------------------------------------------
(* The steps. *)

(* A step that leaves the session, the writes, the bootloader and the queues
   of notifications alone. *)
LEMMA QuietStep ==
  ASSUME DfuInv, UNCHANGED <<session, outbound, loader>>,
         gatt' \in Gatts, gatt'.notes = gatt.notes,
         air' \in Airs, air'.notes = air.notes,
         session.phase = "Failed" => runner' = "failed",
         runner' = "notification" => session.phase \in Awaits,
         runner' \in {"activating", "leaving"} => session.phase \in Succeeded
  PROVE  DfuInv'
  BY DEF DfuInv, DfuTypeOK, RunnerFollows, NotYetAsked, NothingFollows, VerdictIsTrue,
         ActivationIsEarned

LEMMA DfuStarts == DfuInit => DfuInv
  <1>. SUFFICES ASSUME DfuInit PROVE DfuInv
    OBVIOUS
  <1>. USE DEF DfuInit
  <1>0. <<>> \in Seq(Notes) /\ <<>> \in Seq(Writes) /\ DOMAIN <<>> = {}
    BY EmptyQueue
  <1>1. session \in Sessions /\ session.phase = "Start"
    BY DfuAssumption DEF Sessions, Sending
  <1>2. gatt \in Gatts /\ gatt.notes = <<>>
    BY <1>0 DEF Gatts
  <1>3. air \in Airs /\ air.notes = <<>>
    BY <1>0 DEF Airs
  <1>4. loader \in Loaders /\ ~loader.validated /\ ~loader.activated
    BY DEF Loaders
  <1>5. outbound = <<>> /\ runner = "nus"
    OBVIOUS
  <1>. HIDE DEF DfuInit
  <1>. QED
    BY <1>0, <1>1, <1>2, <1>3, <1>4, <1>5
    DEF DfuInv, DfuTypeOK, RunnerFollows, NotYetAsked, NothingFollows, VerdictIsTrue,
        ActivationIsEarned, Succeeded

(* Steps of the future that do not move the session. *)
LEMMA RunnerWaits ==
  ASSUME DfuInv, Refused \/ Connected \/ ControlWritten \/ RoomSeen \/ Activated \/ Abandon
  PROVE  DfuInv'
  <1>. USE DEF DfuInv, DfuTypeOK, RunnerFollows
  <1>1. /\ UNCHANGED <<session, outbound, loader, air>>
        /\ \/ gatt' = gatt
           \/ gatt' = [gatt EXCEPT !.active = FALSE]
           \/ gatt' = [gatt EXCEPT !.control = "none"]
           \/ gatt' = [gatt EXCEPT !.flow = FALSE]
           \/ gatt' = [gatt EXCEPT !.disconnected = FALSE, !.reset = TRUE]
    BY DEF Refused, Connected, ControlWritten, RoomSeen, Activated, Abandon, Fails
  <1>2. gatt' \in Gatts /\ gatt'.notes = gatt.notes
    BY <1>1 DEF Gatts
  <1>3. /\ session.phase = "Failed" => runner' = "failed"
        /\ runner' = "notification" => session.phase \in Awaits
        /\ runner' \in {"activating", "leaving"} => session.phase \in Succeeded
    BY DEF Refused, Connected, ControlWritten, RoomSeen, Activated, Abandon, Fails
  <1>. QED BY <1>1, <1>2, <1>3, QuietStep

(* The hand-over, which is before any of it. *)
LEMMA HandoverStep ==
  ASSUME DfuInv, Handover
  PROVE  DfuInv'
  <1>. USE DEF DfuInv, DfuTypeOK, RunnerFollows
  <1>1. /\ UNCHANGED <<session, outbound, loader, air>>
        /\ gatt' = gatt \/ gatt' = [gatt EXCEPT !.active = TRUE]
        /\ \/ runner' = runner
           \/ runner \in {"nus", "handover"} /\ runner' \in {"failed", "handover", "connecting"}
    BY DEF Handover, NusConnects, NusWrites, ShutdownForDfu, NusEnds, Connect, UnchangedDfu
  <1>2. gatt' \in Gatts /\ gatt'.notes = gatt.notes
    BY <1>1 DEF Gatts
  <1>3. /\ session.phase = "Failed" => runner' = "failed"
        /\ runner' = "notification" => session.phase \in Awaits
        /\ runner' \in {"activating", "leaving"} => session.phase \in Succeeded
    BY <1>1
  <1>. QED BY <1>1, <1>2, <1>3, QuietStep

(* Callbacks that say nothing of the image. *)
LEMMA CallbackStep ==
  ASSUME DfuInv, Discovered \/ DidWriteValue \/ IsReadyToSend \/ AdapterUnavailable
  PROVE  DfuInv'
  <1>. USE DEF DfuInv, DfuTypeOK, RunnerFollows
  <1>1. /\ UNCHANGED <<session, outbound, loader, runner>>
        /\ \/ gatt' = [gatt EXCEPT !.ready = TRUE]
           \/ gatt' = [gatt EXCEPT !.failed = TRUE]
           \/ gatt' = [gatt EXCEPT !.control = "ok"]
           \/ gatt' = [gatt EXCEPT !.control = "error"]
           \/ gatt' = [gatt EXCEPT !.flow = TRUE]
        /\ \/ air' = air
           \/ air' = [air EXCEPT !.written = FALSE]
           \/ air' = [air EXCEPT !.room = FALSE]
    BY DEF Discovered, DidWriteValue, IsReadyToSend, AdapterUnavailable
  <1>2. gatt' \in Gatts /\ gatt'.notes = gatt.notes
    BY <1>1 DEF Gatts
  <1>3. air' \in Airs /\ air'.notes = air.notes
    BY <1>1 DEF Airs
  <1>. QED BY <1>1, <1>2, <1>3, QuietStep

(* The session writes, once there is room for a packet. *)
LEMMA SessionWrites ==
  ASSUME DfuInv, WriteControl \/ WritePacket
  PROVE  DfuInv'
  <1>. DEFINE what == NextAction(session).what
              next == NextAction(session).session
  <1>1. session \in Sessions /\ session.phase # "Failed" /\ outbound \in Seq(Writes)
    BY DEF WriteControl, WritePacket, DfuInv, DfuTypeOK, RunnerFollows
  <1>2. CASE WritePacket /\ ~CanSend
    <2>1. /\ UNCHANGED <<session, outbound, loader, gatt>> /\ runner' = "room"
          /\ air' = [air EXCEPT !.room = TRUE]
      BY <1>2 DEF WritePacket, Goes
    <2>2. air' \in Airs /\ air'.notes = air.notes /\ gatt \in Gatts
      BY <2>1 DEF DfuInv, DfuTypeOK, Airs
    <2>. QED BY <1>1, <2>1, <2>2, QuietStep
  <1>3. CASE WriteControl \/ (WritePacket /\ CanSend)
    <2>1. /\ session' = next /\ outbound' = Append(outbound, what)
          /\ UNCHANGED <<loader, gatt, air>> /\ runner' \in {"run", "control"}
          /\ what.is \in {"control", "packet"}
      BY <1>3 DEF WriteControl, WritePacket, Goes
    <2>2. /\ what \in Writes /\ next \in Sessions /\ next.total = session.total
          /\ session.phase \in Sending /\ ~Asking(what, "ACTIVATE")
          /\ \/ next.phase = "ValidateResponse"
             \/ next.phase \in Sending /\ ~Asking(what, "VALIDATE")
      BY <1>1, <2>1, NextActionIs DEF Asking
    <2>. HIDE DEF what, next
    <2>3. /\ outbound' \in Seq(Writes) /\ Len(outbound') = Len(outbound) + 1
          /\ DOMAIN outbound = 1 .. Len(outbound) /\ DOMAIN outbound' = 1 .. Len(outbound) + 1
          /\ \A i \in DOMAIN outbound : outbound'[i] = outbound[i]
          /\ outbound'[Len(outbound) + 1] = what
      BY <1>1, <2>1, <2>2, AppendProperties
    <2>4. DfuTypeOK' /\ RunnerFollows'
      <3>1. session'.phase # "Failed"
        BY <2>1, <2>2 DEF Sending
      <3>. QED BY <2>1, <2>2, <2>3, <3>1 DEF DfuInv, DfuTypeOK, RunnerFollows
    <2>5. NotYetAsked'
      <3>. SUFFICES ASSUME next.phase \in Sending PROVE NotYetAsked'
        BY <2>1 DEF NotYetAsked
      <3>1. ~Asking(what, "VALIDATE")
        BY <2>2 DEF Sending
      <3>. QED BY <2>1, <2>2, <2>3, <3>1 DEF DfuInv, NotYetAsked
    <2>6. NothingFollows'
      <3>1. ~loader.validated /\ \A i \in DOMAIN outbound : ~Asking(outbound[i], "VALIDATE")
        BY <2>2 DEF DfuInv, NotYetAsked
      <3>2. \A i, j \in DOMAIN outbound' : ~(Asking(outbound'[i], "VALIDATE") /\ i < j)
        BY <1>1, <2>3, <3>1
      <3>. QED BY <2>1, <3>1, <3>2 DEF NothingFollows
    <2>7. VerdictIsTrue' /\ ActivationIsEarned'
      <3>1. session'.phase \notin Succeeded
        BY <2>1, <2>2 DEF Sending, Succeeded
      <3>. QED BY <2>1, <2>2, <2>3, <3>1 DEF DfuInv, VerdictIsTrue, ActivationIsEarned
    <2>. QED BY <2>4, <2>5, <2>6, <2>7 DEF DfuInv
  <1>. QED BY <1>2, <1>3

(* The session awaits, reports the transfer and asks for the activation. *)
LEMMA SessionGoesOn ==
  ASSUME DfuInv, AwaitNotification \/ TransferComplete \/ ActivateAndReset
  PROVE  DfuInv'
  <1>. DEFINE what == NextAction(session).what
              next == NextAction(session).session
  <1>1. session \in Sessions /\ session.phase # "Failed" /\ outbound \in Seq(Writes)
    BY DEF AwaitNotification, TransferComplete, ActivateAndReset, DfuInv, DfuTypeOK, RunnerFollows
  <1>2. /\ session' = next /\ UNCHANGED <<loader, air>>
        /\ gatt' = gatt \/ gatt' = [gatt EXCEPT !.active = FALSE]
        /\ what.is \in {"await", "transferred", "activate"}
        /\ runner' = "notification" => what.is = "await"
        /\ runner' \in {"activating", "leaving"} => what.is = "activate"
        /\ \/ outbound' = outbound
           \/ outbound' = Append(outbound, Control("ACTIVATE")) /\ what.is = "activate"
    BY DEF AwaitNotification, TransferComplete, ActivateAndReset, Goes, Fails
  <1>3. /\ next \in Sessions /\ next.total = session.total /\ next.phase # "Failed"
        /\ next.phase \in Sending => session.phase \in Sending
        /\ next.phase \in Succeeded => session.phase \in Succeeded
        /\ what.is = "await" => next.phase \in Awaits
        /\ what.is = "activate" => session.phase \in Succeeded /\ next.phase \in Succeeded
    BY <1>1, <1>2, NextActionIs DEF Sending, Succeeded, Awaits
  <1>. HIDE DEF what, next
  <1>4. gatt' \in Gatts /\ gatt'.notes = gatt.notes
    BY <1>2 DEF DfuInv, DfuTypeOK, Gatts
  <1>5. session.phase \in Succeeded => loader.validated
    BY DEF DfuInv, VerdictIsTrue
  <1>6. /\ outbound' \in Seq(Writes)
        /\ \A i \in DOMAIN outbound' :
             \/ i \in DOMAIN outbound /\ outbound'[i] = outbound[i]
             \/ /\ Asking(outbound'[i], "ACTIVATE") /\ loader.validated
                /\ ~Asking(outbound'[i], "VALIDATE") /\ ~Application(outbound'[i])
    <2>1. Control("ACTIVATE") \in Writes
      BY DEF Control, Writes, Requests
    <2>2. /\ Asking(Control("ACTIVATE"), "ACTIVATE") /\ ~Asking(Control("ACTIVATE"), "VALIDATE")
          /\ ~Application(Control("ACTIVATE"))
      BY DEF Control, Asking, Application
    <2>. QED BY <1>1, <1>2, <1>3, <1>5, <2>1, <2>2, QueueItems
  <1>7. DfuTypeOK' /\ RunnerFollows'
    BY <1>2, <1>3, <1>4, <1>6 DEF DfuInv, DfuTypeOK, RunnerFollows
  <1>8. NotYetAsked'
    BY <1>2, <1>3, <1>4, <1>6 DEF DfuInv, NotYetAsked
  <1>9. NothingFollows'
    BY <1>2, <1>3, <1>6 DEF DfuInv, NothingFollows
  <1>10. VerdictIsTrue' /\ ActivationIsEarned'
    BY <1>2, <1>3, <1>4, <1>6 DEF DfuInv, VerdictIsTrue, ActivationIsEarned
  <1>. QED BY <1>7, <1>8, <1>9, <1>10 DEF DfuInv

(* A notification reaches the session: only a verdict the bootloader gave takes
   it past the validation. *)
LEMMA SessionHears ==
  ASSUME DfuInv, Notified
  PROVE  DfuInv'
  <1>. DEFINE note == Head(gatt.notes)
              next == Notification(session, note)
  <1>1. /\ session \in Sessions /\ session.phase \in Awaits
        /\ gatt \in Gatts /\ gatt.notes \in Seq(Notes) /\ gatt.notes # <<>>
    BY DEF Notified, DfuInv, DfuTypeOK, RunnerFollows, Gatts
  <1>2. /\ note \in Notes /\ 1 \in DOMAIN gatt.notes /\ note = gatt.notes[1]
        /\ Tail(gatt.notes) \in Seq(Notes)
        /\ \A i \in DOMAIN Tail(gatt.notes) :
             i + 1 \in DOMAIN gatt.notes /\ Tail(gatt.notes)[i] = gatt.notes[i + 1]
    BY <1>1, QueueOperations, QueueItems
  <1>3. /\ session' = next /\ UNCHANGED <<outbound, loader, air>>
        /\ \/ runner' = "failed" /\ gatt' = [gatt EXCEPT !.active = FALSE]
           \/ /\ runner' = "run" /\ gatt' = [gatt EXCEPT !.notes = Tail(@)]
              /\ next.phase # "Failed"
    BY DEF Notified, Fails
  <1>4. /\ next \in Sessions /\ next.total = session.total
        /\ next.phase \in Sending => session.phase \in Sending
        /\ next.phase \in Succeeded => Verdict(note) /\ note.ok
    BY <1>1, <1>2, NotificationIs
  <1>. HIDE DEF note, next
  <1>5. gatt' \in Gatts /\ (gatt'.notes = gatt.notes \/ gatt'.notes = Tail(gatt.notes))
    BY <1>1, <1>2, <1>3 DEF Gatts
  <1>6. \A i \in DOMAIN gatt'.notes : \E j \in DOMAIN gatt.notes : gatt'.notes[i] = gatt.notes[j]
    BY <1>2, <1>5
  <1>7. next.phase \in Succeeded => loader.validated
    BY <1>2, <1>4 DEF DfuInv, VerdictIsTrue
  <1>8. DfuTypeOK' /\ RunnerFollows'
    BY <1>3, <1>4, <1>5 DEF DfuInv, DfuTypeOK, RunnerFollows
  <1>9. NotYetAsked'
    BY <1>3, <1>4, <1>6 DEF DfuInv, NotYetAsked
  <1>10. NothingFollows'
    BY <1>3, <1>4 DEF DfuInv, NothingFollows
  <1>11. VerdictIsTrue' /\ ActivationIsEarned'
    BY <1>3, <1>6, <1>7 DEF DfuInv, VerdictIsTrue, ActivationIsEarned
  <1>. QED BY <1>8, <1>9, <1>10, <1>11 DEF DfuInv

(* The link ends: as was asked after the activation, or by itself. *)
LEMMA LinkEnds ==
  ASSUME DfuInv, Leaves \/ DidDisconnect
  PROVE  DfuInv'
  <1>. USE DEF DfuInv, RunnerFollows
  <1>0. <<>> \in Seq(Notes) /\ <<>> \in Seq(Writes) /\ DOMAIN <<>> = {}
    BY EmptyQueue
  <1>1. CASE Leaves
    <2>1. /\ session' = [session EXCEPT !.phase = "Complete"] /\ session.phase \in Succeeded
          /\ UNCHANGED <<outbound, loader, air>> /\ runner' = "done"
          /\ gatt' = [gatt EXCEPT !.active = FALSE]
      BY <1>1 DEF Leaves
    <2>2. session' \in Sessions /\ session'.total = session.total /\ session'.phase = "Complete"
      BY <2>1 DEF DfuTypeOK, Sessions, Succeeded
    <2>3. gatt' \in Gatts /\ gatt'.notes = gatt.notes
      BY <2>1 DEF DfuTypeOK, Gatts
    <2>4. session'.phase \notin Sending
      BY <2>2 DEF Sending
    <2>. QED
      BY <2>1, <2>2, <2>3, <2>4
      DEF DfuTypeOK, NotYetAsked, NothingFollows, VerdictIsTrue, ActivationIsEarned
  <1>2. CASE DidDisconnect
    <2>1. /\ UNCHANGED <<runner, session, loader>> /\ outbound' = <<>>
          /\ air' = [notes |-> <<>>, written |-> FALSE, room |-> FALSE]
          /\ \/ gatt' = [gatt EXCEPT !.active = FALSE, !.disconnected = TRUE]
             \/ gatt' = [gatt EXCEPT !.active = FALSE, !.failed = TRUE]
      BY <1>2 DEF DidDisconnect
    <2>2. gatt' \in Gatts /\ gatt'.notes = gatt.notes
      BY <2>1 DEF DfuTypeOK, Gatts
    <2>3. air' \in Airs /\ air'.notes = <<>>
      BY <1>0, <2>1 DEF Airs
    <2>. QED
      BY <1>0, <2>1, <2>2, <2>3
      DEF DfuTypeOK, NotYetAsked, NothingFollows, VerdictIsTrue, ActivationIsEarned
  <1>. QED BY <1>1, <1>2

(* A notification reaches the delegate's channel, which fails when full. *)
LEMMA NotificationQueued ==
  ASSUME DfuInv, DidUpdateValue
  PROVE  DfuInv'
  <1>. USE DEF DfuInv
  <1>1. /\ gatt \in Gatts /\ gatt.notes \in Seq(Notes)
        /\ air \in Airs /\ air.notes \in Seq(Notes) /\ air.notes # <<>>
    BY DEF DidUpdateValue, DfuTypeOK, Gatts, Airs
  <1>2. /\ Head(air.notes) \in Notes /\ 1 \in DOMAIN air.notes /\ Head(air.notes) = air.notes[1]
        /\ Tail(air.notes) \in Seq(Notes)
        /\ \A i \in DOMAIN Tail(air.notes) :
             i + 1 \in DOMAIN air.notes /\ Tail(air.notes)[i] = air.notes[i + 1]
    BY <1>1, QueueOperations, QueueItems
  <1>3. /\ UNCHANGED <<runner, session, outbound, loader>>
        /\ air' = [air EXCEPT !.notes = Tail(@)]
        /\ \/ gatt' = [gatt EXCEPT !.notes = Append(@, Head(air.notes))]
           \/ gatt' = [gatt EXCEPT !.failed = TRUE]
    BY DEF DidUpdateValue
  <1>4. /\ Append(gatt.notes, Head(air.notes)) \in Seq(Notes)
        /\ \A i \in DOMAIN Append(gatt.notes, Head(air.notes)) :
             \/ Append(gatt.notes, Head(air.notes))[i] = air.notes[1]
             \/ /\ i \in DOMAIN gatt.notes
                /\ Append(gatt.notes, Head(air.notes))[i] = gatt.notes[i]
    BY <1>1, <1>2, QueueOperations, QueueItems
  <1>5. /\ gatt' \in Gatts
        /\ \/ gatt'.notes = gatt.notes
           \/ gatt'.notes = Append(gatt.notes, Head(air.notes))
    BY <1>1, <1>3, <1>4 DEF Gatts
  <1>6. air' \in Airs /\ air'.notes = Tail(air.notes)
    BY <1>1, <1>2, <1>3 DEF Airs
  <1>7. \A i \in DOMAIN gatt'.notes :
          \/ \E j \in DOMAIN gatt.notes : gatt'.notes[i] = gatt.notes[j]
          \/ \E j \in DOMAIN air.notes : gatt'.notes[i] = air.notes[j]
    BY <1>2, <1>4, <1>5
  <1>8. \A i \in DOMAIN air'.notes : \E j \in DOMAIN air.notes : air'.notes[i] = air.notes[j]
    BY <1>2, <1>6
  <1>9. DfuTypeOK' /\ RunnerFollows' /\ NothingFollows' /\ ActivationIsEarned'
    BY <1>3, <1>5, <1>6 DEF DfuTypeOK, RunnerFollows, NothingFollows, ActivationIsEarned
  <1>10. NotYetAsked' /\ VerdictIsTrue'
    BY <1>3, <1>7, <1>8 DEF NotYetAsked, VerdictIsTrue
  <1>. QED BY <1>9, <1>10

(* What the bootloader's answers add to what is under way. *)
LEMMA AnswersAre ==
  ASSUME air \in Airs, NEW notes \in Seq(Notes), Answers(notes) \/ Acknowledges(notes)
  PROVE  /\ air' \in Airs
         /\ \A i \in DOMAIN air'.notes :
              \/ \E j \in DOMAIN air.notes : air'.notes[i] = air.notes[j]
              \/ \E j \in DOMAIN notes : air'.notes[i] = notes[j]
  <1>1. air.notes \in Seq(Notes)
    BY DEF Airs
  <1>2. /\ air.notes \o notes \in Seq(Notes)
        /\ \A i \in DOMAIN (air.notes \o notes) :
             \/ i \in DOMAIN air.notes /\ (air.notes \o notes)[i] = air.notes[i]
             \/ \E j \in DOMAIN notes : (air.notes \o notes)[i] = notes[j]
    BY <1>1, QueueOfTwo
  <1>3. air' \in Airs /\ air'.notes = air.notes \o notes
    BY <1>2 DEF Answers, Acknowledges, Airs
  <1>. QED BY <1>2, <1>3

(* What taking a packet of the application says and does. *)
LEMMA ApplicationTaken ==
  ASSUME air \in Airs, loader \in Loaders, session \in Sessions, TakesApplication
  PROVE  /\ air' \in Airs /\ loader' \in Loaders
         /\ loader'.validated = loader.validated /\ loader'.activated = loader.activated
         /\ \A i \in DOMAIN air'.notes :
              \/ \E j \in DOMAIN air.notes : air'.notes[i] = air.notes[j]
              \/ ~Verdict(air'.notes[i])
  <1>1. PICK kept \in BOOLEAN :
          LET received == loader.received + IF kept THEN 1 ELSE 0
              due      == (loader.seen + 1) % Interval = 0
              receipt  == IF due THEN <<Receipt(received)>> ELSE <<>>
          IN /\ loader' = [loader EXCEPT !.received = received, !.seen = @ + 1]
             /\ \/ Answers(receipt)
                \/ Answers(receipt \o <<Response("RECEIVE", TRUE)>>)
                \/ Answers(<<Response("RECEIVE", TRUE)>>)
    BY DEF TakesApplication
  <1>. DEFINE received == loader.received + IF kept THEN 1 ELSE 0
              due      == (loader.seen + 1) % Interval = 0
              receipt  == IF due THEN <<Receipt(received)>> ELSE <<>>
              response == <<Response("RECEIVE", TRUE)>>
              Plain(notes) == notes \in Seq(Notes) /\ \A i \in DOMAIN notes : ~Verdict(notes[i])
  <1>2. loader.received \in Nat /\ loader.seen \in Nat
    BY DEF Loaders
  <1>3. received \in Nat /\ loader.seen + 1 \in Nat
    BY <1>2
  <1>4. loader' = [loader EXCEPT !.received = received, !.seen = @ + 1]
    BY <1>1
  <1>5. /\ loader' \in Loaders
        /\ loader'.validated = loader.validated /\ loader'.activated = loader.activated
    <2>. HIDE DEF received
    <2>. QED BY <1>3, <1>4 DEF Loaders
  <1>6. /\ Receipt(received) \in Notes /\ ~Verdict(Receipt(received))
        /\ Response("RECEIVE", TRUE) \in Notes /\ ~Verdict(Response("RECEIVE", TRUE))
    <2>. HIDE DEF received
    <2>. QED BY <1>3 DEF Receipt, Response, Notes, Requests, Verdict
  <1>7. Plain(receipt) /\ Plain(response)
    <2>. HIDE DEF received, due
    <2>. QED BY <1>6, OnePlace, EmptyQueue
  <1>8. PICK notes : Plain(notes) /\ Answers(notes)
    <2>1. \/ Answers(receipt) \/ Answers(receipt \o response) \/ Answers(response)
      BY <1>1
    <2>. HIDE DEF receipt, response
    <2>2. Plain(receipt \o response)
      BY <1>7, QueueOfTwo
    <2>. QED BY <2>1, <2>2, <1>7
  <1>. HIDE DEF receipt, response
  <1>. QED BY <1>5, <1>8, AnswersAre

(* The image is found whole only when it is, and the bootloader says so only
   when it found it. *)
LEMMA WriteTaken ==
  ASSUME DfuInv, NEW w \in Writes, Takes(w)
  PROVE  /\ air' \in Airs /\ loader' \in Loaders
         /\ loader.validated => loader'.validated
         /\ loader'.validated =>
              loader.validated \/ (Asking(w, "VALIDATE") /\ loader'.received = session.total)
         /\ loader'.activated => loader.activated \/ Asking(w, "ACTIVATE")
         /\ Application(w) \/ loader'.received = loader.received
         /\ \A i \in DOMAIN air'.notes :
              \/ \E j \in DOMAIN air.notes : air'.notes[i] = air.notes[j]
              \/ Verdict(air'.notes[i]) =>
                   Asking(w, "VALIDATE") /\ (air'.notes[i].ok => loader'.validated)
  <1>. USE DEF DfuInv, DfuTypeOK, Takes
  <1>1. CASE w.is = "packet" /\ w.part = "application"
    BY <1>1, ApplicationTaken DEF Application
  <1>2. CASE w.is = "packet" /\ w.part = "init"
    BY <1>2
  <1>3. CASE w.is = "packet" /\ w.part = "size"
    <2>. DEFINE notes == <<Response("START", TRUE)>>
    <2>1. /\ notes \in Seq(Notes) /\ \A i \in DOMAIN notes : ~Verdict(notes[i])
      BY OnePlace DEF Response, Notes, Requests, Verdict
    <2>2. Answers(notes) /\ UNCHANGED loader
      BY <1>3
    <2>. HIDE DEF notes
    <2>. QED BY <2>1, <2>2, AnswersAre
  <1>4. CASE w.is = "control" /\ w.request \in {"START", "INIT", "SET_PRN", "RECEIVE"}
    <2>1. Acknowledges(<<>>) /\ UNCHANGED loader
      BY <1>4
    <2>. QED BY <2>1, EmptyQueue, AnswersAre
  <1>5. CASE w.is = "control" /\ w.request = "INIT_DONE"
    <2>1. PICK ok \in BOOLEAN : Acknowledges(<<Response("INIT_DONE", ok)>>) /\ UNCHANGED loader
      BY <1>5 DEF Outcome
    <2>. DEFINE notes == <<Response("INIT_DONE", ok)>>
    <2>2. /\ notes \in Seq(Notes) /\ \A i \in DOMAIN notes : ~Verdict(notes[i])
      BY OnePlace DEF Response, Notes, Requests, Verdict
    <2>3. Acknowledges(notes)
      BY <2>1
    <2>. HIDE DEF notes
    <2>. QED BY <2>1, <2>2, <2>3, AnswersAre
  <1>6. CASE w.is = "control" /\ w.request = "VALIDATE"
    <2>. DEFINE whole == loader.received = session.total
    <2>1. PICK ok \in BOOLEAN :
            /\ Acknowledges(<<Response("VALIDATE", ok)>>)
            /\ \/ ok = whole /\ loader' = [loader EXCEPT !.validated = whole]
               \/ ok = FALSE /\ UNCHANGED loader
      BY <1>6
    <2>. DEFINE notes == <<Response("VALIDATE", ok)>>
    <2>2. /\ notes \in Seq(Notes) /\ \A i \in DOMAIN notes : notes[i].ok = ok
      BY OnePlace DEF Response, Notes, Requests
    <2>3. Acknowledges(notes)
      BY <2>1
    <2>. HIDE DEF notes
    <2>4. /\ loader' \in Loaders /\ loader'.received = loader.received
          /\ loader'.activated = loader.activated
          /\ loader'.validated => loader.validated \/ whole
          /\ ok => loader'.validated
          /\ loader'.validated \/ ~whole \/ loader' = loader
      BY <2>1 DEF Loaders
    <2>5. loader.validated => loader'.validated
      BY <2>1 DEF NothingFollows, Loaders
    <2>. QED BY <1>6, <2>2, <2>3, <2>4, <2>5, AnswersAre DEF Asking
  <1>7. CASE w.is = "control" /\ w.request = "ACTIVATE"
    <2>1. /\ loader' = [loader EXCEPT !.activated = TRUE]
          /\ \E answered \in BOOLEAN : air' = [air EXCEPT !.written = answered]
      BY <1>7
    <2>2. air' \in Airs /\ air'.notes = air.notes
      BY <2>1 DEF Airs
    <2>3. /\ loader' \in Loaders /\ loader'.received = loader.received
          /\ loader'.validated = loader.validated
      BY <2>1 DEF Loaders
    <2>. QED BY <1>7, <2>2, <2>3 DEF Asking
  <1>. QED BY <1>1, <1>2, <1>3, <1>4, <1>5, <1>6, <1>7 DEF Writes, Requests, Parts

LEMMA LoaderMoves ==
  ASSUME DfuInv, LoaderTakes
  PROVE  DfuInv'
  <1>. DEFINE w == Head(outbound)
  <1>1. outbound \in Seq(Writes) /\ outbound # <<>> /\ Takes(w)
    BY DEF LoaderTakes, DfuInv, DfuTypeOK
  <1>2. /\ w \in Writes /\ 1 \in DOMAIN outbound /\ w = outbound[1]
        /\ Tail(outbound) \in Seq(Writes)
        /\ \A i \in DOMAIN Tail(outbound) :
             i + 1 \in DOMAIN outbound /\ Tail(outbound)[i] = outbound[i + 1]
        /\ DOMAIN Tail(outbound) \subseteq Nat \ {0}
    BY <1>1, QueueOperations, QueueItems
  <1>3. outbound' = Tail(outbound) /\ UNCHANGED <<runner, session, gatt>>
    BY DEF LoaderTakes
  <1>4. /\ air' \in Airs /\ loader' \in Loaders
        /\ loader.validated => loader'.validated
        /\ loader'.validated =>
             loader.validated \/ (Asking(w, "VALIDATE") /\ loader'.received = session.total)
        /\ loader'.activated => loader.activated \/ Asking(w, "ACTIVATE")
        /\ Application(w) \/ loader'.received = loader.received
    BY <1>1, <1>2, WriteTaken
  <1>5. \A i \in DOMAIN air'.notes :
          \/ \E j \in DOMAIN air.notes : air'.notes[i] = air.notes[j]
          \/ Verdict(air'.notes[i]) =>
               Asking(w, "VALIDATE") /\ (air'.notes[i].ok => loader'.validated)
    BY <1>1, <1>2, WriteTaken
  <1>. HIDE DEF w
  <1>6. \A i \in DOMAIN outbound' : i + 1 \in DOMAIN outbound /\ outbound'[i] = outbound[i + 1]
    BY <1>2, <1>3
  <1>7. DfuTypeOK' /\ RunnerFollows'
    BY <1>2, <1>3, <1>4 DEF DfuInv, DfuTypeOK, RunnerFollows
  <1>8. NotYetAsked'
    <2>. SUFFICES ASSUME session.phase \in Sending PROVE NotYetAsked'
      BY <1>3 DEF NotYetAsked
    <2>1. ~Asking(w, "VALIDATE") /\ ~loader'.validated
      BY <1>2, <1>4 DEF DfuInv, NotYetAsked
    <2>. QED BY <1>3, <1>5, <1>6, <2>1 DEF DfuInv, NotYetAsked
  <1>9. NothingFollows'
    <2>1. \A i, j \in DOMAIN outbound' :
            Asking(outbound'[i], "VALIDATE") /\ i < j => ~Application(outbound'[j])
      BY <1>1, <1>2, <1>3, <1>6 DEF DfuInv, NothingFollows
    <2>2. ASSUME loader'.validated, NEW i \in DOMAIN outbound'
          PROVE  ~Application(outbound'[i])
      <3>1. i + 1 \in DOMAIN outbound /\ outbound'[i] = outbound[i + 1] /\ 1 < i + 1
        BY <1>2, <1>3, <1>6
      <3>. QED BY <1>2, <1>4, <2>2, <3>1 DEF DfuInv, NothingFollows
    <2>3. loader'.validated => loader'.received = session'.total
      BY <1>2, <1>3, <1>4 DEF DfuInv, NothingFollows
    <2>. QED BY <2>1, <2>2, <2>3 DEF NothingFollows
  <1>10. VerdictIsTrue'
    BY <1>3, <1>4, <1>5 DEF DfuInv, VerdictIsTrue
  <1>11. ActivationIsEarned'
    BY <1>2, <1>3, <1>4, <1>6 DEF DfuInv, ActivationIsEarned
  <1>. QED BY <1>7, <1>8, <1>9, <1>10, <1>11 DEF DfuInv

LEMMA DfuSteps == DfuInv /\ [DfuNext]_dfuVars => DfuInv'
  <1>. SUFFICES ASSUME DfuInv, [DfuNext]_dfuVars PROVE DfuInv'
    OBVIOUS
  <1>1. CASE Runner
    BY <1>1, RunnerWaits, SessionWrites, SessionGoesOn, SessionHears, LinkEnds DEF Runner
  <1>2. CASE Handover
    BY <1>2, HandoverStep
  <1>3. CASE External
    BY <1>3, CallbackStep, NotificationQueued, LinkEnds, LoaderMoves DEF External
  <1>4. CASE Abandon
    BY <1>4, RunnerWaits
  <1>5. CASE UNCHANGED dfuVars
    BY <1>5, QuietStep DEF dfuVars, DfuInv, DfuTypeOK, RunnerFollows
  <1>. QED BY <1>1, <1>2, <1>3, <1>4, <1>5 DEF DfuNext

(* An image is activated only when the bootloader has all of it and has found
   it valid, however packets, answers and losses of the link come: the runner
   (run_rak4631_legacy_dfu) asks for the activation only from a session that
   was told so (legacy_dfu.rs, notification). *)
THEOREM ImagesAreValidated == DfuSpec => []ActivatesOnlyValidated
  <1>1. DfuInv => ActivatesOnlyValidated
    <2>. SUFFICES ASSUME DfuInv, \/ \E i \in DOMAIN outbound : outbound[i] = Control("ACTIVATE")
                                 \/ loader.activated
                  PROVE  loader.validated /\ loader.received = session.total
      BY DEF ActivatesOnlyValidated
    <2>1. Asking(Control("ACTIVATE"), "ACTIVATE")
      BY DEF Asking, Control
    <2>2. loader.validated
      BY <2>1 DEF DfuInv, ActivationIsEarned
    <2>. QED BY <2>2 DEF DfuInv, NothingFollows
  <1>. QED BY <1>1, DfuStarts, DfuSteps, PTL DEF DfuSpec
=============================================================================
