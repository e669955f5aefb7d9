------------------------------ MODULE RNodePump ------------------------------
(***************************************************************************)
(* One BLE byte pump after another (run_ble_pump), the adapter it writes   *)
(* and reads through (IosBleAdapter), and CoreBluetooth underneath.        *)
(*                                                                         *)
(* Everything the adapter and its delegate do runs on the main dispatch    *)
(* queue, the pump's future too, so code between two awaits is one step;   *)
(* each await of the pump is a value of pc and every callback of           *)
(* CoreBluetooth may run there.  The bytes of a packet, a notification or  *)
(* a response are abstracted to a number.                                  *)
(***************************************************************************)
EXTENDS CoreBluetoothAttempt, Sequences

CONSTANTS
  MaxPackets,      \* packets the backend ever enqueues
  Chunks,          \* writes in the batch of one packet
  StartWrites,     \* writes session.start returns
  MaxResponses,    \* most writes session.submit returns
  ReadCapacity,    \* BYTE_CAPACITY, the bound of the read queue
  MaxHeard,        \* notifications the RNode sends on one attempt
  MaxAttempts      \* attempts that reach Ready

ASSUME PumpAssumption ==
  /\ MaxPackets \in Nat /\ Chunks \in Nat \ {0} /\ StartWrites \in Nat
  /\ MaxResponses \in Nat /\ ReadCapacity \in Nat \ {0}
  /\ MaxHeard \in Nat /\ MaxAttempts \in Nat

VARIABLES
  pc,            \* where the pump of the current attempt awaits
  purpose,       \* what the write_all in progress writes
  left,          \* writes it still has to do, the awaited one included
  batch,         \* packet of the handoff held by the pump, NoPacket if none
  cancel,        \* the cancellation channel holds its message
  boundary,      \* the delegate's CoreBluetoothAttemptBoundary
  link,          \* "none", "up", or "lost": gone with no callback to come
  radio,         \* the manager is PoweredOn
  native,        \* writes CoreBluetooth has not called back for, in order
  completion,    \* the awaited write's completion channel
  reads,         \* the adapter's read queue
  heard,         \* notifications the RNode sent on this attempt
  attempts,      \* attempts started, the backend's attempt number
  offeredTo,     \* attempt the head of retained is offered to, 0 if none
  retained,      \* packets the backend holds, oldest first
  enqueued,      \* packets enqueued so far; they are numbered 1..enqueued
  progress,      \* history: chunks of batch acknowledged in order
  acknowledged,  \* history: packets acknowledged completely on one attempt
  released,      \* history: packets the backend let go of
  submitted,     \* history: notifications submitted on this attempt
  dropped        \* history: the read queue overflowed on this attempt

pumpVars    == <<pc, purpose, left, batch, cancel>>
adapterVars == <<boundary, link, radio, native, completion, reads>>
backendVars == <<attempts, offeredTo, retained, enqueued>>
history     == <<progress, acknowledged, released, submitted, dropped>>
vars == <<pumpVars, adapterVars, heard, backendVars, history>>

NoPacket  == 0
ReadError == 0          \* an Err in the read queue; notifications are 1, 2, ...
Packets   == 1..MaxPackets
Purposes  == {"start", "batch", "response"}
Labels    == [token : Nat, packet : Nat, chunk : Nat]

-----------------------------------------------------------------------------
(* The pump's control. *)

AfterWrites(why) == IF why = "batch" THEN "complete" ELSE "poll"

(* write_all with n writes: with none it returns without looking at cancelled. *)
WriteAll(why, n) ==
  /\ purpose' = why
  /\ left' = n
  /\ pc' = IF n = 0 THEN AfterWrites(why) ELSE "write"

Init ==
  /\ pc = "off" /\ purpose = "start" /\ left = 0 /\ batch = NoPacket /\ cancel = FALSE
  /\ boundary = Close(NewBoundary) /\ link = "none" /\ radio = TRUE
  /\ native = <<>> /\ completion = "none" /\ reads = <<>> /\ heard = 0
  /\ attempts = 0 /\ offeredTo = 0 /\ retained = <<>> /\ enqueued = 0
  /\ progress = 0 /\ acknowledged = {} /\ released = {}
  /\ submitted = <<>> /\ dropped = FALSE

(* The host's next attempt reaches Ready on a new adapter: empty queues and a
   boundary that has gone through the handshake. *)
LinkReady ==
  /\ pc = "off" /\ radio /\ attempts < MaxAttempts
  /\ pc' = "begin"
  /\ link' = "up"
  /\ boundary' = [NewBoundary EXCEPT !.phase = "Ready", !.limit = TRUE]
  /\ native' = <<>> /\ completion' = "none" /\ reads' = <<>> /\ heard' = 0
  /\ submitted' = <<>> /\ dropped' = FALSE
  /\ UNCHANGED <<purpose, left, batch, cancel, radio, backendVars,
                 progress, acknowledged, released>>

(* session.start *)
Start ==
  /\ pc = "begin"
  /\ attempts' = attempts + 1
  /\ WriteAll("start", StartWrites)
  /\ UNCHANGED <<batch, cancel, adapterVars, heard, offeredTo, retained, enqueued, history>>

StartFails ==
  /\ pc = "begin"
  /\ pc' = "close"
  /\ attempts' = attempts + 1
  /\ UNCHANGED <<purpose, left, batch, cancel, adapterVars, heard, offeredTo,
                 retained, enqueued, history>>

(* The label of the write about to be issued: which chunk of which packet. *)
NextWrite == [token |-> boundary.nextWrite,
              packet |-> IF purpose = "batch" THEN batch ELSE NoPacket,
              chunk |-> IF purpose = "batch" THEN Chunks - left + 1 ELSE 0]

(* write_with_response up to its await. *)
IssueWrite ==
  /\ pc = "write"
  /\ radio /\ link # "none" /\ MayBeginWrite(boundary)
  /\ boundary' = BeginWrite(boundary)
  /\ native' = Append(native, NextWrite)
  /\ completion' = "none"
  /\ pc' = "await"
  /\ UNCHANGED <<purpose, left, batch, cancel, link, radio, reads, heard,
                 backendVars, history>>

(* Mutation: a batch whose write failed is reported as complete. *)
FailedBatchCompletes == pc' = IF purpose = "batch" THEN "complete" ELSE "stop"

(* Where a failed write_all leads: only a batch is handed back to the backend. *)
WritesFailed == pc' = IF purpose = "batch" THEN "fail" ELSE "stop"

(* write_with_response returns an error before its await: radio off, no
   boundary left, or the write characteristic is gone from the peripheral
   (the admitted write is then completed as failed on the spot). *)
WriteRefused ==
  /\ pc = "write"
  /\ WritesFailed
  /\ boundary' = IF MayBeginWrite(boundary)
                   THEN WriteCompleted(BeginWrite(boundary), boundary.nextWrite, FALSE).b
                   ELSE boundary
  /\ UNCHANGED <<purpose, left, batch, cancel, link, radio, native, completion,
                 reads, heard, backendVars, history>>

WriteOk ==
  /\ pc = "await" /\ completion = "ok"
  /\ WriteAll(purpose, left - 1)
  /\ completion' = "none"
  /\ UNCHANGED <<batch, cancel, boundary, link, radio, native, reads, heard,
                 backendVars, history>>

WriteErr ==
  /\ pc = "await" /\ completion = "error"
  /\ WritesFailed
  /\ completion' = "none"
  /\ UNCHANGED <<purpose, left, batch, cancel, boundary, link, radio, native,
                 reads, heard, backendVars, history>>

(* Mutations: the cancelled pump leaves without session.stop; it drops the
   write it awaited and goes on; it only looks at cancelled between writes. *)
CancelSkipsStop ==
  /\ pc \in {"write", "await"} /\ cancel
  /\ cancel' = FALSE
  /\ pc' = "close"
  /\ UNCHANGED <<purpose, left, batch, adapterVars, heard, backendVars, history>>

CancelDropsWrite ==
  /\ pc \in {"write", "await"} /\ cancel
  /\ cancel' = FALSE
  /\ pc' = "poll"
  /\ boundary' = [boundary EXCEPT !.pending = NoToken]
  /\ UNCHANGED <<purpose, left, batch, link, radio, native, completion, reads,
                 heard, backendVars, history>>

CancelBetweenWrites ==
  /\ pc = "write" /\ cancel
  /\ cancel' = FALSE
  /\ pc' = "stop"
  /\ UNCHANGED <<purpose, left, batch, adapterVars, heard, backendVars, history>>

(* write_all selects cancelled: the write it awaited is abandoned, the
   callback of a write already issued is still to come. *)
CancelWrite ==
  /\ pc \in {"write", "await"} /\ cancel
  /\ cancel' = FALSE
  /\ pc' = "stop"
  /\ UNCHANGED <<purpose, left, batch, adapterVars, heard, backendVars, history>>

(* session.poll offers the oldest retained packet to this attempt, once. *)
Poll ==
  /\ pc = "poll"
  /\ IF retained # <<>> /\ offeredTo = 0
       THEN /\ offeredTo' = attempts
            /\ batch' = Head(retained)
            /\ progress' = 0
            /\ WriteAll("batch", Chunks)
       ELSE /\ pc' = "read"
            /\ UNCHANGED <<offeredTo, batch, progress, purpose, left>>
  /\ UNCHANGED <<cancel, adapterVars, heard, attempts, retained, enqueued,
                 acknowledged, released, submitted, dropped>>

(* session.fail: the packet may be offered again. *)
FailBatch ==
  /\ pc = "fail"
  /\ offeredTo' = IF offeredTo = attempts THEN 0 ELSE offeredTo
  /\ pc' = "stop"
  /\ UNCHANGED <<purpose, left, batch, cancel, adapterVars, heard, attempts,
                 retained, enqueued, history>>

(* session.complete: the backend lets the packet go if it is still the one
   offered to this attempt, otherwise the pump ends on a stale handoff. *)
Complete ==
  /\ pc = "complete"
  /\ IF offeredTo = attempts /\ retained # <<>> /\ Head(retained) = batch
       THEN /\ released' = released \cup {batch}
            /\ retained' = Tail(retained)
            /\ offeredTo' = 0
            /\ pc' = "read"
       ELSE pc' = "stop" /\ UNCHANGED <<released, retained, offeredTo>>
  /\ batch' = NoPacket
  /\ UNCHANGED <<purpose, left, cancel, adapterVars, heard, attempts, enqueued,
                 progress, acknowledged, submitted, dropped>>

(* A backend call fails: the node is shutting down. *)
BackendFails ==
  /\ pc \in {"poll", "complete", "submit"}
  /\ pc' = "stop"
  /\ UNCHANGED <<purpose, left, batch, cancel, adapterVars, heard, backendVars, history>>

-----------------------------------------------------------------------------
(* The three branches of the pump's read select. *)

CancelRead ==
  /\ pc = "read" /\ cancel
  /\ cancel' = FALSE
  /\ pc' = "stop"
  /\ UNCHANGED <<purpose, left, batch, adapterVars, heard, backendVars, history>>

Read ==
  /\ pc = "read" /\ reads # <<>>
  /\ reads' = Tail(reads)
  /\ IF Head(reads) = ReadError
       THEN pc' = "stop" /\ UNCHANGED submitted
       ELSE pc' = "submit" /\ submitted' = Append(submitted, Head(reads))
  /\ UNCHANGED <<purpose, left, batch, cancel, boundary, link, radio, native,
                 completion, heard, backendVars, progress, acknowledged, released,
                 dropped>>

(* Mutation: the select has no timer branch. *)
NoTimer == FALSE /\ UNCHANGED vars

Timer ==
  /\ pc = "read"
  /\ pc' = "poll"
  /\ UNCHANGED <<purpose, left, batch, cancel, adapterVars, heard, backendVars, history>>

(* session.submit, then write_all of what it returned. *)
Submit ==
  /\ pc = "submit"
  /\ \E n \in 0..MaxResponses : WriteAll("response", n)
  /\ UNCHANGED <<batch, cancel, adapterVars, heard, backendVars, history>>

(* session.stop takes the offered packet back; its bytes are not written. *)
Stop ==
  /\ pc = "stop"
  /\ offeredTo' = IF offeredTo = attempts THEN 0 ELSE offeredTo
  /\ pc' = "close"
  /\ UNCHANGED <<purpose, left, batch, cancel, adapterVars, heard, attempts,
                 retained, enqueued, history>>

(* link.close: the connection is cancelled and everything the delegate kept
   for the attempt is forgotten; a callback that follows finds no attempt. *)
CloseLink ==
  /\ pc = "close"
  /\ pc' = "off" /\ cancel' = FALSE /\ batch' = NoPacket
  /\ boundary' = Close(boundary) /\ link' = "none"
  /\ native' = <<>> /\ completion' = "none"
  /\ UNCHANGED <<purpose, left, radio, reads, heard, backendVars, history>>

-----------------------------------------------------------------------------
(* The world around the pump. *)

(* run_connected cancels the pump when the operator forgets the RNode. *)
RequestCancel ==
  /\ pc # "off" /\ ~cancel
  /\ cancel' = TRUE
  /\ UNCHANGED <<pc, purpose, left, batch, adapterVars, heard, backendVars, history>>

(* The application sends: the backend retains one more packet. *)
Enqueue ==
  /\ enqueued < MaxPackets
  /\ enqueued' = enqueued + 1
  /\ retained' = Append(retained, enqueued + 1)
  /\ UNCHANGED <<pumpVars, adapterVars, heard, attempts, offeredTo, history>>

(* Mutation: the queue is not bounded. *)
PushErrorUnbounded(queue) == Append(queue, ReadError)

(* Force_send of an error into a full read queue displaces the oldest item. *)
PushError(queue) ==
  Append(IF Len(queue) = ReadCapacity THEN Tail(queue) ELSE queue, ReadError)

(* Mutation: the notification that finds the queue full is discarded and
   nothing is said of it. *)
NotifySilent ==
  /\ link = "up" /\ heard < MaxHeard
  /\ heard' = heard + 1
  /\ IF Len(reads) < ReadCapacity
       THEN reads' = Append(reads, heard + 1) /\ UNCHANGED dropped
       ELSE dropped' = TRUE /\ UNCHANGED reads
  /\ UNCHANGED <<pumpVars, boundary, link, radio, native, completion, backendVars,
                 progress, acknowledged, released, submitted>>

(* didUpdateValueForCharacteristic *)
Notify ==
  /\ link = "up" /\ heard < MaxHeard
  /\ heard' = heard + 1
  /\ IF Notification(boundary).is # "applied" THEN UNCHANGED <<reads, dropped>>
     ELSE IF Len(reads) < ReadCapacity
       THEN reads' = Append(reads, heard + 1) /\ UNCHANGED dropped
       ELSE reads' = PushError(reads) /\ dropped' = TRUE
  /\ UNCHANGED <<pumpVars, boundary, link, radio, native, completion, backendVars,
                 progress, acknowledged, released, submitted>>

(* The same callback with an error: try_send, lost when the queue is full. *)
NotifyError ==
  /\ link = "up" /\ Len(reads) < ReadCapacity
  /\ reads' = Append(reads, ReadError)
  /\ UNCHANGED <<pumpVars, boundary, link, radio, native, completion, heard,
                 backendVars, history>>

(* didWriteValueForCharacteristic for the oldest write.  The callback names no
   write: the delegate takes whichever write is pending. *)
WriteCallback(ok) ==
  /\ link = "up" /\ native # <<>>
  /\ native' = Tail(native)
  /\ LET answer == WriteCompleted(boundary, boundary.pending, ok)
         first  == Head(native)
         next   == ok /\ first.packet # NoPacket /\ first.packet = batch
                      /\ first.chunk = progress + 1
     IN  /\ IF boundary.pending = NoToken
              THEN UNCHANGED <<boundary, completion>>
              ELSE /\ boundary' = answer.b
                   /\ completion' = IF pc # "await" THEN completion
                                    ELSE IF answer.is = "applied" THEN "ok" ELSE "error"
         /\ progress' = IF next THEN first.chunk ELSE progress
         /\ acknowledged' = IF next /\ first.chunk = Chunks
                              THEN acknowledged \cup {first.packet} ELSE acknowledged
  /\ UNCHANGED <<pumpVars, link, radio, reads, heard, backendVars, released,
                 submitted, dropped>>

(* didDisconnectPeripheral: the delegate's attempt is taken, the reader and
   the pending writer are told. *)
Disconnect ==
  /\ link \in {"up", "lost"}
  /\ link' = "none"
  /\ native' = <<>>
  /\ boundary' = Close(boundary)
  /\ reads' = PushError(reads)
  /\ dropped' = (dropped \/ Len(reads) = ReadCapacity)
  /\ completion' = IF boundary.pending # NoToken /\ pc = "await" THEN "error" ELSE completion
  /\ UNCHANGED <<pumpVars, radio, heard, backendVars, progress, acknowledged,
                 released, submitted>>

(* Bluetooth is switched off: the peripheral is invalid, and CoreBluetooth
   may or may not report the disconnect later. *)
RadioOff ==
  /\ radio
  /\ radio' = FALSE
  /\ link' = IF link = "up" THEN "lost" ELSE link
  /\ UNCHANGED <<pumpVars, boundary, native, completion, reads, heard, backendVars, history>>

RadioOn ==
  /\ ~radio
  /\ radio' = TRUE
  /\ UNCHANGED <<pumpVars, boundary, link, native, completion, reads, heard,
                 backendVars, history>>

-----------------------------------------------------------------------------
PumpStep ==
  \/ Start \/ StartFails \/ IssueWrite \/ WriteRefused \/ WriteOk \/ WriteErr
  \/ CancelWrite \/ Poll \/ FailBatch \/ Complete \/ BackendFails
  \/ CancelRead \/ Read \/ Timer \/ Submit \/ Stop \/ CloseLink

World ==
  \/ LinkReady \/ RequestCancel \/ Enqueue \/ Notify \/ NotifyError
  \/ WriteCallback(TRUE) \/ WriteCallback(FALSE) \/ Disconnect
  \/ RadioOff \/ RadioOn

Next == PumpStep \/ World

Spec == Init /\ [][Next]_vars

(* The executor runs the pump whenever it can move.  The select polls a
   message that is already there before a fresh 20 ms timer can fire, so a
   branch that is ready again and again is eventually taken. *)
PumpFairness == WF_vars(PumpStep) /\ SF_vars(CancelWrite) /\ SF_vars(CancelRead)
                /\ SF_vars(Read)

FairSpec == Spec /\ PumpFairness

-----------------------------------------------------------------------------
(* Every variable holds a value of its kind. *)
TypeOK ==
  /\ pc \in {"off", "begin", "write", "await", "poll", "complete", "fail",
             "read", "submit", "stop", "close"}
  /\ purpose \in Purposes /\ left \in Nat /\ batch \in Packets \cup {NoPacket}
  /\ cancel \in BOOLEAN
  /\ boundary \in Boundaries /\ link \in {"none", "up", "lost"} /\ radio \in BOOLEAN
  /\ native \in Seq(Labels)
  /\ completion \in {"none", "ok", "error"}
  /\ reads \in Seq(Nat) /\ Len(reads) <= ReadCapacity
  /\ heard \in Nat /\ attempts \in Nat /\ offeredTo \in Nat /\ enqueued \in Nat
  /\ retained \in Seq(Packets) /\ progress \in Nat
  /\ acknowledged \subseteq Packets /\ released \subseteq Packets
  /\ submitted \in Seq(Nat) /\ dropped \in BOOLEAN

(* ble_session.rs:96 "Outbound packets remain retained when their complete
   write batch does not receive terminal success evidence": the backend only
   lets the oldest packet go, and only after the RNode acknowledged every
   write of its batch, in order, on one attempt. *)
Delivery == INSTANCE RetainedDelivery
  WITH Packets <- Packets, retained <- retained, acknowledged <- acknowledged,
       released <- released
DeliversRetained == Delivery!Spec

(* A packet is offered to the attempt that is running, never to one that has
   ended: an offer left behind would keep poll from offering it ever again. *)
OfferNotStranded ==
  offeredTo # 0 => /\ offeredTo = attempts
                   /\ pc \notin {"off", "begin", "close"}
                   /\ retained # <<>>

(* CoreBluetooth's write callback names no write.  It is credited to the
   delegate's pending write, so that one must be the write it is about. *)
CallbackNamesPendingWrite ==
  /\ Len(native) <= 1
  /\ native # <<>> /\ boundary.pending # NoToken =>
       Head(native).token = boundary.pending

(* Notifications that wait to be submitted. *)
Waiting == {reads[i] : i \in DOMAIN reads} \ {ReadError}

(* While nothing was displaced from the read queue, the backend sees the
   notifications of the attempt in order, each once, with none missing: those
   submitted come first and the others wait in order.  A displaced one dooms the
   attempt: an error waits in the read queue until the pump reads it, or the
   pump is already ending. *)
GapIsNoticed ==
  /\ ~dropped => /\ \A i \in DOMAIN submitted : submitted[i] = i
                 /\ Waiting = Len(submitted) + 1 .. heard
                 /\ \A i, j \in DOMAIN reads :
                      i < j /\ reads[i] # ReadError /\ reads[j] # ReadError => reads[i] < reads[j]
  /\ dropped => \/ \E i \in DOMAIN reads : reads[i] = ReadError
                \/ pc \in {"stop", "close", "off"}

(* The pump ends when it is cancelled, even when CoreBluetooth never calls back
   for the write it waits on (the test
   failed_handoff_replays_on_reconnect_and_cancellation_closes_attempt), and when
   a disconnect is reported, whatever it waits for and however full its read
   queue is. *)
PumpStops ==
  /\ cancel ~> (pc = "off")
  /\ (pc # "off" /\ link = "none") ~> (pc = "off")

(* A peripheral that stays connected answers every write. *)
PeripheralAnswers == WF_vars(WriteCallback(TRUE))

(* If from some time on one attempt stays connected and runs, and its writes
   are answered, everything the backend retained is eventually released. *)
StableAttemptDelivers ==
  /\ PeripheralAnswers
  /\ <>[](pc # "off" /\ link = "up" /\ enqueued = MaxPackets)
  => <>[](retained = <<>>)

=============================================================================
