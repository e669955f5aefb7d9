--------------------------- MODULE RNodePumpProofs ---------------------------
(* Proofs about RNodePump, for every value of its constants. *)
EXTENDS RNodePump, QueueLemmas

(* While write_all runs there is a write to do, and no more than the batch has. *)
WritesLeft ==
  pc \in {"write", "await"} => /\ left >= 1
                               /\ purpose = "batch" => left <= Chunks

Inv == TypeOK /\ WritesLeft

(* The adapter owes the boundary at most one callback, the pending write's. *)
OneWrite ==
  \/ native = <<>> /\ boundary.pending = NoToken
  \/ /\ Len(native) = 1 /\ boundary.pending # NoToken /\ boundary.phase = "Ready"
     /\ native[1].token = boundary.pending

(* Nobody but the write that is awaited, or one whose pump is ending, is owed. *)
Owed ==
  /\ pc \notin {"await", "stop", "close"} => native = <<>> /\ completion = "none"
  /\ completion # "none" => native = <<>>

(* The packet in hand is the oldest retained one. *)
InHand == batch # NoPacket => retained # <<>> /\ Head(retained) = batch

(* How far the batch in hand has got, write by write. *)
Counted ==
  /\ progress <= Chunks
  /\ batch # NoPacket /\ progress = Chunks => batch \in acknowledged
  /\ pc \in {"write", "await"} /\ purpose = "batch" =>
       /\ batch # NoPacket
       /\ progress >= Chunks - left
       /\ native # <<>> => native[1].packet = batch /\ native[1].chunk = Chunks - left + 1
       /\ completion = "ok" => progress >= Chunks - left + 1
  /\ pc = "complete" => batch # NoPacket /\ progress = Chunks
  /\ native # <<>> /\ native[1].packet = batch /\ batch # NoPacket => native[1].chunk <= Chunks

(* Packets are numbered in the order they were enqueued. *)
Numbered ==
  /\ \A i \in DOMAIN retained : retained[i] <= enqueued
  /\ \A p \in acknowledged \cup released : p <= enqueued

DeliveryInv == Inv /\ OneWrite /\ Owed /\ InHand /\ Counted /\ Numbered

-----------------------------------------------------------------------------
(* The boundary's operations map boundaries to boundaries. *)
LEMMA BoundaryOperations ==
  ASSUME NEW b \in Boundaries, NEW token \in Nat, NEW ok \in BOOLEAN
  PROVE  /\ Close(b) \in Boundaries
         /\ BeginWrite(b) \in Boundaries
         /\ WriteCompleted(b, token, ok).b \in Boundaries
  <1>. USE DEF Boundaries, Phases, NoToken
  <1>1. Close(b) \in Boundaries
    BY DEF Close
  <1>2. BeginWrite(b) \in Boundaries
    <2>1. b.nextWrite \in Nat \ {0} /\ b.nextWrite + 1 \in Nat \ {0}
      OBVIOUS
    <2>. QED BY <2>1 DEF BeginWrite
  <1>3. [b EXCEPT !.pending = NoToken] \in Boundaries
    OBVIOUS
  <1>4. WriteCompleted(b, token, ok).b \in Boundaries
    BY <1>3 DEF WriteCompleted, Applied, Refused
  <1>. QED BY <1>1, <1>2, <1>4

LEMMA NewBoundaries ==
  /\ NewBoundary \in Boundaries
  /\ [NewBoundary EXCEPT !.phase = "Ready", !.limit = TRUE] \in Boundaries
  <1>1. NewBoundary \in Boundaries
    BY DEF Boundaries, Phases, NewBoundary, NoToken
  <1>2. [NewBoundary EXCEPT !.phase = "Ready", !.limit = TRUE] \in Boundaries
    BY <1>1 DEF Boundaries, Phases
  <1>. QED BY <1>1, <1>2

(* A displaced item makes room: the read queue stays within its capacity. *)
LEMMA PushErrorFits ==
  ASSUME NEW queue \in Seq(Nat), Len(queue) <= ReadCapacity
  PROVE  PushError(queue) \in Seq(Nat) /\ Len(PushError(queue)) <= ReadCapacity
  <1>. USE PumpAssumption DEF ReadError
  <1>1. CASE Len(queue) = ReadCapacity
    <2>1. queue # <<>> BY <1>1
    <2>2. Tail(queue) \in Seq(Nat) /\ Len(Tail(queue)) = Len(queue) - 1
      BY <2>1, QueueOperations
    <2>. QED BY <1>1, <2>2, QueueOperations DEF PushError
  <1>2. CASE Len(queue) # ReadCapacity
    BY <1>2, QueueOperations DEF PushError
  <1>. QED BY <1>1, <1>2

(* The pump starts in order. *)
LEMMA InvHolds ==
  Init => Inv
  <1>. SUFFICES ASSUME Init PROVE Inv
    OBVIOUS
  <1>1. Close(NewBoundary) \in Boundaries
    BY NewBoundaries, BoundaryOperations
  <1>2. /\ native \in Seq(Labels)
        /\ reads \in Seq(Nat) /\ Len(reads) <= ReadCapacity
        /\ retained \in Seq(Packets) /\ submitted \in Seq(Nat)
    BY EmptyQueue, PumpAssumption DEF Init
  <1>3. boundary \in Boundaries
    BY <1>1 DEF Init
  <1>. QED
    BY <1>2, <1>3, PumpAssumption DEF Init, Inv, TypeOK, WritesLeft, NoPacket, Purposes, Packets

(* Every step of the pump and of its surroundings keeps the types. *)
LEMMA InvIsKept ==
  Inv /\ [Next]_vars => Inv'
  <1>. SUFFICES ASSUME Inv, [Next]_vars PROVE Inv'
    OBVIOUS
  <1>. USE PumpAssumption DEF Inv, TypeOK, WritesLeft, Purposes, NoPacket,
           pumpVars, adapterVars, backendVars, history, vars
  <1>1. CASE Start
    BY <1>1 DEF Start, WriteAll, AfterWrites
  <1>2. CASE StartFails
    BY <1>2 DEF StartFails
  <1>3. CASE IssueWrite
    <2>1. BeginWrite(boundary) \in Boundaries
      BY BoundaryOperations
    <2>2. NextWrite \in Labels
      BY <1>3 DEF IssueWrite, NextWrite, Labels, Boundaries, NoPacket, Packets
    <2>3. Append(native, NextWrite) \in Seq(Labels)
      BY <2>2, QueueOperations
    <2>. QED BY <1>3, <2>1, <2>3 DEF IssueWrite
  <1>4. CASE WriteRefused
    <2>1. BeginWrite(boundary) \in Boundaries
      BY BoundaryOperations
    <2>2. WriteCompleted(BeginWrite(boundary), boundary.nextWrite, FALSE).b \in Boundaries
      BY <2>1, BoundaryOperations DEF Boundaries
    <2>. QED BY <1>4, <2>2 DEF WriteRefused, WritesFailed
  <1>5. CASE WriteOk
    BY <1>5 DEF WriteOk, WriteAll, AfterWrites
  <1>6. CASE WriteErr
    BY <1>6 DEF WriteErr, WritesFailed
  <1>7. CASE CancelWrite
    BY <1>7 DEF CancelWrite
  <1>8. CASE Poll
    <2>1. CASE retained # <<>> /\ offeredTo = 0
      <3>1. Head(retained) \in Packets
        BY <2>1, QueueOperations
      <3>. QED BY <1>8, <2>1, <3>1 DEF Poll, WriteAll, AfterWrites
    <2>2. CASE ~(retained # <<>> /\ offeredTo = 0)
      BY <1>8, <2>2 DEF Poll
    <2>. QED BY <2>1, <2>2
  <1>9. CASE FailBatch
    BY <1>9 DEF FailBatch
  <1>10. CASE Complete
    <2>1. CASE offeredTo = attempts /\ retained # <<>> /\ Head(retained) = batch
      <3>1. Tail(retained) \in Seq(Packets) /\ batch \in Packets
        BY <2>1, QueueOperations
      <3>2. released' = released \cup {batch} /\ retained' = Tail(retained)
            /\ offeredTo' = 0 /\ pc' = "read" /\ batch' = NoPacket
        BY <1>10, <2>1 DEF Complete
      <3>3. released' \subseteq Packets /\ retained' \in Seq(Packets)
        BY <3>1, <3>2
      <3>. QED BY <1>10, <3>2, <3>3 DEF Complete
    <2>2. CASE ~(offeredTo = attempts /\ retained # <<>> /\ Head(retained) = batch)
      BY <1>10, <2>2 DEF Complete
    <2>. QED BY <2>1, <2>2
  <1>11. CASE BackendFails
    BY <1>11 DEF BackendFails
  <1>12. CASE CancelRead
    BY <1>12 DEF CancelRead
  <1>13. CASE Read
    <2>1. Tail(reads) \in Seq(Nat) /\ Len(Tail(reads)) <= ReadCapacity /\ Head(reads) \in Nat
      BY <1>13, QueueOperations DEF Read
    <2>2. Append(submitted, Head(reads)) \in Seq(Nat)
      BY <2>1, QueueOperations
    <2>. QED BY <1>13, <2>1, <2>2 DEF Read
  <1>14. CASE Timer
    BY <1>14 DEF Timer
  <1>15. CASE Submit
    BY <1>15 DEF Submit, WriteAll, AfterWrites
  <1>16. CASE Stop
    BY <1>16 DEF Stop
  <1>17. CASE CloseLink
    <2>1. Close(boundary) \in Boundaries
      BY BoundaryOperations
    <2>. QED BY <1>17, <2>1, EmptyQueue DEF CloseLink
  <1>18. CASE LinkReady
    <2>1. boundary' \in Boundaries
      BY <1>18, NewBoundaries DEF LinkReady
    <2>2. /\ native' \in Seq(Labels)
          /\ reads' \in Seq(Nat) /\ Len(reads') <= ReadCapacity /\ submitted' \in Seq(Nat)
      BY <1>18, EmptyQueue DEF LinkReady
    <2>. QED BY <1>18, <2>1, <2>2 DEF LinkReady
  <1>19. CASE RequestCancel
    BY <1>19 DEF RequestCancel
  <1>20. CASE Enqueue
    <2>1. Append(retained, enqueued + 1) \in Seq(Packets)
      BY <1>20, QueueOperations DEF Enqueue, Packets
    <2>. QED BY <1>20, <2>1 DEF Enqueue
  <1>21. CASE Notify
    <2>1. CASE Notification(boundary).is # "applied"
      BY <1>21, <2>1 DEF Notify
    <2>2. CASE Notification(boundary).is = "applied" /\ Len(reads) < ReadCapacity
      <3>1. Append(reads, heard + 1) \in Seq(Nat) /\ Len(Append(reads, heard + 1)) <= ReadCapacity
        BY <2>2, QueueOperations
      <3>2. reads' = Append(reads, heard + 1) /\ dropped' = dropped /\ heard' \in Nat
        BY <1>21, <2>2 DEF Notify
      <3>. QED BY <1>21, <3>1, <3>2 DEF Notify
    <2>3. CASE Notification(boundary).is = "applied" /\ ~(Len(reads) < ReadCapacity)
      BY <1>21, <2>3, PushErrorFits DEF Notify
    <2>. QED BY <2>1, <2>2, <2>3
  <1>22. CASE NotifyError
    <2>1. Append(reads, ReadError) \in Seq(Nat) /\ Len(Append(reads, ReadError)) <= ReadCapacity
      BY <1>22, QueueOperations DEF NotifyError, ReadError
    <2>. QED BY <1>22, <2>1 DEF NotifyError
  <1>23. ASSUME NEW ok \in BOOLEAN, WriteCallback(ok) PROVE Inv'
    <2>. DEFINE answer == WriteCompleted(boundary, boundary.pending, ok)
                first  == Head(native)
    <2>1. Tail(native) \in Seq(Labels)
          /\ first \in Labels
      <3>1. native # <<>> BY <1>23 DEF WriteCallback
      <3>. QED BY <3>1, QueueOperations
    <2>2. answer.b \in Boundaries
      BY BoundaryOperations DEF Boundaries
    <2>3. boundary' \in Boundaries /\ completion' \in {"none", "ok", "error"}
      BY <1>23, <2>2 DEF WriteCallback
    <2>4. progress' \in Nat /\ acknowledged' \subseteq Packets
      BY <1>23, <2>1 DEF WriteCallback, Labels
    <2>. HIDE DEF answer, first
    <2>. QED BY <1>23, <2>1, <2>3, <2>4 DEF WriteCallback
  <1>24. CASE Disconnect
    <2>1. Close(boundary) \in Boundaries
      BY BoundaryOperations
    <2>. QED BY <1>24, <2>1, PushErrorFits DEF Disconnect
  <1>25. CASE RadioOff
    BY <1>25 DEF RadioOff
  <1>26. CASE RadioOn
    BY <1>26 DEF RadioOn
  <1>27. CASE UNCHANGED vars
    BY <1>27
  <1>. QED
    BY <1>1, <1>2, <1>3, <1>4, <1>5, <1>6, <1>7, <1>8, <1>9, <1>10, <1>11, <1>12, <1>13, <1>14, <1>15, <1>16, <1>17, <1>18, <1>19, <1>20, <1>21, <1>22, <1>23, <1>24, <1>25, <1>26, <1>27 DEF Next, PumpStep, World

(* Every variable of the pump keeps its type in every behaviour, the bound of
   the read queue included (BYTE_CAPACITY): TypeOK of the run RNodePump. *)
THEOREM TypeCorrect ==
  Spec => []TypeOK
  <1>1. Inv => TypeOK
    BY DEF Inv
  <1>. QED BY <1>1, InvHolds, InvIsKept, PTL DEF Spec

-----------------------------------------------------------------------------
(* Every step keeps the offer where it belongs: with the running attempt. *)
LEMMA OfferIsKept ==
  Inv /\ OfferNotStranded /\ [Next]_vars => OfferNotStranded'
  <1>. SUFFICES ASSUME Inv, OfferNotStranded, [Next]_vars PROVE OfferNotStranded'
    OBVIOUS
  <1>. USE PumpAssumption DEF Inv, TypeOK, OfferNotStranded,
           pumpVars, adapterVars, backendVars, history, vars
  <1>1. CASE Start
    BY <1>1 DEF Start, WriteAll, AfterWrites
  <1>2. CASE StartFails
    BY <1>2 DEF StartFails
  <1>3. CASE IssueWrite
    BY <1>3 DEF IssueWrite
  <1>4. CASE WriteRefused
    BY <1>4 DEF WriteRefused, WritesFailed
  <1>5. CASE WriteOk
    BY <1>5 DEF WriteOk, WriteAll, AfterWrites
  <1>6. CASE WriteErr
    BY <1>6 DEF WriteErr, WritesFailed
  <1>7. CASE CancelWrite
    BY <1>7 DEF CancelWrite
  <1>8. CASE Poll
    BY <1>8 DEF Poll, WriteAll, AfterWrites
  <1>9. CASE FailBatch
    BY <1>9 DEF FailBatch
  <1>10. CASE Complete
    BY <1>10 DEF Complete
  <1>11. CASE BackendFails
    BY <1>11 DEF BackendFails
  <1>12. CASE CancelRead
    BY <1>12 DEF CancelRead
  <1>13. CASE Read
    BY <1>13 DEF Read
  <1>14. CASE Timer
    BY <1>14 DEF Timer
  <1>15. CASE Submit
    BY <1>15 DEF Submit, WriteAll, AfterWrites
  <1>16. CASE Stop
    BY <1>16 DEF Stop
  <1>17. CASE CloseLink
    BY <1>17 DEF CloseLink
  <1>18. CASE LinkReady
    BY <1>18 DEF LinkReady
  <1>19. CASE RequestCancel
    BY <1>19 DEF RequestCancel
  <1>20. CASE Enqueue
    <2>1. enqueued + 1 \in Packets
      BY <1>20 DEF Enqueue, Packets
    <2>2. retained' # <<>>
      BY <1>20, <2>1, QueueOperations DEF Enqueue
    <2>. QED BY <1>20, <2>2 DEF Enqueue
  <1>21. CASE Notify
    BY <1>21 DEF Notify
  <1>22. CASE NotifyError
    BY <1>22 DEF NotifyError
  <1>23. CASE Disconnect
    BY <1>23 DEF Disconnect
  <1>24. CASE RadioOff
    BY <1>24 DEF RadioOff
  <1>25. CASE RadioOn
    BY <1>25 DEF RadioOn
  <1>26. CASE \E ok \in BOOLEAN : WriteCallback(ok)
    BY <1>26 DEF WriteCallback
  <1>27. CASE UNCHANGED vars
    BY <1>27
  <1>. QED
    BY <1>1, <1>2, <1>3, <1>4, <1>5, <1>6, <1>7, <1>8, <1>9, <1>10, <1>11, <1>12, <1>13, <1>14, <1>15, <1>16, <1>17, <1>18, <1>19, <1>20, <1>21, <1>22, <1>23, <1>24, <1>25, <1>26, <1>27 DEF Next, PumpStep, World

(* A packet is never left offered to an attempt that has ended, so every later
   attempt gets it (session.stop and session.fail): OfferNotStranded of the run
   RNodePump. *)
THEOREM OffersAreNotStranded ==
  Spec => []OfferNotStranded
  <1>1. Init => OfferNotStranded
    BY DEF Init, OfferNotStranded
  <1>. QED BY <1>1, InvHolds, InvIsKept, OfferIsKept, PTL DEF Spec

-----------------------------------------------------------------------------
(* Notifications. *)

(* While the link is up its notifications are accepted. *)
UpIsReady == link = "up" => boundary.phase = "Ready"

SubmittedWasHeard == ~dropped => Len(submitted) <= heard

GapInv == Inv /\ UpIsReady /\ SubmittedWasHeard /\ GapIsNoticed

(* A step that touches neither the notifications nor the end of the pump. *)
LEMMA NotificationsUntouched ==
  ASSUME GapIsNoticed, UNCHANGED <<reads, submitted, heard, dropped>>,
         pc \in {"stop", "close", "off"} => pc' \in {"stop", "close", "off"}
  PROVE  GapIsNoticed'
  BY DEF GapIsNoticed, Waiting

(* The error that displaces the oldest item is in the queue. *)
LEMMA DisplacedIsNoticed ==
  ASSUME Inv, reads' = PushError(reads)
  PROVE  \E i \in DOMAIN reads' : reads'[i] = ReadError
  <1>. DEFINE rest == IF Len(reads) = ReadCapacity THEN Tail(reads) ELSE reads
  <1>1. rest \in Seq(Nat)
    BY PumpAssumption, QueueOperations DEF Inv, TypeOK, ReadError
  <1>2. reads' = Append(rest, ReadError)
    BY DEF PushError
  <1>. HIDE DEF rest
  <1>3. DOMAIN reads' = 1 .. Len(rest) + 1 /\ reads'[Len(rest) + 1] = ReadError /\ Len(rest) \in Nat
    BY <1>1, <1>2, AppendProperties DEF ReadError
  <1>. QED BY <1>3

(* An item that finds room: an error, or the notification that is next. *)
LEMMA RoomKeepsOrder ==
  ASSUME Inv, SubmittedWasHeard, GapIsNoticed, NEW item \in Nat, reads' = Append(reads, item),
         UNCHANGED <<submitted, dropped, pc>>,
         \/ item = ReadError /\ heard' = heard
         \/ item = heard + 1 /\ heard' = heard + 1
  PROVE  GapIsNoticed'
  <1>1. /\ reads \in Seq(Nat) /\ heard \in Nat /\ submitted \in Seq(Nat)
        /\ Len(submitted) \in Nat
    BY DEF Inv, TypeOK
  <1>2. /\ DOMAIN reads = 1 .. Len(reads) /\ Len(reads) \in Nat
        /\ DOMAIN reads' = 1 .. Len(reads) + 1 /\ reads'[Len(reads) + 1] = item
        /\ \A i \in DOMAIN reads : reads'[i] = reads[i] /\ reads[i] \in Nat
    BY <1>1, AppendProperties
  <1>3. CASE dropped
    <2>1. \/ \E i \in DOMAIN reads' : reads'[i] = ReadError
          \/ pc' \in {"stop", "close", "off"}
      BY <1>2, <1>3 DEF GapIsNoticed
    <2>. QED BY <1>3, <2>1 DEF GapIsNoticed
  <1>4. CASE ~dropped
    <2>1. /\ \A i \in DOMAIN submitted : submitted[i] = i
          /\ Waiting = Len(submitted) + 1 .. heard
          /\ \A i, j \in DOMAIN reads :
               i < j /\ reads[i] # ReadError /\ reads[j] # ReadError => reads[i] < reads[j]
      BY <1>4 DEF GapIsNoticed
    <2>2. Waiting' = (Waiting \cup {item}) \ {ReadError}
      BY <1>2 DEF Waiting
    <2>3. Len(submitted) <= heard
      BY <1>4 DEF SubmittedWasHeard
    <2>4. Waiting' = Len(submitted) + 1 .. heard'
      <3>1. CASE item = ReadError
        BY <1>1, <2>1, <2>2, <2>3, <3>1 DEF ReadError
      <3>2. CASE item = heard + 1
        <4>1. Waiting' = (Len(submitted) + 1 .. heard) \cup {heard + 1}
          BY <1>1, <2>1, <2>2, <3>2 DEF ReadError
        <4>2. heard' = heard + 1
          BY <1>1, <3>2 DEF ReadError
        <4>. QED BY <1>1, <2>3, <4>1, <4>2
      <3>. QED BY <3>1, <3>2
    <2>5. \A i \in DOMAIN reads : reads[i] # ReadError => reads[i] <= heard
      <3>1. \A i \in DOMAIN reads : reads[i] # ReadError => reads[i] \in Waiting
        BY DEF Waiting
      <3>. QED BY <1>1, <2>1, <3>1
    <2>6. item # ReadError => item = heard + 1
      OBVIOUS
    <2>7. \A i, j \in DOMAIN reads' :
            i < j /\ reads'[i] # ReadError /\ reads'[j] # ReadError => reads'[i] < reads'[j]
      <3>. SUFFICES ASSUME NEW i \in DOMAIN reads', NEW j \in DOMAIN reads',
                           i < j, reads'[i] # ReadError, reads'[j] # ReadError
                    PROVE  reads'[i] < reads'[j]
        OBVIOUS
      <3>1. i \in DOMAIN reads /\ reads'[i] = reads[i]
        BY <1>2
      <3>2. CASE j \in DOMAIN reads
        BY <1>2, <2>1, <3>1, <3>2
      <3>3. CASE j \notin DOMAIN reads
        <4>1. reads'[j] = item
          BY <1>2, <3>3
        <4>. QED BY <1>1, <1>2, <2>5, <2>6, <3>1, <4>1
      <3>. QED BY <3>2, <3>3
    <2>. QED BY <1>4, <2>1, <2>4, <2>7 DEF GapIsNoticed
  <1>. QED BY <1>3, <1>4

(* What the pump reads is the next notification, or an error that ends it. *)
LEMMA ReadKeepsOrder ==
  ASSUME Inv, SubmittedWasHeard, GapIsNoticed, Read
  PROVE  SubmittedWasHeard' /\ GapIsNoticed'
  <1>1. /\ reads \in Seq(Nat) /\ heard \in Nat /\ submitted \in Seq(Nat)
        /\ Len(submitted) \in Nat /\ reads # <<>> /\ reads' = Tail(reads)
        /\ UNCHANGED <<heard, dropped>>
        /\ \/ Head(reads) = ReadError /\ pc' = "stop" /\ submitted' = submitted
           \/ /\ Head(reads) # ReadError /\ pc' = "submit"
              /\ submitted' = Append(submitted, Head(reads))
        /\ pc = "read"
    BY DEF Inv, TypeOK, Read
  <1>2. /\ DOMAIN reads = 1 .. Len(reads) /\ Len(reads) \in Nat \ {0}
        /\ DOMAIN reads' = 1 .. Len(reads) - 1 /\ Head(reads) = reads[1]
        /\ \A i \in DOMAIN reads' : i + 1 \in DOMAIN reads /\ reads'[i] = reads[i + 1]
        /\ \A i \in DOMAIN reads : reads[i] \in Nat
    BY <1>1, QueueOperations, QueueItems
  <1>3. CASE dropped
    <2>1. PICK i \in DOMAIN reads : reads[i] = ReadError
      BY <1>1, <1>3 DEF GapIsNoticed
    <2>2. i = 1 => pc' = "stop"
      BY <1>1, <1>2, <2>1
    <2>3. i # 1 => i - 1 \in DOMAIN reads' /\ reads'[i - 1] = ReadError
      BY <1>2, <2>1
    <2>. QED BY <1>1, <1>3, <2>2, <2>3 DEF GapIsNoticed, SubmittedWasHeard
  <1>4. CASE ~dropped
    <2>1. /\ \A i \in DOMAIN submitted : submitted[i] = i
          /\ Waiting = Len(submitted) + 1 .. heard /\ Len(submitted) <= heard
          /\ \A i, j \in DOMAIN reads :
               i < j /\ reads[i] # ReadError /\ reads[j] # ReadError => reads[i] < reads[j]
      BY <1>4 DEF GapIsNoticed, SubmittedWasHeard
    <2>2. \A i, j \in DOMAIN reads' :
            i < j /\ reads'[i] # ReadError /\ reads'[j] # ReadError => reads'[i] < reads'[j]
      BY <1>2, <2>1
    <2>3. \A i \in DOMAIN reads : i = 1 \/ (i - 1 \in DOMAIN reads' /\ reads'[i - 1] = reads[i])
      BY <1>2
    <2>4. CASE Head(reads) = ReadError
      <3>1. Waiting' = Waiting
        BY <1>2, <2>3, <2>4 DEF Waiting
      <3>. QED BY <1>1, <1>4, <2>1, <2>2, <2>4, <3>1 DEF GapIsNoticed, SubmittedWasHeard
    <2>5. CASE Head(reads) # ReadError
      <3>. DEFINE next == Len(submitted) + 1
      <3>1. Head(reads) \in Waiting /\ \A n \in Waiting : Head(reads) <= n
        BY <1>2, <2>1, <2>5 DEF Waiting
      <3>2. Head(reads) = next /\ next <= heard
        <4>1. Head(reads) >= next /\ Head(reads) <= heard
          BY <1>1, <2>1, <3>1
        <4>2. next \in Waiting
          BY <1>1, <2>1, <4>1, <1>2
        <4>. QED BY <1>1, <1>2, <3>1, <4>1, <4>2
      <3>3. Waiting' = Waiting \ {next}
        <4>1. \A i \in DOMAIN reads' : reads'[i] # ReadError => reads'[i] \in Waiting \ {next}
          BY <1>2, <2>1, <2>5, <3>2 DEF Waiting
        <4>2. \A n \in Waiting \ {next} : n \in Waiting'
          BY <1>2, <2>3, <3>2 DEF Waiting
        <4>. QED BY <4>1, <4>2 DEF Waiting
      <3>4. /\ Len(submitted') = next /\ DOMAIN submitted' = 1 .. next
            /\ \A i \in DOMAIN submitted' : submitted'[i] = i
        <4>1. Head(reads) \in Nat
          BY <1>2
        <4>2. submitted' = Append(submitted, Head(reads))
          BY <1>1, <2>5
        <4>3. /\ Len(submitted') = next
              /\ submitted'[next] = Head(reads)
              /\ \A i \in 1 .. Len(submitted) : submitted'[i] = submitted[i]
          BY <1>1, <4>1, <4>2, AppendProperties
        <4>4. DOMAIN submitted' = 1 .. next /\ DOMAIN submitted = 1 .. Len(submitted)
          BY <1>1, <4>1, <4>2, AppendProperties
        <4>5. \A i \in DOMAIN submitted : submitted'[i] = i
          BY <2>1, <4>3, <4>4
        <4>6. \A i \in 1 .. next : i \in DOMAIN submitted \/ i = next
          BY <1>1, <4>4
        <4>7. submitted'[next] = next
          BY <3>2, <4>3
        <4>. HIDE DEF next
        <4>. QED BY <4>3, <4>4, <4>5, <4>6, <4>7
      <3>5. Waiting' = next + 1 .. heard
        BY <1>1, <2>1, <3>2, <3>3
      <3>. QED BY <1>1, <1>4, <2>2, <3>2, <3>4, <3>5 DEF GapIsNoticed, SubmittedWasHeard
    <2>. QED BY <2>4, <2>5
  <1>. QED BY <1>3, <1>4

LEMMA GapInvHolds == Init => GapInv
  <1>. SUFFICES ASSUME Init PROVE GapInv
    OBVIOUS
  <1>1. reads = <<>> /\ submitted = <<>> /\ heard = 0 /\ ~dropped /\ link = "none"
    BY DEF Init
  <1>2. Waiting = {} /\ Len(submitted) = 0 /\ DOMAIN submitted = {} /\ DOMAIN reads = {}
    BY <1>1, EmptyQueue DEF Waiting
  <1>. QED BY <1>1, <1>2, InvHolds DEF GapInv, UpIsReady, SubmittedWasHeard, GapIsNoticed

(* The boundary is Ready from the moment the attempt is until it is closed. *)
LEMMA UpIsReadyIsKept == Inv /\ UpIsReady /\ [Next]_vars => UpIsReady'
  <1>. SUFFICES ASSUME Inv, UpIsReady, [Next]_vars PROVE UpIsReady'
    OBVIOUS
  <1>. USE DEF UpIsReady, pumpVars, adapterVars, backendVars, history, vars
  <1>0. boundary \in Boundaries
    BY DEF Inv, TypeOK
  <1>1. CASE UNCHANGED <<boundary, link>>
    BY <1>1
  <1>2. CASE IssueWrite
    BY <1>0, <1>2 DEF IssueWrite, BeginWrite, Boundaries
  <1>3. CASE WriteRefused
    BY <1>0, <1>3 DEF WriteRefused, WriteCompleted, BeginWrite, Applied, Refused, Boundaries
  <1>4. CASE CloseLink \/ Disconnect
    BY <1>4 DEF CloseLink, Disconnect
  <1>5. CASE LinkReady
    BY <1>5, NewBoundaries DEF LinkReady, Boundaries, NewBoundary
  <1>6. ASSUME NEW ok \in BOOLEAN, WriteCallback(ok) PROVE UpIsReady'
    <2>1. boundary' = boundary \/ boundary' = WriteCompleted(boundary, boundary.pending, ok).b
      BY <1>6 DEF WriteCallback
    <2>2. boundary'.phase = boundary.phase /\ link' = link
      BY <1>0, <1>6, <2>1 DEF WriteCallback, WriteCompleted, Applied, Refused, Boundaries
    <2>. QED BY <2>2
  <1>7. CASE RadioOff
    BY <1>7 DEF RadioOff
  <1>8. ASSUME Next, ~IssueWrite, ~WriteRefused, ~CloseLink, ~Disconnect, ~LinkReady,
               ~\E ok \in BOOLEAN : WriteCallback(ok), ~RadioOff
        PROVE  UNCHANGED <<boundary, link>>
    BY <1>8
    DEF Next, PumpStep, World, Start, StartFails, WriteOk, WriteErr, CancelWrite, Poll, FailBatch,
        Complete, BackendFails, CancelRead, Read, Timer, Submit, Stop, RequestCancel, Enqueue,
        Notify, NotifyError, RadioOn
  <1>. QED BY <1>1, <1>2, <1>3, <1>4, <1>5, <1>6, <1>7, <1>8

LEMMA GapInvIsKept == GapInv /\ [Next]_vars => GapInv'
  <1>. SUFFICES ASSUME GapInv, [Next]_vars PROVE GapInv'
    OBVIOUS
  <1>. USE DEF pumpVars, adapterVars, backendVars, history, vars
  <1>1. Inv /\ UpIsReady /\ SubmittedWasHeard /\ GapIsNoticed /\ Inv' /\ UpIsReady'
    BY InvIsKept, UpIsReadyIsKept DEF GapInv
  <1>. SUFFICES SubmittedWasHeard' /\ GapIsNoticed'
    BY <1>1 DEF GapInv
  <1>2. CASE LinkReady
    <2>1. reads' = <<>> /\ submitted' = <<>> /\ heard' = 0 /\ ~dropped'
      BY <1>2 DEF LinkReady
    <2>2. Waiting' = {} /\ Len(submitted') = 0 /\ DOMAIN submitted' = {} /\ DOMAIN reads' = {}
      BY <2>1, EmptyQueue DEF Waiting
    <2>. QED BY <2>1, <2>2 DEF SubmittedWasHeard, GapIsNoticed
  <1>3. CASE Read
    BY <1>1, <1>3, ReadKeepsOrder
  <1>4. CASE Notify
    <2>1. Notification(boundary).is = "applied"
      BY <1>1, <1>4 DEF Notify, Notification, Applied, UpIsReady
    <2>2. /\ heard \in Nat /\ heard' = heard + 1 /\ UNCHANGED <<submitted, pc>>
          /\ \/ reads' = Append(reads, heard + 1) /\ UNCHANGED dropped
             \/ reads' = PushError(reads) /\ dropped'
      BY <1>1, <1>4, <2>1 DEF Notify, Inv, TypeOK
    <2>3. CASE reads' = Append(reads, heard + 1) /\ UNCHANGED dropped
      <3>1. GapIsNoticed'
        BY <1>1, <2>2, <2>3, RoomKeepsOrder
      <3>2. Len(submitted) \in Nat
        BY <1>1 DEF Inv, TypeOK
      <3>. QED BY <1>1, <2>2, <2>3, <3>1, <3>2 DEF SubmittedWasHeard
    <2>4. CASE reads' = PushError(reads) /\ dropped'
      BY <1>1, <2>4, DisplacedIsNoticed DEF SubmittedWasHeard, GapIsNoticed
    <2>. QED BY <2>2, <2>3, <2>4
  <1>5. CASE NotifyError
    <2>1. reads' = Append(reads, ReadError) /\ UNCHANGED <<submitted, heard, dropped, pc>>
      BY <1>5 DEF NotifyError
    <2>2. GapIsNoticed'
      BY <1>1, <2>1, RoomKeepsOrder DEF ReadError
    <2>. QED BY <1>1, <2>1, <2>2 DEF SubmittedWasHeard
  <1>6. CASE Disconnect
    <2>1. /\ reads' = PushError(reads) /\ UNCHANGED <<submitted, heard, pc>>
          /\ dropped' = (dropped \/ Len(reads) = ReadCapacity)
      BY <1>6 DEF Disconnect
    <2>2. CASE dropped'
      BY <1>1, <2>1, <2>2, DisplacedIsNoticed DEF SubmittedWasHeard, GapIsNoticed
    <2>3. CASE ~dropped'
      <3>1. ~dropped /\ dropped' = dropped /\ reads' = Append(reads, ReadError)
        BY <1>1, <2>1, <2>3 DEF PushError, Inv, TypeOK
      <3>2. GapIsNoticed'
        BY <1>1, <2>1, <3>1, RoomKeepsOrder DEF ReadError
      <3>. QED BY <1>1, <2>1, <3>1, <3>2 DEF SubmittedWasHeard
    <2>. QED BY <2>2, <2>3
  <1>7. CASE UNCHANGED vars
    BY <1>1, <1>7, NotificationsUntouched DEF SubmittedWasHeard
  <1>8. ASSUME Next, ~LinkReady, ~Read, ~Notify, ~NotifyError, ~Disconnect
        PROVE  /\ UNCHANGED <<reads, submitted, heard, dropped>>
               /\ pc \in {"stop", "close", "off"} => pc' \in {"stop", "close", "off"}
    BY <1>8
    DEF Next, PumpStep, World, Start, StartFails, IssueWrite, WriteRefused, WriteOk, WriteErr,
        CancelWrite, Poll, FailBatch, Complete, BackendFails, CancelRead, Timer, Submit, Stop,
        CloseLink, RequestCancel, Enqueue, WriteCallback, RadioOff, RadioOn
  <1>. QED
    BY <1>1, <1>2, <1>3, <1>4, <1>5, <1>6, <1>7, <1>8, NotificationsUntouched DEF SubmittedWasHeard

(* The backend sees the notifications of an attempt in order, each once and none
   missing, or the attempt ends for the error that displaced one (force_send in
   didUpdateValueForCharacteristic): GapIsNoticed of the run RNodePump. *)
THEOREM GapsAreNoticed == Spec => []GapIsNoticed
  <1>1. GapInv => GapIsNoticed
    BY DEF GapInv
  <1>. QED BY <1>1, GapInvHolds, GapInvIsKept, PTL DEF Spec

-----------------------------------------------------------------------------
(* A queue of one item, and the queue it leaves. *)
LEMMA OneItem ==
  ASSUME NEW S, NEW item \in S, NEW queue \in Seq(S), Len(queue) = 1
  PROVE  /\ Append(<<>>, item) # <<>> /\ Append(<<>>, item)[1] = item
         /\ Len(Append(<<>>, item)) = 1
         /\ Tail(queue) = <<>> /\ Head(queue) = queue[1] /\ queue[1] \in S
  <1>1. Append(<<>>, item) # <<>> /\ Append(<<>>, item)[1] = item /\ Len(Append(<<>>, item)) = 1
    <2>1. <<>> \in Seq(S) /\ Len(<<>>) = 0
      BY EmptySeq
    <2>. HIDE <2>1
    <2>. QED BY <2>1, AppendProperties
  <1>2. queue # <<>> /\ Len(Tail(queue)) = 0 /\ Tail(queue) \in Seq(S)
    BY HeadTailProperties
  <1>3. Tail(queue) = <<>>
    BY <1>2, EmptySeq
  <1>4. Head(queue) = queue[1] /\ queue[1] \in S
    BY <1>2, ElementOfSeq
  <1>. QED BY <1>1, <1>3, <1>4

(* The numbers in a queue after its operations. *)
LEMMA BoundedItems ==
  ASSUME NEW queue \in Seq(Nat), NEW item \in Nat, NEW bound \in Nat,
         \A i \in DOMAIN queue : queue[i] <= bound
  PROVE  /\ item <= bound => \A i \in DOMAIN Append(queue, item) : Append(queue, item)[i] <= bound
         /\ queue # <<>> => /\ Head(queue) <= bound
                            /\ \A i \in DOMAIN Tail(queue) : Tail(queue)[i] <= bound
  <1>1. ASSUME item <= bound, NEW i \in DOMAIN Append(queue, item)
        PROVE  Append(queue, item)[i] <= bound
    <2>1. i \in 1..Len(queue) + 1
      BY <1>1, AppendProperties
    <2>2. CASE i = Len(queue) + 1
      BY <1>1, <2>2, AppendProperties
    <2>3. CASE i \in 1..Len(queue)
      BY <2>3, AppendProperties
    <2>. QED BY <2>1, <2>2, <2>3
  <1>2. ASSUME queue # <<>>
        PROVE  Head(queue) <= bound
    BY <1>2, HeadTailProperties
  <1>3. ASSUME queue # <<>>, NEW i \in DOMAIN Tail(queue)
        PROVE  Tail(queue)[i] <= bound
    <2>1. i \in 1..Len(queue) - 1 /\ Tail(queue)[i] = queue[i + 1]
      BY <1>3, HeadTailProperties
    <2>. QED BY <2>1
  <1>. QED BY <1>1, <1>2, <1>3

LEMMA DeliveryInvHolds ==
  Init => DeliveryInv
  <1>. SUFFICES ASSUME Init PROVE DeliveryInv
    OBVIOUS
  <1>1. boundary.pending = NoToken
    BY DEF Init, Close, NewBoundary, NoToken
  <1>. QED
    BY <1>1, InvHolds, PumpAssumption
    DEF Init, DeliveryInv, OneWrite, Owed, InHand, Counted, Numbered, NoPacket

(* The numbers of packets. *)
LEMMA PacketNumbers ==
  ASSUME TypeOK
  PROVE  /\ retained \in Seq(Nat)
         /\ \A p \in Packets : p \in Nat /\ p # 0
  <1>1. Packets \subseteq Nat /\ retained \in Seq(Packets)
    BY PumpAssumption DEF TypeOK, Packets
  <1>2. retained \in Seq(Nat)
    BY <1>1, SeqMonotonic
  <1>3. \A p \in Packets : p \in Nat /\ p # 0
    BY PumpAssumption DEF Packets
  <1>. QED BY <1>2, <1>3

LEMMA PollKeepsDelivery ==
  ASSUME DeliveryInv, Poll
  PROVE  OneWrite' /\ Owed' /\ InHand' /\ Counted' /\ Numbered'
  <1>1. UNCHANGED <<boundary, native, completion, retained, enqueued, acknowledged, released>>
        /\ pc = "poll"
    BY DEF Poll, adapterVars
  <1>2. native = <<>> /\ OneWrite' /\ Owed' /\ Numbered'
    BY <1>1 DEF DeliveryInv, OneWrite, Owed, Numbered
  <1>3. CASE retained # <<>> /\ offeredTo = 0
    <2>1. batch' = Head(retained) /\ progress' = 0 /\ left' = Chunks /\ pc' = "write"
      BY <1>3, PumpAssumption DEF Poll, WriteAll
    <2>2. Head(retained) # NoPacket
      <3>1. retained \in Seq(Packets)
        BY DEF DeliveryInv, Inv, TypeOK
      <3>2. Head(retained) \in Packets
        BY <1>3, <3>1, HeadTailProperties
      <3>. QED BY <3>2, PumpAssumption DEF Packets, NoPacket
    <2>3. InHand'
      BY <1>1, <1>3, <2>1 DEF InHand
    <2>4. Counted'
      <3>1. native' = <<>> /\ progress' <= Chunks /\ progress' # Chunks /\ batch' # NoPacket
        BY <1>1, <1>2, <2>1, <2>2, PumpAssumption
      <3>2. progress' >= Chunks - left' /\ completion' # "ok"
        <4>1. completion = "none"
          BY <1>1 DEF DeliveryInv, Owed
        <4>. QED BY <1>1, <2>1, <4>1, PumpAssumption
      <3>. QED BY <2>1, <3>1, <3>2 DEF Counted
    <2>. QED BY <1>2, <2>3, <2>4
  <1>4. CASE ~(retained # <<>> /\ offeredTo = 0)
    <2>1. UNCHANGED <<batch, progress, purpose, left>> /\ pc' = "read"
      BY <1>4 DEF Poll
    <2>. QED BY <1>1, <1>2, <2>1 DEF DeliveryInv, InHand, Counted
  <1>. QED BY <1>3, <1>4

LEMMA EnqueueKeepsDelivery ==
  ASSUME DeliveryInv, Enqueue
  PROVE  OneWrite' /\ Owed' /\ InHand' /\ Counted' /\ Numbered'
  <1>. DEFINE now == enqueued + 1
  <1>1. retained' = Append(retained, now) /\ enqueued' = now /\ now \in Nat /\ enqueued \in Nat
    BY DEF Enqueue, DeliveryInv, Inv, TypeOK
  <1>2. UNCHANGED <<pc, purpose, left, batch, boundary, native, completion, progress,
                    acknowledged, released>>
    BY DEF Enqueue, pumpVars, adapterVars, history
  <1>3. retained \in Seq(Nat) /\ \A p \in Packets : p \in Nat
    BY PacketNumbers DEF DeliveryInv, Inv
  <1>4. acknowledged \subseteq Packets /\ released \subseteq Packets
    BY DEF DeliveryInv, Inv, TypeOK
  <1>5. OneWrite' /\ Owed' /\ Counted'
    BY <1>2 DEF DeliveryInv, OneWrite, Owed, Counted
  <1>6. InHand'
    <2>. HIDE DEF now
    <2>1. retained # <<>> => retained' # <<>> /\ Head(retained') = Head(retained)
      BY <1>1, <1>3, QueueOperations, AppendProperties
    <2>. QED BY <1>2, <2>1 DEF DeliveryInv, InHand
  <1>7. Numbered'
    <2>1. \A i \in DOMAIN retained : retained[i] <= now
      BY <1>1, <1>3, ElementOfSeq DEF DeliveryInv, Numbered
    <2>2. \A p \in acknowledged \cup released : p <= now
      BY <1>1, <1>3, <1>4 DEF DeliveryInv, Numbered
    <2>3. now <= now
      BY <1>1
    <2>. HIDE DEF now
    <2>4. \A i \in DOMAIN Append(retained, now) : Append(retained, now)[i] <= now
      BY <1>1, <1>3, <2>1, <2>3, BoundedItems
    <2>. QED BY <1>1, <1>2, <2>2, <2>4 DEF Numbered
  <1>. QED BY <1>5, <1>6, <1>7

LEMMA CallbackKeepsDelivery ==
  ASSUME DeliveryInv, NEW ok \in BOOLEAN, WriteCallback(ok)
  PROVE  OneWrite' /\ Owed' /\ InHand' /\ Counted' /\ Numbered'
  <1>. DEFINE first == native[1]
              next  == ok /\ first.packet # NoPacket /\ first.packet = batch
                          /\ first.chunk = progress + 1
  <1>1. native \in Seq(Labels) /\ native # <<>>
    BY DEF DeliveryInv, Inv, TypeOK, WriteCallback
  <1>2. Len(native) = 1 /\ boundary.pending # NoToken /\ boundary.phase = "Ready"
    BY <1>1 DEF DeliveryInv, OneWrite
  <1>3. Tail(native) = <<>> /\ Head(native) = first /\ first \in Labels
    BY <1>1, <1>2, OneItem
  <1>4. native' = <<>>
    BY <1>3 DEF WriteCallback
  <1>5. boundary' = WriteCompleted(boundary, boundary.pending, ok).b
        /\ completion' = IF pc # "await" THEN completion
                         ELSE IF WriteCompleted(boundary, boundary.pending, ok).is = "applied"
                           THEN "ok" ELSE "error"
    BY <1>2 DEF WriteCallback
  <1>6. UNCHANGED <<pc, purpose, left, batch, retained, enqueued, released>>
    BY DEF WriteCallback, pumpVars, backendVars
  <1>7. progress' = (IF next THEN first.chunk ELSE progress)
        /\ acknowledged' = (IF next /\ first.chunk = Chunks
                              THEN acknowledged \cup {first.packet} ELSE acknowledged)
    BY <1>3 DEF WriteCallback
  <1>8. boundary'.pending = NoToken
    <2>1. boundary \in Boundaries
      BY DEF DeliveryInv, Inv, TypeOK
    <2>2. [boundary EXCEPT !.pending = NoToken].pending = NoToken
      BY <2>1 DEF Boundaries
    <2>. QED BY <1>2, <1>5, <2>2 DEF WriteCompleted, Applied, Refused
  <1>9. completion' # completion => pc = "await" /\ (completion' = "ok" => ok)
    BY <1>5 DEF WriteCompleted, Applied, Refused
  <1>10. pc \in {"await", "stop", "close"} /\ completion = "none"
    BY <1>1 DEF DeliveryInv, Owed
  <1>11. OneWrite' /\ Owed' /\ InHand'
    BY <1>4, <1>6, <1>8, <1>10 DEF DeliveryInv, OneWrite, Owed, InHand
  <1>12. Numbered'
    <2>1. first.packet = batch /\ batch # NoPacket => batch <= enqueued
      <3>1. retained \in Seq(Nat)
        BY PacketNumbers DEF DeliveryInv, Inv
      <3>2. batch # NoPacket => retained # <<>> /\ batch = retained[1] /\ 1 \in DOMAIN retained
        BY <3>1 DEF DeliveryInv, InHand
      <3>. QED BY <3>2 DEF DeliveryInv, Numbered
    <2>2. \A p \in acknowledged' :
            \/ p \in acknowledged
            \/ p = batch /\ first.packet = batch /\ batch # NoPacket
      <3>1. CASE next /\ first.chunk = Chunks
        BY <1>7, <3>1
      <3>2. CASE ~(next /\ first.chunk = Chunks)
        <4>1. acknowledged' = acknowledged
          BY <1>7, <3>2
        <4>. QED BY <4>1
      <3>. QED BY <3>1, <3>2
    <2>. QED BY <1>6, <2>1, <2>2 DEF DeliveryInv, Numbered
  <1>13. Counted'
    <2>. USE PumpAssumption
    <2>1. progress \in Nat /\ first.chunk \in Nat /\ left \in Nat
      BY <1>3 DEF DeliveryInv, Inv, TypeOK, Labels
    <2>2. /\ progress <= Chunks
          /\ batch # NoPacket /\ progress = Chunks => batch \in acknowledged
          /\ first.packet = batch /\ batch # NoPacket => first.chunk <= Chunks
      BY <1>1 DEF DeliveryInv, Counted
    <2>3. progress' <= Chunks /\ (batch # NoPacket /\ progress' = Chunks => batch \in acknowledged')
      BY <1>7, <2>1, <2>2
    <2>4. pc = "await" /\ purpose = "batch" =>
            /\ batch # NoPacket /\ progress >= Chunks - left
            /\ first.packet = batch /\ first.chunk = Chunks - left + 1
      BY <1>1 DEF DeliveryInv, Counted
    <2>5. pc = "await" /\ purpose = "batch" =>
            /\ progress' >= Chunks - left
            /\ completion' = "ok" => progress' >= Chunks - left + 1
      BY <1>7, <1>9, <1>10, <2>1, <2>4
    <2>. HIDE DEF first, next
    <2>. QED BY <1>4, <1>6, <1>10, <2>3, <2>4, <2>5 DEF Counted
  <1>. QED BY <1>11, <1>12, <1>13

(* Every step keeps the delivery invariant. *)
LEMMA DeliveryInvIsKept ==
  DeliveryInv /\ [Next]_vars => DeliveryInv'
  <1>. SUFFICES ASSUME DeliveryInv, [Next]_vars PROVE DeliveryInv'
    OBVIOUS
  <1>0. Inv /\ Inv'
    BY InvIsKept DEF DeliveryInv
  <1>. SUFFICES OneWrite' /\ Owed' /\ InHand' /\ Counted' /\ Numbered'
    BY <1>0 DEF DeliveryInv
  <1>r. retained \in Seq(Nat) /\ \A p \in Packets : p \in Nat /\ p # 0
    <2>1. Packets \subseteq Nat /\ retained \in Seq(Packets)
      BY <1>0, PumpAssumption DEF Inv, TypeOK, Packets
    <2>2. retained \in Seq(Nat)
      BY <2>1, SeqMonotonic
    <2>3. \A p \in Packets : p \in Nat /\ p # 0
      BY PumpAssumption DEF Packets
    <2>. QED BY <2>2, <2>3
  <1>. USE <1>0, PumpAssumption
       DEF DeliveryInv, Inv, TypeOK, WritesLeft, OneWrite, Owed, InHand, Counted,
           Numbered, Purposes, NoPacket, NoToken
  <1>. USE DEF pumpVars, adapterVars, backendVars, history, vars
  <1>1. CASE Start
    BY <1>1 DEF Start, WriteAll, AfterWrites
  <1>2. CASE StartFails
    BY <1>2 DEF StartFails
  <1>3. CASE WriteErr
    BY <1>3 DEF WriteErr, WritesFailed
  <1>4. CASE CancelWrite
    BY <1>4 DEF CancelWrite
  <1>5. CASE FailBatch
    BY <1>5 DEF FailBatch
  <1>6. CASE BackendFails
    BY <1>6 DEF BackendFails
  <1>7. CASE CancelRead
    BY <1>7 DEF CancelRead
  <1>8. CASE Read
    BY <1>8 DEF Read
  <1>9. CASE Timer
    BY <1>9 DEF Timer
  <1>10. CASE Submit
    BY <1>10 DEF Submit, WriteAll, AfterWrites
  <1>11. CASE Stop
    BY <1>11 DEF Stop
  <1>12. CASE RequestCancel
    BY <1>12 DEF RequestCancel
  <1>13. CASE Notify
    BY <1>13 DEF Notify
  <1>14. CASE NotifyError
    BY <1>14 DEF NotifyError
  <1>15. CASE RadioOff
    BY <1>15 DEF RadioOff
  <1>16. CASE RadioOn
    BY <1>16 DEF RadioOn
  <1>17. CASE IssueWrite
    <2>1. boundary.pending = NoToken /\ native = <<>>
      BY <1>17 DEF IssueWrite, MayBeginWrite
    <2>2. boundary'.pending = boundary.nextWrite /\ boundary.nextWrite # 0
      BY <1>17 DEF IssueWrite, BeginWrite, Boundaries
    <2>3. NextWrite \in Labels
      BY <1>17 DEF IssueWrite, NextWrite, Labels, Boundaries, Packets
    <2>4. Len(native') = 1 /\ native' # <<>> /\ native'[1] = NextWrite
      BY <1>17, <2>1, <2>3 DEF IssueWrite
    <2>5. /\ NextWrite.token = boundary.nextWrite
          /\ purpose = "batch" => NextWrite.packet = batch /\ NextWrite.chunk = Chunks - left + 1
          /\ purpose # "batch" => NextWrite.packet = NoPacket
      BY DEF NextWrite
    <2>6. OneWrite' /\ Owed'
      BY <1>17, <2>2, <2>4, <2>5 DEF IssueWrite, MayBeginWrite, BeginWrite, Boundaries
    <2>7. Counted'
      BY <1>17, <2>4, <2>5 DEF IssueWrite
    <2>8. InHand' /\ Numbered'
      BY <1>17 DEF IssueWrite
    <2>. QED BY <2>6, <2>7, <2>8
  <1>18. CASE WriteRefused
    <2>1. boundary'.pending = boundary.pending
      BY <1>18 DEF WriteRefused, WriteCompleted, BeginWrite, MayBeginWrite, Refused, Applied, Boundaries
    <2>2. MayBeginWrite(boundary) => boundary.pending = NoToken
      BY DEF MayBeginWrite
    <2>3. ~MayBeginWrite(boundary) => boundary' = boundary
      BY <1>18 DEF WriteRefused
    <2>. QED BY <1>18, <2>1, <2>2, <2>3 DEF WriteRefused, WritesFailed
  <1>19. CASE WriteOk
    BY <1>19 DEF WriteOk, WriteAll, AfterWrites
  <1>20. CASE Poll
    BY <1>0, <1>20, PollKeepsDelivery
  <1>21. CASE Complete
    <2>1. CASE offeredTo = attempts /\ retained # <<>> /\ Head(retained) = batch
      <3>1. Head(retained) <= enqueued
            /\ \A k \in DOMAIN Tail(retained) : Tail(retained)[k] <= enqueued
        BY <1>r, <2>1, BoundedItems
      <3>. QED BY <1>21, <2>1, <3>1 DEF Complete
    <2>2. CASE ~(offeredTo = attempts /\ retained # <<>> /\ Head(retained) = batch)
      BY <1>21, <2>2 DEF Complete
    <2>. QED BY <2>1, <2>2
  <1>22. CASE CloseLink
    BY <1>22 DEF CloseLink, Close
  <1>23. CASE LinkReady
    BY <1>23 DEF LinkReady, NewBoundary
  <1>24. CASE Enqueue
    BY <1>0, <1>24, EnqueueKeepsDelivery
  <1>25. CASE Disconnect
    BY <1>25 DEF Disconnect, Close
  <1>26. ASSUME NEW ok \in BOOLEAN, WriteCallback(ok)
         PROVE  OneWrite' /\ Owed' /\ InHand' /\ Counted' /\ Numbered'
    BY <1>0, <1>26, CallbackKeepsDelivery
  <1>27. CASE UNCHANGED vars
    BY <1>27
  <1>. QED
    BY <1>1, <1>2, <1>3, <1>4, <1>5, <1>6, <1>7, <1>8, <1>9, <1>10, <1>11, <1>12, <1>13, <1>14, <1>15, <1>16, <1>17, <1>18, <1>19, <1>20, <1>21, <1>22, <1>23, <1>24, <1>25, <1>26, <1>27 DEF Next, PumpStep, World

(* The delegate credits a write callback to the write it is about
   (apply_write_completion has no name to go by): CallbackNamesPendingWrite of the run
   RNodePump. *)
THEOREM CallbacksNamePendingWrite ==
  Spec => []CallbackNamesPendingWrite
  <1>1. DeliveryInv => CallbackNamesPendingWrite
    <2>. SUFFICES ASSUME DeliveryInv PROVE CallbackNamesPendingWrite
      OBVIOUS
    <2>1. CASE native = <<>>
      BY <2>1, EmptyQueue DEF CallbackNamesPendingWrite
    <2>2. CASE native # <<>>
      <3>1. native \in Seq(Labels) /\ Len(native) = 1 /\ native[1].token = boundary.pending
        BY <2>2 DEF DeliveryInv, Inv, TypeOK, OneWrite
      <3>2. Head(native) = native[1]
        BY <2>2, <3>1, OneItem
      <3>. QED BY <3>1, <3>2 DEF CallbackNamesPendingWrite
    <2>. QED BY <2>1, <2>2
  <1>. QED BY <1>1, DeliveryInvHolds, DeliveryInvIsKept, PTL DEF Spec

-----------------------------------------------------------------------------
(* What the backend holds, as the abstract specification sees it. *)
LEMMA HeldPackets ==
  ASSUME DeliveryInv
  PROVE  /\ Delivery!Held \subseteq Packets
         /\ \A p \in Delivery!Held \cup acknowledged \cup released : p <= enqueued
         /\ batch # NoPacket => batch \in Delivery!Held
  <1>1. retained \in Seq(Packets) /\ retained \in Seq(Nat)
    BY PacketNumbers DEF DeliveryInv, Inv, TypeOK
  <1>2. \A i \in DOMAIN retained : retained[i] \in Packets /\ retained[i] <= enqueued
    BY <1>1, ElementOfSeq DEF DeliveryInv, Numbered
  <1>3. batch # NoPacket => batch = retained[1] /\ 1 \in DOMAIN retained
    BY <1>1 DEF DeliveryInv, InHand
  <1>. QED BY <1>2, <1>3 DEF Delivery!Held, DeliveryInv, Numbered

(* Every step is a step of the abstract specification, or none. *)
LEMMA StepRefines ==
  DeliveryInv /\ [Next]_vars => [Delivery!Next]_(Delivery!vars)
  <1>. SUFFICES ASSUME DeliveryInv, [Next]_vars PROVE [Delivery!Next]_(Delivery!vars)
    OBVIOUS
  <1>1. CASE Enqueue
    <2>. DEFINE now == enqueued + 1
    <2>1. now \in Packets /\ retained' = Append(retained, now) /\ enqueued < now
      BY <1>1, PumpAssumption DEF Enqueue, Packets, DeliveryInv, Inv, TypeOK
    <2>2. UNCHANGED <<acknowledged, released>>
      BY <1>1 DEF Enqueue, history
    <2>3. \A p \in Delivery!Held \cup acknowledged \cup released : p \in Nat /\ p <= enqueued
      BY HeldPackets, PacketNumbers DEF DeliveryInv, Inv, TypeOK
    <2>4. now \notin Delivery!Held \cup acknowledged \cup released
      BY <2>1, <2>3 DEF DeliveryInv, Inv, TypeOK
    <2>. QED BY <2>1, <2>2, <2>4 DEF Delivery!Enqueue, Delivery!Next
  <1>2. CASE Complete
    <2>1. CASE offeredTo = attempts /\ retained # <<>> /\ Head(retained) = batch
      <3>1. batch \in acknowledged
        BY <1>2 DEF Complete, DeliveryInv, Counted
      <3>. QED BY <1>2, <2>1, <3>1 DEF Complete, Delivery!Release, Delivery!Next
    <2>2. CASE ~(offeredTo = attempts /\ retained # <<>> /\ Head(retained) = batch)
      BY <1>2, <2>2 DEF Complete, Delivery!vars
    <2>. QED BY <2>1, <2>2
  <1>3. ASSUME NEW ok \in BOOLEAN, WriteCallback(ok)
        PROVE  [Delivery!Next]_(Delivery!vars)
    <2>. DEFINE first == Head(native)
    <2>1. UNCHANGED <<retained, released>>
      BY <1>3 DEF WriteCallback, backendVars
    <2>2. \/ acknowledged' = acknowledged
          \/ /\ acknowledged' = acknowledged \cup {first.packet}
             /\ first.packet # NoPacket /\ first.packet = batch
      BY <1>3 DEF WriteCallback
    <2>3. CASE acknowledged' = acknowledged
      BY <2>1, <2>3 DEF Delivery!vars
    <2>4. CASE acknowledged' = acknowledged \cup {batch} /\ batch # NoPacket
      <3>1. batch \in Delivery!Held /\ batch \in Packets
        BY <2>4, HeldPackets
      <3>. QED BY <2>1, <2>4, <3>1 DEF Delivery!Acknowledge, Delivery!Next
    <2>. QED BY <2>2, <2>3, <2>4
  <1>4. ASSUME Next, ~Enqueue, ~Complete, ~\E ok \in BOOLEAN : WriteCallback(ok)
        PROVE  UNCHANGED Delivery!vars
    <2>. USE DEF backendVars, history, Delivery!vars
    <2>1. CASE Start
      BY <2>1 DEF Start
    <2>2. CASE StartFails
      BY <2>2 DEF StartFails
    <2>3. CASE IssueWrite
      BY <2>3 DEF IssueWrite
    <2>4. CASE WriteRefused
      BY <2>4 DEF WriteRefused
    <2>5. CASE WriteOk
      BY <2>5 DEF WriteOk
    <2>6. CASE WriteErr
      BY <2>6 DEF WriteErr
    <2>7. CASE CancelWrite
      BY <2>7 DEF CancelWrite
    <2>8. CASE Poll
      BY <2>8 DEF Poll
    <2>9. CASE FailBatch
      BY <2>9 DEF FailBatch
    <2>10. CASE BackendFails
      BY <2>10 DEF BackendFails
    <2>11. CASE CancelRead
      BY <2>11 DEF CancelRead
    <2>12. CASE Read
      BY <2>12 DEF Read
    <2>13. CASE Timer
      BY <2>13 DEF Timer
    <2>14. CASE Submit
      BY <2>14 DEF Submit
    <2>15. CASE Stop
      BY <2>15 DEF Stop
    <2>16. CASE CloseLink
      BY <2>16 DEF CloseLink
    <2>17. CASE LinkReady
      BY <2>17 DEF LinkReady
    <2>18. CASE RequestCancel
      BY <2>18 DEF RequestCancel
    <2>19. CASE Notify
      BY <2>19 DEF Notify
    <2>20. CASE NotifyError
      BY <2>20 DEF NotifyError
    <2>21. CASE Disconnect
      BY <2>21 DEF Disconnect
    <2>22. CASE RadioOff
      BY <2>22 DEF RadioOff
    <2>23. CASE RadioOn
      BY <2>23 DEF RadioOn
    <2>. QED
      BY <1>4, <2>1, <2>2, <2>3, <2>4, <2>5, <2>6, <2>7, <2>8, <2>9, <2>10, <2>11, <2>12, <2>13, <2>14, <2>15, <2>16, <2>17, <2>18, <2>19, <2>20, <2>21, <2>22, <2>23 DEF Next, PumpStep, World
  <1>5. CASE UNCHANGED vars
    BY <1>5 DEF vars, backendVars, history, Delivery!vars
  <1>. QED BY <1>1, <1>2, <1>3, <1>4, <1>5

(* A packet the application handed to the backend leaves it only after the
   RNode acknowledged its complete write batch, oldest first
   (run_mobile_ble_rnode): DeliversRetained of the run RNodePump. *)
THEOREM PumpDelivers ==
  Spec => DeliversRetained
  <1>1. Init => Delivery!Init
    BY DEF Init, Delivery!Init
  <1>. QED
    BY <1>1, DeliveryInvHolds, DeliveryInvIsKept, StepRefines, PTL
    DEF Spec, DeliversRetained, Delivery!Spec
=============================================================================
