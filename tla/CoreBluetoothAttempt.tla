------------------------ MODULE CoreBluetoothAttempt ------------------------
(***************************************************************************)
(* The value kept by CoreBluetoothAttemptBoundary: the position of one     *)
(* connection attempt in the Nordic UART handshake, whether a write limit  *)
(* is known, and the one write CoreBluetooth still owes a callback for.    *)
(* The hand-over of a disconnected boundary to firmware update             *)
(* (disconnection_observed, shutdown_token) is not modelled.               *)
(*                                                                         *)
(* Every operator maps a boundary to an answer: the boundary after the     *)
(* call and what the call returned.  The delegate passes its own active    *)
(* generation to every call and drops the boundary with it, so the         *)
(* "stale generation" return cannot be taken and is left out.              *)
(***************************************************************************)
EXTENDS Naturals

Phases == {"WaitingForManager", "DiscoveringServices",
           "DiscoveringCharacteristics", "EnablingNotifications",
           "Ready", "Closed"}

NoToken == 0

Boundaries == [phase : Phases, limit : BOOLEAN, nextWrite : Nat \ {0},
               pending : Nat]

NewBoundary == [phase |-> "WaitingForManager", limit |-> FALSE, nextWrite |-> 1,
                pending |-> NoToken]

Applied(b) == [b |-> b, is |-> "applied"]
Refused(b) == [b |-> b, is |-> "failed"]

Close(b) == [b EXCEPT !.phase = "Closed", !.limit = FALSE,
                      !.pending = NoToken]

(* CoreBluetooth's manager reports a state: power on restarts the handshake
   from any phase but Closed, anything else forgets limit and pending write. *)
ManagerChanged(b, poweredOn) ==
  IF b.phase = "Closed" THEN Refused(b)
  ELSE IF poweredOn THEN Applied([b EXCEPT !.phase = "DiscoveringServices"])
  ELSE Refused([b EXCEPT !.phase = "WaitingForManager", !.limit = FALSE,
                         !.pending = NoToken])

(* One answer of the peripheral to a handshake request: out of phase it is
   refused, a bad answer closes the boundary, a good one moves it on. *)
Handshake(b, expected, good, next) ==
  IF b.phase # expected THEN Refused(b)
  ELSE IF ~good THEN Refused(Close(b))
  ELSE Applied(next)

ServicesDiscovered(b, present) ==
  Handshake(b, "DiscoveringServices", present,
            [b EXCEPT !.phase = "DiscoveringCharacteristics"])

CharacteristicsDiscovered(b, usable) ==
  Handshake(b, "DiscoveringCharacteristics", usable,
            [b EXCEPT !.phase = "EnablingNotifications", !.limit = TRUE])

NotificationsChanged(b, enabled) ==
  LET answer == Handshake(b, "EnablingNotifications", enabled,
                          [b EXCEPT !.phase = "Ready"])
  IN  IF answer.is = "applied" THEN [answer EXCEPT !.is = "ready"] ELSE answer

Notification(b) == IF b.phase = "Ready" THEN Applied(b) ELSE Refused(b)

(* A write is admitted when the boundary is Ready and owes nothing; the
   admitted write's token is the pending one. *)
MayBeginWrite(b) == b.phase = "Ready" /\ b.pending = NoToken /\ b.limit

BeginWrite(b) == [b EXCEPT !.nextWrite = @ + 1, !.pending = b.nextWrite]

WriteCompleted(b, token, succeeded) ==
  LET done == [b EXCEPT !.pending = NoToken]
  IN  IF b.phase # "Ready" \/ b.pending # token THEN Refused(b)
      ELSE IF succeeded THEN Applied(done) ELSE Refused(done)

=============================================================================
