-------------------------- MODULE RetainedDelivery --------------------------
(***************************************************************************)
(* What the byte pump promises the backend: an outbound packet stays in    *)
(* the backend's hands until its complete write batch has been             *)
(* acknowledged by the RNode, and packets leave in the order they were     *)
(* enqueued.  Whether an acknowledged packet is offered again (the         *)
(* connection may die between the last acknowledgement and the release)    *)
(* is left open: delivery is at least once.                                *)
(***************************************************************************)
EXTENDS Naturals, Sequences

CONSTANT Packets        \* packet numbers; a packet is enqueued once

VARIABLES retained,     \* packets the backend still holds, in order
          acknowledged, \* packets whose whole batch the RNode acknowledged
          released      \* packets the backend let go of

vars == <<retained, acknowledged, released>>

Held == {retained[i] : i \in DOMAIN retained}

Init == retained = <<>> /\ acknowledged = {} /\ released = {}

Enqueue(p) ==
  /\ p \notin Held \cup acknowledged \cup released
  /\ retained' = Append(retained, p)
  /\ UNCHANGED <<acknowledged, released>>

Acknowledge(p) ==
  /\ p \in Held
  /\ acknowledged' = acknowledged \cup {p}
  /\ UNCHANGED <<retained, released>>

Release ==
  /\ retained # <<>>
  /\ Head(retained) \in acknowledged
  /\ released' = released \cup {Head(retained)}
  /\ retained' = Tail(retained)
  /\ UNCHANGED acknowledged

Next == Release \/ \E p \in Packets : Enqueue(p) \/ Acknowledge(p)

Spec == Init /\ [][Next]_vars

=============================================================================
