---------------------------- MODULE QueueLemmas ----------------------------
(* What the operations of a queue do to it, for the proof modules. *)
EXTENDS Naturals, Sequences, SequenceTheorems, WellFoundedInduction, TLAPS

(* What appending to a sequence and taking its tail do to it. *)
LEMMA QueueOperations ==
  ASSUME NEW S, NEW queue \in Seq(S), NEW item \in S
  PROVE  /\ Append(queue, item) \in Seq(S)
         /\ Len(Append(queue, item)) = Len(queue) + 1
         /\ queue # <<>> => /\ Tail(queue) \in Seq(S)
                            /\ Len(Tail(queue)) = Len(queue) - 1
                            /\ Head(queue) \in S
                            /\ Head(Append(queue, item)) = Head(queue)
  OBVIOUS

(* The items of a sequence, and those it has after a step. *)
LEMMA QueueItems ==
  ASSUME NEW S, NEW queue \in Seq(S), NEW item \in S
  PROVE  /\ \A i \in DOMAIN Append(queue, item) :
              \/ Append(queue, item)[i] = item
              \/ i \in DOMAIN queue /\ Append(queue, item)[i] = queue[i]
         /\ queue # <<>> =>
              /\ 1 \in DOMAIN queue /\ Head(queue) = queue[1]
              /\ \A i \in DOMAIN Tail(queue) :
                   i + 1 \in DOMAIN queue /\ Tail(queue)[i] = queue[i + 1]
  OBVIOUS

LEMMA EmptyQueue ==
  ASSUME NEW S
  PROVE  <<>> \in Seq(S) /\ Len(<<>>) = 0 /\ DOMAIN <<>> = {}
  OBVIOUS

(* A queue of one place. *)
LEMMA OnePlace ==
  ASSUME NEW S, NEW item \in S
  PROVE  /\ <<item>> \in Seq(S) /\ Len(<<item>>) = 1
         /\ DOMAIN <<item>> = {1} /\ <<item>>[1] = item
  OBVIOUS

(* Queues of at most two items, item by item. *)
LEMMA ShortQueues ==
  ASSUME NEW one, NEW other
  PROVE  /\ <<one>> # <<>> /\ Head(<<one>>) = one /\ Tail(<<one>>) = <<>>
         /\ <<one, other>> # <<>> /\ Head(<<one, other>>) = one
         /\ Tail(<<one, other>>) = <<other>>
         /\ Append(<<>>, one) = <<one>> /\ Append(<<one>>, other) = <<one, other>>
  <1>. DEFINE made == Append(<<one>>, other)
  <1>1. <<one>> \in Seq({one, other}) /\ Len(<<one>>) = 1 /\ <<one>>[1] = one
    OBVIOUS
  <1>2. made \in Seq({one, other}) /\ Len(made) = 2 /\ made[1] = one /\ made[2] = other
    BY <1>1
  <1>3. /\ <<one, other>> \in Seq({one, other}) /\ Len(<<one, other>>) = 2
        /\ <<one, other>>[1] = one /\ <<one, other>>[2] = other
    OBVIOUS
  <1>4. made = <<one, other>>
    <2>. SUFFICES \A i \in 1 .. 2 : made[i] = <<one, other>>[i]
      BY <1>2, <1>3, SeqEqual
    <2>. QED BY <1>2, <1>3
  <1>. QED BY <1>4

(* The items of two queues, one after the other. *)
LEMMA QueueOfTwo ==
  ASSUME NEW S, NEW front \in Seq(S), NEW back \in Seq(S)
  PROVE  /\ front \o back \in Seq(S)
         /\ \A i \in DOMAIN (front \o back) :
              \/ i \in DOMAIN front /\ (front \o back)[i] = front[i]
              \/ \E j \in DOMAIN back : (front \o back)[i] = back[j]
  <1>1. front \o back \in Seq(S) /\ Len(front \o back) = Len(front) + Len(back)
    OBVIOUS
  <1>2. ASSUME NEW i \in DOMAIN (front \o back), i \notin DOMAIN front
        PROVE  i - Len(front) \in DOMAIN back /\ (front \o back)[i] = back[i - Len(front)]
    BY <1>1, <1>2
  <1> QED BY <1>1, <1>2

(* The least element of a set of numbers: how induction over them is done. *)
LEMMA Least ==
  ASSUME NEW T \in SUBSET Nat, T # {}
  PROVE  \E n \in T : \A m \in T : n <= m
  <1>1. \E x \in T : \A y \in T : ~(<<y, x>> \in OpToRel(<, Nat))
    BY NatLessThanWellFounded, WFMin, Zenon
  <1>2. \A x, y \in Nat : x < y => <<x, y>> \in OpToRel(<, Nat)
    BY Zenon DEF OpToRel
  <1>3. \E x \in T : \A y \in T : ~(y < x)
    BY <1>1, <1>2, Zenon
  <1>. QED BY <1>3
=============================================================================
