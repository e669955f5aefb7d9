------------------------ MODULE SessionOwnerProofs ------------------------
(* Proofs about SessionOwner and PlatformEvents, for every value of their constants. *)
EXTENDS SessionOwner, PlatformEvents, QueueLemmas

(* The node is ahead of everything the owner has seen of it: the events in the
   subscription, the generation it observed, the one it believes in. *)
NodeLeads ==
  /\ nodeGeneration >= 1
  /\ \A i \in DOMAIN events : events[i] <= nodeGeneration
  /\ observed <= nodeGeneration
  /\ pc \in {"act", "boot"} => observed = None
  /\ pc = "adopt" => observed = None
  /\ OwnerIsNotAhead

(* Between the two checks of a projection, the contents were read in a
   generation between the owner's and the node's. *)
ReadBetween ==
  pc = "verify" => readIn[1] = node /\ backend <= readIn[2] /\ readIn[2] <= nodeGeneration

(* What carries the owner's generation is about the owner's node. *)
Stamped(item) ==
  /\ item.generation <= generation
  /\ item.generation = generation =>
       pc \notin {"boot", "adopt", "ended"} /\ item.node = node /\ item.backend = backend

Running == {update \in Published : update.is = "Running"}
Queued  == {actions[i] : i \in DOMAIN actions}
Items   == Running \cup Queued

SameOrOlder ==
  /\ \A item \in Items : Stamped(item)
  /\ \A one, other \in Items : one.generation = other.generation =>
       one.node = other.node /\ one.backend = other.backend
  /\ pc \in {"sync", "act"} =>
       doing.generation = generation /\ doing.node = node /\ doing.backend = backend
  /\ pc # "ended" => \A update \in Published : update.is # "Failed"

(* What is published is not newer than what the owner knows. *)
NotNewer ==
  /\ \A update \in Published :
       /\ update.generation <= generation /\ update.contents <= changes
       /\ pc = "verify" => update.contents <= contents
  /\ pc = "verify" => contents <= changes
  /\ slot # <<>> => /\ slot[1].generation >= view.generation
                    /\ slot[1].is = "Running" => slot[1].contents >= view.contents

SnapshotInv == TypeOK /\ NodeLeads /\ ReadBetween /\ SnapshotOfOneGeneration

-----------------------------------------------------------------------------
(* An event joins the subscription, or displaces its oldest one, or is lost. *)
LEMMA EmitKeeps ==
  ASSUME TypeOK, NEW gen \in Nat, Emit(gen)
  PROVE  /\ events' \in Seq(Nat) /\ Len(events') <= EventCapacity
         /\ lagged' \in BOOLEAN /\ closed' \in BOOLEAN
         /\ \A i \in DOMAIN events' :
              events'[i] = gen \/ \E j \in DOMAIN events : events'[i] = events[j]
  <1>. USE OwnerAssumption DEF TypeOK
  <1>1. CASE closed
    BY <1>1 DEF Emit, subVars
  <1>2. CASE ~closed /\ Len(events) = EventCapacity
    <2>1. events # <<>> BY <1>2
    <2>2. /\ Tail(events) \in Seq(Nat) /\ Len(Tail(events)) = Len(events) - 1
          /\ \A i \in DOMAIN Tail(events) :
               i + 1 \in DOMAIN events /\ Tail(events)[i] = events[i + 1]
      BY <2>1, QueueOperations, QueueItems
    <2>3. events' = Append(Tail(events), gen) /\ lagged' = TRUE /\ closed' = closed
      BY <1>2 DEF Emit
    <2>4. /\ Append(Tail(events), gen) \in Seq(Nat)
          /\ Len(Append(Tail(events), gen)) = Len(Tail(events)) + 1
      BY <2>2, QueueOperations
    <2>5. \A i \in DOMAIN events' :
            events'[i] = gen \/ (i \in DOMAIN Tail(events) /\ events'[i] = Tail(events)[i])
      BY <2>2, <2>3, QueueItems
    <2>. QED BY <1>2, <2>2, <2>3, <2>4, <2>5
  <1>3. CASE ~closed /\ Len(events) # EventCapacity
    <2>1. events' = Append(events, gen) /\ lagged' = lagged /\ closed' = closed
      BY <1>3 DEF Emit
    <2>2. /\ Append(events, gen) \in Seq(Nat)
          /\ Len(Append(events, gen)) = Len(events) + 1
      BY QueueOperations
    <2>3. /\ events \in Seq(Nat) /\ Len(events) + 1 <= EventCapacity
          /\ lagged \in BOOLEAN /\ closed \in BOOLEAN
      BY <1>3
    <2>. HIDE DEF TypeOK
    <2>4. \A i \in DOMAIN events' :
            events'[i] = gen \/ (i \in DOMAIN events /\ events'[i] = events[i])
      BY <2>1, <2>3, QueueItems
    <2>. QED BY <2>1, <2>2, <2>3, <2>4
  <1>. QED BY <1>1, <1>2, <1>3

(* A fresh subscription holds nothing. *)
LEMMA SubscribeKeeps ==
  ASSUME Subscribe
  PROVE  /\ events' \in Seq(Nat) /\ Len(events') <= EventCapacity
         /\ lagged' \in BOOLEAN /\ closed' \in BOOLEAN /\ DOMAIN events' = {}
  <1>1. events' = <<>> /\ lagged' \in BOOLEAN /\ closed' \in BOOLEAN
    BY DEF Subscribe
  <1>2. events' \in Seq(Nat) /\ Len(events') = 0 /\ DOMAIN events' = {}
    BY <1>1, EmptyQueue
  <1>. QED BY <1>1, <1>2, OwnerAssumption

(* The two generations only move forward, and together. *)
LEMMA AdvanceKeeps ==
  ASSUME TypeOK, NEW seen \in Nat, Advance(seen)
  PROVE  /\ generation' \in Nat /\ backend' \in Nat
         /\ \/ seen > backend /\ backend' = seen /\ generation' = generation + 1
            \/ seen <= backend /\ backend' = backend /\ generation' = generation
  BY DEF Advance, Advances, TypeOK

LEMMA Emptied ==
  NoAction \in Actions /\ Inspecting \in Updates
  BY DEF NoAction, Actions, None, Kinds, Inspecting, Update, Updates

(* The session starts in order. *)
LEMMA TypeHolds ==
  Init => TypeOK
  <1>. SUFFICES ASSUME Init PROVE TypeOK
    OBVIOUS
  <1>1. /\ events \in Seq(Nat) /\ Len(events) <= EventCapacity
        /\ actions \in Seq(Actions) /\ Len(actions) <= ActionCapacity
        /\ exports \in Seq(Nat) /\ Len(exports) <= 1
        /\ slot \in Seq(Updates) /\ Len(slot) <= 1
    BY EmptyQueue, OwnerAssumption DEF Init
  <1>. QED BY <1>1, Emptied DEF Init, TypeOK, None

(* Every step of the owner and of its surroundings keeps the types. *)
LEMMA TypeIsKept ==
  TypeOK /\ [Next]_vars => TypeOK'
  <1>. SUFFICES ASSUME TypeOK, [Next]_vars PROVE TypeOK'
    OBVIOUS
  <1>. USE OwnerAssumption, Emptied DEF TypeOK, ownerVars, nodeVars, subVars, uiVars, channelVars, vars,
           None, Publish, ProjectionEnds, Fault
  <1>1. CASE HandleEvent
    <2>1. /\ Head(events) \in Nat /\ Tail(events) \in Seq(Nat)
          /\ Len(Tail(events)) <= EventCapacity
      BY <1>1, QueueOperations DEF HandleEvent
    <2>2. generation' \in Nat /\ backend' \in Nat
      BY <1>1, <2>1, AdvanceKeeps DEF HandleEvent
    <2>3. CASE Advances(Head(events))
      BY <1>1, <2>2, <2>3, SubscribeKeeps DEF HandleEvent
    <2>4. CASE ~Advances(Head(events))
      <3>1. events' = Tail(events) /\ lagged' \in BOOLEAN /\ closed' \in BOOLEAN
        BY <1>1, <2>4 DEF HandleEvent
      <3>2. events' \in Seq(Nat) /\ Len(events') <= EventCapacity
        BY <2>1, <3>1
      <3>3. /\ pc' = "project" /\ doing' = NoAction /\ failing' \in BOOLEAN /\ observed' = 0
            /\ UNCHANGED <<readIn, contents, nodeVars, uiVars, channelVars, faults>>
        BY <1>1 DEF HandleEvent
      <3>. QED BY <2>2, <3>1, <3>2, <3>3
    <2>. QED BY <2>3, <2>4
  <1>2. CASE HandleLag
    BY <1>2 DEF HandleLag
  <1>3. CASE AfterLag
    BY <1>3, AdvanceKeeps, SubscribeKeeps DEF AfterLag
  <1>4. CASE HandleClosed
    BY <1>4, SubscribeKeeps DEF HandleClosed
  <1>5. CASE AfterClosed
    BY <1>5, AdvanceKeeps DEF AfterClosed
  <1>6. CASE TakeAction
    <2>1. /\ Head(actions) \in Actions /\ Tail(actions) \in Seq(Actions)
          /\ Len(Tail(actions)) <= ActionCapacity
      BY <1>6, QueueOperations DEF TakeAction
    <2>2. pc' \in {"idle", "sync"} /\ doing' \in Actions /\ observed' \in Nat
      BY <1>6, <2>1 DEF TakeAction
    <2>3. /\ actions' = Tail(actions)
          /\ UNCHANGED <<generation, backend, failing, readIn, contents, nodeVars, subVars,
                         uiVars, exports, slot, faults>>
      BY <1>6 DEF TakeAction
    <2>4. actions' \in Seq(Actions) /\ Len(actions') <= ActionCapacity
      BY <2>1, <2>3
    <2>. QED BY <2>2, <2>3, <2>4
  <1>7. CASE Synchronize
    <2>1. generation' \in Nat /\ backend' \in Nat
      BY <1>7, AdvanceKeeps DEF Synchronize
    <2>2. CASE Advances(observed)
      <3>1. Subscribe /\ Publish(FALSE)
            /\ UNCHANGED <<readIn, contents, nodeVars, uiVars, channelVars, faults>>
        BY <1>7, <2>2 DEF Synchronize
      <3>. QED BY <2>1, <3>1, SubscribeKeeps
    <2>3. CASE ~Advances(observed)
      <3>1. /\ pc' = "act" /\ observed' = 0 /\ failing' = failing /\ doing' = doing
            /\ events' = events /\ lagged' = lagged /\ closed' = closed
        BY <1>7, <2>3 DEF Synchronize
      <3>. QED BY <1>7, <2>1, <3>1 DEF Synchronize
    <2>. QED BY <2>2, <2>3
  <1>8. CASE Edit
    <2>1. /\ events' \in Seq(Nat) /\ Len(events') <= EventCapacity
          /\ lagged' \in BOOLEAN /\ closed' \in BOOLEAN
      BY <1>8, EmitKeeps DEF Edit
    <2>2. /\ changes' \in Nat /\ Publish(FALSE)
          /\ UNCHANGED <<generation, backend, readIn, contents, node, nodeGeneration,
                         restarts, uiVars, channelVars, faults>>
      BY <1>8 DEF Edit
    <2>. QED BY <2>1, <2>2
  <1>9. CASE Refuse
    BY <1>9 DEF Refuse
  <1>10. CASE Prefer
    <2>1. changes' \in Nat
      BY <1>10 DEF Prefer
    <2>. QED BY <1>10, <2>1 DEF Prefer
  <1>11. CASE ShutDown
    BY <1>11 DEF ShutDown, NextGeneration
  <1>12. CASE Boot
    BY <1>12, SubscribeKeeps DEF Boot
  <1>13. CASE BootFails
    <2>. DEFINE failed == Update("Failed", generation, node, None, <<None, None>>, 0, TRUE)
    <2>1. failed \in Updates
      BY DEF Update, Updates
    <2>2. slot' = <<failed>>
      BY <1>13 DEF BootFails
    <2>. HIDE DEF failed
    <2>3. slot' \in Seq(Updates) /\ Len(slot') <= 1
      BY <2>1, <2>2, OnePlace
    <2>4. /\ pc' = "ended" /\ faults' \in Nat
          /\ UNCHANGED <<ownerVars, nodeVars, subVars, uiVars, actions, exports>>
      BY <1>13 DEF BootFails
    <2>. QED BY <2>3, <2>4
  <1>14. CASE Adopt
    BY <1>14 DEF Adopt, AdoptGeneration
  <1>15. CASE ProjectFails
    <2>1. faults' \in Nat
      BY <1>15 DEF ProjectFails
    <2>. QED BY <1>15, <2>1 DEF ProjectFails
  <1>16. CASE Project
    BY <1>16 DEF Project
  <1>17. CASE ReadContents
    BY <1>17 DEF ReadContents
  <1>18. CASE Send
    <2>1. Update("Running", generation, node, backend, readIn, contents, failing) \in Updates
      BY DEF Update, Updates
    <2>2. slot' \in Seq(Updates) /\ Len(slot') <= 1
      BY <1>18, <2>1, OnePlace DEF Send
    <2>. QED BY <1>18, <2>2 DEF Send
  <1>19. CASE AnswerExport
    <2>1. Tail(exports) \in Seq(Nat) /\ Len(Tail(exports)) <= 1
      BY <1>19, QueueOperations DEF AnswerExport
    <2>2. exporting' \in Nat
      BY <1>19 DEF AnswerExport
    <2>3. /\ exports' = Tail(exports)
          /\ UNCHANGED <<pc, ownerVars, nodeVars, subVars, view, taps, asked, actions, slot, faults>>
      BY <1>19 DEF AnswerExport
    <2>4. exports' \in Seq(Nat) /\ Len(exports') <= 1
      BY <2>1, <2>3
    <2>. QED BY <2>2, <2>3, <2>4
  <1>20. CASE NodeChanges
    BY <1>20, EmitKeeps DEF NodeChanges
  <1>21. CASE NodeRestarts
    <2>1. nodeGeneration + 1 \in Nat
      OBVIOUS
    <2>. QED BY <1>21, <2>1, EmitKeeps DEF NodeRestarts
  <1>22. CASE NodeAnnounces
    BY <1>22, EmitKeeps DEF NodeAnnounces
  <1>23. CASE SubscriptionCloses
    BY <1>23 DEF SubscriptionCloses
  <1>24. CASE Receive
    <2>1. Head(slot) \in Updates
      BY <1>24, QueueOperations DEF Receive
    <2>. QED BY <1>24, <2>1, EmptyQueue DEF Receive
  <1>25. CASE RequestExport
    <2>1. view.generation \in Nat
      BY DEF Updates
    <2>2. <<view.generation>> \in Seq(Nat) /\ Len(<<view.generation>>) = 1
      BY <2>1, OnePlace
    <2>3. exports' \in Seq(Nat) /\ Len(exports') <= 1 /\ exporting' \in Nat
      <3>1. CASE pc = "ended"
        BY <1>25, <3>1 DEF RequestExport
      <3>2. CASE pc # "ended"
        <4>1. exports' = <<view.generation>> /\ exporting' = view.generation
          BY <1>25, <3>2 DEF RequestExport
        <4>. QED BY <2>1, <2>2, <4>1
      <3>. QED BY <3>1, <3>2
    <2>4. /\ asked' \in Nat
          /\ UNCHANGED <<pc, ownerVars, nodeVars, subVars, view, taps, actions, slot, faults>>
      BY <1>25 DEF RequestExport
    <2>. QED BY <2>3, <2>4
  <1>26. ASSUME NEW kind \in Kinds, Tap(kind) PROVE TypeOK'
    <2>. DEFINE action == [generation |-> view.generation, kind |-> kind,
                           node |-> view.node, backend |-> view.backend]
    <2>1. action \in Actions
      BY DEF Actions, Updates
    <2>2. TrySend(actions, action) \in Seq(Actions) /\ Len(TrySend(actions, action)) <= ActionCapacity
      BY <2>1, QueueOperations DEF TrySend
    <2>3. actions' = actions \/ actions' = TrySend(actions, action)
      BY <1>26 DEF Tap
    <2>. QED BY <1>26, <2>2, <2>3 DEF Tap
  <1>27. CASE UNCHANGED vars
    BY <1>27
  <1>. QED
    BY <1>1, <1>2, <1>3, <1>4, <1>5, <1>6, <1>7, <1>8, <1>9, <1>10, <1>11, <1>12, <1>13, <1>14, <1>15, <1>16, <1>17, <1>18, <1>19, <1>20, <1>21, <1>22, <1>23, <1>24, <1>25, <1>26, <1>27
    DEF Next, OwnerStep, World

(* Every variable of the session keeps its type in every behaviour, the bounds
   of the channels and of the subscription included: TypeOK of the run
   SessionOwner. *)
THEOREM SessionTypeCorrect ==
  Spec => []TypeOK
  BY TypeHolds, TypeIsKept, PTL DEF Spec

-----------------------------------------------------------------------------
(* The owner starts behind its node. *)
LEMMA NodeLeadsHolds ==
  Init => NodeLeads
  <1>. SUFFICES ASSUME Init PROVE NodeLeads
    OBVIOUS
  <1>1. DOMAIN events = {}
    BY EmptyQueue DEF Init
  <1>. QED BY <1>1 DEF Init, NodeLeads, OwnerIsNotAhead, None

(* Every step keeps the owner behind its node. *)
LEMMA NodeLeadsIsKept ==
  TypeOK /\ NodeLeads /\ [Next]_vars => NodeLeads'
  <1>. SUFFICES ASSUME TypeOK, NodeLeads, [Next]_vars PROVE NodeLeads'
    OBVIOUS
  <1>. USE DEF ownerVars, nodeVars, subVars, uiVars, channelVars, vars, None, Publish,
           ProjectionEnds, NodeLeads, OwnerIsNotAhead
  <1>0. /\ backend \in Nat /\ nodeGeneration \in Nat /\ observed \in Nat
        /\ events \in Seq(Nat) /\ \A i \in DOMAIN events : events[i] \in Nat
    BY DEF TypeOK
  <1>1. CASE HandleEvent
    <2>1. /\ Head(events) \in Nat /\ Head(events) <= nodeGeneration
          /\ \A i \in DOMAIN Tail(events) : Tail(events)[i] <= nodeGeneration
      BY <1>1, <1>0, QueueOperations, QueueItems DEF HandleEvent
    <2>2. backend' = Head(events) \/ backend' = backend
      BY <1>1 DEF HandleEvent, Advance
    <2>3. \A i \in DOMAIN events' : events'[i] <= nodeGeneration
      <3>1. CASE Advances(Head(events))
        BY <1>1, <3>1, SubscribeKeeps DEF HandleEvent
      <3>2. CASE ~Advances(Head(events))
        BY <1>1, <2>1, <3>2 DEF HandleEvent
      <3>. QED BY <3>1, <3>2
    <2>4. backend' <= nodeGeneration
      BY <1>1, <2>1, <2>2 DEF HandleEvent
    <2>5. pc' = "project" /\ observed' = 0 /\ nodeGeneration' = nodeGeneration
      BY <1>1 DEF HandleEvent
    <2>. QED BY <1>0, <2>3, <2>4, <2>5
  <1>2. CASE HandleLag
    BY <1>2, <1>0 DEF HandleLag
  <1>3. CASE AfterLag
    <2>1. DOMAIN events' = {}
      BY <1>3, SubscribeKeeps DEF AfterLag
    <2>2. backend' = observed \/ backend' = backend
      BY <1>3 DEF AfterLag, Advance
    <2>. QED BY <1>3, <1>0, <2>1, <2>2 DEF AfterLag
  <1>4. CASE HandleClosed
    <2>1. DOMAIN events' = {}
      BY <1>4, SubscribeKeeps DEF HandleClosed
    <2>. QED BY <1>4, <2>1 DEF HandleClosed
  <1>5. CASE AfterClosed
    <2>1. backend' = nodeGeneration \/ backend' = backend
      BY <1>5 DEF AfterClosed, Advance
    <2>. QED BY <1>5, <1>0, <2>1 DEF AfterClosed
  <1>6. CASE TakeAction
    BY <1>6, <1>0 DEF TakeAction
  <1>7. CASE Synchronize
    <2>1. backend' = observed \/ backend' = backend
      BY <1>7 DEF Synchronize, Advance
    <2>2. \A i \in DOMAIN events' : events'[i] <= nodeGeneration
      <3>1. CASE Advances(observed)
        BY <1>7, <3>1, SubscribeKeeps DEF Synchronize
      <3>2. CASE ~Advances(observed)
        BY <1>7, <3>2 DEF Synchronize
      <3>. QED BY <3>1, <3>2
    <2>3. backend' <= nodeGeneration
      BY <1>7, <2>1 DEF Synchronize
    <2>4. pc' \in {"project", "act"} /\ observed' = 0 /\ nodeGeneration' = nodeGeneration
      BY <1>7 DEF Synchronize
    <2>. QED BY <1>0, <2>2, <2>3, <2>4
  <1>8. CASE Edit
    <2>1. \A i \in DOMAIN events' :
            events'[i] = nodeGeneration \/ \E j \in DOMAIN events : events'[i] = events[j]
      BY <1>8, <1>0, EmitKeeps DEF Edit
    <2>2. \A i \in DOMAIN events' : events'[i] <= nodeGeneration
      BY <2>1, <1>0
    <2>. QED BY <1>8, <2>2 DEF Edit
  <1>9. CASE Refuse
    BY <1>9 DEF Refuse
  <1>10. CASE Prefer
    BY <1>10 DEF Prefer
  <1>11. CASE ShutDown
    BY <1>11 DEF ShutDown
  <1>12. CASE Boot
    <2>1. DOMAIN events' = {}
      BY <1>12, SubscribeKeeps DEF Boot
    <2>. QED BY <1>12, <2>1 DEF Boot
  <1>13. CASE BootFails
    BY <1>13 DEF BootFails
  <1>14. CASE Adopt
    BY <1>14, <1>0 DEF Adopt, AdoptGeneration
  <1>15. CASE ProjectFails
    BY <1>15 DEF ProjectFails
  <1>16. CASE Project
    BY <1>16 DEF Project
  <1>17. CASE ReadContents
    BY <1>17 DEF ReadContents
  <1>18. CASE Send
    BY <1>18 DEF Send
  <1>19. CASE AnswerExport
    BY <1>19 DEF AnswerExport
  <1>20. CASE NodeChanges
    <2>1. \A i \in DOMAIN events' :
            events'[i] = nodeGeneration \/ \E j \in DOMAIN events : events'[i] = events[j]
      BY <1>20, <1>0, EmitKeeps DEF NodeChanges
    <2>2. \A i \in DOMAIN events' : events'[i] <= nodeGeneration
      BY <2>1, <1>0
    <2>. QED BY <1>20, <2>2 DEF NodeChanges
  <1>21. CASE NodeRestarts
    <2>1. \A i \in DOMAIN events' :
            events'[i] = nodeGeneration + 1 \/ \E j \in DOMAIN events : events'[i] = events[j]
      BY <1>21, <1>0, EmitKeeps DEF NodeRestarts
    <2>2. \A i \in DOMAIN events' : events'[i] <= nodeGeneration + 1
      BY <2>1, <1>0
    <2>. QED BY <1>21, <1>0, <2>2 DEF NodeRestarts
  <1>22. CASE NodeAnnounces
    <2>1. \A i \in DOMAIN events' :
            events'[i] = nodeGeneration \/ \E j \in DOMAIN events : events'[i] = events[j]
      BY <1>22, <1>0, EmitKeeps DEF NodeAnnounces
    <2>2. \A i \in DOMAIN events' : events'[i] <= nodeGeneration
      BY <2>1, <1>0
    <2>. QED BY <1>22, <2>2 DEF NodeAnnounces
  <1>23. CASE SubscriptionCloses
    BY <1>23 DEF SubscriptionCloses
  <1>24. CASE Receive
    BY <1>24 DEF Receive
  <1>25. CASE RequestExport
    BY <1>25 DEF RequestExport
  <1>26. ASSUME NEW kind \in Kinds, Tap(kind) PROVE NodeLeads'
    BY <1>26 DEF Tap
  <1>27. CASE UNCHANGED vars
    BY <1>27
  <1>. QED
    BY <1>1, <1>2, <1>3, <1>4, <1>5, <1>6, <1>7, <1>8, <1>9, <1>10, <1>11, <1>12, <1>13, <1>14, <1>15, <1>16, <1>17, <1>18, <1>19, <1>20, <1>21, <1>22, <1>23, <1>24, <1>25, <1>26, <1>27
    DEF Next, OwnerStep, World

(* The owner never believes in a generation its node has not reached, which it
   would wait for in vain (advance_generation_if_changed, boot): OwnerIsNotAhead
   of the run SessionOwner. *)
THEOREM OwnerNeverAhead ==
  Spec => []OwnerIsNotAhead
  <1>1. NodeLeads => OwnerIsNotAhead
    BY DEF NodeLeads
  <1>. QED
    BY <1>1, TypeHolds, TypeIsKept, NodeLeadsHolds, NodeLeadsIsKept, PTL DEF Spec

-----------------------------------------------------------------------------
(* Who publishes, and who queues actions. *)
LEMMA WhoPublishes ==
  [Next]_vars => UNCHANGED <<slot, view>> \/ BootFails \/ Send \/ Receive
  <1>. SUFFICES ASSUME [Next]_vars PROVE UNCHANGED <<slot, view>> \/ BootFails \/ Send \/ Receive
    OBVIOUS
  <1>. USE DEF uiVars, channelVars, vars
  <1>1. CASE HandleEvent
    BY <1>1 DEF HandleEvent
  <1>2. CASE HandleLag
    BY <1>2 DEF HandleLag
  <1>3. CASE AfterLag
    BY <1>3 DEF AfterLag
  <1>4. CASE HandleClosed
    BY <1>4 DEF HandleClosed
  <1>5. CASE AfterClosed
    BY <1>5 DEF AfterClosed
  <1>6. CASE TakeAction
    BY <1>6 DEF TakeAction
  <1>7. CASE Synchronize
    BY <1>7 DEF Synchronize
  <1>8. CASE Edit
    BY <1>8 DEF Edit
  <1>9. CASE Refuse
    BY <1>9 DEF Refuse
  <1>10. CASE Prefer
    BY <1>10 DEF Prefer
  <1>11. CASE ShutDown
    BY <1>11 DEF ShutDown
  <1>12. CASE Boot
    BY <1>12 DEF Boot
  <1>13. CASE BootFails
    BY <1>13
  <1>14. CASE Adopt
    BY <1>14 DEF Adopt
  <1>15. CASE ProjectFails
    BY <1>15 DEF ProjectFails
  <1>16. CASE Project
    BY <1>16 DEF Project
  <1>17. CASE ReadContents
    BY <1>17 DEF ReadContents
  <1>18. CASE Send
    BY <1>18
  <1>19. CASE AnswerExport
    BY <1>19 DEF AnswerExport
  <1>20. CASE NodeChanges
    BY <1>20 DEF NodeChanges
  <1>21. CASE NodeRestarts
    BY <1>21 DEF NodeRestarts
  <1>22. CASE NodeAnnounces
    BY <1>22 DEF NodeAnnounces
  <1>23. CASE SubscriptionCloses
    BY <1>23 DEF SubscriptionCloses
  <1>24. CASE Receive
    BY <1>24
  <1>25. CASE RequestExport
    BY <1>25 DEF RequestExport
  <1>26. ASSUME NEW kind \in Kinds, Tap(kind) PROVE UNCHANGED <<slot, view>>
    BY <1>26 DEF Tap
  <1>27. CASE UNCHANGED vars
    BY <1>27
  <1>. QED
    BY <1>1, <1>2, <1>3, <1>4, <1>5, <1>6, <1>7, <1>8, <1>9, <1>10, <1>11, <1>12, <1>13, <1>14, <1>15, <1>16, <1>17, <1>18, <1>19, <1>20, <1>21, <1>22, <1>23, <1>24, <1>25, <1>26, <1>27
    DEF Next, OwnerStep, World

LEMMA WhoQueues ==
  [Next]_vars => actions' = actions \/ TakeAction \/ \E kind \in Kinds : Tap(kind)
  <1>. SUFFICES ASSUME [Next]_vars
               PROVE  actions' = actions \/ TakeAction \/ \E kind \in Kinds : Tap(kind)
    OBVIOUS
  <1>. USE DEF uiVars, channelVars, vars
  <1>1. CASE HandleEvent
    BY <1>1 DEF HandleEvent
  <1>2. CASE HandleLag
    BY <1>2 DEF HandleLag
  <1>3. CASE AfterLag
    BY <1>3 DEF AfterLag
  <1>4. CASE HandleClosed
    BY <1>4 DEF HandleClosed
  <1>5. CASE AfterClosed
    BY <1>5 DEF AfterClosed
  <1>6. CASE TakeAction
    BY <1>6
  <1>7. CASE Synchronize
    BY <1>7 DEF Synchronize
  <1>8. CASE Edit
    BY <1>8 DEF Edit
  <1>9. CASE Refuse
    BY <1>9 DEF Refuse
  <1>10. CASE Prefer
    BY <1>10 DEF Prefer
  <1>11. CASE ShutDown
    BY <1>11 DEF ShutDown
  <1>12. CASE Boot
    BY <1>12 DEF Boot
  <1>13. CASE BootFails
    BY <1>13 DEF BootFails
  <1>14. CASE Adopt
    BY <1>14 DEF Adopt
  <1>15. CASE ProjectFails
    BY <1>15 DEF ProjectFails
  <1>16. CASE Project
    BY <1>16 DEF Project
  <1>17. CASE ReadContents
    BY <1>17 DEF ReadContents
  <1>18. CASE Send
    BY <1>18 DEF Send
  <1>19. CASE AnswerExport
    BY <1>19 DEF AnswerExport
  <1>20. CASE NodeChanges
    BY <1>20 DEF NodeChanges
  <1>21. CASE NodeRestarts
    BY <1>21 DEF NodeRestarts
  <1>22. CASE NodeAnnounces
    BY <1>22 DEF NodeAnnounces
  <1>23. CASE SubscriptionCloses
    BY <1>23 DEF SubscriptionCloses
  <1>24. CASE Receive
    BY <1>24 DEF Receive
  <1>25. CASE RequestExport
    BY <1>25 DEF RequestExport
  <1>26. ASSUME NEW kind \in Kinds, Tap(kind) PROVE \E k \in Kinds : Tap(k)
    BY <1>26
  <1>27. CASE UNCHANGED vars
    BY <1>27
  <1>. QED
    BY <1>1, <1>2, <1>3, <1>4, <1>5, <1>6, <1>7, <1>8, <1>9, <1>10, <1>11, <1>12, <1>13, <1>14, <1>15, <1>16, <1>17, <1>18, <1>19, <1>20, <1>21, <1>22, <1>23, <1>24, <1>25, <1>26, <1>27
    DEF Next, OwnerStep, World

(* What Send and BootFails put into the one place of the update channel. *)
Sent    == Update("Running", generation, node, backend, readIn, contents, failing)
Failure == Update("Failed", generation, node, None, <<None, None>>, 0, TRUE)

LEMMA PublishedSteps ==
  ASSUME TypeOK, [Next]_vars, NEW update \in Published'
  PROVE  update \in Published \/ (Send /\ update = Sent) \/ (BootFails /\ update = Failure)
  <1>1. CASE UNCHANGED <<slot, view>>
    BY <1>1 DEF Published
  <1>2. CASE BootFails
    <2>1. slot' = <<Failure>> /\ view' = view
      BY <1>2 DEF BootFails, Failure, uiVars
    <2>. QED BY <1>2, <2>1 DEF Published
  <1>3. CASE Send
    <2>1. slot' = <<Sent>> /\ view' = view
      BY <1>3 DEF Send, Sent, uiVars
    <2>. QED BY <1>3, <2>1 DEF Published
  <1>4. CASE Receive
    <2>1. slot' = <<>> /\ view' = slot[1] /\ 1 \in DOMAIN slot
      BY <1>4, QueueItems DEF Receive, TypeOK
    <2>2. DOMAIN slot' = {}
      BY <2>1, EmptyQueue
    <2>. QED BY <2>1, <2>2 DEF Published
  <1>. QED BY <1>1, <1>2, <1>3, <1>4, WhoPublishes

LEMMA PublishedTypes ==
  ASSUME TypeOK, NEW update \in Published
  PROVE  update \in Updates
  BY DEF TypeOK, Published

-----------------------------------------------------------------------------
(* Every step keeps the node's generation at or above the one read in. *)
LEMMA ReadBetweenIsKept ==
  TypeOK /\ NodeLeads /\ ReadBetween /\ [Next]_vars => ReadBetween'
  <1>. SUFFICES ASSUME TypeOK, NodeLeads, ReadBetween, [Next]_vars PROVE ReadBetween'
    OBVIOUS
  <1>. USE DEF ownerVars, nodeVars, subVars, uiVars, channelVars, vars, Publish,
           ProjectionEnds, ReadBetween
  <1>0. /\ backend \in Nat /\ nodeGeneration \in Nat /\ node \in Nat
        /\ readIn \in Nat \X Nat
    BY DEF TypeOK
  <1>1. CASE HandleEvent
    BY <1>1 DEF HandleEvent
  <1>2. CASE HandleLag
    BY <1>2 DEF HandleLag
  <1>3. CASE AfterLag
    BY <1>3 DEF AfterLag
  <1>4. CASE HandleClosed
    BY <1>4 DEF HandleClosed
  <1>5. CASE AfterClosed
    BY <1>5 DEF AfterClosed
  <1>6. CASE TakeAction
    BY <1>6 DEF TakeAction
  <1>7. CASE Synchronize
    BY <1>7 DEF Synchronize
  <1>8. CASE Edit
    BY <1>8 DEF Edit
  <1>9. CASE Refuse
    BY <1>9 DEF Refuse
  <1>10. CASE Prefer
    BY <1>10 DEF Prefer
  <1>11. CASE ShutDown
    BY <1>11 DEF ShutDown
  <1>12. CASE Boot
    BY <1>12 DEF Boot
  <1>13. CASE BootFails
    BY <1>13 DEF BootFails
  <1>14. CASE Adopt
    BY <1>14 DEF Adopt
  <1>15. CASE ProjectFails
    BY <1>15 DEF ProjectFails
  <1>16. CASE Project
    BY <1>16 DEF Project
  <1>17. CASE ReadContents
    <2>1. backend <= nodeGeneration
      BY <1>17 DEF NodeLeads, OwnerIsNotAhead, ReadContents
    <2>. QED BY <1>17, <1>0, <2>1 DEF ReadContents
  <1>18. CASE Send
    BY <1>18 DEF Send
  <1>19. CASE AnswerExport
    BY <1>19 DEF AnswerExport
  <1>20. CASE NodeChanges
    BY <1>20 DEF NodeChanges
  <1>21. CASE NodeRestarts
    BY <1>21, <1>0 DEF NodeRestarts
  <1>22. CASE NodeAnnounces
    BY <1>22 DEF NodeAnnounces
  <1>23. CASE SubscriptionCloses
    BY <1>23 DEF SubscriptionCloses
  <1>24. CASE Receive
    BY <1>24 DEF Receive
  <1>25. CASE RequestExport
    BY <1>25 DEF RequestExport
  <1>26. ASSUME NEW kind \in Kinds, Tap(kind) PROVE ReadBetween'
    BY <1>26 DEF Tap
  <1>27. CASE UNCHANGED vars
    BY <1>27
  <1>. QED
    BY <1>1, <1>2, <1>3, <1>4, <1>5, <1>6, <1>7, <1>8, <1>9, <1>10, <1>11, <1>12, <1>13, <1>14, <1>15, <1>16, <1>17, <1>18, <1>19, <1>20, <1>21, <1>22, <1>23, <1>24, <1>25, <1>26, <1>27
    DEF Next, OwnerStep, World

(* What Send publishes was read in the generation it is published under. *)
LEMMA SnapshotIsKept ==
  TypeOK /\ ReadBetween /\ SnapshotOfOneGeneration /\ [Next]_vars
    => SnapshotOfOneGeneration'
  <1>. SUFFICES ASSUME TypeOK, ReadBetween, SnapshotOfOneGeneration, [Next]_vars,
                       NEW update \in Published', update.is = "Running"
               PROVE  update.readIn = <<update.node, update.backend>>
    BY DEF SnapshotOfOneGeneration
  <1>1. CASE update \in Published
    BY <1>1 DEF SnapshotOfOneGeneration
  <1>2. CASE Send /\ update = Sent
    <2>1. /\ backend \in Nat /\ readIn \in Nat \X Nat
          /\ readIn[1] = node /\ backend <= readIn[2] /\ readIn[2] <= backend
      BY <1>2 DEF TypeOK, ReadBetween, Send, Verified
    <2>2. readIn = <<node, backend>>
      BY <2>1
    <2>. QED BY <1>2, <2>2 DEF Sent, Update
  <1>3. CASE BootFails /\ update = Failure
    BY <1>3 DEF Failure, Update
  <1>. QED BY <1>1, <1>2, <1>3, PublishedSteps

LEMMA SnapshotHolds ==
  Init => ReadBetween /\ SnapshotOfOneGeneration
  <1>. SUFFICES ASSUME Init PROVE ReadBetween /\ SnapshotOfOneGeneration
    OBVIOUS
  <1>1. DOMAIN slot = {} /\ view.is = "Inspecting"
    BY EmptyQueue DEF Init, Inspecting, Update
  <1>. QED BY <1>1 DEF Init, ReadBetween, SnapshotOfOneGeneration, Published

(* A snapshot is read in the one node generation it is published under,
   although the node moves on between the owner's reads (project):
   SnapshotOfOneGeneration of the run SessionOwner. *)
THEOREM SnapshotsAreOfOneGeneration ==
  Spec => []SnapshotOfOneGeneration
  <1>1. Init => SnapshotInv
    BY TypeHolds, NodeLeadsHolds, SnapshotHolds DEF SnapshotInv
  <1>2. SnapshotInv /\ [Next]_vars => SnapshotInv'
    BY TypeIsKept, NodeLeadsIsKept, ReadBetweenIsKept, SnapshotIsKept DEF SnapshotInv
  <1>3. SnapshotInv => SnapshotOfOneGeneration
    BY DEF SnapshotInv
  <1>. QED BY <1>1, <1>2, <1>3, PTL DEF Spec

-----------------------------------------------------------------------------
(* What names a backend: the generation, the node, its generation. *)
Stays == UNCHANGED <<generation, node, backend>> /\ (pc' \notin {"boot", "adopt", "ended"} \/ pc' = pc)
Moves == generation' = generation + 1
Boots == pc \in {"boot", "adopt"} /\ generation' = generation /\ UNCHANGED <<slot, view, actions>>

LEMMA GenerationSteps ==
  TypeOK /\ [Next]_vars => Stays \/ Moves \/ Boots \/ BootFails
  <1>. SUFFICES ASSUME TypeOK, [Next]_vars PROVE Stays \/ Moves \/ Boots \/ BootFails
    OBVIOUS
  <1>. USE DEF ownerVars, nodeVars, subVars, uiVars, channelVars, vars, Publish,
           ProjectionEnds, Stays, Moves, Boots
  <1>0. backend \in Nat /\ events \in Seq(Nat) /\ observed \in Nat /\ nodeGeneration \in Nat
    BY DEF TypeOK
  <1>1. CASE HandleEvent
    <2>1. Head(events) \in Nat
      BY <1>1, <1>0, QueueOperations DEF HandleEvent
    <2>. QED BY <1>1, <2>1, AdvanceKeeps DEF HandleEvent
  <1>2. CASE HandleLag
    BY <1>2 DEF HandleLag
  <1>3. CASE AfterLag
    BY <1>3, <1>0, AdvanceKeeps DEF AfterLag
  <1>4. CASE HandleClosed
    BY <1>4 DEF HandleClosed
  <1>5. CASE AfterClosed
    BY <1>5, <1>0, AdvanceKeeps DEF AfterClosed
  <1>6. CASE TakeAction
    BY <1>6 DEF TakeAction
  <1>7. CASE Synchronize
    <2>1. pc' \in {"project", "act"} /\ node' = node /\ Advance(observed)
      BY <1>7 DEF Synchronize
    <2>. QED BY <1>0, <2>1, AdvanceKeeps
  <1>8. CASE Edit
    BY <1>8 DEF Edit
  <1>9. CASE Refuse
    BY <1>9 DEF Refuse
  <1>10. CASE Prefer
    BY <1>10 DEF Prefer
  <1>11. CASE ShutDown
    BY <1>11 DEF ShutDown, NextGeneration
  <1>12. CASE Boot
    BY <1>12 DEF Boot
  <1>13. CASE BootFails
    BY <1>13
  <1>14. CASE Adopt
    BY <1>14 DEF Adopt
  <1>15. CASE ProjectFails
    BY <1>15 DEF ProjectFails
  <1>16. CASE Project
    BY <1>16 DEF Project
  <1>17. CASE ReadContents
    BY <1>17 DEF ReadContents
  <1>18. CASE Send
    BY <1>18 DEF Send
  <1>19. CASE AnswerExport
    BY <1>19 DEF AnswerExport
  <1>20. CASE NodeChanges
    BY <1>20 DEF NodeChanges
  <1>21. CASE NodeRestarts
    BY <1>21 DEF NodeRestarts
  <1>22. CASE NodeAnnounces
    BY <1>22 DEF NodeAnnounces
  <1>23. CASE SubscriptionCloses
    BY <1>23 DEF SubscriptionCloses
  <1>24. CASE Receive
    BY <1>24 DEF Receive
  <1>25. CASE RequestExport
    BY <1>25 DEF RequestExport
  <1>26. ASSUME NEW kind \in Kinds, Tap(kind) PROVE Stays
    BY <1>26 DEF Tap
  <1>27. CASE UNCHANGED vars
    BY <1>27
  <1>. QED
    BY <1>1, <1>2, <1>3, <1>4, <1>5, <1>6, <1>7, <1>8, <1>9, <1>10, <1>11, <1>12, <1>13, <1>14, <1>15, <1>16, <1>17, <1>18, <1>19, <1>20, <1>21, <1>22, <1>23, <1>24, <1>25, <1>26, <1>27
    DEF Next, OwnerStep, World

(* An item after a step is one of before, a copy of one, or what Send made. *)
Same(item, one) ==
  item.generation = one.generation /\ item.node = one.node /\ item.backend = one.backend

LEMMA ItemSteps ==
  ASSUME TypeOK, SameOrOlder, [Next]_vars, NEW item \in Items'
  PROVE  \/ \E one \in Items : Same(item, one)
         \/ Send /\ item.generation = generation /\ item.node = node /\ item.backend = backend
  <1>1. CASE item \in Items
    BY <1>1 DEF Same
  <1>2. CASE item \in Running' /\ item \notin Items
    <2>1. item \in Published' /\ item.is = "Running"
      BY <1>2 DEF Running
    <2>2. item \notin Published
      BY <1>2, <2>1 DEF Items, Running
    <2>3. CASE Send /\ item = Sent
      BY <2>3 DEF Sent, Update
    <2>4. CASE BootFails /\ item = Failure
      BY <2>1, <2>4 DEF Failure, Update
    <2>. QED BY <2>1, <2>2, <2>3, <2>4, PublishedSteps
  <1>3. CASE item \in Queued' /\ item \notin Items
    <2>1. CASE actions' = actions
      BY <1>3, <2>1 DEF Queued, Items
    <2>2. CASE TakeAction
      <3>1. /\ actions' = Tail(actions)
            /\ \A i \in DOMAIN Tail(actions) : i + 1 \in DOMAIN actions /\ Tail(actions)[i] = actions[i + 1]
        BY <2>2, QueueItems DEF TakeAction, TypeOK
      <3>. QED BY <1>3, <3>1 DEF Queued, Items
    <2>3. ASSUME NEW kind \in Kinds, Tap(kind)
          PROVE  \E one \in Items : Same(item, one)
      <3>. DEFINE action == [generation |-> view.generation, kind |-> kind,
                             node |-> view.node, backend |-> view.backend]
      <3>1. CASE actions' = actions
        BY <1>3, <3>1 DEF Queued, Items
      <3>2. CASE pc # "ended" /\ actions' = Append(actions, action)
        <4>1. action \in Actions /\ view \in Updates /\ actions \in Seq(Actions)
          BY DEF TypeOK, Actions, Updates
        <4>2. \A i \in DOMAIN Append(actions, action) :
                \/ Append(actions, action)[i] = action
                \/ i \in DOMAIN actions /\ Append(actions, action)[i] = actions[i]
          BY <4>1, QueueItems
        <4>3. item = action
          BY <1>3, <3>2, <4>2 DEF Queued, Items
        <4>4. view.is \notin {"Inspecting", "Failed"}
          BY <2>3, <3>2 DEF Tap, SameOrOlder, Published
        <4>5. view \in Items
          BY <4>1, <4>4 DEF Items, Running, Published, Updates
        <4>. QED BY <4>3, <4>5 DEF Same
      <3>3. actions' = actions \/ (pc # "ended" /\ actions' = Append(actions, action))
        BY <2>3 DEF Tap, TrySend
      <3>. QED BY <3>1, <3>2, <3>3
    <2>. QED BY <2>1, <2>2, <2>3, WhoQueues
  <1>. QED BY <1>1, <1>2, <1>3 DEF Items

LEMMA ItemTypes ==
  ASSUME TypeOK, NEW item \in Items
  PROVE  item.generation \in Nat /\ item.node \in Nat /\ item.backend \in Nat
  <1>1. CASE item \in Running
    BY <1>1, PublishedTypes DEF Running, Updates
  <1>2. CASE item \in Queued
    <2>1. item \in Actions
      BY <1>2 DEF Queued, TypeOK
    <2>. QED BY <2>1 DEF Actions
  <1>. QED BY <1>1, <1>2 DEF Items

(* Every step leaves what carries the owner's generation about its node. *)
LEMMA StampedIsKept ==
  ASSUME TypeOK, SameOrOlder, [Next]_vars, NEW item \in Items'
  PROVE  Stamped(item)'
  <1>. USE DEF Stamped
  <1>0. generation \in Nat
    BY DEF TypeOK
  <1>1. CASE Send /\ item.generation = generation /\ item.node = node /\ item.backend = backend
    BY <1>1, <1>0 DEF Send, ProjectionEnds, nodeVars
  <1>2. CASE \E one \in Items : Same(item, one)
    <2>1. PICK one \in Items : Same(item, one)
      BY <1>2
    <2>2. Stamped(one) /\ one.generation \in Nat
      BY <2>1, ItemTypes DEF SameOrOlder
    <2>3. CASE Stays
      BY <2>1, <2>2, <2>3 DEF Stays, Same
    <2>4. CASE Moves
      BY <2>1, <2>2, <2>4, <1>0 DEF Moves, Same
    <2>5. CASE Boots \/ BootFails
      <3>1. pc \in {"boot", "adopt"} /\ generation' = generation
        BY <2>5 DEF Boots, BootFails, ownerVars
      <3>. QED BY <2>1, <2>2, <3>1, <1>0 DEF Same
    <2>. QED BY <2>3, <2>4, <2>5, GenerationSteps
  <1>. QED BY <1>1, <1>2, ItemSteps

(* The action in hand is about the node the owner holds. *)
LEMMA DoingIsKept ==
  ASSUME TypeOK, SameOrOlder, [Next]_vars, pc' \in {"sync", "act"}
  PROVE  doing'.generation = generation' /\ doing'.node = node' /\ doing'.backend = backend'
  <1>. DEFINE Goal == doing'.generation = generation' /\ doing'.node = node' /\ doing'.backend = backend'
  <1>. USE DEF ownerVars, nodeVars, subVars, uiVars, channelVars, vars, Publish, ProjectionEnds
  <1>0. pc \in {"sync", "act"} =>
          doing.generation = generation /\ doing.node = node /\ doing.backend = backend
    BY DEF SameOrOlder
  <1>1. CASE HandleEvent
    BY <1>1, <1>0 DEF HandleEvent
  <1>2. CASE HandleLag
    BY <1>2, <1>0 DEF HandleLag
  <1>3. CASE AfterLag
    BY <1>3, <1>0 DEF AfterLag
  <1>4. CASE HandleClosed
    BY <1>4, <1>0 DEF HandleClosed
  <1>5. CASE AfterClosed
    BY <1>5, <1>0 DEF AfterClosed
  <1>6. CASE TakeAction
    <2>1. pc' = "sync" /\ Current(Head(actions)) /\ doing' = Head(actions)
      BY <1>6 DEF TakeAction
    <2>2. Head(actions) \in Items
      BY <1>6, QueueItems DEF TakeAction, TypeOK, Items, Queued
    <2>3. Stamped(Head(actions)) /\ Head(actions).generation = generation
      BY <2>1, <2>2 DEF SameOrOlder, Current
    <2>. QED BY <1>6, <2>1, <2>3 DEF TakeAction, Stamped
  <1>7. CASE Synchronize
    <2>1. ~Advances(observed)
      BY <1>7 DEF Synchronize
    <2>. QED BY <1>7, <1>0, <2>1 DEF Synchronize, Advance
  <1>8. CASE Edit
    BY <1>8, <1>0 DEF Edit
  <1>9. CASE Refuse
    BY <1>9, <1>0 DEF Refuse
  <1>10. CASE Prefer
    BY <1>10, <1>0 DEF Prefer
  <1>11. CASE ShutDown
    BY <1>11, <1>0 DEF ShutDown
  <1>12. CASE Boot
    BY <1>12, <1>0 DEF Boot
  <1>13. CASE BootFails
    BY <1>13, <1>0 DEF BootFails
  <1>14. CASE Adopt
    BY <1>14, <1>0 DEF Adopt
  <1>15. CASE ProjectFails
    BY <1>15, <1>0 DEF ProjectFails
  <1>16. CASE Project
    BY <1>16, <1>0 DEF Project
  <1>17. CASE ReadContents
    BY <1>17, <1>0 DEF ReadContents
  <1>18. CASE Send
    BY <1>18, <1>0 DEF Send
  <1>19. CASE AnswerExport
    BY <1>19, <1>0 DEF AnswerExport
  <1>20. CASE NodeChanges
    BY <1>20, <1>0 DEF NodeChanges
  <1>21. CASE NodeRestarts
    BY <1>21, <1>0 DEF NodeRestarts
  <1>22. CASE NodeAnnounces
    BY <1>22, <1>0 DEF NodeAnnounces
  <1>23. CASE SubscriptionCloses
    BY <1>23, <1>0 DEF SubscriptionCloses
  <1>24. CASE Receive
    BY <1>24, <1>0 DEF Receive
  <1>25. CASE RequestExport
    BY <1>25, <1>0 DEF RequestExport
  <1>26. ASSUME NEW kind \in Kinds, Tap(kind) PROVE Goal
    BY <1>26, <1>0 DEF Tap
  <1>27. CASE UNCHANGED vars
    BY <1>27, <1>0
  <1>. QED
    BY <1>1, <1>2, <1>3, <1>4, <1>5, <1>6, <1>7, <1>8, <1>9, <1>10, <1>11, <1>12, <1>13, <1>14, <1>15, <1>16, <1>17, <1>18, <1>19, <1>20, <1>21, <1>22, <1>23, <1>24, <1>25, <1>26, <1>27
    DEF Next, OwnerStep, World

(* Only a session that has ended publishes a failure. *)
LEMMA RunningIsKept ==
  ASSUME TypeOK, SameOrOlder, [Next]_vars, pc' # "ended", NEW update \in Published'
  PROVE  update.is # "Failed"
  <1>1. pc # "ended"
    <2>. SUFFICES ASSUME pc = "ended" PROVE FALSE
      OBVIOUS
    <2>. USE DEF ownerVars, nodeVars, subVars, uiVars, channelVars, vars, Publish, ProjectionEnds
    <2>1. ~OwnerStep
      BY DEF OwnerStep, HandleEvent, HandleLag, AfterLag, HandleClosed, AfterClosed, TakeAction,
             Synchronize, Edit, Refuse, Prefer, ShutDown, Boot, BootFails, Adopt, ProjectFails,
             Project, ReadContents, Send, AnswerExport
    <2>2. World => pc' = pc
      BY DEF World, NodeChanges, NodeRestarts, NodeAnnounces, SubscriptionCloses, Receive,
             RequestExport, Tap
    <2>. QED BY <2>1, <2>2 DEF Next
  <1>2. CASE update \in Published
    BY <1>1, <1>2 DEF SameOrOlder
  <1>3. CASE Send /\ update = Sent
    BY <1>3 DEF Sent, Update
  <1>4. CASE BootFails
    BY <1>4 DEF BootFails
  <1>. QED BY <1>2, <1>3, <1>4, PublishedSteps

(* Every step keeps a generation naming one backend. *)
LEMMA SameOrOlderIsKept ==
  TypeOK /\ SameOrOlder /\ [Next]_vars => SameOrOlder'
  <1>. SUFFICES ASSUME TypeOK, SameOrOlder, [Next]_vars PROVE SameOrOlder'
    OBVIOUS
  <1>1. \A item \in Items' : Stamped(item)'
    BY StampedIsKept
  <1>2. ASSUME NEW one \in Items', NEW other \in Items', one.generation = other.generation
        PROVE  one.node = other.node /\ one.backend = other.backend
    <2>1. CASE Send
      <3>1. \A item \in Items' : \/ \E old \in Items : Same(item, old)
                                 \/ item.generation = generation /\ item.node = node /\ item.backend = backend
        BY ItemSteps
      <3>2. \A item \in Items' : item.generation = generation => item.node = node /\ item.backend = backend
        BY <3>1 DEF Same, SameOrOlder, Stamped
      <3>3. CASE one.generation = generation
        BY <1>2, <3>2, <3>3
      <3>4. CASE one.generation # generation
        BY <1>2, <3>1, <3>4 DEF Same, SameOrOlder
      <3>. QED BY <3>3, <3>4
    <2>2. CASE ~Send
      <3>1. \A item \in Items' : \E old \in Items : Same(item, old)
        BY <2>2, ItemSteps
      <3>. QED BY <1>2, <3>1 DEF Same, SameOrOlder
    <2>. QED BY <2>1, <2>2
  <1>3. pc' \in {"sync", "act"} =>
          doing'.generation = generation' /\ doing'.node = node' /\ doing'.backend = backend'
    BY DoingIsKept
  <1>4. pc' # "ended" => \A update \in Published' : update.is # "Failed"
    BY RunningIsKept
  <1>. QED BY <1>1, <1>2, <1>3, <1>4 DEF SameOrOlder

LEMMA SameOrOlderHolds ==
  Init => SameOrOlder
  <1>. SUFFICES ASSUME Init PROVE SameOrOlder
    OBVIOUS
  <1>1. DOMAIN slot = {} /\ DOMAIN actions = {} /\ view.is = "Inspecting" /\ pc = "adopt"
    BY EmptyQueue DEF Init, Inspecting, Update
  <1>2. Items = {} /\ \A update \in Published : update.is = "Inspecting"
    BY <1>1 DEF Items, Running, Queued, Published
  <1>. QED BY <1>1, <1>2 DEF SameOrOlder

(* A generation is never reused: what carries the same one is about the same
   node in the same backend generation (advance_generation_if_changed,
   ApplyEndpoint): GenerationNamesBackend of the run SessionOwner. *)
THEOREM GenerationsNameBackends ==
  Spec => []GenerationNamesBackend
  <1>1. SameOrOlder => GenerationNamesBackend
    BY DEF SameOrOlder, GenerationNamesBackend, Items, Running, Queued
  <1>. QED
    BY <1>1, TypeHolds, TypeIsKept, SameOrOlderHolds, SameOrOlderIsKept, PTL DEF Spec

(* An action is carried out on the node, and under the backend generation, the
   operator saw when issuing it, whatever happened to the node and however long
   the action waited (handle_action): ActsOnWhatWasShown of the run
   SessionOwner. *)
THEOREM ActionsActOnWhatWasShown ==
  Spec => []ActsOnWhatWasShown
  <1>1. SameOrOlder => ActsOnWhatWasShown
    BY DEF SameOrOlder, ActsOnWhatWasShown
  <1>. QED
    BY <1>1, TypeHolds, TypeIsKept, SameOrOlderHolds, SameOrOlderIsKept, PTL DEF Spec

-----------------------------------------------------------------------------
(* Nothing the owner knows goes back: not its generation, not what the nodes
   store, not what the projection in progress has read of it. *)
LEMMA KnowledgeGrows ==
  TypeOK /\ [Next]_vars =>
    /\ generation' >= generation /\ changes' >= changes
    /\ pc' = "verify" => \/ pc = "verify" /\ contents' = contents
                         \/ contents' = changes /\ changes' = changes /\ pc = "read" /\ UNCHANGED <<slot, view>>
  <1>. DEFINE Goal ==
         /\ generation' >= generation /\ changes' >= changes
         /\ pc' = "verify" => \/ pc = "verify" /\ contents' = contents
                              \/ contents' = changes /\ changes' = changes /\ pc = "read" /\ UNCHANGED <<slot, view>>
  <1>. SUFFICES ASSUME TypeOK, [Next]_vars PROVE Goal
    OBVIOUS
  <1>. USE DEF ownerVars, nodeVars, subVars, uiVars, channelVars, vars, Publish, ProjectionEnds
  <1>0. /\ generation \in Nat /\ changes \in Nat /\ observed \in Nat /\ nodeGeneration \in Nat
        /\ events \in Seq(Nat)
    BY DEF TypeOK
  <1>1. CASE HandleEvent
    <2>1. Head(events) \in Nat
      BY <1>1, <1>0, QueueOperations DEF HandleEvent
    <2>2. generation' >= generation
      BY <1>1, <1>0, <2>1, AdvanceKeeps DEF HandleEvent
    <2>. QED BY <1>1, <1>0, <2>2 DEF HandleEvent
  <1>2. CASE HandleLag
    BY <1>2, <1>0 DEF HandleLag
  <1>3. CASE AfterLag
    <2>1. generation' >= generation
      BY <1>3, <1>0, AdvanceKeeps DEF AfterLag
    <2>. QED BY <1>3, <1>0, <2>1 DEF AfterLag
  <1>4. CASE HandleClosed
    BY <1>4, <1>0 DEF HandleClosed
  <1>5. CASE AfterClosed
    <2>1. generation' >= generation
      BY <1>5, <1>0, AdvanceKeeps DEF AfterClosed
    <2>. QED BY <1>5, <1>0, <2>1 DEF AfterClosed
  <1>6. CASE TakeAction
    BY <1>6, <1>0 DEF TakeAction
  <1>7. CASE Synchronize
    <2>1. generation' >= generation
      BY <1>7, <1>0, AdvanceKeeps DEF Synchronize
    <2>2. pc' \in {"project", "act"} /\ changes' = changes
      BY <1>7 DEF Synchronize
    <2>. QED BY <1>0, <2>1, <2>2
  <1>8. CASE Edit
    BY <1>8, <1>0 DEF Edit
  <1>9. CASE Refuse
    BY <1>9, <1>0 DEF Refuse
  <1>10. CASE Prefer
    BY <1>10, <1>0 DEF Prefer
  <1>11. CASE ShutDown
    BY <1>11, <1>0 DEF ShutDown, NextGeneration
  <1>12. CASE Boot
    BY <1>12, <1>0 DEF Boot
  <1>13. CASE BootFails
    BY <1>13, <1>0 DEF BootFails
  <1>14. CASE Adopt
    BY <1>14, <1>0 DEF Adopt
  <1>15. CASE ProjectFails
    BY <1>15, <1>0 DEF ProjectFails
  <1>16. CASE Project
    BY <1>16, <1>0 DEF Project
  <1>17. CASE ReadContents
    BY <1>17, <1>0 DEF ReadContents
  <1>18. CASE Send
    BY <1>18, <1>0 DEF Send
  <1>19. CASE AnswerExport
    BY <1>19, <1>0 DEF AnswerExport
  <1>20. CASE NodeChanges
    BY <1>20, <1>0 DEF NodeChanges
  <1>21. CASE NodeRestarts
    BY <1>21, <1>0 DEF NodeRestarts
  <1>22. CASE NodeAnnounces
    BY <1>22, <1>0 DEF NodeAnnounces
  <1>23. CASE SubscriptionCloses
    BY <1>23, <1>0 DEF SubscriptionCloses
  <1>24. CASE Receive
    BY <1>24, <1>0 DEF Receive
  <1>25. CASE RequestExport
    BY <1>25, <1>0 DEF RequestExport
  <1>26. ASSUME NEW kind \in Kinds, Tap(kind) PROVE Goal
    BY <1>26, <1>0 DEF Tap
  <1>27. CASE UNCHANGED vars
    BY <1>27, <1>0
  <1>. QED
    BY <1>1, <1>2, <1>3, <1>4, <1>5, <1>6, <1>7, <1>8, <1>9, <1>10, <1>11, <1>12, <1>13, <1>14, <1>15, <1>16, <1>17, <1>18, <1>19, <1>20, <1>21, <1>22, <1>23, <1>24, <1>25, <1>26, <1>27
    DEF Next, OwnerStep, World

(* Every step keeps what is published no newer than what the owner knows. *)
LEMMA NotNewerIsKept ==
  TypeOK /\ SameOrOlder /\ NotNewer /\ [Next]_vars => NotNewer'
  <1>. SUFFICES ASSUME TypeOK, SameOrOlder, NotNewer, [Next]_vars PROVE NotNewer'
    OBVIOUS
  <1>0. /\ generation \in Nat /\ changes \in Nat /\ contents \in Nat
        /\ generation' \in Nat /\ changes' \in Nat /\ contents' \in Nat
        /\ generation' >= generation /\ changes' >= changes
    BY TypeIsKept, KnowledgeGrows DEF TypeOK
  <1>1. ASSUME NEW update \in Published'
        PROVE  /\ update.generation <= generation' /\ update.contents <= changes'
               /\ pc' = "verify" => update.contents <= contents'
    <2>1. CASE update \in Published
      <3>1. /\ update.generation \in Nat /\ update.contents \in Nat
            /\ update.generation <= generation /\ update.contents <= changes
            /\ pc = "verify" => update.contents <= contents
        BY <2>1, PublishedTypes DEF NotNewer, Updates
      <3>. QED BY <1>0, <3>1, KnowledgeGrows
    <2>2. CASE Send /\ update = Sent
      <3>1. update.generation = generation /\ update.contents = contents
        BY <2>2 DEF Sent, Update
      <3>2. contents <= changes /\ pc' = "idle"
        BY <2>2 DEF NotNewer, Send, ProjectionEnds
      <3>. QED BY <1>0, <3>1, <3>2
    <2>3. CASE BootFails /\ update = Failure
      <3>1. update.generation = generation /\ update.contents = 0 /\ pc' = "ended"
        BY <2>3 DEF Failure, Update, BootFails
      <3>. QED BY <1>0, <3>1
    <2>. QED BY <2>1, <2>2, <2>3, PublishedSteps
  <1>2. pc' = "verify" => contents' <= changes'
    BY <1>0, KnowledgeGrows DEF NotNewer
  <1>3. slot' # <<>> => /\ slot'[1].generation >= view'.generation
                        /\ slot'[1].is = "Running" => slot'[1].contents >= view'.contents
    <2>1. CASE UNCHANGED <<slot, view>>
      BY <2>1 DEF NotNewer
    <2>2. CASE Receive
      BY <2>2 DEF Receive
    <2>3. CASE Send
      <3>1. /\ slot'[1].generation = generation /\ slot'[1].contents = contents
            /\ view' = view /\ pc = "verify"
        BY <2>3 DEF Send, Update, uiVars
      <3>2. /\ view.generation <= generation /\ view.contents <= contents
            /\ view.generation \in Nat /\ view.contents \in Nat
        BY <3>1 DEF NotNewer, Published, TypeOK, Updates
      <3>. QED BY <1>0, <3>1, <3>2
    <2>4. CASE BootFails
      <3>1. slot'[1].generation = generation /\ slot'[1].is = "Failed" /\ view' = view
        BY <2>4 DEF BootFails, Update, uiVars
      <3>2. view.generation <= generation /\ view.generation \in Nat
        BY DEF NotNewer, Published, TypeOK, Updates
      <3>. QED BY <1>0, <3>1, <3>2
    <2>. QED BY <2>1, <2>2, <2>3, <2>4, WhoPublishes
  <1>. QED BY <1>1, <1>2, <1>3 DEF NotNewer

LEMMA NotNewerHolds ==
  Init => NotNewer
  <1>. SUFFICES ASSUME Init PROVE NotNewer
    OBVIOUS
  <1>1. /\ slot = <<>> /\ DOMAIN slot = {} /\ pc = "adopt" /\ generation = 1 /\ changes = 0
        /\ view.generation = 0 /\ view.contents = 0
    BY EmptyQueue DEF Init, Inspecting, Update, None
  <1>2. Published = {view}
    BY <1>1 DEF Published
  <1>. QED BY <1>1, <1>2 DEF NotNewer

(* The interface never goes back to an older generation or to older contents,
   although updates displace each other on the way to it (publish_snapshot):
   ViewNeverGoesBack of the run SessionOwner. *)
THEOREM ViewsNeverGoBack ==
  Spec => ViewNeverGoesBack
  <1>1. TypeOK /\ NotNewer /\ [Next]_vars =>
         [view'.generation >= view.generation
          /\ (view'.is = "Running" => view'.contents >= view.contents)]_view
    <2>. SUFFICES ASSUME TypeOK, NotNewer, [Next]_vars, view' # view
                 PROVE  /\ view'.generation >= view.generation
                        /\ view'.is = "Running" => view'.contents >= view.contents
      BY Zenon
    <2>1. Receive
      BY WhoPublishes DEF BootFails, Send, uiVars
    <2>2. slot # <<>> /\ view' = slot[1]
      BY <2>1, QueueItems DEF Receive, TypeOK
    <2>. QED BY <2>2 DEF NotNewer
  <1>2. Init => TypeOK /\ SameOrOlder /\ NotNewer
    BY TypeHolds, SameOrOlderHolds, NotNewerHolds
  <1>3. TypeOK /\ SameOrOlder /\ NotNewer /\ [Next]_vars => TypeOK' /\ SameOrOlder' /\ NotNewer'
    BY TypeIsKept, SameOrOlderIsKept, NotNewerIsKept
  <1>. QED BY <1>1, <1>2, <1>3, PTL DEF Spec, ViewNeverGoesBack
-----------------------------------------------------------------------------
(* The events of the platform. *)

Snapshots == [generation : Nat \ {0}, sequence : Nat, geometry : Nat, rest : Nat, native : Nat]
Messages ==
  [kind : {"geometry", "accessibility", "resync"}, dropped : BOOLEAN, generation : Nat \ {0},
   sequence : Nat, geometry : Nat, rest : Nat]

FactsTyped ==
  /\ facts \in [geometry : Nat, rest : Nat, native : Nat]
  /\ due \subseteq {"geometry", "accessibility", "resync"}
  /\ page \in [generation : Nat, sequence : Nat, inFlight : BOOLEAN, acked : BOOLEAN,
               pending : {"geometry", "accessibility", "resync", NoKind}, dropped : BOOLEAN]
  /\ Heard => page.generation # 0
  /\ message \in Messages \cup {Nothing}
  /\ {held, reading, visible} \subseteq Snapshots \cup {Nothing}

(* A message is of the script that is subscribed, and of no later round. *)
SentByPage ==
  message # Nothing => message.generation = page.generation /\ message.sequence <= page.sequence

(* A message that counts further than a snapshot was sent after it was taken. *)
SentAfter(snapshot) ==
  (/\ snapshot # Nothing /\ message # Nothing
   /\ message.generation = snapshot.generation /\ message.sequence > snapshot.sequence)
  => message.geometry >= snapshot.geometry

(* No fact is known that does not hold yet. *)
Known(snapshot) ==
  snapshot # Nothing =>
    /\ snapshot.geometry <= facts.geometry /\ snapshot.rest <= facts.rest
    /\ snapshot.native <= facts.native

(* What is held is what is shown, and what was read since is no older. *)
ShowsHeld ==
  /\ held # Nothing => visible = held
  /\ task = "enrich" => /\ reading # Nothing /\ reading.native = Unread
                        /\ visible # Nothing => /\ reading.geometry >= visible.geometry
                                                /\ reading.rest >= visible.rest

FactsInv ==
  /\ FactsTyped /\ SentByPage /\ ShowsHeld
  /\ SentAfter(held) /\ SentAfter(reading)
  /\ Known(visible) /\ Known(reading)
  /\ message # Nothing => message.geometry <= facts.geometry

-----------------------------------------------------------------------------
LEMMA SendingKeepsFacts ==
  ASSUME FactsInv, NEW kind \in {"geometry", "accessibility", "resync"},
         NEW from \in [generation : Nat \ {0}, sequence : Nat, inFlight : BOOLEAN, acked : BOOLEAN,
                       pending : {"geometry", "accessibility", "resync", NoKind},
                       dropped : BOOLEAN],
         Sends(kind, from), UNCHANGED <<facts, state>>, task' # "enrich" \/ task' = task,
         due' \subseteq due
  PROVE  FactsInv'
  <1>1. /\ message' \in Messages /\ message' # Nothing
        /\ message'.generation = from.generation /\ message'.sequence = from.sequence + 1
        /\ message'.geometry = facts.geometry
    BY DEF FactsInv, FactsTyped, Sends, Message, Messages, Nothing
  <1>2. /\ page' \in [generation : Nat, sequence : Nat, inFlight : BOOLEAN, acked : BOOLEAN,
                      pending : {"geometry", "accessibility", "resync", NoKind},
                      dropped : BOOLEAN]
        /\ page'.generation = from.generation /\ page'.sequence = from.sequence + 1
        /\ page'.generation # 0
    <2>1. page' = [from EXCEPT !.sequence = @ + 1, !.inFlight = TRUE, !.acked = FALSE,
                               !.pending = NoKind, !.dropped = FALSE]
      BY DEF Sends
    <2>2. page' = [generation |-> from.generation, sequence |-> from.sequence + 1,
                   inFlight |-> TRUE, acked |-> FALSE, pending |-> NoKind, dropped |-> FALSE]
      BY <2>1
    <2>3. from.sequence + 1 \in Nat /\ from.generation \in Nat \ {0}
      OBVIOUS
    <2>. QED BY <2>2, <2>3
  <1>3. FactsTyped'
    BY <1>1, <1>2 DEF FactsInv, FactsTyped, state
  <1>4. SentByPage'
    BY <1>1, <1>2 DEF SentByPage
  <1>5. ShowsHeld'
    <2>1. UNCHANGED <<held, visible, reading>>
      BY DEF state
    <2>. QED BY <2>1 DEF FactsInv, ShowsHeld
  <1>6. SentAfter(held)' /\ SentAfter(reading)'
    <2>1. ASSUME NEW snapshot \in {held, reading}, snapshot # Nothing
          PROVE  snapshot.geometry <= facts.geometry
      BY <2>1 DEF FactsInv, ShowsHeld, Known
    <2>. QED BY <1>1, <2>1 DEF SentAfter, state
  <1>7. Known(visible)' /\ Known(reading)'
    BY DEF FactsInv, Known, state
  <1>8. message'.geometry <= facts'.geometry
    BY <1>1 DEF FactsInv, FactsTyped
  <1>. QED BY <1>3, <1>4, <1>5, <1>6, <1>7, <1>8 DEF FactsInv

LEMMA WorldKeepsFacts ==
  ASSUME FactsInv, WebChanges \/ NativeChanges
  PROVE  FactsInv'
  <1>1. /\ facts' \in [geometry : Nat, rest : Nat, native : Nat]
        /\ facts'.geometry >= facts.geometry /\ facts'.rest >= facts.rest
        /\ facts'.native >= facts.native
        /\ due' \subseteq {"geometry", "accessibility", "resync"}
    <2>1. CASE WebChanges
      <3>1. PICK f \in {"geometry", "rest"} :
              /\ facts' = [facts EXCEPT ![f] = @ + 1]
              /\ \E kind \in Listener[f] : due' = due \cup {kind}
        BY <2>1 DEF WebChanges
      <3>2. Listener[f] \subseteq {"geometry", "accessibility", "resync"}
        BY DEF Listener
      <3>3. due' \subseteq {"geometry", "accessibility", "resync"}
        BY <3>1, <3>2 DEF FactsInv, FactsTyped
      <3>4. CASE f = "geometry"
        BY <3>1, <3>3, <3>4 DEF FactsInv, FactsTyped
      <3>5. CASE f = "rest"
        BY <3>1, <3>3, <3>5 DEF FactsInv, FactsTyped
      <3>. QED BY <3>1, <3>4, <3>5
    <2>2. CASE NativeChanges
      BY <2>2 DEF FactsInv, FactsTyped, NativeChanges
    <2>. QED BY <2>1, <2>2
  <1>2. UNCHANGED <<script, task, state>>
    BY DEF WebChanges, NativeChanges
  <1>3. FactsTyped'
    BY <1>1, <1>2 DEF FactsInv, FactsTyped, script, state, Heard
  <1>4. SentByPage' /\ ShowsHeld' /\ SentAfter(held)' /\ SentAfter(reading)'
    BY <1>2 DEF FactsInv, SentByPage, ShowsHeld, SentAfter, script, state
  <1>5. Known(visible)' /\ Known(reading)'
    <2>1. ASSUME NEW snapshot \in {visible, reading}, Known(snapshot), snapshot # Nothing
          PROVE  /\ snapshot.geometry <= facts'.geometry /\ snapshot.rest <= facts'.rest
                 /\ snapshot.native <= facts'.native
      BY <1>1, <2>1 DEF FactsInv, FactsTyped, Known, Snapshots
    <2>. QED BY <1>2, <2>1 DEF FactsInv, Known, state
  <1>6. message' # Nothing => message'.geometry <= facts'.geometry
    BY <1>1, <1>2 DEF FactsInv, FactsTyped, Messages, script
  <1>. QED BY <1>3, <1>4, <1>5, <1>6 DEF FactsInv

LEMMA ScriptKeepsFacts ==
  ASSUME FactsInv, ScriptStep
  PROVE  FactsInv'
  <1>. USE DEF FactsInv
  <1>1. CASE PageSubscribes
    <2>. DEFINE from == [generation |-> page.generation + 1, sequence |-> 0, inFlight |-> FALSE,
                         acked |-> FALSE, pending |-> NoKind, dropped |-> FALSE]
    <2>1. /\ from.generation = page.generation + 1
          /\ from \in [generation : Nat \ {0}, sequence : Nat, inFlight : BOOLEAN,
                       acked : BOOLEAN,
                       pending : {"geometry", "accessibility", "resync", NoKind},
                       dropped : BOOLEAN]
      BY DEF FactsTyped
    <2>2. Sends("resync", from) /\ UNCHANGED <<facts, due, state>> /\ task' = "next"
      BY <1>1 DEF PageSubscribes, world
    <2>. HIDE DEF from
    <2>. QED BY <2>1, <2>2, SendingKeepsFacts
  <1>2. CASE Acknowledged
    <2>1. UNCHANGED <<facts, due, state, task>> /\ page.generation # 0
      BY <1>2 DEF Acknowledged, world, FactsTyped
    <2>2. CASE page.pending # NoKind
      <3>1. Sends(page.pending, page)
        BY <1>2, <2>2 DEF Acknowledged
      <3>2. /\ page.pending \in {"geometry", "accessibility", "resync"}
            /\ page \in [generation : Nat \ {0}, sequence : Nat, inFlight : BOOLEAN,
                         acked : BOOLEAN,
                         pending : {"geometry", "accessibility", "resync", NoKind},
                         dropped : BOOLEAN]
        BY <2>1, <2>2 DEF FactsTyped
      <3>. QED BY <2>1, <3>1, <3>2, SendingKeepsFacts
    <2>3. CASE page.pending = NoKind
      <3>1. page' = [page EXCEPT !.inFlight = FALSE, !.acked = FALSE] /\ UNCHANGED message
        BY <1>2, <2>3 DEF Acknowledged
      <3>. QED BY <2>1, <3>1
               DEF FactsTyped, SentByPage, ShowsHeld, SentAfter, Known, state, Heard
    <2>. QED BY <2>2, <2>3
  <1>3. CASE \E kind \in due : PublishEvent(kind)
    <2>1. PICK kind \in due : PublishEvent(kind)
      BY <1>3
    <2>2. /\ UNCHANGED <<facts, state, task>> /\ due' \subseteq due
          /\ kind \in {"geometry", "accessibility", "resync"}
      BY <2>1 DEF PublishEvent, FactsTyped
    <2>3. CASE ~Heard
      BY <2>1, <2>2, <2>3
         DEF PublishEvent, FactsTyped, SentByPage, ShowsHeld, SentAfter, Known, script, state, Heard
    <2>4. CASE Heard /\ page.inFlight
      <3>1. page' = Merges(kind) /\ UNCHANGED message
        BY <2>1, <2>4 DEF PublishEvent
      <3>2. /\ page' \in [generation : Nat, sequence : Nat, inFlight : BOOLEAN, acked : BOOLEAN,
                          pending : {"geometry", "accessibility", "resync", NoKind},
                          dropped : BOOLEAN]
            /\ page'.generation = page.generation /\ page'.sequence = page.sequence
        BY <2>2, <3>1 DEF Merges, FactsTyped
      <3>. QED BY <2>2, <2>4, <3>1, <3>2
               DEF FactsTyped, SentByPage, ShowsHeld, SentAfter, Known, state, Heard
    <2>5. CASE Heard /\ ~page.inFlight
      <3>1. Sends(kind, page)
        BY <2>1, <2>5 DEF PublishEvent
      <3>2. page \in [generation : Nat \ {0}, sequence : Nat, inFlight : BOOLEAN,
                      acked : BOOLEAN,
                      pending : {"geometry", "accessibility", "resync", NoKind},
                      dropped : BOOLEAN]
        BY <2>5 DEF FactsTyped
      <3>. QED BY <2>2, <3>1, <3>2, SendingKeepsFacts
    <2>. QED BY <2>3, <2>4, <2>5
  <1>. QED BY <1>1, <1>2, <1>3 DEF ScriptStep

(* What a message brings to the state that is held. *)
LEMMA AppliesNewer ==
  ASSUME FactsInv, message # Nothing, held # Nothing
  PROVE  LET applied == ApplyChanged(message) IN
         /\ applied \in Snapshots /\ applied # Nothing
         /\ applied.geometry >= held.geometry /\ applied.rest = held.rest
         /\ applied.native = held.native /\ applied.geometry <= facts.geometry
         /\ applied.generation = held.generation
  <1>1. /\ message \in Messages /\ held \in Snapshots /\ facts.geometry \in Nat
        /\ held.geometry <= facts.geometry /\ message.geometry <= facts.geometry
    BY DEF FactsInv, FactsTyped, ShowsHeld, Known
  <1>2. Newer(message) => message.geometry >= held.geometry
    BY DEF FactsInv, SentAfter, Newer
  <1>3. CASE Newer(message)
    <2>1. /\ ApplyChanged(message) = [held EXCEPT !.sequence = message.sequence,
                                                  !.geometry = message.geometry]
      BY <1>3 DEF ApplyChanged
    <2>. QED BY <1>1, <1>2, <1>3, <2>1 DEF Snapshots, Messages, Nothing
  <1>4. CASE ~Newer(message)
    BY <1>1, <1>4 DEF ApplyChanged, Snapshots
  <1>. QED BY <1>3, <1>4

(* The facts shown are not older than those shown before. *)
NotOlder ==
  visible # Nothing =>
    /\ visible'.geometry >= visible.geometry /\ visible'.rest >= visible.rest
    /\ visible'.native = Unread \/ visible'.native >= visible.native

LEMMA MessageKeepsFacts ==
  ASSUME FactsInv, TakeMessage
  PROVE  FactsInv' /\ NotOlder
  <1>. DEFINE applied == ApplyChanged(message)
  <1>1. /\ task = "next" /\ message # Nothing /\ message' = Nothing
        /\ page' = [page EXCEPT !.acked = TRUE] /\ UNCHANGED world
    BY DEF TakeMessage
  <1>2. /\ page' \in [generation : Nat, sequence : Nat, inFlight : BOOLEAN, acked : BOOLEAN,
                      pending : {"geometry", "accessibility", "resync", NoKind},
                      dropped : BOOLEAN]
        /\ page'.generation # 0
    BY <1>1 DEF FactsInv, FactsTyped, Heard
  <1>3. /\ reading' = reading
        /\ \/ held' = held /\ task' = "read" /\ visible' = visible
           \/ held' = held /\ held # Nothing /\ visible' = held /\ task' = task
           \/ held' = applied /\ held # Nothing /\ visible' = applied /\ task' = task
    BY <1>1 DEF TakeMessage, AfterEvent
  <1>4. held # Nothing => visible = held
    BY DEF FactsInv, ShowsHeld
  <1>5. CASE held' = held /\ visible' = visible /\ task' # "enrich"
    BY <1>1, <1>2, <1>3, <1>5
       DEF FactsInv, FactsTyped, SentByPage, ShowsHeld, SentAfter, Known, NotOlder, world, Snapshots
  <1>6. CASE held' = applied /\ held # Nothing /\ visible' = applied /\ task' = task
    <2>1. /\ applied \in Snapshots /\ applied # Nothing
          /\ applied.geometry >= held.geometry /\ applied.rest = held.rest
          /\ applied.native = held.native /\ applied.geometry <= facts.geometry
      BY <1>1, <1>6, AppliesNewer
    <2>. HIDE DEF applied
    <2>. QED BY <1>1, <1>2, <1>3, <1>4, <1>6, <2>1
             DEF FactsInv, FactsTyped, SentByPage, ShowsHeld, SentAfter, Known, NotOlder, world,
                 Snapshots
  <1>. QED BY <1>1, <1>3, <1>4, <1>5, <1>6

LEMMA TaskKeepsFacts ==
  ASSUME FactsInv, TaskStep \/ StreamEnds
  PROVE  FactsInv' /\ NotOlder
  <1>1. CASE SubscribePlatform
    <2>1. visible = Nothing \/ visible \in Snapshots
      BY DEF FactsInv, FactsTyped
    <2>. QED BY <1>1, <2>1
             DEF SubscribePlatform, FactsInv, FactsTyped, SentByPage, ShowsHeld, SentAfter, Known,
                 NotOlder, world, script, Snapshots, Heard
  <1>2. CASE TakeMessage
    BY <1>2, MessageKeepsFacts
  <1>3. CASE TakeSignal
    <2>1. UNCHANGED <<world, script, held, reading, visible>> /\ task' \in {task, "read"}
          /\ task = "next"
      BY <1>3 DEF TakeSignal, AfterEvent, state
    <2>. QED BY <2>1
             DEF FactsInv, FactsTyped, SentByPage, ShowsHeld, SentAfter, Known, NotOlder, world,
                 script, Snapshots, Heard
  <1>4. CASE ReadPage
    <2>1. UNCHANGED <<world, script, held, visible>> /\ task = "read"
      BY <1>4 DEF ReadPage
    <2>2. CASE task' = "next" /\ reading' = reading
      BY <2>1, <2>2
         DEF FactsInv, FactsTyped, SentByPage, ShowsHeld, SentAfter, Known, NotOlder, world,
             script, Snapshots, Heard
    <2>3. CASE task' = "enrich" /\ reading' = PageSnapshot
      <3>1. /\ reading' \in Snapshots /\ reading' # Nothing
            /\ reading'.generation = page.generation /\ reading'.sequence = page.sequence
            /\ reading'.geometry = facts.geometry /\ reading'.rest = facts.rest
            /\ reading'.native = Unread
        BY <2>1, <2>3
           DEF PageSnapshot, Snapshots, FactsInv, FactsTyped, Heard, Unread, Nothing
      <3>2. FactsTyped' /\ SentByPage' /\ SentAfter(held)' /\ Known(visible)'
        BY <2>1, <2>3, <3>1
           DEF FactsInv, FactsTyped, SentByPage, SentAfter, Known, world, script, Heard
      <3>3. ShowsHeld'
        <4>1. held # Nothing => visible = held
          BY DEF FactsInv, ShowsHeld
        <4>2. visible # Nothing => visible.geometry <= facts.geometry /\ visible.rest <= facts.rest
          BY DEF FactsInv, Known
        <4>3. visible' = visible /\ held' = held
          BY <2>1
        <4>. HIDE DEF Unread, Nothing
        <4>. QED BY <3>1, <4>1, <4>2, <4>3 DEF ShowsHeld
      <3>4. SentAfter(reading)'
        BY <2>1, <3>1 DEF FactsInv, FactsTyped, SentByPage, SentAfter, script, Messages
      <3>5. Known(reading)' /\ (message' # Nothing => message'.geometry <= facts'.geometry)
        <4>1. facts' = facts /\ message' = message
          BY <2>1 DEF world, script
        <4>2. {facts.geometry, facts.rest, facts.native} \subseteq Nat
          BY DEF FactsInv, FactsTyped
        <4>3. message # Nothing => message.geometry <= facts.geometry
          BY DEF FactsInv
        <4>. QED BY <3>1, <4>1, <4>2, <4>3 DEF Known, Unread
      <3>6. NotOlder
        BY <2>1 DEF NotOlder, FactsInv, FactsTyped, Snapshots
      <3>. QED BY <3>2, <3>3, <3>4, <3>5, <3>6 DEF FactsInv
    <2>. QED BY <1>4, <2>2, <2>3 DEF ReadPage
  <1>5. CASE Enrich
    <2>1. /\ task = "enrich" /\ task' = "next" /\ reading' = Nothing
          /\ UNCHANGED <<world, script>>
      BY <1>5 DEF Enrich
    <2>2. PICK current \in Enriched(reading) :
            \/ held' = current /\ visible' = current
            \/ held' = held /\ visible' = visible
      BY <1>5 DEF Enrich
    <2>3. /\ reading \in Snapshots /\ reading # Nothing
          /\ reading.native = Unread
          /\ visible # Nothing => /\ reading.geometry >= visible.geometry
                                  /\ reading.rest >= visible.rest
      BY <2>1 DEF FactsInv, FactsTyped, ShowsHeld
    <2>4. /\ current \in Snapshots /\ current # Nothing
          /\ current.generation = reading.generation /\ current.sequence = reading.sequence
          /\ current.geometry = reading.geometry /\ current.rest = reading.rest
          /\ current.native = facts.native \/ current.native = reading.native
      BY <2>3 DEF Enriched, Snapshots, FactsInv, FactsTyped, Nothing
    <2>5. CASE held' = held /\ visible' = visible
      BY <2>1, <2>5
         DEF FactsInv, FactsTyped, SentByPage, ShowsHeld, SentAfter, Known, NotOlder, world,
             script, Snapshots, Heard
    <2>6. CASE held' = current /\ visible' = current
      <3>1. FactsTyped' /\ SentByPage' /\ ShowsHeld' /\ SentAfter(held)' /\ SentAfter(reading)'
        BY <2>1, <2>3, <2>4, <2>6
           DEF FactsInv, FactsTyped, SentByPage, ShowsHeld, SentAfter, world, script, Heard
      <3>2. Known(visible)' /\ Known(reading)' /\ (message' # Nothing => message'.geometry <= facts'.geometry)
        BY <2>1, <2>3, <2>4, <2>6 DEF FactsInv, FactsTyped, Known, world, script
      <3>3. NotOlder
        BY <2>3, <2>4, <2>6 DEF NotOlder, FactsInv, FactsTyped, Known, Unread
      <3>. QED BY <3>1, <3>2, <3>3 DEF FactsInv
    <2>. QED BY <2>2, <2>5, <2>6
  <1>6. CASE StreamEnds
    BY <1>6
       DEF StreamEnds, FactsInv, FactsTyped, SentByPage, ShowsHeld, SentAfter, Known, NotOlder,
           world, stream, state, Snapshots, Heard
  <1>. QED BY <1>1, <1>2, <1>3, <1>4, <1>5, <1>6 DEF TaskStep

LEMMA FactsInvHolds ==
  PlatformInit => FactsInv
  BY DEF PlatformInit, FactsInv, FactsTyped, SentByPage, ShowsHeld, SentAfter, Known, Heard, NoKind

(* What the interface shows of the platform never goes back to older facts, although
   messages, snapshots and subscriptions overtake each other (PlatformState): the
   property FactsNeverGoBack of the run SessionOwner. *)
THEOREM FactsNeverReturn ==
  PlatformSpec => FactsNeverGoBack
  <1>1. FactsInv /\ [PlatformNext]_platformVars => FactsInv'
    <2>. SUFFICES ASSUME FactsInv, [PlatformNext]_platformVars PROVE FactsInv'
      OBVIOUS
    <2>1. CASE UNCHANGED platformVars
      BY <2>1 DEF platformVars, FactsInv, FactsTyped, SentByPage, ShowsHeld, SentAfter, Known, Heard
    <2>. QED BY <2>1, WorldKeepsFacts, ScriptKeepsFacts, TaskKeepsFacts DEF PlatformNext
  <1>2. FactsInv /\ [PlatformNext]_platformVars => [NotOlder]_platformVars
    <2>. SUFFICES ASSUME FactsInv, PlatformNext PROVE NotOlder
      OBVIOUS
    <2>1. visible' = visible => NotOlder
      BY DEF NotOlder, FactsInv, FactsTyped, Snapshots
    <2>2. WebChanges \/ NativeChanges \/ ScriptStep => visible' = visible
      BY DEF WebChanges, NativeChanges, ScriptStep, PageSubscribes, Acknowledged, PublishEvent, state
    <2>. QED BY <2>1, <2>2, TaskKeepsFacts DEF PlatformNext
  <1>. QED BY <1>1, <1>2, FactsInvHolds, PTL DEF PlatformSpec, FactsNeverGoBack, NotOlder
=============================================================================
