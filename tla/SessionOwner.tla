---------------------------- MODULE SessionOwner ----------------------------
(***************************************************************************)
(* The mobile session owner (owner_loop): one task that owns the embedded  *)
(* node, turns its state events into snapshots for the user interface and  *)
(* the interface's actions into calls of the node, and fences both with a  *)
(* generation.  The node, its subscription and the interface run           *)
(* concurrently; every await of the owner is a value of pc.                *)
(*                                                                         *)
(* What the node stores is abstracted to the number of changes made to it, *)
(* and the node may move to a new generation of its own at any time (the   *)
(* event carries the generation it was emitted in).  The model begins      *)
(* where prepare_owner has booted the node and subscribed to it.           *)
(***************************************************************************)
EXTENDS Naturals, Sequences

CONSTANTS
  ActionCapacity,   \* ACTION_CAPACITY
  EventCapacity,    \* events a lagging subscription keeps
  MaxTaps,          \* actions the operator issues
  MaxExports,       \* identity backups the operator asks for
  MaxChanges,       \* changes of what the nodes store
  MaxRestarts,      \* times a node moves to a new generation
  MaxNodes,         \* nodes booted, the first included
  MaxFaults         \* failed calls, failed projections, closed subscriptions

ASSUME OwnerAssumption ==
  /\ ActionCapacity \in Nat \ {0} /\ EventCapacity \in Nat \ {0}
  /\ MaxTaps \in Nat /\ MaxExports \in Nat /\ MaxChanges \in Nat
  /\ MaxRestarts \in Nat /\ MaxNodes \in Nat \ {0} /\ MaxFaults \in Nat

VARIABLES
  \* The owner.
  pc,            \* where the owner awaits
  generation,    \* the generation every update and action carries
  backend,       \* backend_generation
  doing,         \* the action in hand
  failing,       \* the projection in progress carries a failure
  observed,      \* what session_snapshot answered
  readIn,        \* node and generation the projection read its contents in
  contents,      \* the contents it read
  \* The node and its subscription.
  node,          \* the node the owner holds, numbered from 1
  nodeGeneration, changes, restarts,
  events, lagged, closed,
  \* The channels and the user interface.
  actions, exports, slot, view,
  exporting,     \* generation of the backup the interface waits for, or None
  taps, asked, faults

ownerVars   == <<generation, backend, doing, failing, observed, readIn, contents>>
nodeVars    == <<node, nodeGeneration, changes, restarts>>
subVars     == <<events, lagged, closed>>
uiVars      == <<view, exporting, taps, asked>>
channelVars == <<actions, exports, slot>>
vars == <<pc, ownerVars, nodeVars, subVars, uiVars, channelVars, faults>>

None    == 0
Kinds   == {"edit", "preference", "endpoint"}
Actions == [generation : Nat, kind : Kinds, node : Nat, backend : Nat]
NoAction == [generation |-> None, kind |-> "edit", node |-> None, backend |-> None]

Update(is, gen, of, in, read, what, failed) ==
  [is |-> is, generation |-> gen, node |-> of, backend |-> in,
   readIn |-> read, contents |-> what, failure |-> failed]
Inspecting == Update("Inspecting", None, None, None, <<None, None>>, 0, FALSE)
Updates == [is : {"Inspecting", "Running", "Failed"}, generation : Nat, node : Nat,
            backend : Nat, readIn : Nat \X Nat, contents : Nat, failure : BOOLEAN]

Init ==
  /\ pc = "adopt" /\ generation = 1 /\ backend = None
  /\ doing = NoAction /\ failing = FALSE /\ observed = None
  /\ readIn = <<None, None>> /\ contents = 0
  /\ node = 1 /\ nodeGeneration = 1 /\ changes = 0 /\ restarts = 0
  /\ events = <<>> /\ lagged = FALSE /\ closed = FALSE
  /\ actions = <<>> /\ exports = <<>> /\ slot = <<>>
  /\ view = Inspecting /\ exporting = None /\ taps = 0 /\ asked = 0 /\ faults = 0

Fault == faults < MaxFaults /\ faults' = faults + 1

-----------------------------------------------------------------------------
(* The node and its broadcast of state events. *)

(* Emitting into a full subscription drops its oldest event and marks it
   lagged; emitting into a closed one reaches nobody. *)
Emit(gen) ==
  IF closed THEN UNCHANGED subVars
  ELSE /\ events' = Append(IF Len(events) = EventCapacity THEN Tail(events) ELSE events, gen)
       /\ lagged' = (lagged \/ Len(events) = EventCapacity)
       /\ UNCHANGED closed

(* A message arrives, a peer answers, a send completes. *)
NodeChanges ==
  /\ pc # "ended" /\ changes < MaxChanges
  /\ changes' = changes + 1
  /\ Emit(nodeGeneration)
  /\ UNCHANGED <<pc, ownerVars, node, nodeGeneration, restarts, uiVars, channelVars, faults>>

NodeRestarts ==
  /\ pc # "ended" /\ restarts < MaxRestarts
  /\ restarts' = restarts + 1
  /\ nodeGeneration' = nodeGeneration + 1
  /\ Emit(nodeGeneration + 1)
  /\ UNCHANGED <<pc, ownerVars, node, changes, uiVars, channelVars, faults>>

(* An event that changes nothing the snapshot shows: a peer was heard again. *)
NodeAnnounces ==
  /\ pc # "ended"
  /\ Emit(nodeGeneration)
  /\ UNCHANGED <<pc, ownerVars, nodeVars, uiVars, channelVars, faults>>

(* The node drops the sending half of the subscription. *)
SubscriptionCloses ==
  /\ pc # "ended" /\ ~closed /\ Fault
  /\ closed' = TRUE
  /\ UNCHANGED <<pc, ownerVars, nodeVars, events, lagged, uiVars, channelVars>>

-----------------------------------------------------------------------------
(* Generations. *)

(* subscribe_state_events: what the old subscription still held is gone. *)
Subscribe == events' = <<>> /\ lagged' = FALSE /\ closed' = FALSE

(* advance_generation_if_changed moves both generations, but only forward. *)
Advances(seen) == seen > backend
Advance(seen) ==
  /\ backend' = IF Advances(seen) THEN seen ELSE backend
  /\ generation' = IF Advances(seen) THEN generation + 1 ELSE generation

(* The next await is the session_snapshot project begins with; the action and
   the observation in hand are done with. *)
Publish(failure) ==
  /\ pc' = "project" /\ failing' = failure
  /\ doing' = NoAction /\ observed' = None

-----------------------------------------------------------------------------
(* owner.handle_event *)

HandleEvent ==
  /\ pc = "idle" /\ ~lagged /\ events # <<>>
  /\ Advance(Head(events))
  /\ IF Advances(Head(events)) THEN Subscribe
     ELSE events' = Tail(events) /\ UNCHANGED <<lagged, closed>>
  /\ Publish(FALSE)
  /\ UNCHANGED <<readIn, contents, nodeVars, uiVars, channelVars, faults>>

(* Mutation: the events that were missed are skipped over. *)
LagSkipped ==
  /\ pc = "idle" /\ lagged
  /\ Subscribe
  /\ UNCHANGED <<pc, ownerVars, nodeVars, uiVars, channelVars, faults>>

(* Lagged: session_snapshot, then a new subscription, then a snapshot. *)
HandleLag ==
  /\ pc = "idle" /\ lagged
  /\ lagged' = FALSE
  /\ observed' = nodeGeneration
  /\ pc' = "lag"
  /\ UNCHANGED <<generation, backend, doing, failing, readIn, contents, nodeVars,
                 events, closed, uiVars, channelVars, faults>>

AfterLag ==
  /\ pc = "lag"
  /\ Advance(observed) /\ Subscribe /\ Publish(FALSE)
  /\ UNCHANGED <<readIn, contents, nodeVars, uiVars, channelVars, faults>>

(* Closed: after a pause a new subscription, then session_snapshot. *)
HandleClosed ==
  /\ pc = "idle" /\ closed /\ ~lagged /\ events = <<>>
  /\ Subscribe
  /\ pc' = "closed"
  /\ UNCHANGED <<ownerVars, nodeVars, uiVars, channelVars, faults>>

AfterClosed ==
  /\ pc = "closed"
  /\ Advance(nodeGeneration) /\ Publish(TRUE)
  /\ UNCHANGED <<readIn, contents, nodeVars, subVars, uiVars,
                 channelVars, faults>>

-----------------------------------------------------------------------------
(* owner.handle_action *)

(* Mutation: an action of an older generation is not dropped. *)
Accepts(action) == TRUE

Current(action) == action.generation = generation

TakeAction ==
  /\ pc = "idle" /\ actions # <<>>
  /\ actions' = Tail(actions)
  /\ IF Current(Head(actions))
       THEN doing' = Head(actions) /\ observed' = nodeGeneration /\ pc' = "sync"
       ELSE UNCHANGED <<pc, doing, observed>>
  /\ UNCHANGED <<generation, backend, failing, readIn, contents, nodeVars, subVars,
                 uiVars, exports, slot, faults>>

(* The node has moved on: the action is dropped and a snapshot published. *)
Synchronize ==
  /\ pc = "sync"
  /\ Advance(observed)
  /\ IF Advances(observed) THEN Subscribe /\ Publish(FALSE)
     ELSE pc' = "act" /\ observed' = None /\ UNCHANGED <<subVars, failing, doing>>
  /\ UNCHANGED <<readIn, contents, nodeVars, uiVars, channelVars, faults>>

(* execute_action *)
Edit ==
  /\ pc = "act" /\ doing.kind = "edit" /\ changes < MaxChanges
  /\ changes' = changes + 1
  /\ Emit(nodeGeneration)
  /\ Publish(FALSE)
  /\ UNCHANGED <<generation, backend, readIn, contents, node, nodeGeneration,
                 restarts, uiVars, channelVars, faults>>

(* The node, or persisting the endpoint, refuses; at the bounds it always does. *)
Refuse ==
  /\ pc = "act"
  /\ \/ doing.kind # "preference" /\ Fault
     \/ doing.kind = "edit" /\ changes = MaxChanges /\ UNCHANGED faults
     \/ doing.kind = "endpoint" /\ node = MaxNodes /\ UNCHANGED faults
  /\ Publish(TRUE)
  /\ UNCHANGED <<generation, backend, readIn, contents, nodeVars, subVars, uiVars,
                 channelVars>>

(* apply_contact_preference: no event follows a change of the contact book. *)
Prefer ==
  /\ pc = "act" /\ doing.kind = "preference"
  /\ changes' = IF changes < MaxChanges THEN changes + 1 ELSE changes
  /\ Publish(FALSE)
  /\ UNCHANGED <<generation, backend, readIn, contents, node, nodeGeneration,
                 restarts, subVars, uiVars, channelVars, faults>>

(* Mutations: replacing the node keeps the generation, or starts it over. *)
SameGeneration == generation' = generation
FirstGeneration == generation' = 1

NextGeneration == generation' = generation + 1

(* ApplyEndpoint: the node is shut down before its replacement is booted. *)
ShutDown ==
  /\ pc = "act" /\ doing.kind = "endpoint" /\ node < MaxNodes
  /\ NextGeneration
  /\ pc' = "boot" /\ doing' = NoAction
  /\ UNCHANGED <<backend, failing, observed, readIn, contents, nodeVars,
                 subVars, uiVars, channelVars, faults>>

Boot ==
  /\ pc = "boot"
  /\ node' = node + 1 /\ nodeGeneration' = 1
  /\ Subscribe
  /\ pc' = "adopt"
  /\ UNCHANGED <<ownerVars, changes, restarts, uiVars, channelVars, faults>>

(* The owner ends; the channels close, what they hold stays in them. *)
BootFails ==
  /\ pc = "boot" /\ Fault
  /\ slot' = <<Update("Failed", generation, node, None, <<None, None>>, 0, TRUE)>>
  /\ pc' = "ended"
  /\ UNCHANGED <<ownerVars, nodeVars, subVars, uiVars, actions, exports>>

(* Mutation: backend_generation is only ever moved forward. *)
AdoptForward == backend' = IF nodeGeneration > backend THEN nodeGeneration ELSE backend

AdoptGeneration == backend' = nodeGeneration

(* A booted node's generation is adopted, whatever the last node's was. *)
Adopt ==
  /\ pc = "adopt"
  /\ AdoptGeneration
  /\ Publish(FALSE)
  /\ UNCHANGED <<generation, readIn, contents, nodeVars, subVars, uiVars,
                 channelVars, faults>>

-----------------------------------------------------------------------------
(* project and publish_snapshot *)

(* The projection is over: what it read is dropped. *)
ProjectionEnds ==
  pc' = "idle" /\ failing' = FALSE /\ readIn' = <<None, None>> /\ contents' = 0

(* The generation is not the owner's, or a query fails: nothing is published
   and nobody is told. *)
ProjectFails ==
  /\ pc \in {"project", "read", "verify"}
  /\ \/ pc # "read" /\ nodeGeneration # backend /\ UNCHANGED faults
     \/ pc = "read" /\ Fault
  /\ ProjectionEnds
  /\ UNCHANGED <<generation, backend, doing, observed, nodeVars, subVars, uiVars, channelVars>>

Project ==
  /\ pc = "project" /\ nodeGeneration = backend
  /\ pc' = "read"
  /\ UNCHANGED <<ownerVars, nodeVars, subVars, uiVars, channelVars, faults>>

ReadContents ==
  /\ pc = "read"
  /\ readIn' = <<node, nodeGeneration>> /\ contents' = changes
  /\ pc' = "verify"
  /\ UNCHANGED <<generation, backend, doing, failing, observed, nodeVars, subVars,
                 uiVars, channelVars, faults>>

(* Mutation: the generation is not checked again. *)
Unverified == TRUE

Verified == nodeGeneration = backend

(* Mutation: an update not yet taken is not displaced. *)
SendQueues ==
  /\ pc = "verify" /\ Verified
  /\ slot' = Append(slot, Update("Running", generation, node, backend, readIn, contents, failing))
  /\ ProjectionEnds
  /\ UNCHANGED <<generation, backend, doing, observed, nodeVars, subVars, uiVars,
                 actions, exports, faults>>

(* force_send into the one-place channel displaces an update not yet taken. *)
Send ==
  /\ pc = "verify" /\ Verified
  /\ slot' = <<Update("Running", generation, node, backend, readIn, contents, failing)>>
  /\ ProjectionEnds
  /\ UNCHANGED <<generation, backend, doing, observed, nodeVars, subVars, uiVars,
                 actions, exports, faults>>

(* Mutation: a request is looked at only when there is no event. *)
AnswerWhenQuiet ==
  /\ pc = "idle" /\ exports # <<>> /\ events = <<>>
  /\ exports' = Tail(exports)
  /\ exporting' = IF view.generation = Head(exports) THEN None ELSE exporting
  /\ UNCHANGED <<pc, ownerVars, nodeVars, subVars, view, taps, asked, actions, slot, faults>>

(* export_identity_backup answers, refuses a stale generation, or fails: in
   each case the request is answered.  The interface stops waiting unless it
   has moved to another generation, in which case it ignores the answer. *)
AnswerExport ==
  /\ pc = "idle" /\ exports # <<>>
  /\ exports' = Tail(exports)
  /\ exporting' = IF view.generation = Head(exports) THEN None ELSE exporting
  /\ UNCHANGED <<pc, ownerVars, nodeVars, subVars, view, taps, asked, actions, slot, faults>>

-----------------------------------------------------------------------------
(* The user interface. *)

Receive ==
  /\ slot # <<>>
  /\ view' = Head(slot)
  /\ slot' = <<>>
  /\ UNCHANGED <<pc, ownerVars, nodeVars, subVars, exporting, taps, asked, actions,
                 exports, faults>>

TrySend(queue, action) ==
  IF Len(queue) < ActionCapacity THEN Append(queue, action) ELSE queue

(* dispatch: try_send, the action is lost when the channel is full or closed. *)
Tap(kind) ==
  /\ view.is # "Inspecting" /\ taps < MaxTaps
  /\ taps' = taps + 1
  /\ actions' = IF pc = "ended" THEN actions
                  ELSE TrySend(actions, [generation |-> view.generation, kind |-> kind,
                                         node |-> view.node, backend |-> view.backend])
  /\ UNCHANGED <<pc, ownerVars, nodeVars, subVars, view, exporting, asked, exports,
                 slot, faults>>

(* The backup action, disabled while one is being exported; a request into a
   closed channel is refused on the spot. *)
RequestExport ==
  /\ view.is # "Inspecting" /\ exporting = None /\ asked < MaxExports
  /\ exports = <<>>
  /\ asked' = asked + 1
  /\ IF pc = "ended" THEN UNCHANGED <<exports, exporting>>
     ELSE exports' = <<view.generation>> /\ exporting' = view.generation
  /\ UNCHANGED <<pc, ownerVars, nodeVars, subVars, view, taps, actions, slot, faults>>

-----------------------------------------------------------------------------
OwnerStep ==
  \/ HandleEvent \/ HandleLag \/ AfterLag \/ HandleClosed \/ AfterClosed
  \/ TakeAction \/ Synchronize \/ Edit \/ Refuse \/ Prefer
  \/ ShutDown \/ Boot \/ BootFails \/ Adopt
  \/ ProjectFails \/ Project \/ ReadContents \/ Send \/ AnswerExport

World ==
  \/ NodeChanges \/ NodeRestarts \/ NodeAnnounces \/ SubscriptionCloses
  \/ Receive \/ RequestExport \/ \E kind \in Kinds : Tap(kind)

Next == OwnerStep \/ World

Spec == Init /\ [][Next]_vars

(* The owner's task runs whenever it can; select polls its branches in random
   order, so a branch that is ready again and again is taken. *)
FairSpec == Spec /\ WF_vars(OwnerStep) /\ WF_vars(Receive) /\ SF_vars(HandleEvent)
                 /\ SF_vars(HandleLag) /\ SF_vars(TakeAction) /\ SF_vars(AnswerExport)

-----------------------------------------------------------------------------
(* Every variable holds a value of its kind; the channels keep their bounds. *)
TypeOK ==
  /\ pc \in {"idle", "lag", "closed", "sync", "act", "boot", "adopt", "project",
             "read", "verify", "ended"}
  /\ generation \in Nat /\ backend \in Nat /\ doing \in Actions
  /\ failing \in BOOLEAN /\ observed \in Nat /\ readIn \in Nat \X Nat /\ contents \in Nat
  /\ node \in Nat /\ nodeGeneration \in Nat /\ changes \in Nat /\ restarts \in Nat
  /\ events \in Seq(Nat) /\ Len(events) <= EventCapacity
  /\ lagged \in BOOLEAN /\ closed \in BOOLEAN
  /\ actions \in Seq(Actions) /\ Len(actions) <= ActionCapacity
  /\ exports \in Seq(Nat) /\ Len(exports) <= 1
  /\ slot \in Seq(Updates) /\ Len(slot) <= 1 /\ view \in Updates
  /\ exporting \in Nat /\ taps \in Nat /\ asked \in Nat /\ faults \in Nat

(* What the owner has published and nobody displaced yet. *)
Published ==
  {view} \cup {slot[i] : i \in DOMAIN slot}

(* A snapshot is read in the node generation it is published under, although
   the node moves on between the owner's reads. *)
SnapshotOfOneGeneration ==
  \A update \in Published :
    update.is = "Running" => update.readIn = <<update.node, update.backend>>

(* A generation is never reused: two things that carry the same generation
   are about the same node in the same backend generation, so that dropping
   actions by generation is enough. *)
GenerationNamesBackend ==
  \A one, other \in {update \in Published : update.is = "Running"}
                    \cup {actions[i] : i \in DOMAIN actions} :
    one.generation = other.generation /\ one.backend # None /\ other.backend # None =>
      one.node = other.node /\ one.backend = other.backend

(* An action is carried out on the node, and under the backend generation, of
   the snapshot the operator saw when issuing it. *)
ActsOnWhatWasShown ==
  pc = "act" => doing.node = node /\ doing.backend = backend

(* The owner never believes in a generation its node has not reached: it
   would refuse to publish until the node got there. *)
OwnerIsNotAhead ==
  pc \notin {"boot", "adopt", "ended"} => backend <= nodeGeneration

(* The interface never goes back: not to an older generation, and not to
   older contents. *)
ViewNeverGoesBack ==
  [][view'.generation >= view.generation
     /\ (view'.is = "Running" => view'.contents >= view.contents)]_view

ShowsAll ==
  /\ view.generation = generation /\ view.node = node /\ view.contents = changes

(* A node on a mesh keeps hearing peers. *)
KeepsAnnouncing == WF_vars(NodeAnnounces)
Undisturbed     == restarts = 0 /\ faults = 0

(* Once the owner runs and the node stops changing, the interface comes to show
   what the node holds under the owner's generation, so that its actions are
   accepted: with the events there are when no generation of the node, query or
   subscription was lost on the way, and with the next event the node emits
   otherwise. *)
ViewCatchesUp ==
  (KeepsAnnouncing \/ []Undisturbed) /\ <>(pc # "adopt")
    => <>[](pc = "ended" \/ ShowsAll)

(* The backup the interface waits for is answered, unless the session ends or
   the interface moves to another generation meanwhile. *)
ExportAnswered ==
  exporting # None ~> exporting = None \/ pc = "ended" \/ view.generation # exporting

=============================================================================
