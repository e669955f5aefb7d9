---------------------------- MODULE DomainStores ----------------------------
(***************************************************************************)
(* The desktop application's domain stores: what the pages render, and the *)
(* reducers that daemon events and command answers go through.  A store is *)
(* a record; every reducer is an operator from the stores to the stores.   *)
(*                                                                         *)
(* A network record is known by an identifier and by the generation of the *)
(* connection it was observed on (0 where none is named), a message by the *)
(* number of changes the daemon had made to it, a capability by its name.  *)
(***************************************************************************)
EXTENDS Integers, Sequences, FiniteSets, SequencesExt

CONSTANTS
  Records,            \* identifiers of operations, links, paths, ...
  Messages,           \* messages of the conversation that is open
  Devices,            \* peers the daemon reports
  Capabilities,       \* operations a daemon may authorise
  TimelineCapacity,   \* TIMELINE_CAPACITY
  TransientCapacity   \* MESSAGE_TRANSIENT_CAPACITY

ASSUME StoresAssumption ==
  TimelineCapacity \in Nat \ {0} /\ TransientCapacity \in Nat \ {0}

Absent == 0
Kinds  == {"paths", "interfaces", "links", "operations", "requests", "resources"}
(* Collections that events change one record at a time. *)
Upserted == {"links", "operations", "requests", "resources"}
Domains == {"runtime", "identity", "network", "messages", "fleet", "propagation",
            "standard", "content", "scenario"}

(* Records of one collection: the generation each was observed on. *)
Nothing == [r \in {} |-> Absent]

(* DomainStores::default *)
Default ==
  [generation |-> 0, connected |-> FALSE, server |-> Absent, event |-> Absent,
   capabilities |-> {}, net |-> [k \in Kinds |-> Nothing], standard |-> Absent,
   heard |-> [d \in Devices |-> Absent], managed |-> {},
   messages |-> [m \in Messages |-> 0], live |-> <<>>, loaded |-> FALSE,
   cursors |-> {}, conversations |-> FALSE, draft |-> FALSE, jobs |-> <<>>, state |-> [d \in Domains |-> "loading"]]

BeginSession(generation) == [Default EXCEPT !.generation = generation]

Accepts(s, generation) == s.generation = generation

FailSession(s, generation) ==
  IF Accepts(s, generation)
  THEN [s EXCEPT !.connected = FALSE, !.state = [d \in Domains |-> "error"]]
  ELSE s

-----------------------------------------------------------------------------
(* What an operator may do. *)

Availability(s, generation, capability) ==
  /\ Accepts(s, generation)
  /\ s.connected /\ s.server # Absent
  /\ capability \in s.capabilities

-----------------------------------------------------------------------------
(* Network snapshots and observations. *)

RefreshNetworkState(s) ==
  [s EXCEPT !.state["network"] =
     IF ~s.connected THEN "degraded"
     ELSE IF /\ \A d \in Devices : s.heard[d] = Absent
             /\ s.net["paths"] = Nothing /\ s.net["interfaces"] = Nothing
     THEN "empty" ELSE "ready"]

ObservedOn(snapshot) == {snapshot[r] : r \in DOMAIN snapshot}

(* set_paths, set_interfaces, set_operations, set_links, set_requests and
   set_resources: a snapshot replaces the collection, or is ignored whole. *)
SetSnapshot(s, generation, kind, snapshot) ==
  IF Accepts(s, generation) /\ s.server # Absent /\ ObservedOn(snapshot) \subseteq {s.server}
  THEN LET t == [s EXCEPT !.net[kind] = snapshot] IN
       IF kind \in {"paths", "interfaces", "links"} THEN RefreshNetworkState(t) ELSE t
  ELSE s

SetStandard(s, generation, observed) ==
  IF Accepts(s, generation) /\ observed = s.server
  THEN [s EXCEPT !.standard = observed, !.state["standard"] = "ready"]
  ELSE s

SetPropagation(s, generation, state) ==
  IF Accepts(s, generation) THEN [s EXCEPT !.state["propagation"] = state] ELSE s

FailStandard(s, generation) ==
  IF Accepts(s, generation) THEN [s EXCEPT !.state["standard"] = "degraded"] ELSE s

(* Mutation: an observation of any connection is taken. *)
AnyObservationValid(s, observed) == observed # Absent

ObservationGenerationValid(s, observed) ==
  observed # Absent /\ observed \in {s.server, s.event}

(* reduce_peer: an announce older than the one shown is not shown. *)
ReducePeer(s, device, announce) ==
  RefreshNetworkState(
    [s EXCEPT !.heard[device] = IF announce >= @ THEN announce ELSE @,
              !.managed = @ \union {device},
              !.state["fleet"] = IF device \in s.managed THEN @ ELSE "ready"])

-----------------------------------------------------------------------------
(* Messages. *)

ShownMessages(s) == {m \in Messages : s.messages[m] > 0}

(* What retain leaves of the marks. *)
Without(marks, gone) ==
  LET kept[i \in 0 .. Len(marks)] ==
        IF i = 0 THEN <<>>
        ELSE IF marks[i] \in gone THEN kept[i - 1] ELSE Append(kept[i - 1], marks[i])
  IN kept[Len(marks)]

(* mark_message_live: the most recent marks are kept. *)
MarkLive(s, m) ==
  LET order == Append(Without(s.live, {m}), m)
      limit == IF Cardinality(ShownMessages(s)) + 1 < TransientCapacity
               THEN Cardinality(ShownMessages(s)) + 1 ELSE TransientCapacity
  IN [s EXCEPT !.live = IF Len(order) > limit
                        THEN SubSeq(order, Len(order) - limit + 1, Len(order)) ELSE order]

Unmark(s, m) == [s EXCEPT !.live = Without(@, {m})]

(* push_outgoing, and a message event that carries the whole message. *)
PushMessage(s, m, version) ==
  [MarkLive(s, m) EXCEPT !.messages[m] = version, !.state["messages"] = "ready"]

RemoveMessage(s, m) == [Unmark(s, m) EXCEPT !.messages[m] = 0]

(* resolve_message *)
ResolveMessage(s, generation, m, version) ==
  IF ~Accepts(s, generation) THEN s
  ELSE IF version > 0 THEN PushMessage(s, m, version)
  ELSE [RemoveMessage(s, m) EXCEPT !.state["messages"] = "ready"]

(* clear_message_pagination with the live marks *)
ForgetPagination(s) == [s EXCEPT !.cursors = {}, !.live = <<>>]

Paged(cursors, list, more) == IF more THEN cursors \union {list} ELSE cursors \ {list}

(* merge_conversation_page *)
MergeConversations(s, generation, any, more) ==
  IF ~Accepts(s, generation) THEN s
  ELSE [s EXCEPT !.conversations = @ \/ any,
                 !.cursors = Paged(@, "conversations", more),
                 !.state["messages"] = IF s.conversations \/ any THEN "ready" ELSE "empty"]

(* Mutation: a page takes back what arrived while it was on its way. *)
PageTakesAll(s, generation, page, more) ==
  IF ~Accepts(s, generation) THEN s
  ELSE [s EXCEPT !.messages = [m \in Messages |-> IF page[m] > 0 THEN page[m] ELSE @[m]],
                 !.loaded = TRUE]

(* merge_peer_message_page: a live message outlives one page that holds it. *)
MergePage(s, generation, page, more) ==
  IF ~Accepts(s, generation) THEN s
  ELSE LET held == {m \in Messages : page[m] > 0}
           merged == [m \in Messages |->
                        IF m \in held /\ ~(s.messages[m] > 0 /\ m \in ToSet(s.live))
                        THEN page[m] ELSE s.messages[m]]
       IN [s EXCEPT !.messages = merged, !.loaded = TRUE, !.cursors = Paged(@, "messages", more),
                    !.live = Without(@, held),
                    !.state["messages"] =
                      IF \A m \in Messages : merged[m] = 0 THEN "empty" ELSE "ready"]

(* reset_peer_message_snapshot *)
ResetPeer(s, generation) ==
  IF Accepts(s, generation)
  THEN [s EXCEPT !.messages = [m \in Messages |-> IF m \in ToSet(s.live) THEN @[m] ELSE 0],
                 !.cursors = @ \ {"messages"}]
  ELSE s

SetDraft(s, generation, kept) ==
  IF Accepts(s, generation) THEN [s EXCEPT !.draft = kept] ELSE s

MarkPeerLoaded(s, generation) ==
  IF Accepts(s, generation) THEN [s EXCEPT !.loaded = TRUE] ELSE s

(* apply_lifecycle_outcome, with the answer's message where it has one. *)
ApplyLifecycle(s, generation, m, version, found) ==
  IF ~Accepts(s, generation) THEN s
  ELSE IF found THEN PushMessage(s, m, version)
  ELSE [RemoveMessage(s, m) EXCEPT
          !.cursors = IF s.messages[m] > 0 THEN @ \ {"messages"} ELSE @]

-----------------------------------------------------------------------------
(* Fleet jobs.  The identifier is the number of jobs held, plus one. *)

BeginJob(s, generation) ==
  LET job  == [id |-> Len(s.jobs) + 1, state |-> "running"]
      jobs == Append(s.jobs, job)
  IN IF Accepts(s, generation)
     THEN [s EXCEPT !.jobs = IF Len(jobs) > TimelineCapacity THEN Tail(jobs) ELSE jobs,
                    !.state["fleet"] = "ready"]
     ELSE s

FinishJob(s, generation, id, outcome) ==
  LET named == {i \in DOMAIN s.jobs : s.jobs[i].id = id}
  IN IF Accepts(s, generation) /\ named # {}
     THEN LET first == CHOOSE i \in named : \A j \in named : i <= j
          IN [s EXCEPT !.jobs[first].state = outcome]
     ELSE s

-----------------------------------------------------------------------------
(* apply_daemon_event: the stores after the event, and whether it applied. *)

Applied(s)  == [stores |-> s, applied |-> TRUE]
Rejected(s) == [stores |-> s, applied |-> FALSE]

ApplyConnected(s) ==
  Applied(RefreshNetworkState(
    [s EXCEPT !.connected = TRUE,
       !.state = [@ EXCEPT !["runtime"] = "ready", !["content"] = "empty",
                           !["scenario"] = "ready", !["fleet"] = "empty",
                           !["propagation"] = "empty", !["standard"] = "empty"]]))

ApplyEventGeneration(s, generation) ==
  IF generation = Absent THEN Rejected(s)
  ELSE IF s.event \notin {Absent, generation} THEN Rejected([s EXCEPT !.event = Absent])
  ELSE Applied([s EXCEPT !.event = generation])

(* What the network collections hold stays shown. *)
ApplyDisconnected(s) ==
  Applied([s EXCEPT !.connected = FALSE, !.capabilities = {}, !.server = Absent,
                    !.event = Absent, !.standard = Absent,
                    !.state = [@ EXCEPT !["runtime"] = "degraded", !["standard"] = "degraded"]])

(* A status of another connection empties what was observed on the last one;
   the interfaces are not among it. *)
ClearObserved(s) ==
  [s EXCEPT !.net = [k \in Kinds |-> IF k = "interfaces" THEN @[k] ELSE Nothing],
            !.capabilities = {}, !.server = Absent, !.standard = Absent,
            !.state["standard"] = "empty"]

ApplyStatus(s, reported, authorised) ==
  IF s.server # Absent /\ s.server # reported THEN Rejected(ClearObserved(s))
  ELSE Applied(RefreshNetworkState(
         [s EXCEPT !.server = reported,
                   !.capabilities = IF reported = Absent THEN {} ELSE authorised]))

(* An event with a part of a message asks for the whole one instead. *)
ApplyMessage(s, m, version, complete) ==
  IF complete THEN Applied(PushMessage(s, m, version))
  ELSE Rejected([s EXCEPT !.state["messages"] = "degraded"])

ApplyObservation(s, kind, record, observed) ==
  IF ~ObservationGenerationValid(s, observed) THEN Rejected(s)
  ELSE LET t == [s EXCEPT !.net[kind] =
                   [r \in DOMAIN @ \union {record} |-> IF r = record THEN observed ELSE @[r]]]
       IN Applied(IF kind = "links" THEN RefreshNetworkState(t) ELSE t)

ApplyGap(s, observed) ==
  IF s.event # observed THEN Rejected(s) ELSE Applied(ForgetPagination(s))

OfEventConnection(s, observed) ==
  IF s.event # observed THEN Rejected(s) ELSE Applied(s)

ApplyRoute(s, observed) ==
  IF ObservationGenerationValid(s, observed) THEN Applied(RefreshNetworkState(s)) ELSE Rejected(s)

ApplyDaemonEvent(s, generation, e) ==
  IF ~Accepts(s, generation) THEN Rejected(s)
  ELSE CASE e.is = "connected"    -> ApplyConnected(s)
         [] e.is = "identity"     -> Applied([s EXCEPT !.state["identity"] = "ready"])
         [] e.is = "disconnected" -> ApplyDisconnected(s)
         [] e.is = "event_generation" -> ApplyEventGeneration(s, e.generation)
         [] e.is = "status"       -> ApplyStatus(s, e.generation, e.authorised)
         [] e.is = "peer"         -> Applied(ReducePeer(s, e.device, e.announce))
         [] e.is = "path_table"   -> Applied(SetSnapshot(s, generation, "paths", e.snapshot))
         [] e.is = "observation"  -> ApplyObservation(s, e.kind, e.record, e.generation)
         [] e.is = "route"        -> ApplyRoute(s, e.generation)
         [] e.is = "message"      -> ApplyMessage(s, e.message, e.version, e.complete)
         [] e.is = "operation"    -> Applied(ForgetPagination(s))
         [] e.is = "reconcile"    -> ApplyGap(s, e.generation)
         [] e.is \in {"reconcile_requests", "standard_changed"} ->
              OfEventConnection(s, e.generation)
=============================================================================
