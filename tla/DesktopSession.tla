--------------------------- MODULE DesktopSession ---------------------------
(***************************************************************************)
(* The desktop application's session with a daemon: the coroutine that     *)
(* opens one backend at a time and reduces its events into the stores      *)
(* (main.rs), the task that carries out commands, and the event reader and *)
(* the poller that feed the event channel (daemon_bridge.rs).  They run    *)
(* concurrently; a call of the daemon is answered when it is made and its  *)
(* answer is applied later.                                                *)
(*                                                                         *)
(* A session has two connections, for commands and for events, each with a *)
(* generation of its own.  The daemon and the client library are external. *)
(***************************************************************************)
EXTENDS DomainStores

CONSTANTS
  EventCapacity,    \* event_channel_capacity: at least what a start sends
  CommandCapacity,  \* commands waiting for the task
  FrameCapacity,    \* frames a lagging event connection keeps
  Followed,         \* collections a refresh asks for, in the order it does
  ObservedKinds,    \* collections the daemon's events are about
  Own,              \* messages the operator sends, the others are received
  MaxEffort         \* commands, profiles, rounds of the poller, faults, and
                    \* what the daemon does of its own, taken together

ASSUME SessionAssumption ==
  /\ EventCapacity \in Nat /\ EventCapacity >= 4 /\ CommandCapacity \in Nat
  /\ CommandCapacity >= Len(Followed) + 2
  /\ FrameCapacity \in Nat \ {0} /\ Followed \in Seq(Kinds)
  /\ ObservedKinds \subseteq Upserted /\ Own \subseteq Messages
  /\ MaxEffort \in Nat

VARIABLES
  stores,      \* DomainStores
  main,        \* where the session coroutine awaits
  wanted,      \* a profile was requested and not taken yet
  events,      \* DaemonEvents in the channel
  commands,    \* DaemonCommands in the channel
  task,        \* the command in hand with its answer
  reader,      \* the event reader
  poller,      \* what the poller has left to ask in this round
  frames, lagged, closed,        \* the event connection
  daemon,      \* what the daemon holds and the generations it gave
  owed,        \* "yes": a gap was reported and the messages not asked for
               \* since; "refused": the task found nothing negotiated to ask
  effort

feeders == <<reader, poller>>
wire    == <<frames, lagged, closed>>
vars == <<stores, main, wanted, events, commands, task, feeders, wire, daemon, owed, effort>>

Idle == [is |-> "idle"]
Gone == -1    \* the number of changes of a message the daemon dropped

Takes(n) == effort + n <= MaxEffort /\ effort' = effort + n
Happens  == Takes(1)

Generation == stores.generation
Page       == daemon.version
Authorised == daemon.authorised

-----------------------------------------------------------------------------
(* Commands. *)

Refresh(kind) == [is |-> "refresh", kind |-> kind]
Standard      == [is |-> "standard"]
Propagation   == [is |-> "propagation"]
Conversations == [is |-> "conversations"]
Load          == [is |-> "load"]
Query(m)      == [is |-> "query", message |-> m]
Send          == [is |-> "send"]
Change(m)     == [is |-> "change", message |-> m]
Job           == [is |-> "job"]
Start(r)      == [is |-> "start", record |-> r]

(* required_capability *)
Required(c) ==
  CASE c.is \in {"refresh", "standard", "propagation", "conversations", "load"} -> "rpc.status"
    [] c.is = "query"  -> "messaging.history.read"
    [] c.is = "send"   -> "chat.send"
    [] c.is = "change" -> "messaging.lifecycle"
    [] c.is = "job"    -> "rpc.exec"
    [] c.is = "start"  -> "network.probe"

(* try_send drops what the channel has no room for. *)
TrySend(queue, new) ==
  IF Len(queue) + Len(new) <= CommandCapacity THEN queue \o new
  ELSE queue \o SubSeq(new, 1, CommandCapacity - Len(queue))

RefreshFollowed == [i \in DOMAIN Followed |-> Refresh(Followed[i])]

Init ==
  /\ stores = Default /\ main = "between" /\ wanted = FALSE
  /\ events = <<>> /\ commands = <<>> /\ task = Idle
  /\ reader = "ended" /\ poller = <<"ended">>
  /\ frames = <<>> /\ lagged = FALSE /\ closed = FALSE
  /\ daemon = [commandGeneration |-> 0, eventGeneration |-> 0, given |-> 0,
               version |-> [m \in Messages |-> 0], announced |-> [d \in Devices |-> 1],
               authorised |-> Capabilities]
  /\ owed = "no" /\ effort = 0

-----------------------------------------------------------------------------
(* The session coroutine. *)

Begin ==
  /\ main = "between"
  /\ stores' = BeginSession(Generation + 1)
  /\ main' = "opening"
  /\ UNCHANGED <<wanted, events, commands, task, feeders, wire, daemon, owed, effort>>

StatusOf(generation) ==
  [is |-> "status", generation |-> generation, authorised |-> Authorised]
PathsOf(generation) == [is |-> "path_table", snapshot |-> [r \in Records |-> generation]]

(* open_session with attach: everything the session starts with is in the
   channel before the reader and the poller run.  Then the first refresh. *)
Opens ==
  /\ main = "opening"
  /\ LET command == daemon.given + 1
         event   == daemon.given + 2
     IN /\ daemon' = [daemon EXCEPT !.commandGeneration = command,
                                    !.eventGeneration = event, !.given = event]
        /\ events' = <<[is |-> "connected"], StatusOf(command), PathsOf(command),
                       [is |-> "event_generation", generation |-> event]>>
  /\ commands' = RefreshFollowed \o <<Propagation, Conversations>>
  /\ main' = "draining" /\ reader' = "reading" /\ poller' = <<>>
  /\ frames' = <<>> /\ lagged' = FALSE /\ closed' = FALSE
  /\ UNCHANGED <<stores, wanted, task, owed, effort>>

OpenFails ==
  /\ main = "opening" /\ Happens
  /\ stores' = FailSession(stores, Generation)
  /\ main' = "failed"
  /\ UNCHANGED <<wanted, events, commands, task, feeders, wire, daemon, owed>>

(* What an applied event asks the command task for. *)
Asks(e) ==
  CASE e.is = "route" -> <<Refresh("paths")>>
    [] e.is \in {"status", "standard_changed"} -> <<Standard>>
    [] e.is = "reconcile_requests" -> <<Refresh("requests")>>
    [] e.is = "reconcile" -> Append(RefreshFollowed, Standard)
    [] OTHER -> <<>>

Sparse(e) == e.is = "message" /\ ~e.complete
QueriesOf(e) == IF Sparse(e) THEN <<Query(e.message)>> ELSE <<>>

(* Messages that went live while the page in hand was on its way. *)
Arrived(e) ==
  IF task.is # "page" THEN task
  ELSE CASE e.is = "message" /\ e.complete -> [task EXCEPT !.arrived = @ \union {e.message}]
         [] e.is \in {"operation", "reconcile"} -> [task EXCEPT !.arrived = {}]
         [] OTHER -> task

(* The coroutine gives way to the command task only where it waits: it takes
   every event that is in the channel before. *)
Drain(left) == IF left = <<>> THEN "waiting" ELSE "draining"

(* After a gap the commands that reload the messages are sent with a wait. *)
HandleEvent ==
  /\ main \in {"draining", "waiting"} /\ events # <<>>
  /\ LET e == Head(events)
         r == ApplyDaemonEvent(stores, Generation, e)
         gap == r.applied /\ e.is = "reconcile"
     IN /\ stores' = r.stores
        /\ commands' = TrySend(commands,
                         QueriesOf(e) \o (IF r.applied THEN Asks(e) ELSE <<>>))
        /\ main' = IF gap THEN "reloading" ELSE Drain(Tail(events))
        /\ owed' = IF gap /\ stores.loaded THEN "yes" ELSE owed
        /\ task' = IF r.applied THEN Arrived(e) ELSE task
  /\ events' = Tail(events)
  /\ UNCHANGED <<wanted, feeders, wire, daemon, effort>>

(* Mutation: the reload is not waited for. *)
ReloadTried ==
  /\ main \in {"reloading", "reloading_messages"}
  /\ commands' = TrySend(commands, <<IF main = "reloading" THEN Conversations ELSE Load>>)
  /\ main' = IF main = "reloading" /\ stores.loaded THEN "reloading_messages"
             ELSE Drain(events)
  /\ UNCHANGED <<stores, wanted, events, task, feeders, wire, daemon, owed, effort>>

SendReload ==
  /\ main \in {"reloading", "reloading_messages"} /\ Len(commands) < CommandCapacity
  /\ commands' = Append(commands, IF main = "reloading" THEN Conversations ELSE Load)
  /\ main' = IF main = "reloading" /\ stores.loaded THEN "reloading_messages"
             ELSE Drain(events)
  /\ UNCHANGED <<stores, wanted, events, task, feeders, wire, daemon, owed, effort>>

(* The reader and the poller have both let go of the channel. *)
EventsEnd ==
  /\ main = "waiting" /\ events = <<>> /\ reader = "ended" /\ poller = <<"ended">>
  /\ main' = "starved"
  /\ UNCHANGED <<stores, wanted, events, commands, task, feeders, wire, daemon, owed, effort>>

(* Another profile was asked for: the command in hand is dropped where it
   awaits, the channels and both connections are closed. *)
Replace ==
  /\ main \in {"draining", "waiting", "starved", "failed"} /\ wanted
  /\ main' = "between" /\ wanted' = FALSE
  /\ events' = <<>> /\ commands' = <<>> /\ task' = Idle
  /\ reader' = "ended" /\ poller' = <<"ended">>
  /\ frames' = <<>> /\ lagged' = FALSE /\ closed' = TRUE
  /\ owed' = "no"
  /\ UNCHANGED <<stores, daemon, effort>>

AskForProfile ==
  /\ ~wanted /\ Happens
  /\ wanted' = TRUE
  /\ UNCHANGED <<stores, main, events, commands, task, feeders, wire, daemon, owed>>

-----------------------------------------------------------------------------
(* The command task: handle_ui_command.  A command the stores do not allow is
   dropped; the others begin with a call of the daemon. *)

Emit(new) ==
  /\ frames' = IF Len(frames) + Len(new) <= FrameCapacity THEN frames \o new
               ELSE SubSeq(frames \o new, Len(frames) + Len(new) - FrameCapacity + 1,
                           Len(frames) + Len(new))
  /\ lagged' = (lagged \/ Len(frames) + Len(new) > FrameCapacity)
  /\ UNCHANGED closed

MessageFrame(m, v, complete) ==
  [is |-> "message", message |-> m, version |-> v, complete |-> complete]
OperationFrame == [is |-> "operation"]

Taken(c) ==
  /\ task = Idle /\ main # "draining" /\ commands # <<>> /\ Head(commands) = c
  /\ Availability(stores, Generation, Required(c))
  /\ commands' = Tail(commands)
  /\ UNCHANGED <<main, wanted, events, feeders, effort>>

DropCommand ==
  /\ task = Idle /\ main # "draining" /\ commands # <<>>
  /\ ~Availability(stores, Generation, Required(Head(commands)))
  /\ commands' = Tail(commands)
  /\ owed' = IF owed = "yes" /\ Head(commands) = Load THEN "refused" ELSE owed
  /\ UNCHANGED <<stores, main, wanted, events, task, feeders, wire, daemon, effort>>

TakeRefresh ==
  \E c \in {Refresh(k) : k \in Kinds} \union {Standard, Propagation, Conversations} :
    /\ Taken(c)
    /\ task' = [is |-> c.is, command |-> c, answer |-> daemon.commandGeneration]
    /\ UNCHANGED <<stores, wire, daemon, owed>>

TakeLoad ==
  /\ Taken(Load)
  /\ stores' = MarkPeerLoaded(stores, Generation)
  /\ \E reset \in BOOLEAN :
       task' = [is |-> "page", answer |-> Page, reset |-> reset, arrived |-> {}]
  /\ owed' = "no"
  /\ UNCHANGED <<wire, daemon>>

TakeQuery ==
  \E m \in Messages :
    /\ Taken(Query(m))
    /\ task' = [is |-> "query", message |-> m, answer |-> Page[m]]
    /\ UNCHANGED <<stores, wire, daemon, owed>>

(* save_draft comes first; the message leaves whether or not it was saved. *)
TakeSend ==
  /\ Taken(Send)
  /\ task' = [is |-> "saving"]
  /\ UNCHANGED <<stores, wire, daemon, owed>>

SendMessage ==
  /\ task.is = "saving" /\ main # "draining"
  /\ \/ stores' = SetDraft(stores, Generation, TRUE) /\ UNCHANGED effort
     \/ Happens /\ UNCHANGED stores
  /\ \E m \in Own : /\ daemon.version[m] = 0
                    /\ daemon' = [daemon EXCEPT !.version[m] = 1]
                    /\ task' = [is |-> "sending", message |-> m]
  /\ UNCHANGED <<main, wanted, events, commands, feeders, wire, owed>>

(* apply_send_outcome: the message as it was accepted or refused. *)
OutcomeApplied ==
  /\ task.is = "sending" /\ main # "draining"
  /\ stores' = PushMessage(stores, task.message, 1)
  /\ \E accepted \in BOOLEAN : task' = IF accepted THEN [is |-> "discarding"] ELSE Idle
  /\ UNCHANGED <<main, wanted, events, commands, feeders, wire, daemon, owed, effort>>

(* The draft is gone from the stores even where discarding it failed. *)
DraftDiscarded ==
  /\ task.is = "discarding" /\ main # "draining"
  /\ stores' = SetDraft(stores, Generation, FALSE)
  /\ task' = Idle
  /\ UNCHANGED <<main, wanted, events, commands, feeders, wire, daemon, owed, effort>>

(* retry_message and cancel_message: a message the daemon no longer has is not
   found, and the page it was on is asked for again. *)
TakeChange ==
  \E m \in Messages :
    /\ Taken(Change(m))
    /\ IF Page[m] > 0
       THEN /\ daemon' = [daemon EXCEPT !.version[m] = @ + 1]
            /\ task' = [is |-> "changed", message |-> m, answer |-> Page[m] + 1]
            /\ Emit(<<OperationFrame>>)
       ELSE /\ task' = [is |-> "changed", message |-> m, answer |-> Gone]
            /\ UNCHANGED <<wire, daemon>>
    /\ UNCHANGED <<stores, owed>>

ChangeAnswered ==
  /\ task.is = "changed" /\ main # "draining"
  /\ stores' = ApplyLifecycle(stores, Generation, task.message, task.answer, task.answer # Gone)
  /\ task' = IF task.answer = Gone /\ stores.messages[task.message] > 0
             THEN [is |-> "page", answer |-> Page, reset |-> TRUE, arrived |-> {}]
             ELSE Idle
  /\ UNCHANGED <<main, wanted, events, commands, feeders, wire, daemon, owed, effort>>

TakeJob ==
  /\ Taken(Job)
  /\ stores' = BeginJob(stores, Generation)
  /\ task' = [is |-> "job", answer |-> Last(BeginJob(stores, Generation).jobs).id]
  /\ UNCHANGED <<wire, daemon, owed>>

(* start_network_operation; the answer is applied like an event. *)
TakeStart ==
  \E r \in Records :
    /\ Taken(Start(r))
    /\ task' = [is |-> "start", record |-> r, answer |-> daemon.commandGeneration]
    /\ UNCHANGED <<stores, wire, daemon, owed>>

(* What an answer does to the stores. *)
Result ==
  CASE task.is = "refresh"       -> SetSnapshot(stores, Generation, task.command.kind,
                                                [r \in Records |-> task.answer])
    [] task.is = "standard"      -> SetStandard(stores, Generation, task.answer)
    [] task.is = "propagation"   -> SetPropagation(stores, Generation, "ready")
    [] task.is = "conversations" -> MergeConversations(stores, Generation, TRUE, FALSE)
    [] task.is = "query"         -> ResolveMessage(stores, Generation, task.message, task.answer)
    [] task.is = "job"           -> FinishJob(stores, Generation, task.answer, "succeeded")
    [] task.is = "start"         -> ApplyObservation(stores, "operations", task.record,
                                                     task.answer).stores
    [] task.is = "page"          ->
         MergePage(IF task.reset THEN ResetPeer(stores, Generation) ELSE stores,
                   Generation, task.answer, FALSE)

Single == {"refresh", "standard", "propagation", "conversations", "query", "job", "start", "page"}

ApplyAnswer ==
  /\ task.is \in Single /\ main # "draining"
  /\ stores' = Result
  /\ task' = Idle
  /\ UNCHANGED <<main, wanted, events, commands, feeders, wire, daemon, owed, effort>>

(* A failed call leaves the stores alone, but for those that show it. *)
CallFails ==
  /\ task.is \in Single \union {"sending", "changed"} /\ main # "draining" /\ Happens
  /\ task' = Idle
  /\ stores' = CASE task.is = "standard"    -> FailStandard(stores, Generation)
                  [] task.is = "propagation" -> SetPropagation(stores, Generation, "degraded")
                  [] task.is = "job"         -> FinishJob(stores, Generation, task.answer, "failed")
                  [] OTHER -> stores
  /\ UNCHANGED <<main, wanted, events, commands, feeders, wire, daemon, owed>>

(* send_cmd of a page of the interface; as many messages are sent as Own has. *)
Sending == task.is = "saving" \/ Send \in ToSet(commands)
Offered == {Send : m \in {o \in Own : daemon.version[o] = 0 /\ ~Sending}}
           \union {Change(m) : m \in ShownMessages(stores)}
           \union {Start(r) : r \in Records}
           \union {Load, Job}

Open == main \in {"draining", "waiting", "reloading", "reloading_messages", "starved"}

Command ==
  /\ Open /\ Happens
  /\ \E c \in Offered : commands' = TrySend(commands, <<c>>)
  /\ UNCHANGED <<stores, main, wanted, events, task, feeders, wire, daemon, owed>>

-----------------------------------------------------------------------------
(* The daemon, of its own. *)

Push(new) ==
  /\ Open /\ ~closed /\ Happens
  /\ Emit(<<new>>)
  /\ UNCHANGED <<stores, main, wanted, events, commands, task, feeders, owed>>

(* A message arrives, is delivered or is marked: the event has all or part of
   it. *)
MessageChanges ==
  \E m \in Messages, complete \in BOOLEAN :
    /\ daemon.version[m] >= IF m \in Own THEN 1 ELSE 0
    /\ daemon' = [daemon EXCEPT !.version[m] = @ + 1]
    /\ Push(MessageFrame(m, daemon.version[m] + 1, complete))

(* Another client changed a message or removed it. *)
OtherClient ==
  \E m \in Messages, kept \in BOOLEAN :
    /\ daemon.version[m] > 0
    /\ daemon' = [daemon EXCEPT !.version[m] = IF kept THEN @ + 1 ELSE Gone]
    /\ Push(OperationFrame)

PeerAnnounces ==
  \E d \in Devices :
    /\ daemon' = [daemon EXCEPT !.announced[d] = @ + 1]
    /\ Push([is |-> "peer", device |-> d, announce |-> daemon.announced[d] + 1])

Observation(k, r, generation) ==
  [is |-> "observation", kind |-> k, record |-> r, generation |-> generation]

(* What the daemon pushes of its own, the gaps it tells of itself among it. *)
NetworkChanges ==
  /\ \/ \E k \in ObservedKinds, r \in Records :
           Push(Observation(k, r, daemon.eventGeneration))
     \/ \E is \in {"route", "standard_changed", "reconcile_requests", "reconcile"} :
           Push([is |-> is, generation |-> daemon.eventGeneration])
  /\ UNCHANGED daemon

(* The command connection is made again, or allows less. *)
DaemonMoves ==
  /\ Open /\ Happens
  /\ \/ daemon' = [daemon EXCEPT !.commandGeneration = daemon.given + 1, !.given = @ + 1]
     \/ daemon' = [daemon EXCEPT !.authorised = {}]
  /\ UNCHANGED <<stores, main, wanted, events, commands, task, feeders, wire, owed>>

EventConnectionCloses ==
  /\ Open /\ ~closed /\ Happens
  /\ closed' = TRUE
  /\ UNCHANGED <<stores, main, wanted, events, commands, task, feeders, frames, lagged, daemon,
                 owed>>

-----------------------------------------------------------------------------
(* event_reader *)

Room == Len(events) < EventCapacity
Deliver(e) == events' = Append(events, e)

FeederLeaves == UNCHANGED <<stores, main, wanted, commands, task, daemon, owed>>

ReadFrame ==
  /\ reader = "reading" /\ ~lagged /\ frames # <<>>
  /\ IF Room THEN Deliver(Head(frames)) /\ UNCHANGED reader
             ELSE reader' = "owes" /\ UNCHANGED events
  /\ frames' = Tail(frames)
  /\ UNCHANGED <<lagged, closed, poller, effort>> /\ FeederLeaves

ReadLag ==
  /\ reader = "reading" /\ lagged
  /\ lagged' = FALSE /\ reader' = "owes"
  /\ UNCHANGED <<frames, closed, events, poller, effort>> /\ FeederLeaves

ReportGap ==
  /\ reader = "owes" /\ Room
  /\ Deliver([is |-> "reconcile", generation |-> daemon.eventGeneration])
  /\ reader' = "reading"
  /\ UNCHANGED <<wire, poller, effort>> /\ FeederLeaves

ReadClosed ==
  /\ reader = "reading" /\ ~lagged /\ frames = <<>> /\ closed
  /\ reader' = "closing"
  /\ UNCHANGED <<events, wire, poller, effort>> /\ FeederLeaves

ReportClosed ==
  /\ reader = "closing" /\ Room
  /\ Deliver([is |-> "disconnected"])
  /\ reader' = "ended"
  /\ UNCHANGED <<wire, poller, effort>> /\ FeederLeaves

-----------------------------------------------------------------------------
(* spawn_poller: a round asks for one thing after the other, and what the
   channel has no room for is lost.  A round, of several calls, counts twice
   against the bound. *)

Round == <<"status", "peers", "paths", "observations">>

PollRound ==
  /\ Open /\ poller = <<>> /\ Takes(2)
  /\ poller' = Round
  /\ UNCHANGED <<events, reader, wire>> /\ FeederLeaves

(* send_polled_event: one of the peers, or of the observations. *)
TryDeliver(e) == events' = IF Room THEN Append(events, e) ELSE events

Polled(what) ==
  CASE what = "status" -> {StatusOf(daemon.commandGeneration)}
    [] what = "peers"  -> {[is |-> "peer", device |-> d, announce |-> daemon.announced[d]] :
                              d \in Devices}
    [] what = "paths"  -> {PathsOf(daemon.commandGeneration)}
    [] what = "observations" ->
         {Observation(k, r, daemon.commandGeneration) : k \in ObservedKinds, r \in Records}

Poll ==
  /\ poller # <<>> /\ Head(poller) \in ToSet(Round)
  /\ IF Polled(Head(poller)) = {} THEN UNCHANGED events
     ELSE \E e \in Polled(Head(poller)) : TryDeliver(e)
  /\ poller' = Tail(poller)
  /\ UNCHANGED <<reader, wire, effort>> /\ FeederLeaves

(* The status cannot be had: the poller waits to say so and ends. *)
PollFails ==
  /\ poller # <<>> /\ Head(poller) = "status" /\ Happens
  /\ poller' = <<"closing">>
  /\ UNCHANGED <<events, reader, wire>> /\ FeederLeaves

PollEnds ==
  /\ poller = <<"closing">> /\ Room
  /\ Deliver([is |-> "disconnected"])
  /\ poller' = <<"ended">>
  /\ UNCHANGED <<reader, wire, effort>> /\ FeederLeaves

-----------------------------------------------------------------------------
Coroutine == Begin \/ Opens \/ HandleEvent \/ SendReload \/ EventsEnd
Task == \/ DropCommand \/ TakeRefresh \/ TakeLoad \/ TakeQuery \/ TakeSend \/ TakeChange
        \/ TakeJob \/ TakeStart \/ SendMessage \/ OutcomeApplied \/ DraftDiscarded
        \/ ChangeAnswered \/ ApplyAnswer
Reader == ReadFrame \/ ReadLag \/ ReportGap \/ ReadClosed \/ ReportClosed
Poller == Poll \/ PollEnds

Next == \/ Coroutine \/ Replace \/ Task \/ Reader \/ Poller
        \/ OpenFails \/ CallFails \/ PollFails \/ PollRound
        \/ AskForProfile \/ Command
        \/ MessageChanges \/ OtherClient \/ PeerAnnounces \/ NetworkChanges
        \/ DaemonMoves \/ EventConnectionCloses

Spec == Init /\ [][Next]_vars

-----------------------------------------------------------------------------
(* Properties. *)

(* What is shown of links, paths, operations, requests and resources while
   the daemon may be acted on was observed on one of the two connections the
   stores know: nothing of an earlier connection is left (stores.rs:343-361). *)
ShownIsNegotiated ==
  stores.connected /\ stores.server # Absent =>
    \A k \in Kinds \ {"interfaces"} :
      ObservedOn(stores.net[k]) \subseteq {stores.server, stores.event}

(* A page of messages never takes back a message that arrived whole while the
   page was on its way, unless the daemon said in between that its history is
   to be read again (stores.rs:707-716). *)
LiveOutlivesPage ==
  [][task.is = "page" /\ task' = Idle /\ main' = main =>
       \A m \in task.arrived : stores'.messages[m] = stores.messages[m]]_vars

(* A gap in the events is never forgotten: until the messages that were loaded
   are asked for again the coroutine is about to send the command, or it waits
   for the task (main.rs:206-238), or the task had to drop it. *)
GapReloadsMessages ==
  owed = "yes" => main \in {"reloading", "reloading_messages"} \/ Load \in ToSet(commands)

(* When the command task is idle every fleet job has its outcome. *)
JobsEnd ==
  Open /\ task.is # "job" =>
    \A i \in DOMAIN stores.jobs : stores.jobs[i].state # "running"
=============================================================================
