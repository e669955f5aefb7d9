--------------------------- MODULE PlatformEvents ---------------------------
(***************************************************************************)
(* What the interface knows of its platform (mobile platform.rs): the      *)
(* adapter script in the web view, which publishes one message at a time   *)
(* and waits for it to be taken; the native signal beside it; the event    *)
(* stream over both; the state with its generation and sequence            *)
(* (styrene-ui-platform lib.rs); and the task that resynchronises and      *)
(* shows it.                                                               *)
(*                                                                         *)
(* Facts are counted by their changes: the geometry, which an event        *)
(* carries; everything else the web view tells, which is always read       *)
(* again; and the native facts (text scale, permissions).  The listeners   *)
(* publish no window and no lifecycle event, so there is none here.        *)
(***************************************************************************)
EXTENDS Naturals

CONSTANTS
  MaxFacts,          \* changes of the facts
  MaxReadFaults      \* reads that fail, streams that end

ASSUME PlatformAssumption == {MaxFacts, MaxReadFaults} \subseteq Nat

VARIABLES
  facts,             \* what holds: geometry, rest, native
  due,               \* listeners the web view has yet to call
  page,              \* the adapter script that is subscribed
  message,           \* what it has sent and the stream has not taken
  signalled,         \* the native signal, a channel of one
  task,              \* where the task waits
  streamGeneration,  \* the generation the stream has seen, 0 before the first
  held,              \* the PlatformState of this subscription
  resync,            \* resync_required
  reading,           \* the snapshot the script returned, before it is enriched
  visible,           \* the signal the interface renders
  factFaults

platformVars == <<facts, due, page, message, signalled, task, streamGeneration, held, resync,
                  reading, visible, factFaults>>

world  == <<facts, due>>
script == <<page, message>>
stream == <<streamGeneration, signalled>>
state  == <<held, resync, reading, visible>>

Nothing == [generation |-> 0]
NoKind == "none"

(* A native fact that could not be read is shown as unavailable. *)
Unread == 0

PlatformInit ==
  /\ facts = [geometry |-> 1, rest |-> 1, native |-> 1] /\ due = {}
  /\ page = [generation |-> 0, sequence |-> 0, inFlight |-> FALSE, acked |-> FALSE,
             pending |-> NoKind, dropped |-> FALSE]
  /\ message = Nothing /\ signalled = FALSE
  /\ task = "subscribe" /\ streamGeneration = 0
  /\ held = Nothing /\ resync = TRUE /\ reading = Nothing /\ visible = Nothing
  /\ factFaults = 0

-----------------------------------------------------------------------------
(* The web view and the device around it. *)

Changes == facts.geometry + facts.rest + facts.native < 3 + MaxFacts
FactFault == factFaults < MaxReadFaults /\ factFaults' = factFaults + 1

Listener == [geometry |-> {"geometry"}, rest |-> {"accessibility", "resync"}]

(* A fact changes before the listeners on it are called. *)
WebChanges ==
  \E f \in {"geometry", "rest"} :
    /\ Changes /\ facts' = [facts EXCEPT ![f] = @ + 1]
    /\ \E kind \in Listener[f] : due' = due \cup {kind}
    /\ UNCHANGED <<script, stream, task, state, factFaults>>

(* The configuration changes and the handler is told; a new subscription begins
   without a signal. *)
NativeChanges ==
  /\ Changes /\ facts' = [facts EXCEPT !.native = @ + 1]
  /\ signalled' = TRUE
  /\ UNCHANGED <<due, script, streamGeneration, task, state, factFaults>>

-----------------------------------------------------------------------------
(* The adapter script. *)

Message(kind, from) ==
  [kind |-> kind, dropped |-> from.dropped, generation |-> from.generation,
   sequence |-> from.sequence + 1, geometry |-> facts.geometry, rest |-> facts.rest]

(* What a script of a stream that is over sends, nobody hears. *)
Heard == task \notin {"subscribe", "starting"}

(* One round of the loop in publish. *)
Sends(kind, from) ==
  /\ message' = Message(kind, from)
  /\ page' = [from EXCEPT !.sequence = @ + 1, !.inFlight = TRUE, !.acked = FALSE,
                          !.pending = NoKind, !.dropped = FALSE]

(* Mutation: an event during the round is counted, and no other round is made. *)
MergesIntoNone(kind) == [page EXCEPT !.dropped = TRUE]

(* publish, while another message is in flight: counted as dropped, and the next
   round is of its kind, or a resync when several kinds wait. *)
Merges(kind) ==
  [page EXCEPT !.dropped = TRUE,
               !.pending = IF @ \in {NoKind, kind} THEN kind ELSE "resync"]

PublishEvent(kind) ==
  /\ kind \in due /\ due' = due \ {kind}
  /\ IF ~Heard THEN UNCHANGED script
     ELSE IF page.inFlight THEN page' = Merges(kind) /\ UNCHANGED message
     ELSE Sends(kind, page)
  /\ UNCHANGED <<facts, stream, task, state, factFaults>>

(* The stream has taken the message: the loop goes on with what is pending. *)
Acknowledged ==
  /\ Heard /\ page.inFlight /\ page.acked
  /\ IF page.pending # NoKind THEN Sends(page.pending, page)
     ELSE page' = [page EXCEPT !.inFlight = FALSE, !.acked = FALSE] /\ UNCHANGED message
  /\ UNCHANGED <<world, stream, task, state, factFaults>>

(* The subscription script: the adapter before is aborted, the generation is
   the next, and a resync is published. *)
PageSubscribes ==
  /\ task = "starting" /\ task' = "next"
  /\ Sends("resync", [generation |-> page.generation + 1, sequence |-> 0, inFlight |-> FALSE,
                      acked |-> FALSE, pending |-> NoKind, dropped |-> FALSE])
  /\ UNCHANGED <<world, stream, state, factFaults>>

-----------------------------------------------------------------------------
(* The task: use_platform_snapshot and run_platform_subscription. *)

SubscribePlatform ==
  /\ task = "subscribe" /\ task' = "starting"
  /\ streamGeneration' = 0 /\ signalled' = FALSE
  /\ held' = Nothing /\ resync' = TRUE /\ reading' = Nothing
  /\ UNCHANGED <<world, script, visible, factFaults>>

(* Mutation: the generation alone tells what is stale. *)
SameStream(event) == event.generation = held.generation

(* PlatformState::apply_event for the one change there is, the geometry. *)
Newer(event) == event.generation = held.generation /\ event.sequence > held.sequence

ApplyChanged(event) ==
  IF Newer(event)
    THEN [held EXCEPT !.sequence = event.sequence, !.geometry = event.geometry]
    ELSE held

(* WebPlatformMessage::platform_event: which messages ask for a resync. *)
AsksResync(event) == event.dropped \/ event.kind \in {"accessibility", "resync"}

(* apply_platform_event, and what follows it in the loop: read a snapshot, or
   show what is held. *)
AfterEvent(applied, needs) ==
  /\ held' = applied /\ resync' = needs /\ UNCHANGED reading
  /\ IF needs THEN task' = "read" /\ UNCHANGED visible
     ELSE visible' = applied /\ UNCHANGED task

TakeMessage ==
  /\ task = "next" /\ message # Nothing
  /\ message' = Nothing /\ page' = [page EXCEPT !.acked = TRUE]
  /\ streamGeneration' = message.generation
  /\ IF resync \/ held = Nothing THEN AfterEvent(held, TRUE)
     ELSE IF AsksResync(message) THEN AfterEvent(held, message.generation = held.generation)
     ELSE AfterEvent(ApplyChanged(message), FALSE)
  /\ UNCHANGED <<world, signalled, factFaults>>

(* native_resync: nothing before the first message of the web view. *)
TakeSignal ==
  /\ task = "next" /\ message = Nothing /\ signalled
  /\ signalled' = FALSE
  /\ IF streamGeneration = 0 THEN UNCHANGED <<task, state>>
     ELSE AfterEvent(held, TRUE)
  /\ UNCHANGED <<world, script, streamGeneration, factFaults>>

(* The snapshot script: as of the last message sent. *)
PageSnapshot ==
  [generation |-> page.generation, sequence |-> page.sequence,
   geometry |-> facts.geometry, rest |-> facts.rest, native |-> Unread]

(* PlatformService::snapshot, and its failure: the loop waits for another event. *)
ReadPage ==
  /\ task = "read"
  /\ \/ /\ reading' = PageSnapshot /\ task' = "enrich" /\ UNCHANGED factFaults
     \/ FactFault /\ task' = "next" /\ UNCHANGED reading
  /\ UNCHANGED <<world, script, stream, held, resync, visible>>

(* replace_resynced_snapshot: an equal sequence is accepted, an older one not. *)
Replaces(snapshot) ==
  \/ held = Nothing \/ snapshot.generation > held.generation
  \/ snapshot.generation = held.generation /\ snapshot.sequence >= held.sequence

(* enrich_snapshot: the native facts, or a failure to read them. *)
Enriched(snapshot) ==
  {[snapshot EXCEPT !.native = facts.native]}
    \cup (IF factFaults < MaxReadFaults THEN {snapshot} ELSE {})

(* What follows the snapshot in the loop; after one that is not accepted the task
   waits for another event. *)
Enrich ==
  /\ task = "enrich" /\ task' = "next" /\ reading' = Nothing
  /\ \E current \in Enriched(reading) :
       /\ factFaults' = IF current.native = Unread THEN factFaults + 1 ELSE factFaults
       /\ IF Replaces(current)
            THEN held' = current /\ resync' = FALSE /\ visible' = current
            ELSE UNCHANGED <<held, resync, visible>>
  /\ UNCHANGED <<world, script, stream>>

(* The script ends or a message cannot be read: the stream is over, and after
   250 ms there is another. *)
StreamEnds ==
  /\ task = "next" /\ FactFault /\ task' = "subscribe" /\ message' = Nothing
  /\ UNCHANGED <<world, page, stream, state>>

TaskStep == SubscribePlatform \/ TakeMessage \/ TakeSignal \/ ReadPage \/ Enrich
ScriptStep == PageSubscribes \/ Acknowledged \/ \E kind \in due : PublishEvent(kind)

PlatformNext == WebChanges \/ NativeChanges \/ StreamEnds \/ TaskStep \/ ScriptStep

(* The task and the scripts of the web view run, and listeners are called. *)
PlatformFair == WF_platformVars(TaskStep) /\ WF_platformVars(ScriptStep)

PlatformSpec == PlatformInit /\ [][PlatformNext]_platformVars /\ PlatformFair

-----------------------------------------------------------------------------
(* No event takes back what a newer snapshot brought: neither a message that
   was on its way while the snapshot was read, nor one of a subscription that is
   over, shows older facts than those shown. *)
FactsNeverGoBack ==
  [][visible # Nothing =>
       /\ visible'.geometry >= visible.geometry /\ visible'.rest >= visible.rest
       /\ visible'.native = Unread \/ visible'.native >= visible.native]_platformVars

(* A read that failed is not tried again before something else happens. *)
ReadFailed == (resync /\ task = "next") \/ (visible # Nothing /\ visible.native = Unread)

IsCurrent ==
  /\ visible # Nothing
  /\ \A f \in {"geometry", "rest", "native"} : visible[f] = facts[f]

(* However events merge in the script, race the native signal and the reads, or
   end with their stream: once there was a subscription and the facts have
   settled they are shown, unless the last read failed. *)
FactsAreShown == <>(task # "subscribe") => <>[](IsCurrent \/ ReadFailed)
=============================================================================
