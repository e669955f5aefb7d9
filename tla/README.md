# TLA+ verification of styrene-ui

styrene-ui is the user interface of the Styrene mesh messenger: a mobile
application (Android, iOS) that embeds a mesh node, and a desktop application
that talks to a daemon.  Neither implements the mesh protocol; what they own is
the *coordination* around it: tasks, queues, callbacks of the operating system,
deadlines, generations that fence stale answers, and what is shown to the
operator meanwhile.  That coordination is what these modules model.

Modules are checked with TLC and proved about with TLAPS:

    tlc -workers 2 -config IosBle.cfg MCIosBle.tla
    tlapm RNodePumpProofs.tla      # and QueueLemmas, SessionOwnerProofs, IosBleProofs,
                                   # AppLaunchProofs, LegacyDfuProofs, PhoneProofs, ScreensProofs

`PROJECT.json` lists the components, the runs, for every definition the source
lines it stands for, the hazards, the findings and the theorems.

## 1. The system

| Part | Source | State it keeps | Works with |
|---|---|---|---|
| Attempt boundary | `styrene-ui-apple-bridge/src/ble.rs` | handshake phase, write limit, pending write token | owned by the BLE delegate |
| iOS BLE adapter and delegate | `styrene-ui-apple-bridge/src/ble_ios.rs` | active peripheral, pending write, event queue (force_send) and read queue | CoreBluetooth callbacks; the host and the pump |
| Byte pump | `mobile/src/ble_session.rs` | position in start / poll / write / complete / read / submit / stop | adapter, embedded node, cancellation channel |
| iOS Bluetooth host | `mobile/src/ios_ble.rs`, `styrene-ui-platform/src/ble.rs` | control state shown, pending scan or connection, deadline, adapter; approval in UserDefaults | UI commands, adapter events, node |
| Session owner | `mobile/src/session.rs` | node, generation, backend generation, subscription | state events, UI actions and requests, one-place update channel |
| Bootstrap and recovery | `mobile/src/session.rs` (prepare_owner), `mobile/src/lib.rs` | staged request, presence of an identity, phase of the form | UI requests, node boot |
| App Lock | `styrene-ui-platform/src/app_lock.rs`, `device_authentication.rs` | policy, setup flag, satisfied launch and boot | LocalAuthentication, bootstrap |
| Shell and composer | `styrene-ui-app/src/lib.rs` | draft buffers, sending marker, thread open | session owner |
| Mobile state reducer | `styrene-ui-state/src/lib.rs` | MobileStore | snapshots, events and outcomes of a backend |
| Platform events | `styrene-ui-platform/src/lib.rs`, `mobile/src/platform.rs` | facts with a generation and sequence | web view script, native signals |
| Text and documents | `text_acquisition.rs`, `document_exchange.rs`, `mobile/src/platform.rs`, `WryActivity.kt` | request generations, a file to be shared | clipboard, camera, share sheet |
| Permissions | `mobile/src/platform.rs`, `WryActivity.kt` | request, handler, receiver, pending intent | Android |
| Firmware update | `legacy_dfu*.rs`, `firmware*.rs` | DFU phase, receipt counters | BLE adapter (hand-over), bootloader |
| Android USB | `mobile/src/android_usb.rs`, `session.rs` | panel, worker, attempt, probe | session owner |
| Desktop stores | `desktop/src/stores.rs`, `state.rs` | conversations, fleet jobs, network, generation | daemon events and outcomes |
| Desktop session | `desktop/src/main.rs`, `backend.rs`, `daemon_bridge.rs` | session coroutine, command task, reader, poller | daemon IPC |
| Desktop content | `desktop/src/main.rs`, `components/page_browser.rs` | page, fields, history, download | command task |
| Protocol Lab and safety | `safety.rs`, `scenario*.rs`, `lab_page.rs` | confirmation dialog, current run | runner process, daemon capabilities |

The embedded node (`styrened::mobile::MobileNode`), CoreBluetooth and the daemon
are not in this repository; they are modelled from the way the code uses them
and marked external.

**What is hard.**  Everything of the iOS application runs on one main queue, so
code between two awaits is atomic, but every await lets callbacks, taps and other
tasks in.  (a) A CoreBluetooth callback names neither the write nor the attempt
it is about.  (b) Queues are bounded and lossy by design: the event queue drops
its oldest event, the read queue replaces its oldest item by an error, commands
and actions are lost by try_send, updates displace each other in one place.
(c) Views are stale: a tap is on what was rendered, not on what holds.
(d) The node changes generation, or is replaced by one that counts from the
start, while a snapshot of it is being read.  (e) Deadlines race the events they
wait for.  (f) The process may be killed with any of this half done.

**What makes each part correct.**
Pump: a packet is let go only when all of its writes were acknowledged on one
attempt, and is never stuck or lost; reads have no silent hole; it always ends
when cancelled or disconnected.
Host: no connection the operator did not ask for; what is shown as approved is
what is remembered; every scan and every unreported connection is bounded.
Owner: a snapshot is of one generation; a generation is never reused; actions
are done to what was shown; the interface catches up.
Bootstrap and App Lock: no path to the node without the required
authentication; an identity only by its operator's choice; every choice answered.
Composer: no typed text is lost, no message is sent twice, the node's open thread
is the one on screen.  Reducer and desktop stores: nothing of an old generation is
shown as the present one.  Platform: facts shown are in the end those that hold.
Requests: an answer reaches only the request it is for, and nothing is left behind.
Firmware update: byte counts agree, only a validated image is activated.
Protocol Lab: every run gets one outcome and the page hears of it.

## 2. Modules

    CoreBluetoothAttempt      operators: the boundary of one attempt
       |            \
    RNodePump      IosBle     the pump and its adapter; the host
       |
    RetainedDelivery          what the pump promises (abstract)
    SessionOwner              the session owner
    AppLaunch                 App Lock gate, identity bootstrap, recovery forms
    LegacyDfu                 firmware update, with the hand-over from the byte stream
    AndroidUsb                USB panel, owner requests, worker and its attempt
    UsbAuthorization          the permission of a USB device
    PhoneRequests             paste, scan, copy, share
    PlatformEvents            platform facts, their script, stream and state
    Composer                  messages surface of the phone over the action queue
    MobileReducer             MobileStore
    DomainStores              operators: the desktop reducers
       |
    DesktopSession            coroutine, command task, reader, poller
    PageContent               content page, browser and its commands
    ProtocolLab               scenario runs, dialogs of destructive actions

    RNodePumpProofs, IosBleProofs, AppLaunchProofs, LegacyDfuProofs
                              theorems of the module each is named for
    SessionOwnerProofs        of SessionOwner and PlatformEvents
    PhoneProofs               of UsbAuthorization, PhoneRequests, AndroidUsb
    ScreensProofs             of PageContent, DesktopSession, Composer, MobileReducer, ProtocolLab
    QueueLemmas               lemmas about sequences and the least of a set of numbers

    MCRNodePump, MCIosBle     instances for TLC
    MCSessionOwner            SessionOwner, PlatformEvents
    MCPhone                   AppLaunch, LegacyDfu, AndroidUsb, PhoneRequests, UsbAuthorization
    MCScreens                 DesktopSession, ProtocolLab, PageContent, Composer, MobileReducer

The last three each hold several components that share no state.  A variable `part`,
chosen initially, names the one explored; the others stay in one initial state.
The fairness of a component is stated for its part only, so none is assumed of a
component that stands still.

### CoreBluetoothAttempt
`CoreBluetoothAttemptBoundary` as a record and one operator per method.  A
method returns the new boundary and what it told its caller.  The delegate always
passes its own generation, so the stale-generation return is unreachable and left
out; `disconnection_observed` and `shutdown_token` are part of LegacyDfu's hand-over.

### RNodePump and RetainedDelivery
`pc` names the await at which the pump is suspended:

| pc | code (`ble_session.rs`) | left by |
|---|---|---|
| `begin` | `session.start` | Start, StartFails |
| `write` / `await` | `write_all`: before / in `write_with_response` | IssueWrite, WriteRefused / WriteOk, WriteErr; CancelWrite |
| `poll`, `complete`, `fail` | `session.poll`, `complete`, `fail` | Poll, Complete, FailBatch, BackendFails |
| `read` | the select | Read, Timer, CancelRead |
| `submit` | `session.submit` | Submit, BackendFails |
| `stop`, `close` | `session.stop`, `link.close` | Stop, CloseLink |

The adapter is `boundary`, `native` (writes CoreBluetooth owes a callback for),
`completion` (the channel of the awaited write) and `reads`; callbacks are actions
that may run at any await.  `link = "lost"` is a connection that is gone without
a callback ever coming (radio switched off).  The node's side (offer, complete,
fail, stop) is external: `retained`, `offeredTo`, with the rule the pump's code and
its test session show: a packet is offered once per attempt until it is failed,
stopped or completed.  `progress`, `acknowledged`, `released`, `submitted` and
`dropped` are history variables; no action is guarded by them.

`RetainedDelivery` is the promise: packets are enqueued, acknowledged, and released
oldest first and only when acknowledged.  `DeliversRetained` is the refinement.

### IosBle
One action per command, per event and per CoreBluetooth callback; a handler with
an await inside is split there (`permission`, `approving`, `reconnecting`,
`forgetting`, `pumping`, `forgotten`).  `offered` is what the controls offered when
last rendered: a Tap may use a stale offer.  `running` says that the host is being
polled: a tokio select that has a ready branch does not give the main queue back,
so neither taps nor callbacks interleave with handlers of already queued work.  The
pump is one await here; what may be assumed of it (it ends when cancelled or
disconnected, and closes the adapter) is what RNodePump shows.  `asked` and `missed` (the
full queue displaced an event of the present attempt) are history.
An adapter serves one scan and one attempt, so generation numbers, which the host
never compares, are left out.

### SessionOwner
`pc` names the await of `owner_loop`.  `generation` fences updates and actions,
`backend` is `backend_generation`, `node`/`nodeGeneration` are the node held and
the generation it is in.  What a node stores is the number of changes made to it,
so that "older contents" is a comparison.  `project` is four steps (first
generation check, queries, second check, force_send).  The subscription is a
bounded queue that lags or closes.  The interface is the last update received,
the actions it dispatches and the backup it waits for.  The model starts where
`prepare_owner` has booted the node and subscribed; AppLaunch models what precedes.

### AppLaunch
`owner` is where `run_owner` and `prepare_owner` await: the gate, the presence of
an identity, a bootstrap request, a restore and its verification, the boot, the
publication of a snapshot, the running session and one no snapshot shows.  Stored state (policy, setup flag, satisfied boot, custody)
survives kills and restarts; the rest starts over with a launch.  A boot is known by
its number and by `marker`, the wall clock minus uptime, which sleep moves and the
two samples of the gate read with a drift; the code only sees the marker.  `phase`,
`picked`, `waiting` are App's recovery form.  History: `entry` (the policy the gate
read) and `authenticated`.

### LegacyDfu
The session (`Rak4631LegacyDfuSession`) as a record with `NextAction` and
`Notification`; `runner`, the future that drives it; the channels of the
CoreBluetooth adapter; the bootloader, external, with lost packets, refusals, late
receipts and a lost link.  Before it, the hand-over: a byte stream with a write
perhaps pending, whose `shutdown_for_dfu` refuses or hands over the peripheral.

### AndroidUsb and UsbAuthorization
`flow` is the panel's one task.  The owner takes fallbacks, selections, probes and
the replacement of the node; to stop its worker it cancels, waits two seconds and
aborts, which may hit at any await of the worker; then it stops the attempt the
worker stored.  UsbAuthorization has the request's task, the closures it dispatches
to the main thread in order, the activity's receiver, wry's one handler slot and
Android's dialog.  A request that failed is asked again by a tap, which reaches
the task by way of the main thread, after the closures dispatched before.

### PhoneRequests
One request of each kind at a time, as the busy signals allow.  On Android a
closure waits in the looper and runs although its request gave up after five
seconds; on iOS the call runs where the task does.  Views move, the activity pauses
and resumes, the process is killed with the file of a share stored.

### PlatformEvents
The script publishes one message at a time and merges what happens meanwhile; the
stream pairs it with the native signal; `PlatformState` orders events by generation
and sequence and asks for a resynchronisation, which is two reads with an await
between.  Facts are counted by their changes.

### Composer
Typing, sending, opening, starting and leaving conversations on a snapshot that may
be old; the action queue, the owner that takes one action per step and publishes a
snapshot after it, an applied endpoint, lost actions and failed projections.  A text
is a number.  `typed`, `delivered`, `lost`, `adrift` are history.

### MobileReducer
Each `apply_*` of MobileStore, with an update that tells any state the backend ever
was in.  The application itself builds a new store from each snapshot
(`styrene-ui-app/src/lib.rs:803`); the reducers are the contract the repository's tests hold it to.

### DomainStores, DesktopSession, PageContent, ProtocolLab
DomainStores is a record with one operator per reducer.  DesktopSession adds what runs
beside it: the session coroutine, which takes all queued events before it gives
way to the command task; the task, await by await; the reader, whose sends wait for
room; the poller, whose sends are dropped without; gaps come from the reader, which lagged,
and from the daemon, which tells of its own.  PageContent has the store's page, the browser's own signals, which are rendered later, and the one
task behind both.  ProtocolLab has the four calls that lock the current run in
order, the fixture worker and the live runner with its child process, and the
dialogs that a change of the safety context spoils.

## 3. Runs

All bounds are constants; every guard that uses one is a bound, not behaviour.

| Run | Bounds | Distinct states | Checks |
|---|---|---|---|
| RNodePump | 2 packets x 2 writes, 1 start write, up to 1 response, read queue 2, 3 notifications, 2 attempts | 377k | TypeOK, OfferNotStranded, CallbackNamesPendingWrite, GapIsNoticed, DeliversRetained, PumpStops, StableAttemptDelivers |
| IosBle | 2 peripherals, command queue 2, event queue 2, 3 taps, 2 radio toggles, 2 launches | 566k | NoUnaskedConnection, DeadlinesAreArmed, PumpOwnsAttempt, EffortsEnd |
| SessionOwner | owner: action queue 1, events 2, 1 tap, 1 export, 1 change, 1 restart, 2 nodes, 1 fault; platform: 2 changes of facts, 1 failed read | 186k | TypeOK, SnapshotOfOneGeneration, GenerationNamesBackend, ActsOnWhatWasShown, OwnerIsNotAhead, ViewNeverGoesBack, ViewCatchesUp, ExportAnswered; FactsNeverGoBack, FactsAreShown |
| Screens | session: 1 record, 2 messages (1 sent), 1 device, event channel 4, commands 3, frames 1, 3 efforts of which a poll round takes 2; lab: 2 runs, 3 taps, 1 new context, 1 fault; content: 2 addresses, 4 taps, 2 answers, 1 profile, 1 fault; messages: 2 peers, queue 2, 2 keystrokes, 2 taps, 1 upset; reducer: 1 peer, 3 changes, 3 generations | 1021k | ShownIsNegotiated, GapReloadsMessages, LiveOutlivesPage; OutcomeReachesPage; LoadingIsAnswered, FormStaysHere; TypedIsKept, ThreadIsActive; UpdatesAreFenced |
| Phone | launch: 3 processes, 2 boots, 1 sleep, 1 change of policy, 2 generations, 2 faults; firmware: 1 to 7 packets with a receipt every 3, notification queue 2, 2 faults; usb: 2 devices, 2 efforts, 2 faults; requests: 2 of them, 2 views, 2 identities, 1 pause, 1 kill; authorization: 3 requests, 3 mishaps | 288k | NodeNeedsUnlock, IdentityAsChosen, BootstrapProgresses; ActivatesOnlyValidated, UpdateEnds; UsbAttemptIsReaped, UsbEffortEnds; BackupIsReclaimed, AnswersAreForTheLast; NothingLeftBehind |
| the other seven | see section 5 | | one refuted statement each |

**Why these bounds.**  Two packets and two attempts are what an order or a replay
needs to go wrong; two writes per packet give a batch a middle; a read queue of
two overflows with three notifications.  Two peripherals make "another one"
possible; three taps are a Select or Scan and two commands in conflict with it; an
event queue of two overflows during one handshake; two launches are one
restart.  One restart and a replacement give the owner three generations of two
nodes, so that every pair of its steps can be separated by a change.  Seven packets
with a receipt every third are two full windows and a partial one, and each smaller
image is covered too.  Three launches over two boots allow an authentication, a kill
and a restart after it.  Two USB efforts are a probe behind a selection, or a
retry; three permission requests let a late closure meet the next but one.  An event channel of
four is what the start of a session fills; one frame makes the event connection lag;
two runs make a stale outcome possible, two addresses and four taps a page replaced
twice with a form typed in between.  `CHECK_DEADLOCK FALSE` is used where the system
may stop: the operator has no efforts left and nothing is in flight, or a session has
ended.  RNodePump is checked for deadlock: the pump with nothing to do polls on its
timer, and the world can always begin another attempt or switch the radio.
No run uses symmetry.

**Fairness.**  *RNodePump*: weak fairness of the pump (the executor polls it
when it can move), and strong fairness of the cancel and read branches: they may
be disabled again and again by the timer branch in between, but a select that is
polled takes a ready branch rather than a timer that was armed just now.  Nothing
is assumed of CoreBluetooth; StableAttemptDelivers states the one assumption it
needs (PeripheralAnswers) in its own premise.
*IosBle*: the host, its timer, and the end of a pump that was cancelled or lost
its peripheral.  A pump that is left alone is not assumed to end.  The
Reconnect run adds that a new manager reports its state, which CoreBluetooth does.
*SessionOwner*: the owner's task and the interface's update loop run, and each
branch of the owner's select is strongly fair because tokio's select polls
its branches in random order.  ViewCatchesUp assumes further announcements
(KeepsAnnouncing) only for behaviours with restarts or faults.
*PlatformEvents*: the subscription's task and the web view's script.
*AppLaunch*: the session thread, App's update loop and the task that waits for
an answer; not the operator, the picker, the share sheet, the device or a further
report of the node.
*LegacyDfu*: the driver, CoreBluetooth's callbacks for what it was given, and a
bootloader that takes what reaches it and resets once activated; UpdateEnds
asks nothing of an update with a fault.
*AndroidUsb*: the panel, the owner and the worker; its timeouts are steps of these.
The parts of *Screens* have no liveness property and no fairness: where something is
owed there, an invariant says who owes it.

**What they show.**  Every property has a mutant: the definition named in
`PROJECT.json` replaced by the slip one would expect there (a skipped
`session.stop`, an error not recorded, a generation not advanced, a deadline
not armed), for which TLC finds the property violated in the same instance.

Some results deserve a word.  *DeadlinesAreArmed* carries an exception that the
code has: a Select tapped on a stale list whose connection cannot start takes the scan
deadline away and leaves the radio scanning until the next command.
*EffortsEnd* asks that a peripheral which CoreBluetooth never connects, and of which
it never says so, is given up at the deadline; without that deadline it fails.
Its part about connections and that of *DeadlinesAreArmed* except an attempt
that lost an event to the full queue (`missed`): force_send displaces the oldest of 64
events, and where that is the end of a connection already reported, whose deadline is
gone, the host waits without one until the next command.
*ViewCatchesUp* needs KeepsAnnouncing: when the node changes generation while the
owner resubscribes, the event of the new generation is discarded with the old
subscription, the projection fails silently, and until the node emits again the
interface shows the old generation and its actions are dropped as stale.
*BootstrapProgresses* excepts a session whose snapshot could not be projected: the
error is dropped (`session.rs:454`, `:1169`), nothing tries again, and the form stays in front
of a running node until the node reports an event.
*UsbEffortEnds* excepts a stranded request (`Stranded`): a probe that is queued
at a worker that has just ended, or a request queued at an owner that has ended, is
neither answered nor dropped, because the other side of the channel is kept, and
the panel stays busy.  *UsbAttemptIsReaped* excepts an abort that hits while the node is
starting the attempt.  *BackupIsReclaimed* allows what iOS leaves behind: the file of a sheet
that could not be presented or whose process was killed, until the next backup.
*NodeNeedsUnlock* rests on a clock that is never set back and a restart that takes longer
than the tolerance (LaunchAssumption).  *TypedIsKept* has drafts' revisions only
grow, as the node does, and excepts keystrokes the full queue or a stale
generation dropped.  *ThreadIsActive* excepts lost actions, a replaced node, and
a conversation started from New Message, which makes a conversation active in
the node without opening its thread.

Some properties join statements about one hazard: DeadlinesAreArmed (a scan, one that
waits, a connection), EffortsEnd
(scan, connection, Forget), PumpStops (cancelled, disconnected), GapIsNoticed (no silent hole, a hole ends the attempt),
OutcomeReachesPage, AnswersAreForTheLast and UpdatesAreFenced.

## 4. Proofs

Every safety and action property of the passing runs is a theorem, for every value of
the constants its module's assumption admits; the assumptions say no more than that
capacities and bounds are numbers, that a queue has room for one item, and what is named
below.  Few of the properties are inductive.  Each has an invariant that is, in the module
named, which says what holds *between* the steps the property is about; TLC found the
property and its invariant to hold in small instances first.  A theorem is then three
facts: the initial states satisfy the invariant, every step keeps it (one lemma or step
per action), and it implies the property.

### RNodePumpProofs (PumpAssumption)

* `TypeCorrect`: Spec => []TypeOK.  `Inv` adds to TypeOK that a pump inside
  write_all still has a write to do (`WritesLeft`).
* `OffersAreNotStranded`: Spec => []OfferNotStranded.
* `GapsAreNoticed`: Spec => []GapIsNoticed, by `GapInv`: a link that is up belongs to a
  Ready boundary, so no notification is refused in silence, and nothing is submitted that
  was not heard.
* `CallbacksNamePendingWrite` (Spec => []CallbackNamesPendingWrite) and
  `PumpDelivers` (Spec => DeliversRetained, the refinement of RetainedDelivery), by
  `DeliveryInv`:
  * `OneWrite`: either CoreBluetooth owes nothing and no write is pending, or it owes
    exactly one callback, for the pending write of a boundary that is Ready;
  * `Owed`: only a pump that awaits that write, or one that is ending after
    abandoning it, is owed a callback, so no later write can be taken for it;
  * `InHand`: the packet the pump holds is the oldest one the backend retains;
  * `Counted`: the chunks acknowledged in order are at least those write_all has
    passed, the outstanding write is the next chunk of the packet in hand, and a pump
    that reaches `complete` has had all of them acknowledged;
  * `Numbered`: packets are numbered in the order they were enqueued, so a fresh
    packet is none of those retained, acknowledged or released.

### IosBleProofs (IosBleAssumption)

`ConnectionsAreAsked`, `EffortsHaveDeadlines` and `PumpsOwnAttempts`
(NoUnaskedConnection, DeadlinesAreArmed, PumpOwnsAttempt) share `IosBleInv`.  Its parts: what may still be connected was asked for,
and what a Forget leaves behind only where the adapter will not connect again
(`OperatorAsked`); reports in the event queue are of the one attempt of the adapter
installed, and "Ready" of a boundary that still is (`ReportsAreOfAttempt`); a scan that
waits has found nothing, one that runs has no attempt beside it (`ScansAreAlone`); a
connection on its way is under the deadline until it is reported on, and its end is in
the queue unless the queue lost it (`FlightsEnd`).  The last is why the deadline may be
dropped at the first report.

### SessionOwnerProofs (OwnerAssumption, PlatformAssumption)

* `SessionTypeCorrect`: Spec => []TypeOK.
* `OwnerNeverAhead`: Spec => []OwnerIsNotAhead, by `NodeLeads`: neither an event
  in the subscription, nor the generation the owner observed before its last
  await, nor the one it believes in is beyond the node's, and when a node is
  replaced (whose generations start over) nothing observed of the old one is left.
* `SnapshotsAreOfOneGeneration`: Spec => []SnapshotOfOneGeneration, by
  `ReadBetween`: while a projection awaits its second check, the generation its
  contents were read in lies between the owner's and the node's; the check finds
  the two equal.
* `GenerationsNameBackends` and `ActionsActOnWhatWasShown`: Spec =>
  []GenerationNamesBackend and Spec => []ActsOnWhatWasShown, both by
  `SameOrOlder`: whatever is shown, waits to be shown or waits to be done carries
  an older generation than the owner's, or is about the owner's node and backend
  generation, and nothing carries the owner's generation while a node is replaced.
* `ViewsNeverGoBack`: Spec => ViewNeverGoesBack, by `NotNewer`: what is published
  is no newer than the owner's generation and than what the projection in progress
  has read, and what waits is no older than what is shown.
* `FactsNeverReturn`: PlatformSpec => FactsNeverGoBack, by `FactsInv`: a message on its way
  that counts further than a snapshot was sent after it (`SentAfter`, of what is held and
  of what is being read), what is held is what is shown, and a snapshot that is being
  enriched is no older than what is shown (`ShowsHeld`).

### AppLaunchProofs (LaunchAssumption)

* `NodesNeedUnlock`: LaunchSpec => []NodeNeedsUnlock, by `UnlockInv`: the stored marker is
  of an authentication in this boot, or lies further back than two samples of one boot
  can (`MarkerIsOfItsBoot`); a satisfied launch is of this process; the sample taken before
  the operator was asked is of this boot, though a sleep may have moved the marker since.
  Here LaunchAssumption matters: a restart moves the marker by more than the tolerance and
  the drift of two samples.
* `IdentitiesAreChosen`: LaunchSpec => IdentityAsChosen, by `BootstrapInv`: one request of the
  bootstrap is under way at most, in the channel, in the owner's hands or answered, and it
  is the one App waits for (`OneRequest`); where the owner is follows from it
  (`OwnerFollowsChoice`); the form is not given back before the answer (`FormIsHeld`); and what
  waits to be shown never takes App back to an earlier view (`ViewsMoveOn`).

### LegacyDfuProofs (DfuAssumption)

`ImagesAreValidated`: DfuSpec => []ActivatesOnlyValidated, by `DfuInv`.  Until the validation is
asked for nobody speaks of it (`NotYetAsked`); no part of the image is on its way behind it, so
what was found whole stays whole (`NothingFollows`); a verdict that is on its way is the
bootloader's (`VerdictIsTrue`); an activation is asked for only after a good one
(`ActivationIsEarned`).  The link's loss of packets and receipts is part of every step.

### PhoneProofs (AuthorizationAssumption, RequestAssumption, UsbAssumption)

* `NothingIsLeftBehind`: AuthorizationSpec => []NothingLeftBehind, by `AuthorizationInv`, which
  lists what may wait for the main thread by where the request waits: a request given up before
  its closure ran has its flag set, and whatever a closure left is still to be cancelled.
* `AnswersAreOfTheLast`: RequestsSpec => AnswersAreForTheLast, by `RequestsInv`: copies are posted
  in order, the task that waits for one waits for the last (`CopiesInOrder`), and nothing is
  left to overwrite one that succeeded (`CopyIsLast`).
* `BackupsAreReclaimed`: RequestsSpec => []BackupIsReclaimed, which is inductive as it stands.
* `UsbAttemptsAreReaped`: UsbSpec => []UsbAttemptIsReaped, by `UsbInv`: the worker's cell names the
  attempt from the moment it was stored until the worker forgets it or its owner reaps it, and
  an attempt nobody knows of was leaked by an abort or is about to be stored.

### ScreensProofs

* PageContent (ContentAssumption): `LoadingsAreAnswered` (ContentSpec => []LoadingIsAnswered) and
  `FormsStayHere` (ContentSpec => FormStaysHere), by `ContentInv`: the browser's signals are those
  of the page that is rendered, and all that is typed was typed on the page whose fields were
  put in last (`SignalsOfPage`).
* DesktopSession (SessionAssumption, StoresAssumption): `ShownIsOfConnections` and `GapsAreMadeUp`
  (Spec => []ShownIsNegotiated, Spec => []GapReloadsMessages), by `SessionInv`: a session is
  announced by the first event in the channel and before anything is shown (`ConnectsFirst`);
  the event connection is named once, with nothing of it before and to stores that know of none
  (`NamedOnce`); between two sessions there is nothing in hand (`NotBegun`); the messages of a gap
  were loaded (`OwedIsLoaded`).  SessionAssumption gives the channels room for what a session
  starts with, as the code computes them to have.
* `LiveOutlivesPages`: FewMessages => (Spec => LiveOutlivesPage), by `LiveInv`: marks are of messages
  that are shown, each once (`AreMarked`), events carry whole messages (`MessagesCarried`), and
  what arrived while a page was on its way is marked (`TaskIsAbout`).  `FewMessages`, no more
  messages in the conversation than MESSAGE_TRANSIENT_CAPACITY (1024) marks, is needed: with
  one message more than marks TLC shows a page that takes back a message whose mark was displaced.
* Composer (ComposerAssumption): `ThreadsAreActive` (ComposerSpec => []ThreadIsActive), by `ThreadInv`: the
  last action on the way that opens a conversation is about the thread, and where none is the node
  has it active; `TextsAreKept` (ComposerSpec => []TypedIsKept), by `TypedInv`: the text typed last was
  sent or lost, or is the draft with no save on the way, or is the last save on the way
  (`NotForgotten`), and a message on the way is the draft it names or names one that was typed
  over (`SubmitsShown`).
* MobileReducer (ReducerAssumption): `UpdatesStayFenced` (ReducerSpec => UpdatesAreFenced), by
  `ReducerInv`.
* ProtocolLab (LabAssumption): `OutcomesReachPages` (LabSpec => OutcomeReachesPage), by `LabInv`: what is
  shown is of the current run and is its outcome once it shows one (`ShowsCurrent`); what the page
  asks for, the dialog and the workers are about runs there are; a live run has no outcome
  before its worker is over.

### Lemmas

QueueLemmas has what append, tail, concatenation and short queues do, and `Least`: a set of
numbers that is not empty has a least element.  The library's induction theorems take an
operator as a parameter and cannot be used; `Least` replaces them where the data is a number.
With it `WithoutIs` (ScreensProofs) proves what the recursive function Without computes, for
every queue.  No module declares a RECURSIVE operator.

**Only model-checked**: every liveness property (PumpStops, StableAttemptDelivers, EffortsEnd,
ViewCatchesUp, ExportAnswered, FactsAreShown, BootstrapProgresses, UpdateEnds, UsbEffortEnds), as
fairness and ENABLED are out of the prover's reach, and the seven statements TLC refutes.

## 5. Where code and documents disagree

Each has a run whose property TLC refutes; `PROJECT.json` quotes the documents.

1. `PumpedIsApproved`: the interface says the approved RNode is connected;
   two queued Selects approve the second and pump the first.
2. `DeadlineSparesConnected`: a connection CoreBluetooth has reported must not be
   cancelled by a deadline; it is when its event still waits.
3. `CancelCancels`: the visible Cancel is ignored once the pump runs.
4. `ReconnectIsAvailable`: after Cancel, nothing reports that Bluetooth is
   back, and reconnecting is not offered although a peripheral is remembered and
   nothing is in flight.

5. `JobsEnd`: fleet jobs "have explicit terminal outcomes"; once old jobs are drained,
   a new one has the identifier of one still held, which gets its outcome.
6. `OneSendInFlight`: the composer must not accept another submit while one is in
   flight; a send in another conversation overwrites the one marker.
7. `RestoreIsReported`: a restore that succeeded leaves the recovery panel busy,
   since nothing ever assigns the phase Restored.

Behaviour that surprised us and that no document of the repository rules out, so that
it has no run: the stranded USB probe above; a sparse message event whose query the
full command queue drops (stores.rs:402); a late Close that clears the page loaded after
it (main.rs:1292) and a late download shown over a newer one (1310); a paste of the
text already pasted, which does not fill the form again (styrene-ui-app lib.rs:821); a destructive
command confirmed in one session of the daemon and run in the next; a live scenario forgotten
when the profile changes; a late draft of the same revision that brings a sent text
back, and begin_reconnect, which leaves readiness as it was (styrene-ui-state).

## 6. Plan

Modelled and checked: every module of section 2.  Proved: every safety and action property of
the passing runs.  Next, in this order:

1. type correctness of the host, the firmware update and the other components whose invariants
   state it (`HostTypeOK`, `DfuTypeOK`, `FactsTyped`), as theorems of their own;
2. capacities: that no queue of a component exceeds the bound its constants give it, which the
   proofs of section 4 did not need (the commands of DesktopSession, the notifications of
   LegacyDfu, the actions of Composer);
3. what makes a view the last one: that the update a surface waits for is never displaced by an
   older one, for the bootstrap as it is proved for the session;
4. an abstract specification of the action queue (at most once, in order, of one generation) that
   SessionOwner and Composer both implement.

Not modelled, and why:

* rendering, layout and wording; activity entries; validation and formatting of inputs;
* preferences: a key-value store with synchronous calls (the contact book is
  SessionOwner's Prefer); the endpoint's text;
* the desktop composer (main.rs:296-336, 587-610, 720-780), which keeps the draft of a
  conversation in one input signal; how effects of the interface library are scheduled decides
  what it does, and that library is not part of the repository;
* the fixture backend, the simulation data, redaction of evidence, the parsing of
  the runner's output: sequential code over strings;
* the content of backups and their protection, QR decoding, KISS framing and the JNI calls of
  the USB port: library calls without state of their own;
* request_and_observe and the permissions it asks for, which the Android
  application does not call;
* `vendor/wry` except the activity's methods the requests run through, and the host shells.
