----------------------------- MODULE AndroidUsb -----------------------------
(***************************************************************************)
(* The USB RNode of the Android application: the panel that selects a      *)
(* device, asks for the permission and tests the link (mobile lib.rs), the *)
(* requests it makes of the session owner, the worker task the owner       *)
(* starts, cancels, and aborts when it does not end in two seconds         *)
(* (session.rs), and the byte link the worker drives (android_usb.rs).     *)
(*                                                                         *)
(* usb_busy lets one request be under way, so the request channels are one *)
(* place here.  The thread behind the link takes one command at a time and *)
(* ends with the link; its reads and writes are steps of the worker.       *)
(***************************************************************************)
EXTENDS Naturals, FiniteSets

CONSTANTS
  Devices,           \* USB devices with an RNode
  MaxUsbEfforts,     \* taps on the panel, endpoints applied
  MaxUsbFaults       \* devices plugged or pulled, calls that fail, slow ends

ASSUME UsbAssumption == {MaxUsbEfforts, MaxUsbFaults} \subseteq Nat

VARIABLES
  \* The panel: what its one task waits for and the device it is about, and what
  \* is shown.
  flow, wanted, chosen, authorization, listed, shownConnected,
  \* Android: the devices attached, those permitted.
  attached, permitted,
  \* Between the panel and the owner.
  usbRequest, usbResponse,
  \* The owner: what it does, what it stops the worker for, and the UsbWorker it
  \* holds (its cancel and probe channels).
  usbOwner, purpose, holds, cancel, probes,
  \* The task: where it is, the device it opens, the link, whom a handoff serves.
  worker, opened, link, serving,
  \* The active_attempt cell, and the node: its attempt, the packet offered to
  \* it, a packet that waits, whether the RNode has answered.
  cell, attempt, offered, packet, connected,
  \* The abort hit while the node was starting the attempt.
  leaked,
  usbEfforts, usbFaults

panel     == <<flow, wanted, chosen, authorization, listed, shownConnected>>
android   == <<attached, permitted>>
channels  == <<usbRequest, usbResponse>>
usbOwners == <<usbOwner, purpose, holds, cancel, probes>>
task      == <<worker, opened, link, serving>>
usbNode   == <<attempt, offered, packet, connected>>
usbSpent  == <<usbEfforts, usbFaults>>
usbVars   == <<panel, android, channels, usbOwners, task, cell, usbNode, leaked, usbSpent>>

NoDevice == "no device"
Request(kind, d) == [kind |-> kind, on |-> d]
NoRequest == Request("none", NoDevice)

UsbInit ==
  /\ flow = "none" /\ wanted = NoDevice /\ chosen = NoDevice /\ authorization = "none" /\ listed = {}
  /\ shownConnected = FALSE
  /\ attached = Devices /\ permitted \in SUBSET Devices
  /\ usbRequest = NoRequest /\ usbResponse = "none"
  /\ usbOwner = "idle" /\ purpose = NoRequest /\ holds = FALSE /\ cancel = FALSE /\ probes = "none"
  /\ worker = "done" /\ opened = NoDevice /\ link = FALSE /\ serving = "traffic"
  /\ cell = FALSE /\ attempt = FALSE /\ offered = FALSE /\ packet = FALSE /\ connected = FALSE
  /\ leaked = FALSE
  /\ usbEfforts = 0 /\ usbFaults = 0

Effort == usbEfforts < MaxUsbEfforts /\ usbEfforts' = usbEfforts + 1 /\ UNCHANGED usbFaults
Trouble == usbFaults < MaxUsbFaults /\ usbFaults' = usbFaults + 1 /\ UNCHANGED usbEfforts

-----------------------------------------------------------------------------
(* The panel.  While flow is not "none" usb_busy is set: nothing can be tapped. *)

Quiescent == UNCHANGED <<shownConnected, android, usbOwners, task, cell, usbNode, leaked>>

Refresh ==
  /\ flow = "none" /\ Effort /\ flow' = "listing"
  /\ Quiescent /\ UNCHANGED <<wanted, chosen, authorization, listed, channels>>

(* android_usb_attachments, after Refresh and at the end of a selection. *)
Listed ==
  /\ flow = "listing" /\ flow' = "none"
  /\ \/ listed' = attached /\ UNCHANGED usbSpent
     \/ UNCHANGED listed /\ Trouble
  /\ Quiescent /\ UNCHANGED <<wanted, chosen, authorization, channels>>

(* Once the owner has returned its channels are closed to new requests. *)
AskOwner(kind, d) ==
  /\ flow' = kind
  /\ IF usbOwner = "ended" THEN usbResponse' = "refused" /\ UNCHANGED usbRequest
     ELSE usbRequest' = Request(kind, d) /\ usbResponse' = "none"

(* android_usb_select up to its first await. *)
Select(d) ==
  /\ flow = "none" /\ d \in listed /\ Effort
  /\ wanted' = d /\ chosen' = d /\ authorization' = "undetermined"
  /\ AskOwner("fallback", d)
  /\ Quiescent /\ UNCHANGED listed

OwnerAnswered == usbResponse # "none" /\ usbResponse' = "none" /\ UNCHANGED <<usbRequest, usbSpent>>

FallbackAnswered ==
  /\ flow = "fallback" /\ OwnerAnswered
  /\ IF usbResponse = "ok"
       THEN flow' = "authorizing" /\ UNCHANGED <<chosen, authorization>>
       ELSE flow' = "none" /\ chosen' = NoDevice /\ authorization' = "none"
  /\ Quiescent /\ UNCHANGED <<wanted, listed>>

Authorized(state) ==
  /\ authorization' = state
  /\ AskOwner(IF state = "granted" THEN "connect" ELSE "deny", wanted)
  /\ UNCHANGED <<wanted, chosen, listed, shownConnected, usbOwners, task, cell, usbNode, leaked>>

(* start_usb_permission_request: permitted already, or the dialog is shown. *)
StartAuthorization ==
  /\ flow = "authorizing" /\ wanted \in attached
  /\ UNCHANGED <<android, usbSpent>>
  /\ IF wanted \in permitted
       THEN Authorized("granted")
       ELSE /\ flow' = "dialog"
            /\ UNCHANGED <<wanted, chosen, authorization, listed, shownConnected, channels,
                           usbOwners, task, cell, usbNode, leaked>>

(* The operator answers the dialog, and the state of the device is read again. *)
AnswerDialog ==
  /\ flow = "dialog" /\ wanted \in attached /\ UNCHANGED <<attached, usbSpent>>
  /\ \/ permitted' = permitted \cup {wanted} /\ Authorized("granted")
     \/ UNCHANGED permitted /\ Authorized("denied")

(* Two minutes pass, the device is gone, or a call fails. *)
AuthorizationFails ==
  /\ flow \in {"authorizing", "dialog"}
  /\ IF wanted \in attached THEN Trouble ELSE UNCHANGED usbSpent
  /\ flow' = "listing" /\ authorization' = "none"
  /\ Quiescent /\ UNCHANGED <<wanted, chosen, listed, channels>>

SelectionAnswered ==
  /\ flow \in {"connect", "deny"} /\ OwnerAnswered /\ flow' = "listing"
  /\ Quiescent /\ UNCHANGED <<wanted, chosen, authorization, listed>>

(* Offered when the authorization was granted, the device is listed, and the
   last snapshot had the RNode connected. *)
ProbeTap ==
  /\ flow = "none" /\ shownConnected /\ authorization = "granted" /\ chosen \in listed /\ Effort
  /\ AskOwner("probe", NoDevice)
  /\ Quiescent /\ UNCHANGED <<wanted, chosen, authorization, listed>>

ProbeAnswered ==
  /\ flow = "probe" /\ OwnerAnswered /\ flow' = "none"
  /\ Quiescent /\ UNCHANGED <<wanted, chosen, authorization, listed>>

(* Once a second the devices are listed, whatever the panel is doing; one that
   is gone is no longer chosen. *)
PollDevices ==
  /\ listed # attached /\ listed' = attached
  /\ IF chosen \in attached \cup {NoDevice} THEN UNCHANGED <<chosen, authorization>>
     ELSE chosen' = NoDevice /\ authorization' = "none"
  /\ Quiescent /\ UNCHANGED <<flow, wanted, channels, usbSpent>>

ShowSnapshot ==
  /\ shownConnected # connected /\ shownConnected' = connected
  /\ UNCHANGED <<flow, wanted, chosen, authorization, listed, android, channels, usbOwners, task,
                 cell, usbNode, leaked, usbSpent>>

-----------------------------------------------------------------------------
(* The owner's select. *)

Answer(how) == usbRequest' = NoRequest /\ usbResponse' = how
OwnerOnly == UNCHANGED <<panel, android, task, cell, usbNode, leaked>>

(* request_android_usb_fallback: an approved Bluetooth link has precedence. *)
TakeFallback ==
  /\ usbOwner = "idle" /\ usbRequest.kind = "fallback"
  /\ \/ Answer("ok") /\ UNCHANGED usbSpent
     \/ Answer("refused") /\ Trouble
  /\ OwnerOnly /\ UNCHANGED usbOwners

(* stop_usb_worker up to its timeout, for start_usb_worker, report_usb_denied
   and ApplyEndpoint: the worker is taken and told to end. *)
StopWorker(for) ==
  /\ usbOwner' = "stopping" /\ purpose' = for
  /\ holds' = FALSE /\ cancel' = (cancel \/ holds) /\ UNCHANGED probes

TakeSelection ==
  /\ usbOwner = "idle" /\ usbRequest.kind \in {"connect", "deny"}
  /\ StopWorker(usbRequest) /\ usbRequest' = NoRequest /\ UNCHANGED usbResponse
  /\ OwnerOnly /\ UNCHANGED usbSpent

TakeEndpoint ==
  /\ usbOwner = "idle" /\ Effort
  /\ StopWorker(Request("replace", NoDevice))
  /\ OwnerOnly /\ UNCHANGED channels

(* A probe is handed to the worker; its channel is closed once the task ended,
   and holds one probe. *)
TakeProbe ==
  /\ usbOwner = "idle" /\ usbRequest.kind = "probe"
  /\ IF holds /\ worker # "done" /\ probes = "none"
       THEN probes' = "queued" /\ usbRequest' = NoRequest /\ UNCHANGED usbResponse
       ELSE Answer("refused") /\ UNCHANGED probes
  /\ OwnerOnly /\ UNCHANGED <<usbOwner, purpose, holds, cancel, usbSpent>>

WorkerEnded ==
  /\ usbOwner = "stopping" /\ worker = "done" /\ usbOwner' = "reaping"
  /\ OwnerOnly /\ UNCHANGED <<channels, purpose, holds, cancel, probes, usbSpent>>

(* The two seconds are over: the task is dropped at its await, the link closed
   with it, and the node may have an attempt nobody was told of.  A probe being
   served loses its answer. *)
Abort ==
  /\ usbOwner = "stopping" /\ worker # "done" /\ Trouble
  /\ worker' = "done" /\ link' = FALSE /\ serving' = "traffic" /\ usbOwner' = "reaping"
  /\ IF worker = "start" THEN attempt' \in BOOLEAN ELSE UNCHANGED attempt
  /\ leaked' = (leaked \/ (attempt' /\ ~cell))
  /\ IF probes = "served" THEN probes' = "none" /\ usbResponse' = "closed"
     ELSE UNCHANGED <<probes, usbResponse>>
  /\ UNCHANGED <<panel, android, usbRequest, purpose, holds, cancel, opened, cell,
                 offered, packet, connected>>

(* Mutation: the attempt of an aborted worker is left to the node. *)
LeaveAttempt == UNCHANGED <<cell, attempt, offered, connected>>

(* worker.attempt.lock().take(), stop_rnode_bytes. *)
ReapAttempt ==
  IF cell
    THEN cell' = FALSE /\ attempt' = FALSE /\ offered' = FALSE /\ connected' = FALSE
    ELSE UNCHANGED <<cell, attempt, offered, connected>>

(* The rest of stop_usb_worker, which drops a probe still queued, and of its
   caller: a new worker, a report, or another node. *)
Reap ==
  /\ usbOwner = "reaping" /\ usbOwner' = "idle" /\ purpose' = NoRequest
  /\ cancel' = FALSE /\ probes' = "none" /\ UNCHANGED usbRequest
  /\ IF probes = "queued" THEN usbResponse' = "closed"
     ELSE IF purpose.kind = "replace" THEN UNCHANGED usbResponse ELSE usbResponse' = "ok"
  /\ IF purpose.kind = "replace"
       THEN /\ cell' = FALSE /\ attempt' = FALSE /\ offered' = FALSE /\ connected' = FALSE
            /\ leaked' = FALSE
       ELSE ReapAttempt /\ UNCHANGED leaked
  /\ holds' = (purpose.kind = "connect")
  /\ IF purpose.kind = "connect"
       THEN worker' = "open" /\ opened' = purpose.on
       ELSE UNCHANGED <<worker, opened>>
  /\ UNCHANGED <<panel, android, link, serving, packet, usbSpent>>

(* The node of the new endpoint does not boot: the owner returns, and a request
   that waits in a channel is neither answered nor dropped. *)
OwnerEnds ==
  /\ usbOwner = "reaping" /\ purpose.kind = "replace" /\ Trouble
  /\ usbOwner' = "ended" /\ purpose' = NoRequest /\ cancel' = FALSE /\ probes' = "none"
  /\ cell' = FALSE /\ attempt' = FALSE /\ offered' = FALSE /\ connected' = FALSE /\ leaked' = FALSE
  /\ IF probes = "queued" THEN usbResponse' = "closed" ELSE UNCHANGED usbResponse
  /\ UNCHANGED <<panel, android, usbRequest, holds, task, packet>>

-----------------------------------------------------------------------------
(* run_android_usb. *)

Beside == UNCHANGED <<panel, android, usbRequest, usbOwner, purpose, holds, cancel, leaked>>
At(pc) == worker = pc
Go(pc) == worker' = pc /\ UNCHANGED opened
KeepsNode  == UNCHANGED <<cell, usbNode>>
KeepsProbe == UNCHANGED <<probes, usbResponse, serving>>

(* AndroidUsbLink::open: the very device, permitted, and its port found. *)
Open ==
  /\ At("open") /\ Beside /\ KeepsNode /\ KeepsProbe
  /\ \/ opened \in attached \cap permitted /\ link' = TRUE /\ Go("start") /\ UNCHANGED usbSpent
     \/ /\ IF opened \in attached \cap permitted THEN Trouble ELSE UNCHANGED usbSpent
        /\ Go("done") /\ UNCHANGED link

(* start_rnode_bytes. *)
StartBytes ==
  /\ At("start") /\ Beside /\ KeepsProbe /\ UNCHANGED <<cell, packet>>
  /\ \/ /\ attempt' = TRUE /\ connected' = FALSE /\ offered' = FALSE
        /\ Go("store") /\ UNCHANGED <<link, usbSpent>>
     \/ /\ Trouble /\ link' = FALSE /\ Go("done")
        /\ UNCHANGED <<attempt, connected, offered>>

StoreAttempt ==
  /\ At("store") /\ cell' = TRUE /\ Go("greet")
  /\ Beside /\ KeepsProbe /\ UNCHANGED <<link, usbNode, usbSpent>>

(* A write, a read or a call of the node fails. *)
WorkerFails ==
  /\ \/ worker \in {"greet", "turn", "read", "respond"}
     \/ worker \in {"poll", "complete"} /\ serving = "traffic"
  /\ Trouble /\ Go("stop")
  /\ Beside /\ KeepsNode /\ KeepsProbe /\ UNCHANGED link

Greet ==
  /\ At("greet") /\ Go("turn")
  /\ Beside /\ KeepsNode /\ KeepsProbe /\ UNCHANGED <<link, usbSpent>>

(* A turn of the loop: cancelled, or once in a second the device found detached,
   or a probe to serve, or the next read. *)
Turn ==
  /\ At("turn") /\ Beside /\ KeepsNode /\ UNCHANGED <<link, usbSpent, usbResponse>>
  /\ IF cancel THEN Go("stop") /\ UNCHANGED <<probes, serving>>
     ELSE \/ opened \notin attached /\ Go("stop") /\ UNCHANGED <<probes, serving>>
          \/ probes # "queued" /\ Go("read") /\ UNCHANGED <<probes, serving>>
          \/ probes = "queued" /\ probes' = "served" /\ Go("probe") /\ UNCHANGED serving

(* read, submit_rnode_bytes: the RNode's readback makes the bearer connected. *)
ReadBytes ==
  /\ At("read") /\ Beside /\ KeepsProbe
  /\ UNCHANGED <<link, cell, attempt, offered, packet, usbSpent>>
  /\ \/ Go("poll") /\ UNCHANGED connected
     \/ Go("respond") /\ connected' \in {connected, TRUE}

Respond ==
  /\ At("respond") /\ Go("poll")
  /\ Beside /\ KeepsNode /\ KeepsProbe /\ UNCHANGED <<link, usbSpent>>

(* poll_rnode_bytes, for the loop or for a probe: a packet that waits is
   offered, unless one is offered already. *)
Offers == packet /\ connected /\ ~offered

PollOffers ==
  /\ At("poll") /\ Offers /\ offered' = TRUE /\ Go("handoff")
  /\ Beside /\ KeepsProbe /\ UNCHANGED <<link, cell, attempt, packet, connected, usbSpent>>

PollEmpty ==
  /\ At("poll") /\ ~Offers
  /\ serving # "outcome"
  /\ Go(IF serving = "drain" THEN "announce" ELSE "check")
  /\ Beside /\ KeepsNode /\ KeepsProbe /\ UNCHANGED <<link, usbSpent>>

(* The result of a probe goes to the panel, and the loop reads on. *)
AnswerProbe(how) ==
  /\ probes' = "none" /\ usbResponse' = how /\ serving' = "traffic"
  /\ Go("read")

(* write_android_usb_handoff. *)
WriteHandoff ==
  /\ At("handoff") /\ Go("complete")
  /\ Beside /\ KeepsNode /\ KeepsProbe /\ UNCHANGED <<link, usbSpent>>

HandoffFails ==
  /\ At("handoff") /\ Trouble /\ offered' = FALSE
  /\ IF serving = "traffic" THEN Go("stop") /\ KeepsProbe ELSE AnswerProbe("failed")
  /\ Beside /\ UNCHANGED <<link, cell, attempt, packet, connected>>

Complete ==
  /\ At("complete") /\ offered' = FALSE /\ packet' = FALSE
  /\ CASE serving = "traffic" -> Go("check") /\ KeepsProbe
       [] serving = "drain"   -> Go("poll") /\ KeepsProbe
       [] serving = "outcome" -> AnswerProbe("ok")
  /\ Beside /\ UNCHANGED <<link, cell, attempt, connected, usbSpent>>

(* The end of a turn: a bearer that is not connected in eight seconds is given up. *)
Check ==
  /\ At("check") /\ Beside /\ KeepsNode /\ KeepsProbe /\ UNCHANGED link
  /\ \/ Go("turn") /\ UNCHANGED usbSpent
     \/ ~connected /\ Trouble /\ Go("stop")

(* probe_android_usb. *)
Probe ==
  /\ At("probe") /\ Beside /\ KeepsNode /\ UNCHANGED <<link, usbSpent>>
  /\ IF connected THEN serving' = "drain" /\ Go("poll") /\ UNCHANGED <<probes, usbResponse>>
     ELSE AnswerProbe("failed")

(* announce_outcome: accepted by the local transport, which need not give this
   bearer the packet. *)
Announce ==
  /\ At("announce") /\ Beside /\ serving' = "outcome" /\ Go("poll")
  /\ packet' \in {packet, TRUE}
  /\ UNCHANGED <<link, cell, attempt, offered, connected, probes, usbResponse, usbSpent>>

(* A call of the node fails in a probe. *)
ProbeFails ==
  /\ worker \in {"probe", "poll", "complete", "announce"} /\ probes = "served" /\ Trouble
  /\ AnswerProbe("failed")
  /\ Beside /\ KeepsNode /\ UNCHANGED link

(* Mutation: the probe polls for its packet without a deadline. *)
ProbePollsOn ==
  /\ At("poll") /\ serving = "outcome" /\ ~Offers
  /\ UNCHANGED usbVars

(* Two seconds without a packet. *)
ProbeTimesOut ==
  /\ At("poll") /\ serving = "outcome" /\ ~Offers
  /\ AnswerProbe("failed")
  /\ Beside /\ KeepsNode /\ UNCHANGED <<link, usbSpent>>

(* stop_rnode_bytes and its last writes. *)
StopBytes ==
  /\ At("stop") /\ attempt' = FALSE /\ offered' = FALSE /\ connected' = FALSE /\ Go("forget")
  /\ Beside /\ KeepsProbe /\ UNCHANGED <<link, cell, packet, usbSpent>>

ForgetAttempt ==
  /\ At("forget") /\ cell' = FALSE /\ Go("close")
  /\ Beside /\ KeepsProbe /\ UNCHANGED <<link, usbNode, usbSpent>>

CloseUsb ==
  /\ At("close") /\ link' = FALSE /\ Go("done")
  /\ Beside /\ KeepsNode /\ KeepsProbe /\ UNCHANGED usbSpent

-----------------------------------------------------------------------------
(* The rest of the world. *)

Around == UNCHANGED <<panel, channels, usbOwners, task, cell, leaked>>

PlugOrPull(d) ==
  /\ Trouble
  /\ attached' = IF d \in attached THEN attached \ {d} ELSE attached \cup {d}
  /\ permitted' = permitted \ {d}
  /\ Around /\ UNCHANGED usbNode

Traffic ==
  /\ ~packet /\ Trouble /\ packet' = TRUE
  /\ Around /\ UNCHANGED <<android, attempt, offered, connected>>

PanelStep ==
  \/ Listed \/ FallbackAnswered \/ StartAuthorization \/ AnswerDialog \/ AuthorizationFails
  \/ SelectionAnswered \/ ProbeAnswered
OwnerUsbStep ==
  TakeFallback \/ TakeSelection \/ TakeProbe \/ WorkerEnded \/ Abort \/ Reap \/ OwnerEnds
WorkerStep ==
  \/ Open \/ StartBytes \/ StoreAttempt \/ WorkerFails \/ Greet \/ Turn \/ ReadBytes \/ Respond
  \/ PollOffers \/ PollEmpty \/ WriteHandoff \/ HandoffFails \/ Complete \/ Check
  \/ Probe \/ Announce \/ ProbeFails \/ ProbeTimesOut \/ StopBytes \/ ForgetAttempt \/ CloseUsb

UsbNext ==
  \/ Refresh \/ ProbeTap \/ PollDevices \/ ShowSnapshot \/ TakeEndpoint \/ Traffic
  \/ \E d \in Devices : Select(d) \/ PlugOrPull(d)
  \/ PanelStep \/ OwnerUsbStep \/ WorkerStep

(* The tasks run, every await of a call of the platform or of the node ends,
   and a dialog is answered or given up. *)
UsbFair == WF_usbVars(PanelStep) /\ WF_usbVars(OwnerUsbStep) /\ WF_usbVars(WorkerStep)

UsbSpec == UsbInit /\ [][UsbNext]_usbVars /\ UsbFair

-----------------------------------------------------------------------------
(* However the worker ended -- by itself, cancelled, or aborted at any await --
   when its owner is done with it the node has no attempt left and nothing is
   offered to one; except an abort that hit while the node was starting it. *)
UsbAttemptIsReaped ==
  worker = "done" /\ usbOwner \in {"idle", "ended"} /\ ~leaked =>
    ~attempt /\ ~offered /\ ~cell /\ ~link

(* A probe is queued at a worker that has ended, and the owner keeps the sending
   end; or a request was queued at an owner that has ended: neither answered nor
   dropped. *)
Stranded ==
  \/ probes = "queued" /\ worker = "done" /\ holds
  \/ usbRequest # NoRequest /\ usbOwner = "ended"

(* "USB request in progress" ends: what the panel waits for answers, through
   the cancellation, abort and failure of the worker, unless stranded. *)
UsbEffortEnds == flow # "none" ~> flow = "none" \/ Stranded
=============================================================================
