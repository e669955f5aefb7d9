-------------------------- MODULE UsbAuthorization --------------------------
(***************************************************************************)
(* How the Android application asks for the permission of a USB device     *)
(* (native_platform of platform.rs, WryActivity.kt): the request, which    *)
(* waits in an asynchronous task; what it dispatches to the main thread,   *)
(* carried out in order; the activity's broadcast receiver and its pending *)
(* intent; the one handler slot of wry between them; and Android, whose    *)
(* dialog may be answered at any time or never.                            *)
(*                                                                         *)
(* One device.  A request is known by its number, and so are the closures, *)
(* the receiver (its action is unique), the dialog and the handler made    *)
(* for it.  A request that fails is shown, and asked again by a tap, by    *)
(* way of the main thread: the next one finds the closures before it done. *)
(***************************************************************************)
EXTENDS Naturals, Sequences

CONSTANTS MaxAuthorizations, MaxMishaps

ASSUME AuthorizationAssumption == {MaxAuthorizations, MaxMishaps} \subseteq Nat

VARIABLES
  requested,   \* requests so far; the last one is the one under way
  at,          \* where it waits
  reply,       \* what the closure it waits for has sent
  callback,    \* what its handler has sent
  handler,     \* USB_PERMISSION_RESULT_HANDLER: the request it is of
  cancelled,   \* requests whose flag is set
  dispatched,  \* closures for the main thread
  activityUp,  \* the activity is up
  receiver,    \* usbPermissionReceiver: the request it is registered for
  intent,      \* usbPermissionPendingIntent, until it is sent or cancelled
  dialogs,     \* requests whose dialog is shown
  broadcasts,  \* results on their way to a receiver
  plugged, allowed,
  mishaps

rust    == <<requested, at, reply, callback, handler, cancelled, dispatched>>
kotlin  == <<activityUp, receiver, intent>>
usbHost == <<dialogs, plugged, allowed>>
authorizationVars == <<rust, kotlin, usbHost, broadcasts, mishaps>>

Nobody == 0
NoReply == "none"
Closure(is) == [is |-> is, of |-> requested]

AuthorizationInit ==
  /\ requested = 0 /\ at = "idle" /\ reply = NoReply /\ callback = FALSE
  /\ handler = Nobody /\ cancelled = {} /\ dispatched = <<>>
  /\ activityUp = TRUE /\ receiver = Nobody /\ intent = Nobody
  /\ dialogs = {} /\ plugged = TRUE /\ allowed = FALSE
  /\ broadcasts = {} /\ mishaps = 0

Mishap == mishaps < MaxMishaps /\ mishaps' = mishaps + 1

-----------------------------------------------------------------------------
(* The request.  The guard lets one be under way: at is "idle" without it. *)

Elsewhere == UNCHANGED <<kotlin, usbHost, broadcasts>>

RequestAuthorization ==
  /\ at = "idle" /\ requested < MaxAuthorizations /\ dispatched = <<>>
  /\ requested' = requested + 1 /\ at' = "starting" /\ reply' = NoReply /\ callback' = FALSE
  /\ handler' = requested' /\ dispatched' = <<[is |-> "start", of |-> requested']>>
  /\ UNCHANGED <<cancelled, mishaps>> /\ Elsewhere

(* UsbPermissionCleanup::complete *)
Completes == handler' = Nobody /\ UNCHANGED cancelled

(* Mutant for NothingLeftBehind: the flag and the handler, and no word to the
   activity. *)
CancelsHere ==
  /\ handler' = Nobody /\ cancelled' = cancelled \cup {requested} /\ UNCHANGED dispatched
(* UsbPermissionCleanup::cancel *)
Cancels ==
  /\ handler' = Nobody /\ cancelled' = cancelled \cup {requested}
  /\ dispatched' = Append(dispatched, Closure("cancel"))

GivesUp == Cancels /\ at' = "idle" /\ reply' = NoReply /\ UNCHANGED <<requested, callback>> /\ Elsewhere

StartReplied ==
  /\ at = "starting" /\ UNCHANGED mishaps
  /\ \/ reply \in {"stale", "failed"} /\ GivesUp
     \/ /\ reply = "resolved" /\ Completes /\ at' = "idle" /\ reply' = NoReply
        /\ UNCHANGED <<requested, callback, dispatched>> /\ Elsewhere
     \/ /\ reply = "requested" /\ at' = "waiting" /\ reply' = NoReply
        /\ UNCHANGED <<requested, callback, handler, cancelled, dispatched>> /\ Elsewhere

(* dispatch_query gives up after five seconds; the closure still runs. *)
DispatchTimesOut == at = "starting" /\ Mishap /\ GivesUp

(* The result is only the sign to read the state again. *)
ResultArrives ==
  /\ at = "waiting" /\ callback /\ Completes
  /\ at' = "reading" /\ dispatched' = Append(dispatched, Closure("read"))
  /\ UNCHANGED <<requested, reply, callback, mishaps>> /\ Elsewhere

(* After two minutes. *)
ResultTimesOut == at = "waiting" /\ UNCHANGED mishaps /\ GivesUp

StateReread ==
  /\ at = "reading" /\ at' = "idle"
  /\ \/ reply # NoReply /\ UNCHANGED mishaps
     \/ Mishap
  /\ reply' = NoReply
  /\ UNCHANGED <<requested, callback, handler, cancelled, dispatched>> /\ Elsewhere

-----------------------------------------------------------------------------
(* The main thread. *)

Replies(c, what) == reply' = IF c.of = requested /\ at \in {"starting", "reading"} THEN what ELSE reply

(* find_usb_device, usb_has_permission *)
Attached == plugged
HasPermission == allowed

(* usb_state_for_attachment: what the operator answered, as far as it can be read. *)
ReadState(c) ==
  Replies(c, IF ~Attached THEN "stale" ELSE IF HasPermission THEN "granted" ELSE "denied")

(* start_usb_permission_request, and requestUsbPermission of the activity. *)
Start(c) ==
  IF c.of \in cancelled \/ ~activityUp THEN Replies(c, "failed") /\ UNCHANGED <<receiver, intent, dialogs>>
  ELSE IF ~Attached THEN Replies(c, "stale") /\ UNCHANGED <<receiver, intent, dialogs>>
  ELSE IF HasPermission THEN Replies(c, "resolved") /\ UNCHANGED <<receiver, intent, dialogs>>
  ELSE IF receiver # Nobody THEN Replies(c, "failed") /\ UNCHANGED <<receiver, intent, dialogs>>
  ELSE /\ Replies(c, "requested")
       /\ receiver' = c.of /\ intent' = c.of /\ dialogs' = dialogs \cup {c.of}

(* cancelUsbPermissionRequest *)
Unregisters == receiver' = Nobody /\ intent' = Nobody

MainThread ==
  /\ dispatched # <<>> /\ dispatched' = Tail(dispatched)
  /\ LET c == Head(dispatched)
     IN \/ c.is = "start" /\ Start(c)
        \/ c.is = "cancel" /\ UNCHANGED <<reply, dialogs>>
             /\ IF activityUp THEN Unregisters ELSE UNCHANGED <<receiver, intent>>
        \/ c.is = "read" /\ ReadState(c) /\ UNCHANGED <<receiver, intent, dialogs>>
  /\ UNCHANGED <<requested, at, callback, handler, cancelled, activityUp, broadcasts, plugged, allowed, mishaps>>

(* The action of the intent is unique to its request. *)
OfReceiver(b) == receiver = b

(* onReceive, for its action; then wry takes the handler. *)
ReceiveResult(b) ==
  /\ b \in broadcasts /\ broadcasts' = broadcasts \ {b}
  /\ IF ~OfReceiver(b) THEN UNCHANGED <<receiver, intent, handler, callback>>
     ELSE /\ Unregisters /\ handler' = Nobody
          /\ callback' = (callback \/ handler = requested)
  /\ UNCHANGED <<requested, at, reply, cancelled, dispatched, activityUp, usbHost, mishaps>>

(* onDestroy, and another activity in its place. *)
ActivityDestroyed ==
  /\ activityUp /\ Mishap /\ activityUp' = FALSE /\ Unregisters
  /\ UNCHANGED <<rust, usbHost, broadcasts>>
ActivityCreated ==
  /\ ~activityUp /\ activityUp' = TRUE
  /\ UNCHANGED <<rust, receiver, intent, usbHost, broadcasts, mishaps>>

-----------------------------------------------------------------------------
(* Android and its user. *)

DialogAnswered(d) ==
  /\ d \in dialogs /\ dialogs' = dialogs \ {d}
  /\ allowed' \in {allowed, plugged}
  /\ IF intent = d THEN broadcasts' = broadcasts \cup {d} /\ intent' = Nobody
     ELSE UNCHANGED <<broadcasts, intent>>
  /\ UNCHANGED <<rust, activityUp, receiver, plugged, mishaps>>

(* The permission goes with the device. *)
DeviceMoves ==
  /\ Mishap /\ plugged' = ~plugged /\ allowed' = FALSE
  /\ UNCHANGED <<rust, kotlin, dialogs, broadcasts>>

AuthorizationNext ==
  \/ RequestAuthorization \/ StartReplied \/ DispatchTimesOut
  \/ ResultArrives \/ ResultTimesOut \/ StateReread
  \/ MainThread \/ (\E b \in broadcasts : ReceiveResult(b))
  \/ ActivityDestroyed \/ ActivityCreated
  \/ (\E d \in dialogs : DialogAnswered(d)) \/ DeviceMoves

AuthorizationSpec == AuthorizationInit /\ [][AuthorizationNext]_authorizationVars

-----------------------------------------------------------------------------
(* A request leaves nothing behind, however it ends: timed out before its closure
   ran, given up while its dialog was shown, or its activity destroyed.  With no
   request under way and the main thread done, no receiver, intent or handler is
   left that would refuse or answer the next one. *)
NothingLeftBehind ==
  at = "idle" /\ dispatched = <<>> =>
    receiver = Nobody /\ intent = Nobody /\ handler = Nobody
=============================================================================
