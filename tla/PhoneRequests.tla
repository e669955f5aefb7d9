---------------------------- MODULE PhoneRequests ----------------------------
(***************************************************************************)
(* What the phone's root component (apps/mobile/src/lib.rs) asks of the    *)
(* platform: text from the clipboard, a code from the camera, its own      *)
(* destination into the clipboard, an encrypted backup to the share sheet. *)
(* On Android a request is a closure posted to the activity's looper; it   *)
(* gives up waiting after five seconds, the closure runs all the same      *)
(* (dispatch_query).  On iOS the call is made where the task runs.         *)
(*                                                                         *)
(* A text is known by the request that read it, a document by its number.  *)
(***************************************************************************)
EXTENDS Naturals, Sequences

CONSTANTS
  Identities,        \* destinations a session may show
  MaxRequests,       \* taps
  MaxViews,          \* generations of the session shown
  MaxPauses,         \* times the activity goes behind another
  MaxKills

ASSUME RequestAssumption ==
  {MaxRequests, MaxPauses, MaxKills} \subseteq Nat /\ MaxViews \in Nat \ {0}

VARIABLES
  os,                \* the platform built for
  front,             \* the activity is in front of the operator
  viewed,            \* generation and destination of the view rendered
  acquisition,       \* acquisition_generation
  looper,            \* closures posted and not yet run
  waits,             \* per kind, what its task waits for; one task at a time: busy
  candidate,         \* the request whose text is offered, 0 before
  copied,            \* identity_copy_completion
  clipboard,         \* what was last written to the system's clipboard
  file,              \* the backup stored for sharing, 0 without one
  pending, paused,   \* identityBackupSharePending, identityBackupSharePaused
  sheet,             \* the iOS share sheet: "none", "presenting", "open"
  stray,             \* iOS: a file its request left behind
  tapped, pauses, kills

requestVars == <<os, front, viewed, acquisition, looper, waits, candidate, copied, clipboard,
                 file, pending, paused, sheet, stray, tapped, pauses, kills>>

texts   == <<acquisition, candidate>>
share   == <<file, pending, paused, sheet, stray>>
activity == <<os, front, pauses, kills>>

Requests  == {"paste", "scan", "copy", "share"}
Idle      == [number |-> 0]
NoAnswer  == "none"
NotCopied == [generation |-> 0]

RequestsInit ==
  /\ os \in {"android", "ios"} /\ front = TRUE
  /\ viewed \in [generation : {1}, identity : Identities]
  /\ acquisition = 0 /\ looper = <<>> /\ waits = [kind \in Requests |-> Idle]
  /\ candidate = 0 /\ copied = NotCopied /\ clipboard = "empty"
  /\ file = 0 /\ pending = FALSE /\ paused = FALSE /\ sheet = "none" /\ stray = FALSE
  /\ tapped = 0 /\ pauses = 0 /\ kills = 0

-----------------------------------------------------------------------------
(* The operator. *)

(* A sheet covers the interface. *)
Reachable == front /\ sheet = "none"

(* Posting names the request and the view it was tapped in. *)
Post(kind, number) ==
  LET request == [kind |-> kind, number |-> number, view |-> viewed] IN
  /\ waits[kind] = Idle /\ tapped < MaxRequests
  /\ waits' = [waits EXCEPT ![kind] = [number |-> number, view |-> viewed, answer |-> NoAnswer]]
  /\ looper' = Append(looper, request)
  /\ tapped' = tapped + 1

(* clipboard_read, and qr_capture of a capture that was cancelled, which asks
   whether the camera is authorized. *)
AcquireText(kind) ==
  /\ Reachable /\ acquisition' = acquisition + 1
  /\ Post(kind, acquisition + 1)
  /\ UNCHANGED <<activity, viewed, candidate, copied, clipboard, share>>

(* decode_qr_destination_image: one code of bounded text, or a failure. *)
Decoded(number) == {candidate, number}

(* qr_capture of an image is decoded at once. *)
ScanImage ==
  /\ Reachable /\ waits.scan = Idle /\ tapped < MaxRequests /\ tapped' = tapped + 1
  /\ acquisition' = acquisition + 1
  /\ candidate' \in Decoded(acquisition + 1)
  /\ UNCHANGED <<activity, viewed, looper, waits, copied, clipboard, share>>

CopyIdentity ==
  /\ Reachable /\ copied' = NotCopied
  /\ Post("copy", tapped + 1)
  /\ UNCHANGED <<activity, viewed, texts, clipboard, share>>

ShareBackup ==
  /\ Reachable /\ Post("share", tapped + 1)
  /\ UNCHANGED <<activity, viewed, texts, copied, clipboard, share>>

(* Another session is shown: another generation, of this identity or another. *)
ViewMoves ==
  /\ viewed.generation < MaxViews
  /\ viewed' \in [generation : {viewed.generation + 1}, identity : Identities]
  /\ UNCHANGED <<activity, looper, waits, texts, copied, clipboard, share, tapped>>

-----------------------------------------------------------------------------
(* The backup on Android: presentIdentityBackup and the activity's lifecycle. *)

Present(number) ==
  \/ pending /\ UNCHANGED share
  \/ /\ ~pending                                  \* nobody could receive it
     /\ UNCHANGED share
  \/ /\ ~pending /\ file' = number /\ pending' = TRUE /\ paused' = FALSE
     /\ UNCHANGED <<sheet, stray>>
  \/ /\ ~pending                                  \* writing or the chooser failed
     /\ file' = 0 /\ paused' = FALSE /\ UNCHANGED <<pending, sheet, stray>>

(* Mutation: the share is over, its file stays. *)
ForgetShare ==
  pending' = FALSE /\ paused' = FALSE /\ UNCHANGED <<file, sheet, stray>>

RemoveShare ==
  file' = 0 /\ pending' = FALSE /\ paused' = FALSE /\ UNCHANGED <<sheet, stray>>

Pause ==
  /\ os = "android" /\ front /\ pauses < MaxPauses
  /\ front' = FALSE /\ pauses' = pauses + 1
  /\ paused' = (paused \/ pending)
  /\ UNCHANGED <<os, kills, viewed, looper, waits, texts, copied, clipboard, file, pending,
                 sheet, stray, tapped>>

Resume ==
  /\ ~front /\ front' = TRUE
  /\ IF pending /\ paused THEN RemoveShare ELSE UNCHANGED share
  /\ UNCHANGED <<os, pauses, kills, viewed, looper, waits, texts, copied, clipboard, tapped>>

(* The process ends and is started again; onCreate removes what was shared. *)
Relaunch ==
  /\ kills < MaxKills /\ kills' = kills + 1
  /\ front' = TRUE /\ looper' = <<>> /\ waits' = [kind \in Requests |-> Idle]
  /\ acquisition' = 0 /\ candidate' = 0 /\ copied' = NotCopied
  /\ viewed' = [viewed EXCEPT !.generation = 1]
  /\ IF os = "android" THEN RemoveShare
     ELSE /\ stray' = (file # 0) /\ sheet' = "none" /\ UNCHANGED <<file, pending, paused>>
  /\ UNCHANGED <<os, pauses, clipboard, tapped>>

-----------------------------------------------------------------------------
(* The backup on iOS: present_identity_backup and its sheet. *)

PresentSheet(number) ==
  \/ file' = 0 /\ UNCHANGED sheet /\ stray' = FALSE         \* not written, or no window
  \/ file' = number /\ UNCHANGED sheet /\ stray' = TRUE     \* no controller to present it
  \/ file' = number /\ sheet' = "presenting" /\ stray' = FALSE

SheetOpens ==
  /\ sheet = "presenting" /\ sheet' = "open"
  /\ waits' = IF waits.share # Idle THEN [waits EXCEPT !.share.answer = "ok"] ELSE waits
  /\ UNCHANGED <<activity, viewed, looper, texts, copied, clipboard, file, pending, paused,
                 stray, tapped>>

SheetCloses ==
  /\ sheet = "open" /\ sheet' = "none" /\ file' = 0 /\ stray' = FALSE
  /\ UNCHANGED <<activity, viewed, looper, waits, texts, copied, clipboard, pending, paused, tapped>>

-----------------------------------------------------------------------------
(* The closures and the tasks that wait for them. *)

(* An answer reaches the task that still waits for this very closure. *)
AnsweredTo(request, answer) ==
  IF waits[request.kind].number = request.number
    THEN [waits EXCEPT ![request.kind].answer = answer] ELSE waits

Runs(kind) == looper # <<>> /\ Head(looper).kind = kind /\ looper' = Tail(looper)

(* The clipboard's text, or why there is none; a cancelled capture only ever
   becomes a failure. *)
ReadText(kind) ==
  /\ Runs(kind)
  /\ \E answer \in IF kind = "scan" THEN {"failed"} ELSE {"ok", "failed"} :
       waits' = AnsweredTo(Head(looper), answer)
  /\ UNCHANGED <<activity, viewed, texts, copied, clipboard, share, tapped>>

WriteClipboard ==
  /\ Runs("copy")
  /\ \/ clipboard' = Head(looper).view.identity /\ waits' = AnsweredTo(Head(looper), "ok")
     \/ UNCHANGED clipboard /\ waits' = AnsweredTo(Head(looper), "failed")
  /\ UNCHANGED <<activity, viewed, texts, copied, share, tapped>>

PresentIdentityBackup ==
  /\ os = "android" /\ Runs("share") /\ Present(Head(looper).number)
  /\ waits' = AnsweredTo(Head(looper), IF file' = Head(looper).number THEN "ok" ELSE "failed")
  /\ UNCHANGED <<activity, viewed, texts, copied, clipboard, tapped>>

(* The task goes on to wait for the sheet once that is being presented. *)
PresentOnIos ==
  /\ os = "ios" /\ Runs("share") /\ PresentSheet(Head(looper).number)
  /\ waits' = IF sheet' = "presenting" THEN waits ELSE AnsweredTo(Head(looper), "failed")
  /\ UNCHANGED <<activity, viewed, texts, copied, clipboard, pending, paused, tapped>>

(* Mutation: whoever is still waiting is answered. *)
AnyNumber(number) == TRUE

(* TextAcquisitionCompletion::into_result_for *)
IsActive(number) == number = acquisition

(* IdentityCopyCompletion::is_for *)
IsFor(view) == copied = view

CopySucceeded == IsFor(viewed)

(* A task of a kind goes on with an answer, and is no longer busy. *)
Finish(kind, answer) ==
  LET asked == waits[kind] IN
  /\ waits' = [waits EXCEPT ![kind] = Idle]
  /\ candidate' = IF /\ kind \in {"paste", "scan"} /\ answer = "ok"
                     /\ asked.view.generation = viewed.generation /\ IsActive(asked.number)
                  THEN asked.number ELSE candidate
  /\ copied' = IF kind = "copy" /\ answer = "ok" THEN asked.view ELSE copied

TaskAnswered(kind) ==
  /\ waits[kind] # Idle /\ waits[kind].answer # NoAnswer
  /\ Finish(kind, waits[kind].answer)
  /\ UNCHANGED <<activity, viewed, looper, acquisition, clipboard, share, tapped>>

(* Android gives up after five seconds, iOS waits two for the sheet and takes
   the file back. *)
TaskTimesOut(kind) ==
  /\ waits[kind] # Idle /\ waits[kind].answer = NoAnswer
  /\ \/ os = "android" /\ UNCHANGED share
     \/ /\ os = "ios" /\ kind = "share" /\ sheet = "presenting"
        /\ file' = 0 /\ stray' = FALSE /\ UNCHANGED <<pending, paused, sheet>>
  /\ Finish(kind, "failed")
  /\ UNCHANGED <<activity, viewed, looper, acquisition, clipboard, tapped>>

RequestsNext ==
  \/ \E kind \in {"paste", "scan"} : AcquireText(kind)
  \/ ScanImage \/ CopyIdentity \/ ShareBackup \/ ViewMoves
  \/ Pause \/ Resume \/ Relaunch \/ SheetOpens \/ SheetCloses
  \/ (\E kind \in {"paste", "scan"} : ReadText(kind))
  \/ WriteClipboard \/ PresentIdentityBackup \/ PresentOnIos
  \/ \E kind \in Requests : TaskAnswered(kind) \/ TaskTimesOut(kind)

RequestsSpec == RequestsInit /\ [][RequestsNext]_requestVars

-----------------------------------------------------------------------------
CopyIsOfShown == CopySucceeded => clipboard = viewed.identity

(* However late a closure runs, and whatever was asked since: a text never
   replaces one that was asked for after it, in the life of a process; and the
   interface reports a copy only of the destination it shows, which is then the
   last thing the application wrote to the clipboard. *)
AnswersAreForTheLast ==
  [][/\ CopyIsOfShown'
     /\ candidate' >= candidate \/ kills' # kills]_requestVars

(* A backup lies in storage only while something will still remove it: a share
   the next return to the activity ends, a sheet, or a request in progress.  On
   iOS a presentation without a controller and the end of the process leave one
   behind, until the next backup. *)
BackupIsReclaimed ==
  file # 0 => \/ os = "android" /\ pending
              \/ os = "ios" /\ (sheet # "none" \/ stray)
=============================================================================
