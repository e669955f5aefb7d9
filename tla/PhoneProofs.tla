---------------------------- MODULE PhoneProofs ----------------------------
(* Proofs about what the phone asks of its platform: the permission of a USB  *)
(* device, texts and documents, and the attempts of a USB RNode.              *)
EXTENDS UsbAuthorization, PhoneRequests, AndroidUsb, QueueLemmas

Replied == {"stale", "failed", "resolved", "requested", "granted", "denied"}

AuthorizationTypeOK ==
  /\ requested \in Nat /\ mishaps \in Nat
  /\ at \in {"idle", "starting", "waiting", "reading"}
  /\ reply \in Replied \cup {NoReply}
  /\ cancelled \subseteq 1 .. requested

(* What is left for the main thread, and what it may find, by where the
   request waits: a request that was given up before its closure ran has its
   flag set, and whatever a closure has left behind is still to be cancelled. *)
Waits ==
  \/ /\ at = "starting" /\ dispatched = <<Closure("start")>>
     /\ reply = NoReply /\ receiver = Nobody /\ ~callback
  \/ /\ at = "starting" /\ dispatched = <<>>
     /\ reply # NoReply /\ (reply # "requested" => receiver = Nobody)
  \/ at = "waiting" /\ dispatched = <<>>
  \/ /\ at = "reading" /\ receiver = Nobody
     /\ dispatched = <<>> \/ dispatched = <<Closure("read")>>
  \/ /\ at = "idle" /\ receiver = Nobody /\ requested \in cancelled
     /\ dispatched = <<Closure("start"), Closure("cancel")>>
  \/ at = "idle" /\ dispatched = <<Closure("cancel")>>
  \/ /\ at = "idle" /\ receiver = Nobody
     /\ dispatched = <<>> \/ dispatched = <<Closure("read")>>

(* The activity and wry hold nothing but what is of the last request. *)
Held ==
  /\ at # "idle" => requested # Nobody
  /\ receiver \in {Nobody, requested} /\ intent \in {Nobody, receiver}
  /\ handler \in {Nobody, requested}
  /\ at \in {"idle", "reading"} => handler = Nobody
  /\ ~activityUp \/ callback => receiver = Nobody
  /\ Nobody \notin dialogs \cup broadcasts

AuthorizationInv == AuthorizationTypeOK /\ Waits /\ Held

-----------------------------------------------------------------------------
(* Nothing has been asked for. *)
LEMMA AuthorizationInvHolds ==
  AuthorizationInit => AuthorizationInv
  BY DEF AuthorizationInit, AuthorizationInv, AuthorizationTypeOK, Waits, Held, NoReply, Nobody, Replied

(* Every step of the request, the main thread, the activity and Android keeps it. *)
LEMMA AuthorizationInvIsKept ==
  AuthorizationInv /\ [AuthorizationNext]_authorizationVars => AuthorizationInv'
  <1>. SUFFICES ASSUME AuthorizationInv, [AuthorizationNext]_authorizationVars
                PROVE  AuthorizationInv'
    OBVIOUS
  <1>. USE DEF AuthorizationInv, AuthorizationTypeOK, Waits, Held,
           Replied, NoReply, Nobody, Closure, rust, kotlin, usbHost, authorizationVars
  <1>1. CASE RequestAuthorization
    <2>1. /\ requested' = requested + 1 /\ at' = "starting" /\ receiver = Nobody
          /\ dispatched' = <<Closure("start")>>'
      BY <1>1, ShortQueues DEF RequestAuthorization, Elsewhere
    <2>. QED BY <1>1, <2>1 DEF RequestAuthorization, Elsewhere
  <1>. DEFINE start == Closure("start")
              cancels == Closure("cancel")
  <1>0. /\ \A c : Append(<<>>, c) = <<c>> /\ Head(<<c>>) = c /\ Tail(<<c>>) = <<>> /\ <<c>> # <<>>
        /\ Append(<<start>>, cancels) = <<start, cancels>>
        /\ Head(<<start, cancels>>) = start /\ Tail(<<start, cancels>>) = <<cancels>>
    BY ShortQueues
  <1>2. ASSUME Cancels, at = "starting" \/ at = "waiting", UNCHANGED requested
        PROVE  /\ handler' = Nobody /\ requested' \in cancelled'
               /\ cancelled' \subseteq 1 .. requested'
               /\ \/ dispatched' = <<Closure("cancel")>>'
                  \/ /\ receiver = Nobody
                     /\ dispatched' = <<Closure("start"), Closure("cancel")>>'
    <2>1. dispatched' = Append(dispatched, Closure("cancel")) /\ cancelled' = cancelled \cup {requested}
          /\ handler' = Nobody
      BY <1>2 DEF Cancels
    <2>2. requested \in 1 .. requested
      BY <1>2
    <2>3. CASE dispatched = <<start>>
      BY <1>0, <1>2, <2>1, <2>2, <2>3
    <2>4. CASE dispatched = <<>>
      BY <1>0, <1>2, <2>1, <2>2, <2>4
    <2>. QED BY <1>2, <2>3, <2>4
  <1>3. CASE StartReplied
    <2>1. CASE GivesUp
      BY <1>2, <1>3, <2>1 DEF StartReplied, GivesUp, Elsewhere
    <2>2. CASE ~GivesUp
      <3>1. dispatched = <<>>
        BY <1>0, <1>3, <2>2 DEF StartReplied
      <3>2. CASE reply = "resolved"
        BY <1>3, <2>2, <3>1, <3>2 DEF StartReplied, Completes, Elsewhere
      <3>3. CASE reply = "requested"
        <4>1. /\ at' = "waiting" /\ reply' = NoReply
              /\ UNCHANGED <<requested, callback, handler, cancelled, dispatched, mishaps>>
              /\ Elsewhere
          BY <1>3, <2>2, <3>3 DEF StartReplied
        <4>. QED BY <1>3, <3>1, <4>1 DEF StartReplied, Elsewhere
      <3>. QED BY <1>3, <2>2, <3>2, <3>3 DEF StartReplied
    <2>. QED BY <2>1, <2>2
  <1>4. CASE DispatchTimesOut
    BY <1>2, <1>4 DEF DispatchTimesOut, GivesUp, Elsewhere, Mishap
  <1>5. CASE ResultArrives
    BY <1>5, ShortQueues DEF ResultArrives, Completes, Elsewhere
  <1>6. CASE ResultTimesOut
    BY <1>2, <1>6 DEF ResultTimesOut, GivesUp, Elsewhere
  <1>7. CASE StateReread
    BY <1>7 DEF StateReread, Elsewhere, Mishap
  <1>8. CASE MainThread
    <2>1. dispatched # <<>> /\ dispatched' = Tail(dispatched)
          /\ UNCHANGED <<requested, at, callback, handler, cancelled, activityUp, broadcasts,
                         mishaps>>
      BY <1>8 DEF MainThread
    <2>2. CASE dispatched = <<start>>
      <3>1. Start(start) /\ dispatched' = <<>>
        BY <1>0, <1>8, <2>2 DEF MainThread
      <3>. QED BY <2>1, <2>2, <3>1 DEF Start, Replies, Attached, HasPermission
    <2>3. CASE dispatched = <<start, cancels>>
      <3>1. Start(start) /\ dispatched' = <<cancels>>
        BY <1>0, <1>8, <2>3 DEF MainThread
      <3>2. at = "idle" /\ requested \in cancelled /\ receiver = Nobody
        BY <1>0, <2>3
      <3>3. UNCHANGED <<reply, receiver, intent, dialogs>>
        BY <3>1, <3>2 DEF Start, Replies
      <3>. QED BY <2>1, <3>1, <3>2, <3>3
    <2>4. CASE dispatched = <<cancels>>
      <3>1. /\ at = "idle" /\ dispatched' = <<>> /\ UNCHANGED <<reply, dialogs>>
            /\ IF activityUp THEN Unregisters ELSE UNCHANGED <<receiver, intent>>
        BY <1>0, <1>8, <2>4 DEF MainThread
      <3>. QED BY <2>1, <3>1 DEF Unregisters
    <2>5. CASE dispatched = <<Closure("read")>>
      <3>1. /\ at \in {"idle", "reading"} /\ receiver = Nobody /\ dispatched' = <<>>
            /\ ReadState(Closure("read")) /\ UNCHANGED <<receiver, intent, dialogs>>
        BY <1>0, <1>8, <2>5 DEF MainThread
      <3>. QED BY <2>1, <3>1 DEF ReadState, Replies, Attached, HasPermission
    <2>. QED BY <2>1, <2>2, <2>3, <2>4, <2>5
  <1>9. ASSUME NEW b \in broadcasts, ReceiveResult(b)
        PROVE  AuthorizationInv'
    <2>1. UNCHANGED <<requested, at, reply, cancelled, dispatched, activityUp, mishaps>>
      BY <1>9 DEF ReceiveResult
    <2>2. CASE receiver = b
      <3>1. /\ receiver' = Nobody /\ intent' = Nobody /\ handler' = Nobody
            /\ receiver # Nobody /\ broadcasts' \subseteq broadcasts /\ UNCHANGED dialogs
        BY <1>9, <2>2 DEF ReceiveResult, OfReceiver, Unregisters
      <3>. QED BY <2>1, <2>2, <3>1
    <2>3. CASE receiver # b
      BY <1>9, <2>1, <2>3 DEF ReceiveResult, OfReceiver
    <2>. QED BY <2>2, <2>3
  <1>10. CASE ActivityDestroyed
    BY <1>10 DEF ActivityDestroyed, Mishap, Unregisters
  <1>11. CASE ActivityCreated
    BY <1>11 DEF ActivityCreated
  <1>12. ASSUME NEW d \in dialogs, DialogAnswered(d)
         PROVE  AuthorizationInv'
    BY <1>12 DEF DialogAnswered
  <1>13. CASE DeviceMoves
    BY <1>13 DEF DeviceMoves, Mishap
  <1>14. CASE UNCHANGED authorizationVars
    BY <1>14
  <1>. QED
    BY <1>1, <1>3, <1>4, <1>5, <1>6, <1>7, <1>8, <1>9, <1>10, <1>11, <1>12, <1>13, <1>14
    DEF AuthorizationNext

(* However a request ended, once the main thread is done no receiver, intent or
   handler of it is left: NothingLeftBehind of the run Phone. *)
THEOREM NothingIsLeftBehind ==
  AuthorizationSpec => []NothingLeftBehind
  <1>1. AuthorizationInv => NothingLeftBehind
    BY ShortQueues DEF AuthorizationInv, Waits, Held, NothingLeftBehind
  <1>. QED
    BY <1>1, AuthorizationInvHolds, AuthorizationInvIsKept, PTL DEF AuthorizationSpec
-----------------------------------------------------------------------------
(* What the interface asks of the platform. *)

Views    == [generation : Nat \ {0}, identity : Identities]
Closures == [kind : Requests, number : Nat \ {0}, view : Views]
Tasks    == [number : Nat \ {0}, view : Views, answer : {NoAnswer, "ok", "failed"}]

RequestsTypeOK ==
  /\ viewed \in Views /\ acquisition \in Nat /\ candidate \in Nat
  /\ tapped \in Nat /\ kills \in Nat
  /\ looper \in Seq(Closures) /\ waits \in [Requests -> Tasks \cup {Idle}]
  /\ copied \in Views \cup {NotCopied}

(* The text offered was asked for no later than the last one. *)
CandidateIsOld == candidate <= acquisition

NoCopyPosted == \A i \in DOMAIN looper : looper[i].kind # "copy"

(* Copies are posted one after the other, and the task that waits for one waits
   for the last. *)
CopiesInOrder ==
  /\ \A i \in DOMAIN looper : looper[i].kind = "copy" => looper[i].number <= tapped
  /\ \A i, j \in DOMAIN looper :
       i < j /\ looper[i].kind = "copy" /\ looper[j].kind = "copy" =>
         looper[i].number < looper[j].number
  /\ waits["copy"] # Idle =>
       /\ waits["copy"].number <= tapped
       /\ \A i \in DOMAIN looper :
            looper[i].kind = "copy" =>
              /\ looper[i].number <= waits["copy"].number
              /\ looper[i].number = waits["copy"].number => looper[i].view = waits["copy"].view

(* A copy that succeeded is the last thing written, and nothing is left to
   overwrite it. *)
CopyIsLast ==
  /\ waits["copy"] # Idle /\ waits["copy"].answer = "ok" =>
       clipboard = waits["copy"].view.identity /\ NoCopyPosted
  /\ copied # NotCopied => clipboard = copied.identity /\ NoCopyPosted

RequestsInv == RequestsTypeOK /\ CandidateIsOld /\ CopiesInOrder /\ CopyIsLast

LEMMA RequestsInvHolds == RequestsInit => RequestsInv
  <1>. SUFFICES ASSUME RequestsInit PROVE RequestsInv
    OBVIOUS
  <1>1. looper = <<>> /\ looper \in Seq(Closures) /\ DOMAIN looper = {}
    BY EmptyQueue DEF RequestsInit
  <1>2. viewed \in Views /\ waits["copy"] = Idle
    BY DEF RequestsInit, Views, Requests
  <1>. QED
    BY <1>1, <1>2 DEF RequestsInit, RequestsInv, RequestsTypeOK, CandidateIsOld, CopiesInOrder,
                      CopyIsLast, Idle

(* An answer is for the one task of its kind. *)
LEMMA Answering ==
  ASSUME RequestsTypeOK, NEW request \in Closures, NEW answer \in {"ok", "failed"}
  PROVE  LET after == AnsweredTo(request, answer) IN
         /\ after \in [Requests -> Tasks \cup {Idle}]
         /\ request.kind # "copy" => after["copy"] = waits["copy"]
         /\ waits["copy"] = Idle => after["copy"] = Idle
         /\ waits["copy"] # Idle =>
              /\ after["copy"] # Idle /\ after["copy"].number = waits["copy"].number
              /\ after["copy"].view = waits["copy"].view
              /\ \/ after["copy"].answer = waits["copy"].answer
                 \/ /\ request.kind = "copy" /\ request.number = waits["copy"].number
                    /\ after["copy"].answer = answer
  <1>. DEFINE k == request.kind
              w == waits[k]
              a == [w EXCEPT !.answer = answer]
  <1>1. /\ k \in Requests /\ "copy" \in Requests /\ w \in Tasks \cup {Idle}
        /\ request.number # 0 /\ waits \in [Requests -> Tasks \cup {Idle}]
    BY DEF RequestsTypeOK, Closures, Requests
  <1>2. CASE w.number # request.number
    <2>1. AnsweredTo(request, answer) = waits
      BY <1>2 DEF AnsweredTo
    <2>. QED BY <1>1, <2>1 DEF RequestsTypeOK
  <1>3. CASE w.number = request.number
    <2>1. w \in Tasks
      BY <1>1, <1>3 DEF Idle
    <2>2. a \in Tasks /\ a.number = w.number /\ a.view = w.view /\ a.answer = answer
      BY <2>1 DEF Tasks
    <2>3. AnsweredTo(request, answer) = [waits EXCEPT ![k] = a]
      BY <1>1, <1>3 DEF AnsweredTo
    <2>4. a # Idle
      BY <2>2 DEF Tasks, Idle
    <2>. DEFINE after == AnsweredTo(request, answer)
    <2>5. a \in Tasks \cup {Idle}
      BY <2>2
    <2>. HIDE DEF a
    <2>6. /\ after \in [Requests -> Tasks \cup {Idle}]
          /\ after["copy"] = IF k = "copy" THEN a ELSE waits["copy"]
      BY <1>1, <2>3, <2>5
    <2>7. w # Idle
      BY <2>1 DEF Tasks, Idle
    <2>. HIDE DEF after
    <2>8. CASE k = "copy"
      <3>1. after["copy"] = a /\ waits["copy"] = w
        BY <2>6, <2>8
      <3>. QED BY <1>3, <2>2, <2>4, <2>6, <2>7, <2>8, <3>1 DEF after
    <2>9. CASE k # "copy"
      <3>1. after["copy"] = waits["copy"]
        BY <2>6, <2>9
      <3>. QED BY <2>6, <2>9, <3>1 DEF after
    <2>. QED BY <2>8, <2>9
  <1>. QED BY <1>2, <1>3

(* The next closure, none of a copy, is run. *)
LEMMA RunsAnother ==
  ASSUME RequestsInv, NEW kind \in Requests \ {"copy"}, Runs(kind),
         NEW answer \in {"ok", "failed"},
         waits' = waits \/ waits' = AnsweredTo(Head(looper), answer),
         UNCHANGED <<viewed, acquisition, candidate, tapped, kills, copied, clipboard>>
  PROVE  RequestsInv'
  <1>1. /\ looper \in Seq(Closures) /\ looper # <<>> /\ Head(looper).kind = kind
        /\ looper' = Tail(looper)
    BY DEF RequestsInv, RequestsTypeOK, Runs
  <1>2. /\ looper' \in Seq(Closures) /\ Head(looper) \in Closures
        /\ DOMAIN looper \subseteq Nat
        /\ \A i \in DOMAIN looper' : i + 1 \in DOMAIN looper /\ looper'[i] = looper[i + 1]
    BY <1>1, QueueOperations, QueueItems
  <1>3. /\ waits' \in [Requests -> Tasks \cup {Idle}] /\ waits'["copy"] = waits["copy"]
    BY <1>1, <1>2, Answering DEF RequestsInv, RequestsTypeOK
  <1>4. RequestsTypeOK' /\ CandidateIsOld'
    BY <1>2, <1>3 DEF RequestsInv, RequestsTypeOK, CandidateIsOld
  <1>5. NoCopyPosted => NoCopyPosted'
    BY <1>2 DEF NoCopyPosted
  <1>6. CopiesInOrder'
    BY <1>2, <1>3 DEF RequestsInv, CopiesInOrder
  <1>7. CopyIsLast'
    BY <1>3, <1>5 DEF RequestsInv, CopyIsLast
  <1>. QED BY <1>4, <1>6, <1>7 DEF RequestsInv

(* A request is posted; only a copy forgets the copy before. *)
LEMMA Posting ==
  ASSUME RequestsInv, NEW kind \in Requests, NEW number \in Nat \ {0}, Post(kind, number),
         kind = "copy" => number = tapped + 1 /\ copied' = NotCopied,
         kind # "copy" => copied' = copied,
         acquisition' \in Nat, acquisition' >= acquisition,
         UNCHANGED <<viewed, candidate, kills, clipboard>>
  PROVE  RequestsInv'
  <1>. DEFINE request == [kind |-> kind, number |-> number, view |-> viewed]
              asked   == [number |-> number, view |-> viewed, answer |-> NoAnswer]
  <1>1. /\ request \in Closures /\ asked \in Tasks /\ "copy" \in Requests
        /\ request.kind = kind /\ request.number = number /\ request.view = viewed
        /\ asked.number = number /\ asked.view = viewed /\ asked.answer = "none"
        /\ asked # Idle
    BY DEF RequestsInv, RequestsTypeOK, Closures, Tasks, NoAnswer, Requests, Idle
  <1>2. /\ waits[kind] = Idle /\ tapped' = tapped + 1
        /\ waits' = [waits EXCEPT ![kind] = asked] /\ looper' = Append(looper, request)
    BY DEF Post
  <1>. HIDE DEF request, asked
  <1>3. /\ looper \in Seq(Closures) /\ tapped \in Nat /\ waits \in [Requests -> Tasks \cup {Idle}]
    BY DEF RequestsInv, RequestsTypeOK
  <1>4. /\ looper' \in Seq(Closures) /\ DOMAIN looper = 1 .. Len(looper) /\ Len(looper) \in Nat
        /\ DOMAIN looper' = 1 .. Len(looper) + 1 /\ looper'[Len(looper) + 1] = request
        /\ \A i \in DOMAIN looper : looper'[i] = looper[i] /\ looper[i] \in Closures
    BY <1>1, <1>2, <1>3, AppendProperties
  <1>5. /\ waits' \in [Requests -> Tasks \cup {Idle}]
        /\ waits'["copy"] = IF kind = "copy" THEN asked ELSE waits["copy"]
    BY <1>1, <1>2, <1>3
  <1>6. RequestsTypeOK' /\ CandidateIsOld'
    BY <1>2, <1>3, <1>4, <1>5 DEF RequestsInv, RequestsTypeOK, CandidateIsOld
  <1>7. \A i \in DOMAIN looper' : i \in DOMAIN looper \/ i = Len(looper) + 1
    BY <1>4
  <1>8. CASE kind = "copy"
    <2>1. \A i \in DOMAIN looper : looper[i].number \in Nat
      BY <1>4 DEF Closures
    <2>2. CopiesInOrder'
      BY <1>1, <1>2, <1>3, <1>4, <1>5, <1>7, <1>8, <2>1 DEF RequestsInv, CopiesInOrder
    <2>3. CopyIsLast'
      BY <1>1, <1>5, <1>8 DEF RequestsInv, CopyIsLast
    <2>. QED BY <1>6, <2>2, <2>3 DEF RequestsInv
  <1>9. CASE kind # "copy"
    <2>1. waits'["copy"] = waits["copy"] /\ copied' = copied
      BY <1>5, <1>9
    <2>2. NoCopyPosted => NoCopyPosted'
      BY <1>1, <1>4, <1>7, <1>9 DEF NoCopyPosted
    <2>3. \A i \in DOMAIN looper' : looper'[i].kind = "copy" => i \in DOMAIN looper
      BY <1>1, <1>4, <1>7, <1>9
    <2>4. /\ \A i \in DOMAIN looper : looper[i].number \in Nat
          /\ waits["copy"] # Idle => waits["copy"].number \in Nat
      BY <1>1, <1>3, <1>4 DEF Closures, Tasks
    <2>5. CopiesInOrder'
      BY <1>2, <1>3, <1>4, <2>1, <2>3, <2>4 DEF RequestsInv, CopiesInOrder
    <2>6. CopyIsLast'
      BY <2>1, <2>2 DEF RequestsInv, CopyIsLast
    <2>. QED BY <1>6, <2>5, <2>6 DEF RequestsInv
  <1>. QED BY <1>8, <1>9

(* A task goes on: with what its closure answered, or because time is up. *)
LEMMA Finishing ==
  ASSUME RequestsInv, NEW kind \in Requests, NEW answer, Finish(kind, answer),
         waits[kind] # Idle, answer = "ok" => waits[kind].answer = "ok",
         UNCHANGED <<viewed, looper, acquisition, clipboard, tapped, kills>>
  PROVE  RequestsInv' /\ candidate' >= candidate
  <1>. DEFINE asked == waits[kind]
  <1>1. /\ waits \in [Requests -> Tasks \cup {Idle}] /\ asked \in Tasks /\ asked.view \in Views
        /\ candidate \in Nat /\ acquisition \in Nat /\ candidate <= acquisition
        /\ "copy" \in Requests /\ asked.number \in Nat
    BY DEF RequestsInv, RequestsTypeOK, CandidateIsOld, Tasks, Requests
  <1>2. /\ waits' = [waits EXCEPT ![kind] = Idle]
        /\ candidate' = candidate \/ candidate' = acquisition
        /\ copied' = copied \/ (kind = "copy" /\ answer = "ok" /\ copied' = asked.view)
    BY <1>1 DEF Finish, IsActive
  <1>3. /\ waits' \in [Requests -> Tasks \cup {Idle}]
        /\ waits'["copy"] = IF kind = "copy" THEN Idle ELSE waits["copy"]
    BY <1>1, <1>2
  <1>4. RequestsTypeOK' /\ CandidateIsOld'
    BY <1>1, <1>2, <1>3 DEF RequestsInv, RequestsTypeOK, CandidateIsOld
  <1>5. CopiesInOrder'
    BY <1>3 DEF RequestsInv, CopiesInOrder
  <1>6. CopyIsLast'
    <2>1. NoCopyPosted' = NoCopyPosted
      BY DEF NoCopyPosted
    <2>. QED BY <1>2, <1>3, <2>1 DEF RequestsInv, CopyIsLast
  <1>. QED BY <1>1, <1>2, <1>4, <1>5, <1>6 DEF RequestsInv

(* The closure of a copy runs: the clipboard holds its identity, or not. *)
LEMMA WritingClipboard ==
  ASSUME RequestsInv, WriteClipboard
  PROVE  RequestsInv'
  <1>. DEFINE request == Head(looper)
  <1>1. /\ looper \in Seq(Closures) /\ looper # <<>> /\ looper' = Tail(looper)
        /\ request.kind = "copy"
        /\ UNCHANGED <<viewed, acquisition, candidate, copied, tapped, kills>>
        /\ \/ clipboard' = request.view.identity /\ waits' = AnsweredTo(request, "ok")
           \/ clipboard' = clipboard /\ waits' = AnsweredTo(request, "failed")
    BY DEF RequestsInv, RequestsTypeOK, WriteClipboard, Runs, activity, texts
  <1>2. /\ looper' \in Seq(Closures) /\ request \in Closures /\ DOMAIN looper \subseteq Nat \ {0}
        /\ 1 \in DOMAIN looper /\ request = looper[1]
        /\ \A i \in DOMAIN looper' : i + 1 \in DOMAIN looper /\ looper'[i] = looper[i + 1]
    BY <1>1, QueueOperations, QueueItems
  <1>. HIDE DEF request
  <1>3. PICK answer \in {"ok", "failed"} :
          /\ waits' = AnsweredTo(request, answer)
          /\ answer = "ok" => clipboard' = request.view.identity
    BY <1>1
  <1>. DEFINE before == waits["copy"]
              after  == waits'["copy"]
  <1>4. /\ waits' \in [Requests -> Tasks \cup {Idle}]
        /\ before = Idle <=> after = Idle
        /\ before # Idle =>
             /\ after.number = before.number /\ after.view = before.view
             /\ \/ after.answer = before.answer
                \/ request.number = before.number /\ after.answer = answer
    BY <1>2, <1>3, Answering DEF RequestsInv
  <1>5. RequestsTypeOK' /\ CandidateIsOld'
    BY <1>1, <1>2, <1>4 DEF RequestsInv, RequestsTypeOK, CandidateIsOld
  <1>. HIDE DEF after, before
  <1>6. ~NoCopyPosted
    BY <1>1, <1>2 DEF NoCopyPosted
  <1>7. copied = NotCopied /\ (before # Idle => before.answer # "ok")
    BY <1>6 DEF RequestsInv, CopyIsLast, before
  <1>8. CopiesInOrder'
    BY <1>1, <1>2, <1>4 DEF RequestsInv, CopiesInOrder, before, after
  <1>9. ASSUME after # Idle, after.answer = "ok"
        PROVE  clipboard' = after.view.identity /\ NoCopyPosted'
    <2>1. before # Idle /\ request.number = before.number /\ answer = "ok"
      BY <1>4, <1>7, <1>9
    <2>2. request.view = after.view
      BY <1>1, <1>2, <1>4, <2>1 DEF RequestsInv, CopiesInOrder, before
    <2>3. ASSUME NEW i \in DOMAIN looper', looper'[i].kind = "copy" PROVE FALSE
      <3>1. /\ i + 1 \in DOMAIN looper /\ 1 < i + 1 /\ looper[i + 1].kind = "copy"
        BY <1>2, <2>3
      <3>2. looper[1].number < looper[i + 1].number /\ looper[i + 1].number <= before.number
        BY <1>1, <1>2, <2>1, <3>1 DEF RequestsInv, CopiesInOrder, before
      <3>3. \A n \in DOMAIN looper : looper[n].number \in Nat
        <4>1. \A n \in DOMAIN looper : looper[n] \in Closures
          BY <1>1
        <4>. QED BY <4>1 DEF Closures
      <3>. QED BY <1>2, <2>1, <3>1, <3>2, <3>3
    <2>. QED BY <1>3, <2>1, <2>2, <2>3 DEF NoCopyPosted
  <1>10. CopyIsLast'
    BY <1>1, <1>7, <1>9 DEF CopyIsLast, after
  <1>. QED BY <1>5, <1>8, <1>10 DEF RequestsInv

(* What leaves the copies, the texts and the closures alone keeps the invariant. *)
LEMMA RequestsUntouched ==
  ASSUME RequestsInv,
         UNCHANGED <<acquisition, looper, waits, candidate, copied, clipboard, tapped, kills>>,
         viewed' \in Views
  PROVE  RequestsInv'
  BY DEF RequestsInv, RequestsTypeOK, CandidateIsOld, CopiesInOrder, CopyIsLast, NoCopyPosted

(* Every step keeps it, and offers an older text only in another process. *)
LEMMA RequestsInvIsKept ==
  ASSUME RequestsInv, [RequestsNext]_requestVars
  PROVE  RequestsInv' /\ (candidate' >= candidate \/ kills' # kills)
  <1>0. /\ viewed \in Views /\ acquisition \in Nat /\ candidate \in Nat /\ candidate <= acquisition
        /\ tapped \in Nat /\ kills \in Nat /\ "copy" \in Requests
    BY DEF RequestsInv, RequestsTypeOK, CandidateIsOld, Requests
  <1>1. ASSUME NEW kind \in {"paste", "scan"}, AcquireText(kind)
        PROVE  RequestsInv' /\ candidate' >= candidate
    BY <1>0, <1>1, Posting DEF AcquireText, activity, share, Requests
  <1>2. CASE ScanImage
    <2>1. /\ candidate' = candidate \/ candidate' = acquisition + 1
          /\ acquisition' = acquisition + 1 /\ tapped' = tapped + 1
          /\ UNCHANGED <<viewed, looper, waits, copied, clipboard, kills>>
      BY <1>2 DEF ScanImage, Decoded, activity
    <2>2. RequestsTypeOK' /\ CandidateIsOld' /\ candidate' >= candidate
      BY <1>0, <2>1 DEF RequestsInv, RequestsTypeOK, CandidateIsOld
    <2>3. /\ \A i \in DOMAIN looper : looper[i].number \in Nat
          /\ waits["copy"] # Idle => waits["copy"].number \in Nat
      <3>1. /\ \A i \in DOMAIN looper : looper[i] \in Closures
            /\ waits["copy"] \in Tasks \cup {Idle}
        BY <1>0 DEF RequestsInv, RequestsTypeOK
      <3>. QED BY <3>1 DEF Closures, Tasks
    <2>4. CopiesInOrder' /\ CopyIsLast'
      BY <1>0, <2>1, <2>3 DEF RequestsInv, CopiesInOrder, CopyIsLast, NoCopyPosted
    <2>. QED BY <2>2, <2>4 DEF RequestsInv
  <1>3. CASE CopyIdentity
    BY <1>0, <1>3, Posting DEF CopyIdentity, activity, texts, share
  <1>4. CASE ShareBackup
    <2>1. "share" \in Requests /\ tapped + 1 \in Nat \ {0}
      BY <1>0 DEF Requests
    <2>. QED BY <1>0, <1>4, <2>1, Posting DEF ShareBackup, activity, texts
  <1>5. CASE ViewMoves
    <2>1. viewed' \in Views
      BY <1>0, <1>5 DEF ViewMoves, Views
    <2>. QED BY <1>0, <1>5, <2>1, RequestsUntouched DEF ViewMoves, activity, texts
  <1>6. CASE Pause \/ Resume
    BY <1>0, <1>6, RequestsUntouched DEF Pause, Resume, texts
  <1>7. CASE Relaunch
    <2>1. /\ kills' = kills + 1 /\ looper' = <<>> /\ waits' = [k \in Requests |-> Idle]
          /\ acquisition' = 0 /\ candidate' = 0 /\ copied' = NotCopied /\ tapped' = tapped
          /\ viewed' = [viewed EXCEPT !.generation = 1]
      BY <1>7 DEF Relaunch
    <2>2. looper' \in Seq(Closures) /\ DOMAIN looper' = {} /\ viewed' \in Views
          /\ waits'["copy"] = Idle
      BY <1>0, <2>1, EmptyQueue DEF Views
    <2>3. RequestsInv'
      BY <1>0, <2>1, <2>2
      DEF RequestsInv, RequestsTypeOK, CandidateIsOld, CopiesInOrder, CopyIsLast
    <2>. QED BY <1>0, <2>1, <2>3
  <1>8. CASE SheetOpens
    <2>1. /\ waits \in [Requests -> Tasks \cup {Idle}] /\ "share" \in Requests
          /\ UNCHANGED <<viewed, acquisition, looper, candidate, copied, clipboard, tapped, kills>>
          /\ \/ waits' = waits
             \/ /\ waits["share"] # Idle
                /\ waits' = [waits EXCEPT !["share"] = [waits["share"] EXCEPT !.answer = "ok"]]
      BY <1>8 DEF SheetOpens, RequestsInv, RequestsTypeOK, Requests, activity, texts
    <2>. DEFINE answered == [waits["share"] EXCEPT !.answer = "ok"]
    <2>2. waits["share"] # Idle => answered \in Tasks
      BY <2>1 DEF Tasks
    <2>. HIDE DEF answered
    <2>3. waits' \in [Requests -> Tasks \cup {Idle}] /\ waits'["copy"] = waits["copy"]
      BY <1>0, <2>1, <2>2 DEF answered
    <2>4. RequestsInv'
      BY <2>1, <2>3 DEF RequestsInv, RequestsTypeOK, CandidateIsOld, CopiesInOrder, CopyIsLast, NoCopyPosted
    <2>. QED BY <1>0, <2>1, <2>4
  <1>9. CASE SheetCloses
    BY <1>0, <1>9, RequestsUntouched DEF SheetCloses, activity, texts
  <1>10. ASSUME NEW kind \in {"paste", "scan"}, ReadText(kind)
         PROVE  RequestsInv' /\ candidate' >= candidate
    <2>1. PICK answer \in {"ok", "failed"} : waits' = AnsweredTo(Head(looper), answer)
      BY <1>10 DEF ReadText
    <2>. QED
      BY <1>0, <1>10, <2>1, RunsAnother DEF ReadText, Requests, activity, texts
  <1>11. CASE WriteClipboard
    BY <1>0, <1>11, WritingClipboard DEF WriteClipboard, texts
  <1>12. CASE PresentIdentityBackup \/ PresentOnIos
    <2>1. PICK answer \in {"ok", "failed"} :
            waits' = waits \/ waits' = AnsweredTo(Head(looper), answer)
      BY <1>12 DEF PresentIdentityBackup, PresentOnIos
    <2>. QED
      BY <1>0, <1>12, <2>1, RunsAnother
      DEF PresentIdentityBackup, PresentOnIos, Requests, activity, texts
  <1>13. ASSUME NEW kind \in Requests, TaskAnswered(kind) \/ TaskTimesOut(kind)
         PROVE  RequestsInv' /\ candidate' >= candidate
    BY <1>13, Finishing DEF TaskAnswered, TaskTimesOut, activity
  <1>14. CASE UNCHANGED requestVars
    BY <1>0, <1>14, RequestsUntouched DEF requestVars
  <1>. QED
    BY <1>1, <1>2, <1>3, <1>4, <1>5, <1>6, <1>7, <1>8, <1>9, <1>10, <1>11, <1>12, <1>13, <1>14
    DEF RequestsNext

(* However late closures run, the text offered is not replaced by one asked for
   earlier, and a copy is reported of the destination shown only while it is the
   last thing written: AnswersAreForTheLast of the run Phone. *)
THEOREM AnswersAreOfTheLast ==
  RequestsSpec => AnswersAreForTheLast
  <1>1. RequestsInv => CopyIsOfShown
    BY DEF RequestsInv, RequestsTypeOK, CopyIsLast, CopyIsOfShown, CopySucceeded, IsFor, Views, NotCopied
  <1>2. RequestsInv /\ [RequestsNext]_requestVars =>
          RequestsInv' /\ (candidate' >= candidate \/ kills' # kills)
    BY RequestsInvIsKept
  <1>3. RequestsInv /\ [RequestsNext]_requestVars =>
          [CopyIsOfShown' /\ (candidate' >= candidate \/ kills' # kills)]_requestVars
    <2>1. RequestsInv' => CopyIsOfShown'
      BY <1>1, PTL
    <2>. QED BY <1>2, <2>1
  <1>. QED BY <1>2, <1>3, RequestsInvHolds, PTL DEF RequestsSpec, AnswersAreForTheLast

(* A backup is stored only while something will remove it, but for what iOS
   leaves behind: BackupIsReclaimed of the run Phone. *)
THEOREM BackupsAreReclaimed ==
  RequestsSpec => []BackupIsReclaimed
  <1>1. RequestsInit => BackupIsReclaimed
    BY DEF RequestsInit, BackupIsReclaimed
  <1>2. BackupIsReclaimed /\ [RequestsNext]_requestVars => BackupIsReclaimed'
    BY DEF BackupIsReclaimed, RequestsNext, requestVars, texts, share, activity, AcquireText,
           ScanImage, CopyIdentity, ShareBackup, ViewMoves, Pause, Resume, RemoveShare, Relaunch,
           SheetOpens, SheetCloses, ReadText, WriteClipboard, PresentIdentityBackup, Present,
           PresentOnIos, PresentSheet, TaskAnswered, TaskTimesOut, Finish, Post, Runs
  <1>. QED BY <1>1, <1>2, PTL DEF RequestsSpec

-----------------------------------------------------------------------------
(* The USB RNode: who knows of the node's attempt, and the link's. *)

(* Awaits of the worker between the moment it stored its attempt and the moment
   the node has stopped it. *)
Serves == {"greet", "turn", "read", "respond", "poll", "handoff", "complete", "check", "probe",
           "announce", "stop"}

(* The owner is done only with a worker that has ended. *)
ReapsTheDead == usbOwner \in {"reaping", "ended"} => worker = "done"

(* The cell names the attempt while it is served, until the worker forgets it or
   its owner reaps it. *)
CellIsKept ==
  /\ worker \in Serves => cell
  /\ cell => worker \in Serves \cup {"forget"} \/ usbOwner = "reaping"

(* An attempt nobody knows of was leaked, or is about to be stored. *)
AttemptIsKnown ==
  /\ attempt => cell \/ leaked \/ worker = "store"
  /\ offered => cell \/ leaked
  /\ worker = "forget" => ~attempt /\ ~offered

LinkIsOpen == link => worker \notin {"open", "done"}

(* Whom a handoff is written for. *)
ServesSomeone == serving \in {"traffic", "drain", "outcome"}

UsbInv == ReapsTheDead /\ CellIsKept /\ AttemptIsKnown /\ LinkIsOpen /\ ServesSomeone

(* What leaves the worker, its owner and the node's attempt where they are. *)
LEMMA WorkerUntouched ==
  UsbInv /\ UNCHANGED <<usbOwner, worker, link, serving, cell, attempt, offered, leaked>> => UsbInv'
  BY DEF UsbInv, ReapsTheDead, CellIsKept, AttemptIsKnown, LinkIsOpen, ServesSomeone

LEMMA UsbInvIsKept == UsbInv /\ [UsbNext]_usbVars => UsbInv'
  <1>. SUFFICES ASSUME UsbInv, [UsbNext]_usbVars PROVE UsbInv'
    OBVIOUS
  <1>. USE DEF task, usbNode, usbOwners, KeepsNode, KeepsProbe, Go, At
  <1>1. CASE PanelStep \/ Refresh \/ ProbeTap \/ PollDevices \/ ShowSnapshot
    BY <1>1, WorkerUntouched
    DEF PanelStep, Refresh, ProbeTap, PollDevices, ShowSnapshot, Listed, FallbackAnswered,
        StartAuthorization, AnswerDialog, AuthorizationFails, SelectionAnswered, ProbeAnswered,
        Authorized, Quiescent
  <1>2. ASSUME NEW d \in Devices, Select(d) \/ PlugOrPull(d) PROVE UsbInv'
    BY <1>2, WorkerUntouched DEF Select, PlugOrPull, Quiescent, Around
  <1>3. CASE Traffic
    BY <1>3, WorkerUntouched DEF Traffic, Around
  <1>4. CASE TakeFallback \/ TakeProbe
    BY <1>4, WorkerUntouched DEF TakeFallback, TakeProbe, OwnerOnly
  <1>. USE DEF UsbInv, ReapsTheDead, CellIsKept, AttemptIsKnown, LinkIsOpen,
        ServesSomeone, Serves
  <1>5. CASE TakeSelection \/ TakeEndpoint
    BY <1>5 DEF TakeSelection, TakeEndpoint, StopWorker, OwnerOnly
  <1>6. CASE WorkerEnded
    BY <1>6 DEF WorkerEnded, OwnerOnly
  <1>7. CASE Abort
    BY <1>7 DEF Abort
  <1>8. CASE Reap
    BY <1>8 DEF Reap, ReapAttempt
  <1>9. CASE OwnerEnds
    BY <1>9 DEF OwnerEnds
  <1>. USE DEF Beside
  <1>10. CASE Open \/ StartBytes \/ StoreAttempt
    BY <1>10 DEF Open, StartBytes, StoreAttempt
  <1>11. CASE WorkerFails \/ Greet \/ Turn \/ ReadBytes \/ Respond \/ Check
    BY <1>11 DEF WorkerFails, Greet, Turn, ReadBytes, Respond, Check
  <1>12. CASE PollOffers \/ PollEmpty \/ WriteHandoff \/ HandoffFails \/ Complete
    BY <1>12 DEF PollOffers, PollEmpty, WriteHandoff, HandoffFails, Complete, AnswerProbe
  <1>13. CASE Probe \/ Announce \/ ProbeFails \/ ProbeTimesOut
    BY <1>13 DEF Probe, Announce, ProbeFails, ProbeTimesOut, AnswerProbe
  <1>14. CASE StopBytes \/ ForgetAttempt \/ CloseUsb
    BY <1>14 DEF StopBytes, ForgetAttempt, CloseUsb
  <1>15. CASE UNCHANGED usbVars
    BY <1>15 DEF usbVars
  <1>. QED
    BY <1>1, <1>2, <1>3, <1>4, <1>5, <1>6, <1>7, <1>8, <1>9, <1>10, <1>11, <1>12, <1>13, <1>14, <1>15
    DEF UsbNext, OwnerUsbStep, WorkerStep

(* However the worker ended, its owner leaves no attempt, offer or link behind,
   but for an attempt it aborted the start of: UsbAttemptIsReaped of the run
   Phone. *)
THEOREM UsbAttemptsAreReaped ==
  UsbSpec => []UsbAttemptIsReaped
  <1>1. UsbInit => UsbInv
    BY DEF UsbInit, UsbInv, ReapsTheDead, CellIsKept, AttemptIsKnown, LinkIsOpen,
        ServesSomeone, Serves
  <1>2. UsbInv => UsbAttemptIsReaped
    BY DEF UsbInv, UsbAttemptIsReaped, ReapsTheDead, CellIsKept, AttemptIsKnown, LinkIsOpen,
        ServesSomeone, Serves
  <1>. QED BY <1>1, <1>2, UsbInvIsKept, PTL DEF UsbSpec
=============================================================================
