---------------------------- MODULE ScreensProofs ----------------------------
(* Proofs about what the screens show: the content page, the session and the   *)
(* Protocol Lab of the desktop application, the messages surface of the phone, *)
(* and the reducer of its state.                                               *)
EXTENDS DesktopSession, PageContent, ProtocolLab, Composer, MobileReducer, QueueLemmas,
        FiniteSetTheorems

(* The items of a queue, whatever they are. *)
Items(queue) == {queue[i] : i \in DOMAIN queue}

(* A queue of items of any kind. *)
IsQueue(queue) == queue \in Seq(Items(queue))

LEMMA AppendedItem ==
  ASSUME NEW queue, IsQueue(queue), NEW item
  PROVE  LET longer == Append(queue, item) IN
         /\ IsQueue(longer) /\ Len(queue) \in Nat /\ DOMAIN queue = 1 .. Len(queue)
         /\ DOMAIN longer = 1 .. Len(queue) + 1 /\ longer[Len(queue) + 1] = item
         /\ \A i \in DOMAIN queue : longer[i] = queue[i]
         /\ Len(longer) = Len(queue) + 1
  <1>. DEFINE S == Items(queue) \cup {item}
              longer == Append(queue, item)
  <1>1. queue \in Seq(S) /\ item \in S
    BY DEF IsQueue
  <1>. HIDE DEF S
  <1>2. /\ longer \in Seq(S) /\ Len(queue) \in Nat /\ DOMAIN queue = 1 .. Len(queue)
        /\ Len(longer) = Len(queue) + 1 /\ DOMAIN longer = 1 .. Len(longer)
        /\ longer[Len(queue) + 1] = item /\ \A i \in DOMAIN queue : longer[i] = queue[i]
    BY <1>1, AppendProperties
  <1>. HIDE DEF longer
  <1>3. longer \in Seq(Items(longer))
    <2>1. longer = [i \in 1 .. Len(longer) |-> longer[i]]
      BY <1>2
    <2>. QED BY <1>2, <2>1 DEF Items
  <1>. QED BY <1>2, <1>3 DEF IsQueue, longer

LEMMA ShortenedQueue ==
  ASSUME NEW queue, IsQueue(queue), queue # <<>>
  PROVE  /\ IsQueue(Tail(queue)) /\ Len(queue) \in Nat \ {0} /\ DOMAIN queue = 1 .. Len(queue)
         /\ DOMAIN Tail(queue) = 1 .. Len(queue) - 1 /\ Head(queue) = queue[1]
         /\ \A i \in DOMAIN Tail(queue) : i + 1 \in DOMAIN queue /\ Tail(queue)[i] = queue[i + 1]
  <1>. DEFINE S == Items(queue)
              rest == Tail(queue)
  <1>1. queue \in Seq(S)
    BY DEF IsQueue
  <1>. HIDE DEF S
  <1>2. /\ rest \in Seq(S) /\ Len(queue) \in Nat \ {0} /\ DOMAIN queue = 1 .. Len(queue)
        /\ Len(rest) = Len(queue) - 1 /\ DOMAIN rest = 1 .. Len(rest) /\ Head(queue) = queue[1]
        /\ \A i \in DOMAIN rest : i + 1 \in DOMAIN queue /\ rest[i] = queue[i + 1]
    BY <1>1
  <1>. HIDE DEF rest
  <1>3. rest \in Seq(Items(rest))
    <2>1. rest = [i \in 1 .. Len(rest) |-> rest[i]]
      BY <1>2
    <2>. QED BY <1>2, <2>1 DEF Items
  <1>. QED BY <1>2, <1>3 DEF IsQueue, rest

-----------------------------------------------------------------------------
(* The content page. *)

AreCommands(queue) ==
  /\ IsQueue(queue)
  /\ \A i \in DOMAIN queue : queue[i].is = "browse" => queue[i] = BrowsePage(queue[i].address)

(* Records that keep their fields. *)
ContentShaped ==
  /\ content = [page |-> content.page, download |-> content.download]
  /\ browser = [mounted |-> browser.mounted, session |-> browser.session,
                correlation |-> browser.correlation, typed |-> browser.typed]
  /\ session = [generation |-> session.generation, open |-> session.open]
  /\ given \in Nat /\ AreCommands(pageQueue)

(* A page that is shown is one of the daemon's, with a correlation of its own. *)
ShownIsGiven ==
  /\ content.page.is = "none" => content.page.correlation = 0
  /\ content.page.is = "shown" => content.page.correlation # 0
  /\ rendered.page.is = "shown" => rendered.page.correlation # 0

(* The signals are those of the page that is rendered, and all that is typed
   was typed on the page whose fields were put in last. *)
SignalsOfPage ==
  /\ browser.typed \subseteq {browser.correlation}
  /\ rendered.page.is = "shown" =>
       /\ browser.mounted /\ browser.correlation = rendered.page.correlation
       /\ browser.session = rendered.page.begun

(* A session that is over has no command in hand. *)
NothingInHand == ~session.open => doing = DoesNothing

ContentInv == ContentShaped /\ ShownIsGiven /\ SignalsOfPage /\ NothingInHand /\ LoadingIsAnswered

(* The body of the component sets the signals from the page it renders. *)
LEMMA SignalsFollowPage ==
  ASSUME ContentInv, NEW page, page = content.page, NEW b, b = Signals(page)
  PROVE  /\ b = [mounted |-> b.mounted, session |-> b.session, correlation |-> b.correlation,
                 typed |-> b.typed]
         /\ b.mounted = browser.mounted /\ b.typed \subseteq {b.correlation}
         /\ page.is = "shown" => b.correlation = page.correlation /\ b.session = page.begun
  <1>0. /\ browser = [mounted |-> browser.mounted, session |-> browser.session,
                      correlation |-> browser.correlation, typed |-> browser.typed]
        /\ browser.typed \subseteq {browser.correlation}
    BY DEF ContentInv, ContentShaped, SignalsOfPage
  <1>1. CASE page.is = "none"
    <2>1. ~Authoritative(page)
      BY <1>1 DEF ContentInv, ShownIsGiven, Authoritative
    <2>2. b = [browser EXCEPT !.session = 0]
      BY <1>1, <2>1 DEF Signals
    <2>. QED BY <1>0, <1>1, <2>2
  <1>2. CASE page.is # "none" /\ Authoritative(page)
    <2>1. b = [Fielded(page) EXCEPT !.session = page.begun]
      BY <1>2 DEF Signals
    <2>2. CASE ResetsFields(page)
      <3>1. b = [[browser EXCEPT !.correlation = page.correlation, !.typed = {}]
                  EXCEPT !.session = page.begun]
        BY <2>1, <2>2 DEF Fielded
      <3>2. b = [mounted |-> browser.mounted, session |-> page.begun,
                 correlation |-> page.correlation, typed |-> {}]
        BY <1>0, <3>1
      <3>. QED BY <3>2
    <2>3. CASE ~ResetsFields(page)
      <3>1. b = [browser EXCEPT !.session = page.begun] /\ browser.correlation = page.correlation
        BY <1>2, <2>1, <2>3 DEF Fielded, ResetsFields
      <3>2. b = [mounted |-> browser.mounted, session |-> page.begun,
                 correlation |-> page.correlation, typed |-> browser.typed]
        BY <1>0, <3>1
      <3>. QED BY <1>0, <3>1, <3>2
    <2>. QED BY <2>2, <2>3
  <1>3. CASE page.is # "none" /\ ~Authoritative(page)
    <2>1. b = browser /\ page.is # "shown"
      BY <1>3 DEF Signals, Authoritative, ContentInv, ShownIsGiven
    <2>. QED BY <1>0, <2>1
  <1>. QED BY <1>1, <1>2, <1>3

(* A click puts at most its command into the channel. *)
LEMMA ClickedCommand ==
  ASSUME ContentInv, NEW command, Sent(command),
         command.is = "browse" => command = BrowsePage(command.address)
  PROVE  /\ AreCommands(pageQueue')
         /\ \A i \in DOMAIN pageQueue' \ DOMAIN pageQueue : pageQueue'[i] = command
  <1>1. AreCommands(pageQueue)
    BY DEF ContentInv, ContentShaped
  <1>2. CASE pageQueue' = pageQueue
    BY <1>1, <1>2
  <1>3. CASE pageQueue' = Append(pageQueue, command)
    <2>1. /\ IsQueue(pageQueue') /\ DOMAIN pageQueue = 1 .. Len(pageQueue) /\ Len(pageQueue) \in Nat
          /\ DOMAIN pageQueue' = 1 .. Len(pageQueue) + 1 /\ pageQueue'[Len(pageQueue) + 1] = command
          /\ \A i \in DOMAIN pageQueue : pageQueue'[i] = pageQueue[i]
      BY <1>1, <1>3, AppendedItem DEF AreCommands
    <2>2. \A i \in DOMAIN pageQueue' : i \in DOMAIN pageQueue \/ i = Len(pageQueue) + 1
      BY <2>1
    <2>. QED BY <1>1, <2>1, <2>2 DEF AreCommands
  <1>. QED BY <1>2, <1>3 DEF Sent

(* What the operator does in the page leaves the stores and the task alone. *)
LEMMA BrowserUntouched ==
  ASSUME ContentInv, UNCHANGED <<content, session, doing, given>>, AreCommands(pageQueue'),
         \/ UNCHANGED <<rendered, browser>>
         \/ browser' = Unmounted /\ rendered'.page = NoPage
  PROVE  ContentInv'
  <1>. USE DEF ContentInv, ContentShaped, ShownIsGiven, SignalsOfPage, NothingInHand,
               LoadingIsAnswered, Unmounted, NoPage
  <1>1. CASE UNCHANGED <<rendered, browser>>
    BY <1>1
  <1>2. CASE browser' = Unmounted /\ rendered'.page = NoPage
    BY <1>2
  <1>. QED BY <1>1, <1>2

(* The fields a command takes along are those of the page it was clicked on. *)
FormStays ==
  \A i \in DOMAIN pageQueue' \ DOMAIN pageQueue :
    LET command == pageQueue'[i]
    IN command.is = "navigate" /\ command.values # {} =>
         command.values = {ShownPage.correlation} /\ command.session = ShownPage.begun

LEMMA BrowserStepKeeps ==
  ASSUME ContentInv, BrowserStep
  PROVE  ContentInv' /\ FormStays
  <1>. USE DEF world
  <1>1. ASSUME NEW command, Clicked(command), command.is = "navigate" => command.values = {},
               command.is = "browse" => command = BrowsePage(command.address)
        PROVE  ContentInv' /\ FormStays
    BY <1>1, ClickedCommand, BrowserUntouched DEF Clicked, FormStays
  <1>2. CASE LeaveContent
    <2>1. pageQueue' = pageQueue /\ AreCommands(pageQueue)
      BY <1>2 DEF LeaveContent, ContentInv, ContentShaped
    <2>. QED BY <1>2, <2>1, BrowserUntouched DEF LeaveContent, FormStays
  <1>3. CASE EnterContent
    <2>1. /\ UNCHANGED <<content, session, doing, given, rendered>> /\ browser' = Mounted
          /\ ~browser.mounted
      BY <1>3 DEF EnterContent
    <2>2. pageQueue' = pageQueue \/ \E a \in Addresses : Sent(BrowsePage(a))
      BY <1>3 DEF EnterContent
    <2>3. AreCommands(pageQueue') /\ FormStays
      <3>1. CASE pageQueue' = pageQueue
        BY <3>1 DEF ContentInv, ContentShaped, FormStays
      <3>2. ASSUME NEW a \in Addresses, Sent(BrowsePage(a))
            PROVE  AreCommands(pageQueue') /\ FormStays
        <4>1. BrowsePage(a).is = "browse" /\ BrowsePage(a) = BrowsePage(BrowsePage(a).address)
          BY DEF BrowsePage
        <4>. QED BY <3>2, <4>1, ClickedCommand DEF FormStays
      <3>. QED BY <2>2, <3>1, <3>2
    <2>4. ContentInv'
      BY <2>1, <2>3
      DEF ContentInv, ContentShaped, ShownIsGiven, SignalsOfPage, NothingInHand, LoadingIsAnswered,
          Mounted, Unmounted
    <2>. QED BY <2>3, <2>4
  <1>4. CASE Type
    <2>1. /\ UNCHANGED <<content, session, doing, given, rendered, pageQueue>>
          /\ browser' = [browser EXCEPT !.typed = @ \cup {ShownPage.correlation}]
          /\ ShownPage.is = "shown"
      BY <1>4 DEF Type
    <2>2. ContentInv'
      BY <2>1
      DEF ContentInv, ContentShaped, ShownIsGiven, SignalsOfPage, NothingInHand, LoadingIsAnswered,
          ShownPage
    <2>. QED BY <2>1, <2>2 DEF FormStays
  <1>5. CASE ClickLink
    <2>1. PICK a \in Addresses :
            \/ Clicked(NavigatePage(a, {})) \/ Clicked(NavigatePage(a, browser.typed))
            \/ Clicked(StartDownload(a))
      BY <1>5 DEF ClickLink
    <2>2. CASE Clicked(NavigatePage(a, {})) \/ Clicked(StartDownload(a))
      BY <1>1, <2>2 DEF NavigatePage, StartDownload
    <2>3. CASE Clicked(NavigatePage(a, browser.typed))
      <3>. DEFINE command == NavigatePage(a, browser.typed)
      <3>1. /\ command.session = ShownPage.begun /\ command.is = "navigate"
            /\ command.values # {} => command.values = {ShownPage.correlation}
        BY <1>5 DEF ClickLink, NavigatePage, ContentInv, SignalsOfPage, ShownPage
      <3>2. /\ AreCommands(pageQueue')
            /\ \A i \in DOMAIN pageQueue' \ DOMAIN pageQueue : pageQueue'[i] = command
        BY <2>3, <3>1, ClickedCommand DEF Clicked
      <3>. HIDE DEF command
      <3>3. FormStays
        BY <3>1, <3>2 DEF FormStays
      <3>. QED BY <2>3, <3>2, <3>3, BrowserUntouched DEF Clicked
    <2>. QED BY <2>1, <2>2, <2>3
  <1>6. CASE ClickHost \/ ClickGo \/ ClickHistory \/ ClickAgain \/ ClickClose \/ ClickDownload
    BY <1>1, <1>6
    DEF ClickHost, ClickGo, ClickHistory, ClickAgain, ClickClose, ClickDownload,
        BrowsePage, NavigatePage, ClosePage, ChangeDownload
  <1>. QED BY <1>2, <1>3, <1>4, <1>5, <1>6 DEF BrowserStep

(* The steps of the task and of the session put nothing into the channel. *)
LEMMA TaskStepKeeps ==
  ASSUME ContentInv, TaskStep
  PROVE  ContentInv' /\ FormStays
  <1>0. /\ AreCommands(pageQueue) /\ given \in Nat
        /\ content = [page |-> content.page, download |-> content.download]
        /\ content.page.is = "loading" /\ session.open =>
             doing.is = "browse" /\ doing = BrowsePage(content.page.address)
        /\ session' = session /\ UNCHANGED <<rendered, browser>>
    BY DEF ContentInv, ContentShaped, LoadingIsAnswered, BrowsePage, world, Answered, TaskStep,
           TakeContent, RefuseContent, PageBrowsed, BrowseFails, Navigated, PageClosed,
           DownloadStarted, DownloadAnswered, CallRefused
  <1>. USE DEF ContentInv, ContentShaped, ShownIsGiven, SignalsOfPage, NothingInHand,
               LoadingIsAnswered
  <1>1. CASE TakeContent \/ RefuseContent
    <2>1. /\ pageQueue # <<>> /\ pageQueue' = Tail(pageQueue) /\ doing = DoesNothing
          /\ session.open /\ given' = given
      BY <1>1 DEF TakeContent, RefuseContent, world
    <2>2. AreCommands(pageQueue') /\ FormStays
      BY <1>0, <2>1, ShortenedQueue DEF FormStays, AreCommands
    <2>3. CASE RefuseContent
      BY <1>0, <2>1, <2>2, <2>3 DEF RefuseContent
    <2>4. CASE TakeContent
      <3>1. content.page.is # "loading"
        BY <1>0, <2>1 DEF DoesNothing
      <3>2. \/ content' = content
            \/ /\ doing'.is = "browse"
               /\ content' = [page |-> Loading(doing'.address), download |-> content.download]
        BY <1>0, <2>4 DEF TakeContent
      <3>3. CASE content' = content
        BY <1>0, <2>1, <2>2, <3>1, <3>3
      <3>4. CASE content'.page = Loading(doing'.address)
        <4>1. /\ doing'.is = "browse" /\ doing' = pageQueue[1] /\ 1 \in DOMAIN pageQueue
              /\ content' = [page |-> Loading(doing'.address), download |-> content.download]
          <5>1. Loading(doing'.address).is = "loading"
            BY DEF Loading
          <5>. QED BY <1>0, <2>1, <2>4, <3>1, <3>2, <3>4, <5>1, ShortenedQueue DEF TakeContent, AreCommands
        <4>2. /\ doing' = BrowsePage(doing'.address)
              /\ content'.page = Loading(doing'.address)
              /\ content'.page.is = "loading" /\ content'.page.address = doing'.address
          BY <1>0, <4>1 DEF AreCommands, Loading
        <4>. QED BY <1>0, <2>1, <2>2, <4>1, <4>2
      <3>. QED BY <3>2, <3>3, <3>4
    <2>. QED BY <1>1, <2>3, <2>4
  <1>2. CASE PageBrowsed \/ Navigated
    <2>1. /\ given' = given + 1 /\ doing' = DoesNothing /\ pageQueue' = pageQueue
          /\ \E a, begun, outcome : /\ outcome \in Outcomes
                                    /\ content' = [content EXCEPT !.page = FromDaemon(a, begun, outcome)]
      BY <1>2 DEF PageBrowsed, Navigated, Answers, Answered
    <2>2. PICK a, begun, outcome :
            /\ outcome \in Outcomes
            /\ content' = [page |-> FromDaemon(a, begun, outcome), download |-> content.download]
      BY <1>0, <2>1
    <2>3. /\ content'.page.is \in Outcomes /\ content'.page.correlation = given + 1
          /\ content' = [page |-> content'.page, download |-> content'.download]
      BY <2>2 DEF FromDaemon
    <2>. QED BY <1>0, <2>1, <2>3 DEF Outcomes, FormStays
  <1>3. CASE BrowseFails \/ PageClosed
    <2>1. /\ given' = given /\ doing' = DoesNothing /\ pageQueue' = pageQueue
          /\ content' = [page |-> content'.page, download |-> content'.download]
          /\ content'.page.is \in {"failed", "none"} /\ content'.page.correlation = 0
      BY <1>0, <1>3 DEF BrowseFails, PageClosed, Answered, FailedBefore, NoPage
    <2>. QED BY <1>0, <2>1 DEF FormStays
  <1>4. CASE DownloadStarted \/ DownloadAnswered \/ CallRefused
    <2>1. /\ given' \in {given, given + 1} /\ doing' = DoesNothing /\ pageQueue' = pageQueue
          /\ content' = [page |-> content.page, download |-> content'.download]
          /\ doing.is # "browse"
      BY <1>0, <1>4 DEF DownloadStarted, DownloadAnswered, CallRefused, Answered, Answers
    <2>. QED BY <1>0, <2>1 DEF FormStays
  <1>. QED BY <1>1, <1>2, <1>3, <1>4 DEF TaskStep

LEMMA ContentInvIsKept ==
  ASSUME ContentInv, [ContentNext]_contentVars
  PROVE  ContentInv' /\ (FormStays \/ UNCHANGED contentVars)
  <1>1. CASE BrowserStep \/ TaskStep
    BY <1>1, BrowserStepKeeps, TaskStepKeeps
  <1>0. ASSUME NEW b, b = Signals(content.page)
        PROVE  /\ b = [mounted |-> b.mounted, session |-> b.session,
                        correlation |-> b.correlation, typed |-> b.typed]
               /\ b.mounted = browser.mounted /\ b.typed \subseteq {b.correlation}
               /\ content.page.is = "shown" =>
                    b.correlation = content.page.correlation /\ b.session = content.page.begun
    BY <1>0, SignalsFollowPage
  <1>. USE DEF ContentInv, ContentShaped, ShownIsGiven, SignalsOfPage, NothingInHand,
               LoadingIsAnswered, FormStays, world
  <1>2. CASE Render
    <2>1. /\ rendered'.page = content.page /\ browser' = Signals(content.page) /\ browser.mounted
          /\ UNCHANGED <<content, session, pageQueue, doing, given>>
      BY <1>2 DEF Render, View
    <2>2. /\ browser' = [mounted |-> browser'.mounted, session |-> browser'.session,
                         correlation |-> browser'.correlation, typed |-> browser'.typed]
          /\ browser'.mounted = browser.mounted /\ browser'.typed \subseteq {browser'.correlation}
          /\ content.page.is = "shown" =>
               browser'.correlation = content.page.correlation
               /\ browser'.session = content.page.begun
      BY <1>0, <2>1
    <2>3. AreCommands(pageQueue') /\ NothingInHand' /\ LoadingIsAnswered'
      BY <2>1
    <2>5. ContentShaped'
      BY <2>1, <2>2, <2>3
    <2>4. ShownIsGiven' /\ SignalsOfPage'
      BY <2>1, <2>2
    <2>. QED BY <2>1, <2>3, <2>4, <2>5
  <1>3. CASE GrantChanges
    BY <1>3 DEF GrantChanges
  <1>4. CASE TaskCancelled
    <2>1. AreCommands(<<>>) /\ DOMAIN <<>> = {}
      BY EmptyQueue DEF AreCommands, IsQueue, Items
    <2>. QED BY <1>4, <2>1 DEF TaskCancelled
  <1>5. CASE SessionBegun
    BY <1>5 DEF SessionBegun, NoPage
  <1>6. CASE UNCHANGED contentVars
    BY <1>6 DEF contentVars
  <1>. QED BY <1>1, <1>2, <1>3, <1>4, <1>5, <1>6 DEF ContentNext

LEMMA ContentInvHolds == ContentInit => ContentInv
  <1>. SUFFICES ASSUME ContentInit PROVE ContentInv
    OBVIOUS
  <1>1. AreCommands(<<>>)
    BY EmptyQueue DEF AreCommands, IsQueue, Items
  <1>2. /\ content = [page |-> NoPage, download |-> NoDownload] /\ rendered.page = NoPage
        /\ browser = [mounted |-> TRUE, session |-> 0, correlation |-> 0, typed |-> {}]
        /\ session = [generation |-> 1, open |-> TRUE] /\ given = 0 /\ pageQueue = <<>>
    BY DEF ContentInit, Mounted, Unmounted
  <1>3. NoPage.is = "none" /\ NoPage.correlation = 0
    BY DEF NoPage
  <1>4. ContentShaped
    BY <1>1, <1>2 DEF ContentShaped
  <1>5. ShownIsGiven /\ SignalsOfPage
    BY <1>2, <1>3 DEF ShownIsGiven, SignalsOfPage
  <1>6. NothingInHand /\ LoadingIsAnswered
    BY <1>2, <1>3 DEF NothingInHand, LoadingIsAnswered
  <1>. QED BY <1>4, <1>5, <1>6 DEF ContentInv

(* "Loading page..." is shown only while the command in hand loads that page:
   LoadingIsAnswered of the run Screens. *)
THEOREM LoadingsAreAnswered ==
  ContentSpec => []LoadingIsAnswered
  <1>1. ContentInv => LoadingIsAnswered
    BY DEF ContentInv
  <1>. QED BY <1>1, ContentInvHolds, ContentInvIsKept, PTL DEF ContentSpec

(* What is typed on a page leaves with that page only: FormStaysHere of the run
   Screens. *)
THEOREM FormsStayHere ==
  ContentSpec => FormStaysHere
  <1>1. ContentInv /\ [ContentNext]_contentVars =>
          /\ ContentInv'
          /\ [\A i \in DOMAIN pageQueue' \ DOMAIN pageQueue :
                LET command == pageQueue'[i]
                IN command.is = "navigate" /\ command.values # {} =>
                     /\ command.values = {ShownPage.correlation}
                     /\ command.session = ShownPage.begun]_contentVars
    BY ContentInvIsKept DEF FormStays
  <1>. QED BY <1>1, ContentInvHolds, PTL DEF ContentSpec, FormStaysHere

-----------------------------------------------------------------------------
(* The desktop session: what the reducers leave alone. *)

(* The stores have the fields of the session and the network, and a collection
   of every kind. *)
AreStores(s) ==
  /\ {"generation", "connected", "server", "event", "net", "loaded"} \subseteq DOMAIN s
  /\ Kinds \subseteq DOMAIN s.net

(* What is shown was observed on a connection the stores know. *)
Negotiated(s) ==
  s.connected => \A k \in Kinds \ {"interfaces"} :
                   ObservedOn(s.net[k]) \subseteq {s.server, s.event} \ {Absent}

(* The session goes on: its generations, its messages once loaded, and what it
   shows of the connections. *)
GoesOn(s, t) ==
  /\ AreStores(t)
  /\ t.generation = s.generation /\ t.connected = s.connected
  /\ t.server = s.server /\ t.event = s.event
  /\ s.loaded => t.loaded
  /\ Negotiated(s) => Negotiated(t)

(* The same, and what is shown of the network stays. *)
Stays(s, t) ==
  /\ AreStores(t)
  /\ t.generation = s.generation /\ t.connected = s.connected
  /\ t.server = s.server /\ t.event = s.event /\ t.net = s.net
  /\ s.loaded => t.loaded

LEMMA StayingGoesOn ==
  ASSUME NEW s, NEW t, Stays(s, t) PROVE GoesOn(s, t)
  BY DEF Stays, GoesOn, Negotiated

LEMMA StaysTwice ==
  ASSUME NEW s, NEW t, NEW u, Stays(s, t), Stays(t, u) PROVE Stays(s, u)
  BY DEF Stays

(* The reducers of everything but the network. *)
LEMMA ReducersStay ==
  ASSUME NEW s, AreStores(s)
  PROVE  /\ Stays(s, s) /\ Stays(s, RefreshNetworkState(s)) /\ Stays(s, ForgetPagination(s))
         /\ \A m : Stays(s, MarkLive(s, m)) /\ Stays(s, Unmark(s, m))
         /\ \A g, x : Stays(s, SetStandard(s, g, x)) /\ Stays(s, SetPropagation(s, g, x))
                      /\ Stays(s, SetDraft(s, g, x))
         /\ \A g : Stays(s, FailStandard(s, g)) /\ Stays(s, ResetPeer(s, g))
                   /\ Stays(s, MarkPeerLoaded(s, g)) /\ Stays(s, BeginJob(s, g))
         /\ \A g, any, more : Stays(s, MergeConversations(s, g, any, more))
         /\ \A g, page, more : Stays(s, MergePage(s, g, page, more))
         /\ \A g, id, outcome : Stays(s, FinishJob(s, g, id, outcome))
  <1>. USE DEF Stays, AreStores
  <1>1. /\ Stays(s, s) /\ Stays(s, RefreshNetworkState(s)) /\ Stays(s, ForgetPagination(s))
    BY DEF RefreshNetworkState, ForgetPagination
  <1>2. \A m : Stays(s, MarkLive(s, m)) /\ Stays(s, Unmark(s, m))
    BY DEF MarkLive, Unmark
  <1>3. \A g, x : Stays(s, SetStandard(s, g, x)) /\ Stays(s, SetPropagation(s, g, x))
                      /\ Stays(s, SetDraft(s, g, x))
    BY DEF SetStandard, SetPropagation, SetDraft
  <1>4. \A g : Stays(s, FailStandard(s, g)) /\ Stays(s, ResetPeer(s, g))
                   /\ Stays(s, MarkPeerLoaded(s, g)) /\ Stays(s, BeginJob(s, g))
    BY DEF FailStandard, ResetPeer, MarkPeerLoaded, BeginJob
  <1>5. \A g, any, more : Stays(s, MergeConversations(s, g, any, more))
    BY DEF MergeConversations
  <1>6. \A g, page, more : Stays(s, MergePage(s, g, page, more))
    BY DEF MergePage
  <1>7. \A g, id, outcome : Stays(s, FinishJob(s, g, id, outcome))
    BY DEF FinishJob
  <1>. QED BY <1>1, <1>2, <1>3, <1>4, <1>5, <1>6, <1>7

LEMMA MessagesStay ==
  ASSUME NEW s, AreStores(s)
  PROVE  /\ \A m, v : Stays(s, PushMessage(s, m, v))
         /\ \A g, m, v : Stays(s, ResolveMessage(s, g, m, v))
         /\ \A g, m, v, found : Stays(s, ApplyLifecycle(s, g, m, v, found))
         /\ \A d, announce : Stays(s, ReducePeer(s, d, announce))
         /\ \A g, page : Stays(s, MergePage(ResetPeer(s, g), g, page, FALSE))
  <1>1. ASSUME NEW m, NEW v PROVE Stays(s, PushMessage(s, m, v))
    <2>1. Stays(s, MarkLive(s, m))
      BY ReducersStay
    <2>. QED BY <2>1 DEF Stays, AreStores, PushMessage
  <1>2. ASSUME NEW m
        PROVE  \A x, y : /\ Stays(s, [RemoveMessage(s, m) EXCEPT !.state["messages"] = x])
                         /\ Stays(s, [RemoveMessage(s, m) EXCEPT !.cursors = y])
    <2>1. Stays(s, Unmark(s, m))
      BY ReducersStay
    <2>2. Stays(s, RemoveMessage(s, m))
      BY <2>1 DEF Stays, AreStores, RemoveMessage
    <2>. QED BY <2>2 DEF Stays, AreStores
  <1>3. \A g, m, v : Stays(s, ResolveMessage(s, g, m, v))
    BY <1>1, <1>2, ReducersStay DEF ResolveMessage
  <1>4. ASSUME NEW g, NEW m, NEW v, NEW found PROVE Stays(s, ApplyLifecycle(s, g, m, v, found))
    <2>1. Stays(s, s) /\ Stays(s, PushMessage(s, m, v))
      BY <1>1, ReducersStay
    <2>2. Stays(s, RemoveMessage(s, m))
      <3>1. Stays(s, Unmark(s, m))
        BY ReducersStay
      <3>. QED BY <3>1 DEF Stays, AreStores, RemoveMessage
    <2>. QED BY <2>1, <2>2 DEF ApplyLifecycle, Stays, AreStores
  <1>5. ASSUME NEW d, NEW announce PROVE Stays(s, ReducePeer(s, d, announce))
    <2>. DEFINE t == [s EXCEPT !.heard[d] = IF announce >= @ THEN announce ELSE @,
                               !.managed = @ \union {d},
                               !.state["fleet"] = IF d \in s.managed THEN @ ELSE "ready"]
    <2>1. Stays(s, t)
      BY DEF Stays, AreStores
    <2>2. ReducePeer(s, d, announce) = RefreshNetworkState(t)
      BY DEF ReducePeer
    <2>. HIDE DEF t
    <2>3. Stays(t, RefreshNetworkState(t))
      BY <2>1, ReducersStay DEF Stays
    <2>. QED BY <2>1, <2>2, <2>3, StaysTwice
  <1>6. ASSUME NEW g, NEW page PROVE Stays(s, MergePage(ResetPeer(s, g), g, page, FALSE))
    <2>. DEFINE t == ResetPeer(s, g)
    <2>1. Stays(s, t)
      BY ReducersStay
    <2>. HIDE DEF t
    <2>2. Stays(t, MergePage(t, g, page, FALSE))
      BY <2>1, ReducersStay DEF Stays
    <2>3. Stays(s, MergePage(t, g, page, FALSE))
      BY <2>1, <2>2, StaysTwice
    <2>. QED BY <2>3 DEF t
  <1>. QED BY <1>1, <1>3, <1>4, <1>5, <1>6

(* What an answer or an event observed of the network is of a connection the
   stores know, or is not taken. *)
LEMMA NetworkGoesOn ==
  ASSUME NEW s, AreStores(s)
  PROVE  /\ \A g, kind, snapshot : GoesOn(s, SetSnapshot(s, g, kind, snapshot))
         /\ \A kind, record, observed : GoesOn(s, ApplyObservation(s, kind, record, observed).stores)
  <1>0. Stays(s, s)
    BY ReducersStay
  <1>1. ASSUME NEW g, NEW kind, NEW snapshot
        PROVE  GoesOn(s, SetSnapshot(s, g, kind, snapshot))
    <2>. DEFINE t == [s EXCEPT !.net[kind] = snapshot]
    <2>1. CASE ~(Accepts(s, g) /\ s.server # Absent /\ ObservedOn(snapshot) \subseteq {s.server})
      BY <1>0, <2>1, StayingGoesOn DEF SetSnapshot
    <2>2. CASE Accepts(s, g) /\ s.server # Absent /\ ObservedOn(snapshot) \subseteq {s.server}
      <3>1. /\ AreStores(t) /\ t.generation = s.generation /\ t.connected = s.connected
            /\ t.server = s.server /\ t.event = s.event /\ t.loaded = s.loaded
            /\ \A k \in Kinds : t.net[k] = IF k = kind THEN snapshot ELSE s.net[k]
        BY DEF AreStores
      <3>2. SetSnapshot(s, g, kind, snapshot) \in {t, RefreshNetworkState(t)}
        BY <2>2 DEF SetSnapshot
      <3>. HIDE DEF t
      <3>3. GoesOn(s, t)
        BY <2>2, <3>1 DEF GoesOn, Negotiated
      <3>4. Stays(t, RefreshNetworkState(t))
        BY <3>1, ReducersStay
      <3>5. GoesOn(s, RefreshNetworkState(t))
        BY <3>3, <3>4, StayingGoesOn DEF GoesOn
      <3>. QED BY <3>2, <3>3, <3>5
    <2>. QED BY <2>1, <2>2
  <1>2. ASSUME NEW kind, NEW record, NEW observed
        PROVE  GoesOn(s, ApplyObservation(s, kind, record, observed).stores)
    <2>. DEFINE held == [r \in DOMAIN s.net[kind] \union {record} |->
                           IF r = record THEN observed ELSE s.net[kind][r]]
                t == [s EXCEPT !.net[kind] = held]
    <2>1. CASE ~ObservationGenerationValid(s, observed)
      BY <1>0, <2>1, StayingGoesOn DEF ApplyObservation, Rejected
    <2>2. CASE ObservationGenerationValid(s, observed)
      <3>0. ObservedOn(held) \subseteq ObservedOn(s.net[kind]) \cup {observed}
        BY DEF ObservedOn
      <3>1. ApplyObservation(s, kind, record, observed).stores \in {t, RefreshNetworkState(t)}
        BY <2>2 DEF ApplyObservation, Applied
      <3>. HIDE DEF held
      <3>2. /\ AreStores(t) /\ t.generation = s.generation /\ t.connected = s.connected
            /\ t.server = s.server /\ t.event = s.event /\ t.loaded = s.loaded
            /\ \A k \in Kinds : t.net[k] = IF k = kind THEN held ELSE s.net[k]
        BY DEF AreStores
      <3>. HIDE DEF t
      <3>3. GoesOn(s, t)
        BY <2>2, <3>0, <3>2 DEF GoesOn, Negotiated, ObservationGenerationValid
      <3>4. Stays(t, RefreshNetworkState(t))
        BY <3>2, ReducersStay
      <3>5. GoesOn(s, RefreshNetworkState(t))
        BY <3>3, <3>4, StayingGoesOn DEF GoesOn
      <3>. QED BY <3>1, <3>3, <3>5
    <2>. QED BY <2>1, <2>2
  <1>. QED BY <1>1, <1>2

-----------------------------------------------------------------------------
(* The desktop session: its invariant. *)

(* The events that leave the generations and the connection alone, and those
   that a session begins with, ends with, or learns a connection from. *)
QuietKinds == {"identity", "peer", "path_table", "observation", "route", "message", "operation",
               "reconcile", "reconcile_requests", "standard_changed"}
EventKinds == QuietKinds \cup {"connected", "disconnected", "event_generation", "status"}

AreEvents ==
  /\ IsQueue(events) /\ IsQueue(frames) /\ IsQueue(commands)
  /\ \A i \in DOMAIN events : events[i].is \in EventKinds
  /\ \A i \in DOMAIN frames : frames[i].is \in QuietKinds

NothingIn(s) == \A k \in Kinds : ObservedOn(s.net[k]) = {}
NothingShown == NothingIn(stores)

(* The session is announced by the first event that is in the channel, before
   anything is shown. *)
ConnectsFirst ==
  \A i \in DOMAIN events :
    events[i].is = "connected" => i = 1 /\ main = "draining" /\ NothingShown

(* The event connection is named once, with nothing before it that could be of
   it, and to stores that know of none. *)
NamedOnce ==
  \A i \in DOMAIN events :
    events[i].is = "event_generation" =>
      /\ main = "draining" /\ stores.event = Absent
      /\ \A j \in DOMAIN events : /\ j < i => events[j].is \in {"connected", "status", "path_table"}
                                  /\ j > i => events[j].is # "event_generation"

(* Between two sessions there is nothing to do. *)
NotBegun ==
  /\ main \in {"between", "opening"} => task = Idle /\ commands = <<>>
  /\ main = "opening" => stores.event = Absent /\ NothingShown

OwedIsLoaded == owed = "yes" => stores.loaded

SessionInv == /\ AreStores(stores) /\ Negotiated(stores) /\ AreEvents /\ ConnectsFirst /\ NamedOnce
              /\ NotBegun /\ OwedIsLoaded /\ GapReloadsMessages

(* What an event of the quiet kinds makes of the stores. *)
LEMMA QuietEventsGoOn ==
  ASSUME NEW s, AreStores(s), NEW e, e.is \in QuietKinds
  PROVE  GoesOn(s, ApplyDaemonEvent(s, s.generation, e).stores)
  <1>. DEFINE t == ApplyDaemonEvent(s, s.generation, e).stores
  <1>0. Accepts(s, s.generation)
    BY DEF Accepts
  <1>1. GoesOn(s, s) /\ GoesOn(s, RefreshNetworkState(s)) /\ GoesOn(s, ForgetPagination(s))
    BY ReducersStay, StayingGoesOn
  <1>2. CASE e.is = "identity"
    <2>1. t = [s EXCEPT !.state["identity"] = "ready"]
      BY <1>0, <1>2 DEF ApplyDaemonEvent, Applied
    <2>. QED BY <2>1 DEF GoesOn, Negotiated, AreStores
  <1>3. CASE e.is = "peer"
    <2>1. t = ReducePeer(s, e.device, e.announce)
      BY <1>0, <1>3 DEF ApplyDaemonEvent, Applied
    <2>. QED BY <2>1, MessagesStay, StayingGoesOn
  <1>4. CASE e.is = "path_table"
    <2>1. t = SetSnapshot(s, s.generation, "paths", e.snapshot)
      BY <1>0, <1>4 DEF ApplyDaemonEvent, Applied
    <2>. QED BY <2>1, NetworkGoesOn
  <1>5. CASE e.is = "observation"
    <2>1. t = ApplyObservation(s, e.kind, e.record, e.generation).stores
      BY <1>0, <1>5 DEF ApplyDaemonEvent
    <2>. QED BY <2>1, NetworkGoesOn
  <1>6. CASE e.is = "route"
    <2>1. t \in {s, RefreshNetworkState(s)}
      BY <1>0, <1>6 DEF ApplyDaemonEvent, ApplyRoute, Applied, Rejected
    <2>. QED BY <1>1, <2>1
  <1>7. CASE e.is = "message"
    <2>1. t \in {PushMessage(s, e.message, e.version), [s EXCEPT !.state["messages"] = "degraded"]}
      BY <1>0, <1>7 DEF ApplyDaemonEvent, ApplyMessage, Applied, Rejected
    <2>2. GoesOn(s, PushMessage(s, e.message, e.version))
      BY MessagesStay, StayingGoesOn
    <2>3. GoesOn(s, [s EXCEPT !.state["messages"] = "degraded"])
      BY DEF GoesOn, Negotiated, AreStores
    <2>. QED BY <2>1, <2>2, <2>3
  <1>8. CASE e.is \in {"operation", "reconcile", "reconcile_requests", "standard_changed"}
    <2>1. t \in {s, ForgetPagination(s)}
      BY <1>0, <1>8
      DEF ApplyDaemonEvent, ApplyGap, OfEventConnection, Applied, Rejected
    <2>. QED BY <1>1, <2>1
  <1>. QED BY <1>2, <1>3, <1>4, <1>5, <1>6, <1>7, <1>8 DEF QuietKinds

(* What the other events make of them.  None of them lets go of what was loaded. *)
LEMMA ConnectionEvents ==
  ASSUME NEW s, AreStores(s), NEW e, NEW t, t = ApplyDaemonEvent(s, s.generation, e).stores,
         e.is \in EventKinds \ QuietKinds
  PROVE  /\ AreStores(t) /\ t.generation = s.generation /\ (s.loaded => t.loaded)
         /\ e.is = "connected" => /\ t.event = s.event /\ t.net = s.net
                                  /\ NothingIn(s) => Negotiated(t)
         /\ e.is = "disconnected" => Negotiated(t)
         /\ e.is = "event_generation" => (Negotiated(s) /\ s.event = Absent => Negotiated(t))
         /\ e.is = "status" => t.event = s.event /\ (Negotiated(s) => Negotiated(t))
  <1>0. Accepts(s, s.generation)
    BY DEF Accepts
  <1>. USE DEF AreStores, Negotiated, NothingIn
  <1>1. CASE e.is = "connected"
    <2>1. /\ AreStores(t) /\ t.generation = s.generation /\ t.loaded = s.loaded
          /\ t.event = s.event /\ t.net = s.net
      BY <1>0, <1>1 DEF ApplyDaemonEvent, ApplyConnected, Applied, RefreshNetworkState
    <2>. QED BY <1>1, <2>1
  <1>2. CASE e.is = "disconnected"
    <2>1. /\ AreStores(t) /\ t.generation = s.generation /\ t.loaded = s.loaded
          /\ t.connected = FALSE
      BY <1>0, <1>2 DEF ApplyDaemonEvent, ApplyDisconnected, Applied
    <2>. QED BY <1>2, <2>1
  <1>3. CASE e.is = "event_generation"
    <2>1. /\ AreStores(t) /\ t.generation = s.generation /\ t.loaded = s.loaded
          /\ t.connected = s.connected /\ t.net = s.net /\ t.server = s.server
      BY <1>0, <1>3 DEF ApplyDaemonEvent, ApplyEventGeneration, Applied, Rejected
    <2>. QED BY <1>3, <2>1
  <1>4. CASE e.is = "status"
    <2>1. CASE s.server # Absent /\ s.server # e.generation
      <3>1. t = ClearObserved(s)
        BY <1>0, <1>4, <2>1 DEF ApplyDaemonEvent, ApplyStatus, Rejected
      <3>2. /\ AreStores(t) /\ t.generation = s.generation /\ t.loaded = s.loaded
            /\ t.event = s.event /\ t.connected = s.connected
            /\ \A k \in Kinds \ {"interfaces"} : t.net[k] = Nothing
        BY <3>1 DEF ClearObserved
      <3>3. ObservedOn(Nothing) = {}
        BY DEF ObservedOn, Nothing
      <3>. QED BY <1>4, <3>2, <3>3
    <2>2. CASE ~(s.server # Absent /\ s.server # e.generation)
      <3>1. /\ AreStores(t) /\ t.generation = s.generation /\ t.loaded = s.loaded
            /\ t.event = s.event /\ t.connected = s.connected /\ t.net = s.net
            /\ t.server = e.generation
        BY <1>0, <1>4, <2>2 DEF ApplyDaemonEvent, ApplyStatus, Applied, RefreshNetworkState
      <3>. QED BY <1>4, <2>2, <3>1
    <2>. QED BY <2>1, <2>2
  <1>. QED BY <1>1, <1>2, <1>3, <1>4 DEF EventKinds, QuietKinds

(* Answers are applied by the reducers alone. *)
LEMMA AnswersGoOn ==
  ASSUME SessionInv, Task \/ CallFails
  PROVE  GoesOn(stores, stores') /\ UNCHANGED <<main, events>>
         /\ main \notin {"between", "opening", "draining"}
  <1>0. AreStores(stores) /\ GoesOn(stores, stores)
    BY ReducersStay, StayingGoesOn DEF SessionInv
  <1>1. UNCHANGED <<main, events>> /\ main # "draining"
    BY DEF Task, DropCommand, TakeRefresh, TakeLoad, TakeQuery, TakeSend, TakeChange, TakeJob,
           TakeStart, SendMessage, OutcomeApplied, DraftDiscarded, ChangeAnswered, ApplyAnswer,
           CallFails, Taken
  <1>2. main \notin {"between", "opening"}
    <2>1. SUFFICES ASSUME main \in {"between", "opening"} PROVE FALSE
      OBVIOUS
    <2>2. task = Idle /\ commands = <<>> /\ task.is = "idle"
      BY <2>1 DEF SessionInv, NotBegun, Idle
    <2>. QED
      BY <2>2
      DEF Task, DropCommand, TakeRefresh, TakeLoad, TakeQuery, TakeSend, TakeChange, TakeJob,
          TakeStart, SendMessage, OutcomeApplied, DraftDiscarded, ChangeAnswered, ApplyAnswer,
          CallFails, Taken, Single
  <1>3. CASE DropCommand \/ TakeRefresh \/ TakeQuery \/ TakeSend \/ TakeChange \/ TakeStart
    BY <1>0, <1>1, <1>2, <1>3
    DEF DropCommand, TakeRefresh, TakeQuery, TakeSend, TakeChange, TakeStart
  <1>4. CASE TakeLoad \/ TakeJob \/ SendMessage \/ DraftDiscarded
    <2>1. stores' \in {stores, MarkPeerLoaded(stores, Generation), BeginJob(stores, Generation),
                       SetDraft(stores, Generation, TRUE), SetDraft(stores, Generation, FALSE)}
      BY <1>4 DEF TakeLoad, TakeJob, SendMessage, DraftDiscarded
    <2>. QED BY <1>0, <1>1, <1>2, <2>1, ReducersStay, StayingGoesOn
  <1>5. CASE OutcomeApplied \/ ChangeAnswered
    <2>1. \/ stores' = PushMessage(stores, task.message, 1)
          \/ stores' = ApplyLifecycle(stores, Generation, task.message, task.answer,
                                      task.answer # Gone)
      BY <1>5 DEF OutcomeApplied, ChangeAnswered
    <2>2. Stays(stores, stores')
      BY <1>0, <2>1, MessagesStay
    <2>. QED BY <1>1, <1>2, <2>2, StayingGoesOn
  <1>6. CASE ApplyAnswer
    <2>1. stores' = Result /\ task.is \in Single
      BY <1>6 DEF ApplyAnswer
    <2>2. CASE task.is = "refresh"
      <3>1. stores' = SetSnapshot(stores, Generation, task.command.kind,
                                  [r \in Records |-> task.answer])
        BY <2>1, <2>2 DEF Result
      <3>. QED BY <1>0, <1>1, <1>2, <3>1, NetworkGoesOn
    <2>3. CASE task.is = "start"
      <3>1. stores' = ApplyObservation(stores, "operations", task.record, task.answer).stores
        BY <2>1, <2>3 DEF Result
      <3>. QED BY <1>0, <1>1, <1>2, <3>1, NetworkGoesOn
    <2>4. CASE task.is \in {"standard", "propagation", "conversations", "job"}
      <3>1. \/ stores' = SetStandard(stores, Generation, task.answer)
            \/ stores' = SetPropagation(stores, Generation, "ready")
            \/ stores' = MergeConversations(stores, Generation, TRUE, FALSE)
            \/ stores' = FinishJob(stores, Generation, task.answer, "succeeded")
        BY <2>1, <2>4 DEF Result
      <3>2. Stays(stores, stores')
        BY <1>0, <3>1, ReducersStay
      <3>. QED BY <1>1, <1>2, <3>2, StayingGoesOn
    <2>5. CASE task.is = "query"
      <3>1. stores' = ResolveMessage(stores, Generation, task.message, task.answer)
        BY <2>1, <2>5 DEF Result
      <3>2. Stays(stores, stores')
        BY <1>0, <3>1, MessagesStay
      <3>. QED BY <1>1, <1>2, <3>2, StayingGoesOn
    <2>6. CASE task.is = "page"
      <3>1. stores' = MergePage(IF task.reset THEN ResetPeer(stores, Generation) ELSE stores,
                                Generation, task.answer, FALSE)
        BY <2>1, <2>6 DEF Result
      <3>2. \/ stores' = MergePage(ResetPeer(stores, Generation), Generation, task.answer, FALSE)
            \/ stores' = MergePage(stores, Generation, task.answer, FALSE)
        BY <3>1
      <3>3. Stays(stores, stores')
        BY <1>0, <3>2, ReducersStay, MessagesStay
      <3>. QED BY <1>1, <1>2, <3>3, StayingGoesOn
    <2>. QED BY <2>1, <2>2, <2>3, <2>4, <2>5, <2>6 DEF Single
  <1>7. CASE CallFails
    <2>1. \/ stores' = stores
          \/ stores' = FailStandard(stores, Generation)
          \/ stores' = SetPropagation(stores, Generation, "degraded")
          \/ stores' = FinishJob(stores, Generation, task.answer, "failed")
      BY <1>7 DEF CallFails
    <2>2. Stays(stores, stores')
      BY <1>0, <2>1, ReducersStay
    <2>. QED BY <1>1, <1>2, <2>2, StayingGoesOn
  <1>. QED BY <1>3, <1>4, <1>5, <1>6, <1>7 DEF Task

(* Sending with or without a wait keeps what is in the channel. *)
LEMMA QueueOfMore ==
  ASSUME NEW front, NEW back, IsQueue(front), IsQueue(back)
  PROVE  LET both == front \o back IN
         /\ IsQueue(both) /\ Items(front) \subseteq Items(both)
         /\ Items(both) \subseteq Items(front) \cup Items(back)
  <1>. DEFINE S == Items(front) \cup Items(back)
              both == front \o back
  <1>1. front \in Seq(S) /\ back \in Seq(S)
    BY DEF IsQueue
  <1>. HIDE DEF S
  <1>2. /\ both \in Seq(S) /\ DOMAIN both = 1 .. Len(both) /\ Len(both) \in Nat
        /\ \A i \in DOMAIN front : i \in DOMAIN both /\ both[i] = front[i]
        /\ \A i \in DOMAIN both : \/ i \in DOMAIN front /\ both[i] = front[i]
                                  \/ \E j \in DOMAIN back : both[i] = back[j]
    <2>1. both \in Seq(S) /\ \A i \in DOMAIN both : \/ i \in DOMAIN front /\ both[i] = front[i]
                                                    \/ \E j \in DOMAIN back : both[i] = back[j]
      BY <1>1, QueueOfTwo
    <2>2. Len(both) = Len(front) + Len(back) /\ \A i \in DOMAIN front : both[i] = front[i]
      BY <1>1, ConcatProperties
    <2>. QED BY <1>1, <2>1, <2>2
  <1>. HIDE DEF both
  <1>3. both \in Seq(Items(both))
    <2>1. both = [i \in 1 .. Len(both) |-> both[i]]
      BY <1>2
    <2>. QED BY <1>2, <2>1 DEF Items
  <1>4. Items(front) \subseteq Items(both) /\ Items(both) \subseteq Items(front) \cup Items(back)
    BY <1>2 DEF Items
  <1>. QED BY <1>3, <1>4 DEF IsQueue, both

LEMMA PartOfQueue ==
  ASSUME NEW queue, IsQueue(queue), NEW m \in Nat \ {0}, NEW n \in Int, n <= Len(queue)
  PROVE  IsQueue(SubSeq(queue, m, n)) /\ Items(SubSeq(queue, m, n)) \subseteq Items(queue)
  <1>. DEFINE S == Items(queue)
              part == SubSeq(queue, m, n)
  <1>1. queue \in Seq(S)
    BY DEF IsQueue
  <1>2. \A i \in m .. n : queue[i] \in S
    BY <1>1
  <1>3. part \in Seq(S)
    BY <1>2, SubSeqProperties
  <1>. HIDE DEF part
  <1>4. part = [i \in 1 .. Len(part) |-> part[i]] /\ Len(part) \in Nat
        /\ DOMAIN part = 1 .. Len(part) /\ \A i \in DOMAIN part : part[i] \in S
    BY <1>3
  <1>5. part \in Seq(Items(part)) /\ Items(part) \subseteq S
    BY <1>4 DEF Items
  <1>. QED BY <1>5 DEF part, IsQueue

LEMMA SentCommands ==
  ASSUME SessionAssumption, NEW new, IsQueue(new), IsQueue(commands)
  PROVE  /\ IsQueue(TrySend(commands, new))
         /\ Items(commands) \subseteq Items(TrySend(commands, new))
  <1>. DEFINE n == CommandCapacity - Len(commands)
              some == SubSeq(new, 1, n)
  <1>1. Len(commands) \in Nat /\ Len(new) \in Nat /\ CommandCapacity \in Nat /\ n \in Int
    BY DEF IsQueue, SessionAssumption
  <1>2. CASE Len(commands) + Len(new) <= CommandCapacity
    BY <1>2, QueueOfMore DEF TrySend
  <1>3. CASE ~(Len(commands) + Len(new) <= CommandCapacity)
    <2>1. n <= Len(new)
      BY <1>1, <1>3
    <2>2. IsQueue(some)
      BY <1>1, <2>1, PartOfQueue
    <2>3. TrySend(commands, new) = commands \o some
      BY <1>3 DEF TrySend
    <2>. QED BY <2>2, <2>3, QueueOfMore
  <1>. QED BY <1>2, <1>3

(* One frame more, whatever the connection has no room for. *)
LEMMA EmittedFrame ==
  ASSUME SessionAssumption, NEW new, IsQueue(frames), Emit(<<new>>)
  PROVE  IsQueue(frames') /\ Items(frames') \subseteq Items(frames) \cup {new}
  <1>. DEFINE both == frames \o <<new>>
              n == Len(frames) + 1
  <1>1. IsQueue(<<new>>) /\ Items(<<new>>) = {new} /\ Len(<<new>>) = 1
    BY DEF IsQueue, Items
  <1>2. Len(frames) \in Nat /\ FrameCapacity \in Nat \ {0} /\ Len(both) = n
    BY <1>1, ConcatProperties DEF IsQueue, SessionAssumption
  <1>3. IsQueue(both) /\ Items(both) \subseteq Items(frames) \cup {new}
    BY <1>1, QueueOfMore
  <1>. HIDE DEF both
  <1>4. \/ frames' = both
        \/ n > FrameCapacity /\ frames' = SubSeq(both, n - FrameCapacity + 1, n)
    BY <1>1, <1>2 DEF Emit, both
  <1>5. ASSUME n > FrameCapacity, frames' = SubSeq(both, n - FrameCapacity + 1, n)
        PROVE  IsQueue(frames') /\ Items(frames') \subseteq Items(both)
    <2>1. n - FrameCapacity + 1 \in Nat \ {0} /\ n \in Int /\ n <= Len(both)
      BY <1>2, <1>5
    <2>. QED BY <1>3, <1>5, <2>1, PartOfQueue
  <1>. QED BY <1>3, <1>4, <1>5

(* What the reader, the poller and the daemon add to the channels. *)
LEMMA EventAdded ==
  ASSUME SessionInv, UNCHANGED <<stores, main, commands, task, owed>>,
         NEW e, e.is \in EventKinds \ {"connected", "event_generation"},
         events' \in {events, Append(events, e)},
         IsQueue(frames'), \A i \in DOMAIN frames' : frames'[i].is \in QuietKinds
  PROVE  SessionInv'
  <1>1. CASE events' = events
    BY <1>1 DEF SessionInv, AreEvents, ConnectsFirst, NamedOnce, NotBegun, OwedIsLoaded,
                GapReloadsMessages, NothingShown
  <1>2. CASE events' = Append(events, e)
    <2>1. /\ IsQueue(events') /\ Len(events) \in Nat /\ DOMAIN events = 1 .. Len(events)
          /\ DOMAIN events' = 1 .. Len(events) + 1 /\ events'[Len(events) + 1] = e
          /\ \A i \in DOMAIN events : events'[i] = events[i]
      BY <1>2, AppendedItem DEF SessionInv, AreEvents
    <2>2. \A i \in DOMAIN events' : \/ i \in DOMAIN events /\ events'[i] = events[i]
                                    \/ i = Len(events) + 1 /\ events'[i] = e
      BY <2>1
    <2>3. AreEvents'
      BY <2>1, <2>2 DEF SessionInv, AreEvents
    <2>4. ConnectsFirst'
      BY <2>2 DEF SessionInv, ConnectsFirst, NothingShown
    <2>5. NamedOnce'
      <3>1. SUFFICES ASSUME NEW i \in DOMAIN events', events'[i].is = "event_generation",
                            NEW j \in DOMAIN events'
                     PROVE  /\ main = "draining" /\ stores.event = Absent
                            /\ j < i => events'[j].is \in {"connected", "status", "path_table"}
                            /\ j > i => events'[j].is # "event_generation"
        BY DEF NamedOnce
      <3>2. i \in DOMAIN events /\ events[i].is = "event_generation"
        BY <2>2, <3>1
      <3>3. /\ main = "draining" /\ stores.event = Absent
            /\ \A l \in DOMAIN events :
                 /\ l < i => events[l].is \in {"connected", "status", "path_table"}
                 /\ l > i => events[l].is # "event_generation"
        BY <3>2 DEF SessionInv, NamedOnce
      <3>4. CASE j \in DOMAIN events
        BY <2>1, <3>3, <3>4
      <3>5. CASE j \notin DOMAIN events
        BY <2>1, <2>2, <3>2, <3>3, <3>5
      <3>. QED BY <3>4, <3>5
    <2>. QED BY <2>3, <2>4, <2>5
         DEF SessionInv, NotBegun, OwedIsLoaded, GapReloadsMessages, NothingShown
  <1>. QED BY <1>1, <1>2

(* What the operator and the task do to the channel of commands. *)
LEMMA CommandsChange ==
  ASSUME SessionInv, UNCHANGED events, GoesOn(stores, stores'),
         main \notin {"between", "opening"}, main' \notin {"between", "opening"},
         UNCHANGED <<main, stores>> \/ main # "draining",
         IsQueue(commands'), IsQueue(frames'), \A i \in DOMAIN frames' : frames'[i].is \in QuietKinds,
         owed' = "yes" => owed = "yes", GapReloadsMessages'
  PROVE  SessionInv'
  <1>1. AreStores(stores') /\ Negotiated(stores') /\ OwedIsLoaded' /\ NotBegun'
    BY DEF SessionInv, GoesOn, OwedIsLoaded, NotBegun
  <1>2. AreEvents'
    BY DEF SessionInv, AreEvents
  <1>3. ConnectsFirst' /\ NamedOnce'
    BY DEF SessionInv, ConnectsFirst, NamedOnce, NothingShown
  <1>. QED BY <1>1, <1>2, <1>3 DEF SessionInv

LEMMA TaskKeeps ==
  ASSUME SessionAssumption, SessionInv, Task \/ CallFails
  PROVE  SessionInv'
  <1>1. /\ GoesOn(stores, stores') /\ UNCHANGED <<main, events>>
        /\ main \notin {"between", "opening", "draining"}
    BY AnswersGoOn
  <1>2. IsQueue(frames') /\ \A i \in DOMAIN frames' : frames'[i].is \in QuietKinds
    <2>1. UNCHANGED frames \/ Emit(<<OperationFrame>>)
      BY DEF Task, DropCommand, TakeRefresh, TakeLoad, TakeQuery, TakeSend, TakeChange, TakeJob,
             TakeStart, SendMessage, OutcomeApplied, DraftDiscarded, ChangeAnswered, ApplyAnswer,
             CallFails, wire
    <2>2. CASE UNCHANGED frames
      BY <2>2 DEF SessionInv, AreEvents
    <2>3. CASE Emit(<<OperationFrame>>)
      <3>1. IsQueue(frames') /\ Items(frames') \subseteq Items(frames) \cup {OperationFrame}
        BY <2>3, EmittedFrame DEF SessionInv, AreEvents
      <3>2. OperationFrame.is \in QuietKinds
        BY DEF OperationFrame, QuietKinds
      <3>. QED BY <3>1, <3>2 DEF SessionInv, AreEvents, Items
    <2>. QED BY <2>1, <2>2, <2>3
  <1>3. \/ commands' = commands /\ owed' = owed
        \/ /\ commands # <<>> /\ commands' = Tail(commands)
           /\ \/ owed' # "yes"
              \/ owed' = owed /\ Head(commands) # Load
    <2>1. CASE DropCommand
      BY <2>1 DEF DropCommand
    <2>2. CASE TakeLoad
      BY <2>2 DEF TakeLoad, Taken
    <2>3. CASE TakeRefresh \/ TakeQuery \/ TakeSend \/ TakeChange \/ TakeJob \/ TakeStart
      <3>1. \E c : Taken(c) /\ c.is # "load" /\ owed' = owed
        <4>1. /\ \A k : Refresh(k).is = "refresh" /\ Query(k).is = "query"
              /\ \A k : Change(k).is = "change" /\ Start(k).is = "start"
              /\ Standard.is = "standard" /\ Propagation.is = "propagation"
              /\ Conversations.is = "conversations" /\ Send.is = "send" /\ Job.is = "job"
          BY DEF Refresh, Standard, Propagation, Conversations, Query, Send, Change, Job, Start
        <4>2. \E c : Taken(c) /\ owed' = owed
                     /\ \/ c \in {Standard, Propagation, Conversations, Send, Job}
                        \/ \E k : c \in {Refresh(k), Query(k), Change(k), Start(k)}
          BY <2>3 DEF TakeRefresh, TakeQuery, TakeSend, TakeChange, TakeJob, TakeStart
        <4>. QED BY <4>1, <4>2
      <3>2. Load.is = "load"
        BY DEF Load
      <3>. QED BY <3>1, <3>2 DEF Taken
    <2>4. CASE SendMessage \/ OutcomeApplied \/ DraftDiscarded \/ ChangeAnswered \/ ApplyAnswer
               \/ CallFails
      BY <2>4 DEF SendMessage, OutcomeApplied, DraftDiscarded, ChangeAnswered, ApplyAnswer, CallFails
    <2>. QED BY <2>1, <2>2, <2>3, <2>4 DEF Task
  <1>4. IsQueue(commands') /\ (owed' = "yes" => owed = "yes") /\ GapReloadsMessages'
    <2>1. CASE commands' = commands /\ owed' = owed
      BY <1>1, <2>1 DEF SessionInv, AreEvents, GapReloadsMessages
    <2>2. CASE commands # <<>> /\ commands' = Tail(commands) /\ owed' # "yes"
      BY <2>2, ShortenedQueue DEF SessionInv, AreEvents, GapReloadsMessages
    <2>3. CASE commands # <<>> /\ commands' = Tail(commands) /\ owed' = owed /\ Head(commands) # Load
      <3>1. /\ IsQueue(commands') /\ Len(commands) \in Nat \ {0} /\ DOMAIN commands = 1 .. Len(commands)
            /\ DOMAIN commands' = 1 .. Len(commands) - 1 /\ Head(commands) = commands[1]
            /\ \A i \in DOMAIN commands' : commands'[i] = commands[i + 1]
        BY <2>3, ShortenedQueue DEF SessionInv, AreEvents
      <3>2. ASSUME NEW i \in DOMAIN commands, commands[i] = Load
            PROVE  \E j \in DOMAIN commands' : commands'[j] = Load
        <4>1. DOMAIN commands = 1 .. Len(commands)
          BY <3>1
        <4>2. i # 1
          BY <2>3, <3>1, <3>2
        <4>3. i - 1 \in DOMAIN commands' /\ commands'[i - 1] = Load
          BY <3>1, <3>2, <4>1, <4>2
        <4>. QED BY <4>3
      <3>3. GapReloadsMessages'
        BY <1>1, <2>3, <3>2 DEF SessionInv, GapReloadsMessages, ToSet
      <3>. QED BY <2>3, <3>1, <3>3
    <2>. QED BY <1>3, <2>1, <2>2, <2>3
  <1>. QED BY <1>1, <1>2, <1>4, CommandsChange

LEMMA RefreshesAreQueue ==
  ASSUME SessionAssumption PROVE IsQueue(RefreshFollowed)
  <1>1. /\ RefreshFollowed = [i \in 1 .. Len(Followed) |-> RefreshFollowed[i]]
        /\ DOMAIN RefreshFollowed = 1 .. Len(Followed) /\ Len(Followed) \in Nat
    BY DEF SessionAssumption, RefreshFollowed
  <1>2. \A i \in 1 .. Len(Followed) : RefreshFollowed[i] \in Items(RefreshFollowed)
    BY <1>1 DEF Items
  <1>. QED BY <1>1, <1>2 DEF IsQueue

(* What the coroutine makes of the first event in the channel. *)
LEMMA EventHandled ==
  ASSUME SessionAssumption, SessionInv, HandleEvent
  PROVE  SessionInv'
  <1>. DEFINE e == events[1]
  <1>1. /\ main \in {"draining", "waiting"} /\ events # <<>> /\ events' = Tail(events)
        /\ UNCHANGED frames
    BY DEF HandleEvent, wire
  <1>2. /\ IsQueue(events') /\ Len(events) \in Nat \ {0} /\ DOMAIN events = 1 .. Len(events)
        /\ DOMAIN events' = 1 .. Len(events) - 1 /\ Head(events) = e
        /\ \A i \in DOMAIN events' : i + 1 \in DOMAIN events /\ events'[i] = events[i + 1]
    BY <1>1, ShortenedQueue DEF SessionInv, AreEvents
  <1>3. e.is \in EventKinds /\ 1 \in DOMAIN events /\ AreStores(stores) /\ Negotiated(stores)
    BY <1>2 DEF SessionInv, AreEvents
  <1>. DEFINE r == ApplyDaemonEvent(stores, Generation, Head(events))
              gap == r.applied /\ Head(events).is = "reconcile"
              new == QueriesOf(Head(events)) \o (IF r.applied THEN Asks(Head(events)) ELSE <<>>)
  <1>4. /\ stores' = r.stores /\ commands' = TrySend(commands, new)
        /\ main' = IF gap THEN "reloading" ELSE Drain(Tail(events))
        /\ owed' = IF gap /\ stores.loaded THEN "yes" ELSE owed
    BY DEF HandleEvent
  <1>5. /\ r = ApplyDaemonEvent(stores, stores.generation, e) /\ (gap => e.is = "reconcile")
        /\ new = QueriesOf(e) \o (IF r.applied THEN Asks(e) ELSE <<>>)
    BY <1>2 DEF Generation
  <1>. HIDE DEF e, r, gap, new
  <1>6. stores' = ApplyDaemonEvent(stores, stores.generation, e).stores
    BY <1>4, <1>5
  <1>7. IsQueue(commands') /\ Items(commands) \subseteq Items(commands')
    <2>1. IsQueue(QueriesOf(e)) /\ IsQueue(Asks(e)) /\ IsQueue(<<>>)
      <3>1. IsQueue(<<>>) /\ \A c : IsQueue(<<c>>)
        BY DEF IsQueue, Items
      <3>2. IsQueue(RefreshFollowed)
        BY RefreshesAreQueue
      <3>3. IsQueue(Append(RefreshFollowed, Standard))
        BY <3>2, AppendedItem
      <3>4. Asks(e) \in {<<>>, <<Refresh("paths")>>, <<Standard>>, <<Refresh("requests")>>,
                         Append(RefreshFollowed, Standard)}
        BY DEF Asks
      <3>. QED BY <3>1, <3>3, <3>4 DEF QueriesOf
    <2>2. IsQueue(new)
      BY <1>5, <2>1, QueueOfMore
    <2>. QED BY <1>4, <2>2, SentCommands DEF SessionInv, AreEvents
  <1>8. /\ main' \in {"reloading", "draining", "waiting"}
        /\ (events' # <<>> /\ e.is # "reconcile" => main' = "draining")
    BY <1>1, <1>4, <1>5 DEF Drain
  <1>9. e.is \in QuietKinds => GoesOn(stores, stores')
    BY <1>3, <1>6, QuietEventsGoOn
  <1>10. AreStores(stores') /\ (stores.loaded => stores'.loaded)
    BY <1>3, <1>6, <1>9, ConnectionEvents DEF GoesOn, EventKinds
  <1>11. Negotiated(stores')
    <2>1. CASE e.is \in QuietKinds
      BY <1>3, <1>9, <2>1 DEF GoesOn
    <2>2. CASE e.is \notin QuietKinds
      <3>1. e.is = "connected" => NothingShown
        BY <1>3 DEF SessionInv, ConnectsFirst, e
      <3>2. e.is = "event_generation" => stores.event = Absent
        BY <1>3 DEF SessionInv, NamedOnce, e
      <3>3. e.is \in {"connected", "disconnected", "event_generation", "status"}
        BY <1>3, <2>2 DEF EventKinds
      <3>. DEFINE t == stores'
      <3>0. t = ApplyDaemonEvent(stores, stores.generation, e).stores
            /\ e.is \in EventKinds \ QuietKinds /\ AreStores(stores)
        BY <1>3, <1>6, <2>2
      <3>. HIDE DEF t
      <3>4. /\ e.is = "connected" => (NothingShown => Negotiated(t))
            /\ e.is = "disconnected" => Negotiated(t)
            /\ e.is = "event_generation" =>
                 (Negotiated(stores) /\ stores.event = Absent => Negotiated(t))
            /\ e.is = "status" => (Negotiated(stores) => Negotiated(t))
        BY <3>0, ConnectionEvents DEF NothingShown
      <3>. QED BY <1>3, <3>1, <3>2, <3>3, <3>4 DEF t
    <2>. QED BY <2>1, <2>2
  <1>12. AreEvents'
    BY <1>1, <1>2, <1>7 DEF SessionInv, AreEvents
  <1>13. ConnectsFirst'
    BY <1>2 DEF SessionInv, ConnectsFirst
  <1>14. NamedOnce'
    <2>1. SUFFICES ASSUME NEW i \in DOMAIN events', events'[i].is = "event_generation"
                   PROVE  /\ main' = "draining" /\ stores'.event = Absent
                          /\ \A j \in DOMAIN events' :
                               /\ j < i => events'[j].is \in {"connected", "status", "path_table"}
                               /\ j > i => events'[j].is # "event_generation"
      BY DEF NamedOnce
    <2>2. /\ i + 1 \in DOMAIN events /\ events[i + 1].is = "event_generation" /\ i \in Nat /\ 1 < i + 1
      BY <1>2, <2>1
    <2>3. /\ stores.event = Absent
          /\ \A j \in DOMAIN events :
               /\ j < i + 1 => events[j].is \in {"connected", "status", "path_table"}
               /\ j > i + 1 => events[j].is # "event_generation"
      BY <2>2 DEF SessionInv, NamedOnce
    <2>4. e.is \in {"connected", "status", "path_table"}
      BY <1>3, <2>2, <2>3 DEF e
    <2>5. main' = "draining"
      BY <1>2, <1>8, <2>1, <2>4
    <2>6. stores'.event = Absent
      BY <1>3, <1>6, <1>9, <2>3, <2>4, ConnectionEvents DEF GoesOn, EventKinds, QuietKinds
    <2>7. \A j \in DOMAIN events' :
            /\ j < i => events'[j].is \in {"connected", "status", "path_table"}
            /\ j > i => events'[j].is # "event_generation"
      BY <1>2, <2>2, <2>3
    <2>. QED BY <2>5, <2>6, <2>7
  <1>15. NotBegun'
    BY <1>8 DEF NotBegun
  <1>16. OwedIsLoaded'
    BY <1>4, <1>10 DEF SessionInv, OwedIsLoaded
  <1>17. GapReloadsMessages'
    <2>1. Load \in ToSet(commands) => Load \in ToSet(commands')
      BY <1>7 DEF ToSet, Items
    <2>2. owed' = "yes" => main' = "reloading" \/ owed = "yes"
      BY <1>4
    <2>3. owed = "yes" => Load \in ToSet(commands)
      BY <1>1 DEF SessionInv, GapReloadsMessages
    <2>. QED BY <2>1, <2>2, <2>3 DEF GapReloadsMessages
  <1>. QED BY <1>10, <1>11, <1>12, <1>13, <1>14, <1>15, <1>16, <1>17 DEF SessionInv

(* A frame that is read is one event more. *)
LEMMA ReaderKeeps ==
  ASSUME SessionInv, Reader
  PROVE  SessionInv'
  <1>0. UNCHANGED <<stores, main, commands, task, owed>>
    BY DEF Reader, ReadFrame, ReadLag, ReportGap, ReadClosed, ReportClosed, FeederLeaves
  <1>1. IsQueue(frames) /\ \A i \in DOMAIN frames : frames[i].is \in QuietKinds
    BY DEF SessionInv, AreEvents
  <1>2. CASE ReadFrame
    <2>1. /\ events' \in {events, Append(events, Head(frames))}
          /\ frames # <<>> /\ frames' = Tail(frames)
      BY <1>2 DEF ReadFrame, Deliver
    <2>2. /\ IsQueue(frames') /\ Head(frames) = frames[1] /\ 1 \in DOMAIN frames
          /\ \A i \in DOMAIN frames' : i + 1 \in DOMAIN frames /\ frames'[i] = frames[i + 1]
      BY <1>1, <2>1, ShortenedQueue
    <2>3. Head(frames).is \in EventKinds \ {"connected", "event_generation"}
      BY <1>1, <2>2 DEF EventKinds, QuietKinds
    <2>. QED BY <1>0, <1>1, <2>1, <2>2, <2>3, EventAdded
  <1>3. ASSUME NEW e, e.is \in {"reconcile", "disconnected"}, events' \in {events, Append(events, e)},
               UNCHANGED frames
        PROVE  SessionInv'
    <2>1. e.is \in EventKinds \ {"connected", "event_generation"}
      BY <1>3 DEF EventKinds, QuietKinds
    <2>. QED BY <1>0, <1>1, <1>3, <2>1, EventAdded
  <1>4. CASE ReadLag \/ ReadClosed \/ ReportClosed
    <2>1. events' \in {events, Append(events, [is |-> "disconnected"])} /\ UNCHANGED frames
      BY <1>4 DEF ReadLag, ReadClosed, ReportClosed, Deliver, wire
    <2>. QED BY <1>3, <2>1
  <1>5. CASE ReportGap
    <2>. DEFINE e == [is |-> "reconcile", generation |-> daemon.eventGeneration]
    <2>1. events' = Append(events, e) /\ UNCHANGED frames /\ e.is = "reconcile"
      BY <1>5 DEF ReportGap, Deliver, wire
    <2>. HIDE DEF e
    <2>. QED BY <1>3, <2>1
  <1>. QED BY <1>2, <1>4, <1>5 DEF Reader

LEMMA PollerKeeps ==
  ASSUME SessionInv, Poller \/ PollRound \/ PollFails
  PROVE  SessionInv'
  <1>0. UNCHANGED <<stores, main, commands, task, owed, frames>>
    BY DEF Poller, Poll, PollEnds, PollRound, PollFails, FeederLeaves, wire
  <1>1. IsQueue(frames) /\ \A i \in DOMAIN frames : frames[i].is \in QuietKinds
    BY DEF SessionInv, AreEvents
  <1>2. \E e : /\ e.is \in {"status", "peer", "path_table", "observation", "disconnected"}
               /\ events' \in {events, Append(events, e)}
    <2>1. CASE Poll
      <3>1. CASE UNCHANGED events
        <4>. DEFINE any == [is |-> "status"]
        <4>1. any.is = "status" /\ events' = events
          BY <3>1
        <4>. HIDE DEF any
        <4>. QED BY <4>1
      <3>2. CASE ~UNCHANGED events
        <4>1. PICK e \in Polled(Head(poller)) : events' \in {events, Append(events, e)}
          BY <2>1, <3>2 DEF Poll, TryDeliver
        <4>2. Head(poller) \in {"status", "peers", "paths", "observations"}
          BY <2>1 DEF Poll, ToSet, Round
        <4>3. e.is \in {"status", "peer", "path_table", "observation"}
          BY <4>1, <4>2 DEF Polled, StatusOf, PathsOf, Observation
        <4>. QED BY <4>1, <4>3
      <3>. QED BY <3>1, <3>2
    <2>2. CASE PollEnds
      <3>. DEFINE last == [is |-> "disconnected"]
      <3>1. last.is = "disconnected" /\ events' = Append(events, last)
        BY <2>2 DEF PollEnds, Deliver
      <3>. HIDE DEF last
      <3>. QED BY <3>1
    <2>3. CASE PollRound \/ PollFails
      <3>. DEFINE any == [is |-> "status"]
      <3>1. any.is = "status" /\ events' = events
        BY <2>3 DEF PollRound, PollFails
      <3>. HIDE DEF any
      <3>. QED BY <3>1
    <2>. QED BY <2>1, <2>2, <2>3 DEF Poller
  <1>3. PICK e : /\ e.is \in {"status", "peer", "path_table", "observation", "disconnected"}
                 /\ events' \in {events, Append(events, e)}
    BY <1>2
  <1>4. e.is \in EventKinds \ {"connected", "event_generation"}
    BY <1>3 DEF EventKinds, QuietKinds
  <1>. QED BY <1>0, <1>1, <1>3, <1>4, EventAdded

(* What the daemon does of its own is one frame more, or none. *)
LEMMA DaemonKeeps ==
  ASSUME SessionAssumption, SessionInv,
         \/ MessageChanges \/ OtherClient \/ PeerAnnounces \/ NetworkChanges
         \/ DaemonMoves \/ EventConnectionCloses \/ AskForProfile
  PROVE  SessionInv'
  <1>0. UNCHANGED <<stores, main, commands, task, owed, events>>
    BY DEF MessageChanges, OtherClient, PeerAnnounces, NetworkChanges, DaemonMoves,
           EventConnectionCloses, AskForProfile, Push
  <1>1. IsQueue(frames) /\ \A i \in DOMAIN frames : frames[i].is \in QuietKinds
    BY DEF SessionInv, AreEvents
  <1>2. UNCHANGED frames \/ \E new : new.is \in QuietKinds /\ Emit(<<new>>)
    <2>1. CASE MessageChanges
      <3>1. \E m, v, complete : Emit(<<MessageFrame(m, v, complete)>>)
        BY <2>1 DEF MessageChanges, Push
      <3>2. \A m, v, complete : MessageFrame(m, v, complete).is \in QuietKinds
        BY DEF MessageFrame, QuietKinds
      <3>. QED BY <3>1, <3>2
    <2>2. CASE OtherClient
      BY <2>2 DEF OtherClient, Push, OperationFrame, QuietKinds
    <2>3. CASE PeerAnnounces
      <3>1. \E d, n : Emit(<<[is |-> "peer", device |-> d, announce |-> n]>>)
        BY <2>3 DEF PeerAnnounces, Push
      <3>2. \A d, n : [is |-> "peer", device |-> d, announce |-> n].is \in QuietKinds
        BY DEF QuietKinds
      <3>. QED BY <3>1, <3>2
    <2>4. CASE NetworkChanges
      <3>1. \/ \E k, r, g : Emit(<<Observation(k, r, g)>>)
            \/ \E is \in {"route", "standard_changed", "reconcile_requests", "reconcile"} :
                 \E g : Emit(<<[is |-> is, generation |-> g]>>)
        BY <2>4 DEF NetworkChanges, Push
      <3>2. /\ \A k, r, g : Observation(k, r, g).is \in QuietKinds
            /\ \A is \in {"route", "standard_changed", "reconcile_requests", "reconcile"} :
                 \A g : [is |-> is, generation |-> g].is \in QuietKinds
        BY DEF Observation, QuietKinds
      <3>. QED BY <3>1, <3>2
    <2>5. CASE DaemonMoves \/ EventConnectionCloses \/ AskForProfile
      BY <2>5 DEF DaemonMoves, EventConnectionCloses, AskForProfile, wire
    <2>. QED BY <2>1, <2>2, <2>3, <2>4, <2>5
  <1>3. IsQueue(frames') /\ \A i \in DOMAIN frames' : frames'[i].is \in QuietKinds
    <2>1. ASSUME NEW new, new.is \in QuietKinds, Emit(<<new>>)
          PROVE  IsQueue(frames') /\ \A i \in DOMAIN frames' : frames'[i].is \in QuietKinds
      <3>1. IsQueue(frames') /\ Items(frames') \subseteq Items(frames) \cup {new}
        BY <1>1, <2>1, EmittedFrame
      <3>. QED BY <1>1, <2>1, <3>1 DEF Items
    <2>. QED BY <1>1, <1>2, <2>1
  <1>. DEFINE e == [is |-> "status"]
  <1>4. e.is \in EventKinds \ {"connected", "event_generation"} /\ events' \in {events, Append(events, e)}
    BY <1>0 DEF EventKinds, QuietKinds
  <1>. HIDE DEF e
  <1>. QED BY <1>0, <1>3, <1>4, EventAdded

(* The session opens with its first events, and with nothing shown. *)
LEMMA OpensKeeps ==
  ASSUME SessionAssumption, SessionInv, Opens
  PROVE  SessionInv'
  <1>1. /\ main = "opening" /\ main' = "draining" /\ UNCHANGED <<stores, task, owed>>
        /\ frames' = <<>> /\ commands' = RefreshFollowed \o <<Propagation, Conversations>>
    BY DEF Opens
  <1>. DEFINE one   == [is |-> "connected"]
              two   == StatusOf(daemon.given + 1)
              three == PathsOf(daemon.given + 1)
              four  == [is |-> "event_generation", generation |-> daemon.given + 2]
  <1>2. /\ events' = <<one, two, three, four>> /\ one.is = "connected" /\ two.is = "status"
        /\ three.is = "path_table" /\ four.is = "event_generation"
    BY DEF Opens, StatusOf, PathsOf
  <1>. HIDE DEF one, two, three, four
  <1>3. /\ IsQueue(events') /\ DOMAIN events' = 1 .. 4
        /\ events'[1] = one /\ events'[2] = two /\ events'[3] = three /\ events'[4] = four
    BY <1>2 DEF IsQueue, Items
  <1>9. /\ \A i \in DOMAIN events' : i = 1 \/ i = 2 \/ i = 3 \/ i = 4
        /\ events'[1].is = "connected" /\ events'[2].is = "status"
        /\ events'[3].is = "path_table" /\ events'[4].is = "event_generation"
    BY <1>2, <1>3
  <1>4. IsQueue(commands')
    <2>1. IsQueue(<<Propagation, Conversations>>)
      BY DEF IsQueue, Items
    <2>. QED BY <1>1, <2>1, QueueOfMore, RefreshesAreQueue
  <1>5. AreEvents'
    <2>1. \A i \in DOMAIN events' : events'[i].is \in EventKinds
      <3>1. \A i \in DOMAIN events' :
              events'[i].is \in {"connected", "status", "path_table", "event_generation"}
        BY <1>9
      <3>. QED BY <3>1 DEF EventKinds, QuietKinds
    <2>2. IsQueue(frames') /\ DOMAIN frames' = {}
      BY <1>1 DEF IsQueue, Items
    <2>. QED BY <1>3, <1>4, <2>1, <2>2 DEF AreEvents
  <1>6. stores.event = Absent /\ NothingShown /\ owed # "yes"
    BY <1>1, EmptyQueue DEF SessionInv, NotBegun, GapReloadsMessages, ToSet
  <1>7. ConnectsFirst'
    BY <1>1, <1>6, <1>9 DEF ConnectsFirst, NothingShown, NothingIn
  <1>8. NamedOnce'
    <2>1. SUFFICES ASSUME NEW i \in DOMAIN events', events'[i].is = "event_generation",
                          NEW j \in DOMAIN events'
                   PROVE  /\ j < i => events'[j].is \in {"connected", "status", "path_table"}
                          /\ j > i => events'[j].is # "event_generation"
      BY <1>1, <1>6 DEF NamedOnce
    <2>2. i = 4 /\ j \in 1 .. 4
      BY <1>3, <1>9, <2>1
    <2>. QED BY <1>9, <2>1, <2>2
  <1>. QED BY <1>1, <1>5, <1>6, <1>7, <1>8
       DEF SessionInv, NotBegun, OwedIsLoaded, GapReloadsMessages

LEMMA CoroutineKeeps ==
  ASSUME SessionAssumption, SessionInv,
         Begin \/ OpenFails \/ SendReload \/ EventsEnd \/ Replace \/ Command
  PROVE  SessionInv'
  <1>0. AreStores(stores) /\ GoesOn(stores, stores) /\ IsQueue(frames) /\ IsQueue(commands)
        /\ \A i \in DOMAIN frames : frames[i].is \in QuietKinds
    BY ReducersStay, StayingGoesOn DEF SessionInv, AreEvents
  <1>1. CASE Begin
    <2>1. /\ main = "between" /\ main' = "opening" /\ stores' = BeginSession(Generation + 1)
          /\ UNCHANGED <<events, commands, task, frames, owed>>
      BY <1>1 DEF Begin, wire
    <2>2. /\ AreStores(stores') /\ stores'.connected = FALSE /\ stores'.event = Absent
          /\ \A k \in Kinds : stores'.net[k] = Nothing
      BY <2>1 DEF BeginSession, Default, AreStores
    <2>3. NothingShown'
      BY <2>2 DEF NothingShown, NothingIn, ObservedOn, Nothing
    <2>4. Negotiated(stores')
      BY <2>2 DEF Negotiated
    <2>5. owed # "yes"
      BY <2>1, EmptyQueue DEF SessionInv, NotBegun, GapReloadsMessages, ToSet
    <2>6. AreEvents' /\ ConnectsFirst' /\ NamedOnce'
      BY <2>1 DEF SessionInv, AreEvents, ConnectsFirst, NamedOnce
    <2>. QED BY <2>1, <2>2, <2>3, <2>4, <2>5, <2>6
         DEF SessionInv, NotBegun, OwedIsLoaded, GapReloadsMessages
  <1>2. CASE OpenFails
    <2>1. /\ main = "opening" /\ main' = "failed" /\ stores' = FailSession(stores, Generation)
          /\ UNCHANGED <<events, commands, task, frames, owed>>
      BY <1>2 DEF OpenFails, wire
    <2>2. AreStores(stores') /\ stores'.connected = FALSE
      BY <1>0, <2>1 DEF FailSession, Accepts, AreStores, Generation
    <2>3. owed # "yes"
      BY <2>1, EmptyQueue DEF SessionInv, NotBegun, GapReloadsMessages, ToSet
    <2>4. AreEvents' /\ ConnectsFirst' /\ NamedOnce'
      BY <2>1 DEF SessionInv, AreEvents, ConnectsFirst, NamedOnce
    <2>. QED BY <2>1, <2>2, <2>3, <2>4
         DEF SessionInv, NotBegun, OwedIsLoaded, GapReloadsMessages, Negotiated
  <1>3. CASE Replace
    <2>1. /\ main' = "between" /\ events' = <<>> /\ commands' = <<>> /\ task' = Idle /\ frames' = <<>>
          /\ owed' = "no" /\ stores' = stores
      BY <1>3 DEF Replace
    <2>2. IsQueue(<<>>) /\ DOMAIN <<>> = {}
      BY EmptyQueue DEF IsQueue, Items
    <2>. QED BY <2>1, <2>2
         DEF SessionInv, AreEvents, ConnectsFirst, NamedOnce, NotBegun, OwedIsLoaded,
             GapReloadsMessages
  <1>4. CASE EventsEnd
    <2>1. /\ main = "waiting" /\ main' = "starved" /\ events = <<>>
          /\ UNCHANGED <<stores, events, commands, task, frames, owed>>
      BY <1>4 DEF EventsEnd, wire
    <2>. QED BY <2>1
         DEF SessionInv, AreEvents, ConnectsFirst, NamedOnce, NotBegun, OwedIsLoaded,
             GapReloadsMessages
  <1>5. CASE SendReload
    <2>. DEFINE c == IF main = "reloading" THEN Conversations ELSE Load
    <2>1. /\ main \in {"reloading", "reloading_messages"} /\ commands' = Append(commands, c)
          /\ main' = IF main = "reloading" /\ stores.loaded THEN "reloading_messages"
                     ELSE Drain(events)
          /\ UNCHANGED <<stores, events, task, frames, owed>>
      BY <1>5 DEF SendReload, wire
    <2>2. main' \notin {"between", "opening"} /\ main # "draining" /\ main \notin {"between", "opening"}
      BY <2>1 DEF Drain
    <2>. HIDE DEF c
    <2>3. /\ IsQueue(commands') /\ Len(commands) + 1 \in DOMAIN commands'
          /\ commands'[Len(commands) + 1] = c
          /\ \A i \in DOMAIN commands : i \in DOMAIN commands' /\ commands'[i] = commands[i]
      BY <1>0, <2>1, AppendedItem
    <2>4. GapReloadsMessages'
      <3>1. CASE main = "reloading" /\ owed = "yes"
        BY <2>1, <3>1 DEF SessionInv, OwedIsLoaded, GapReloadsMessages
      <3>2. CASE main # "reloading"
        BY <2>1, <2>3, <3>2 DEF GapReloadsMessages, ToSet, c
      <3>3. CASE owed # "yes"
        BY <2>1, <3>3 DEF GapReloadsMessages
      <3>. QED BY <3>1, <3>2, <3>3
    <2>. QED BY <1>0, <2>1, <2>2, <2>3, <2>4, CommandsChange
  <1>6. CASE Command
    <2>1. /\ Open /\ UNCHANGED <<stores, main, events, task, frames, owed>>
          /\ \E c : commands' = TrySend(commands, <<c>>)
      BY <1>6 DEF Command, wire
    <2>2. main \notin {"between", "opening"}
      BY <2>1 DEF Open
    <2>3. \A c : IsQueue(<<c>>)
      BY DEF IsQueue, Items
    <2>4. IsQueue(commands') /\ Items(commands) \subseteq Items(commands')
      BY <1>0, <2>1, <2>3, SentCommands
    <2>5. GapReloadsMessages'
      BY <2>1, <2>4 DEF SessionInv, GapReloadsMessages, ToSet, Items
    <2>. QED BY <1>0, <2>1, <2>2, <2>4, <2>5, CommandsChange
  <1>. QED BY <1>1, <1>2, <1>3, <1>4, <1>5, <1>6

LEMMA SessionInvHolds == Init => SessionInv
  <1>. SUFFICES ASSUME Init PROVE SessionInv
    OBVIOUS
  <1>1. /\ main = "between" /\ events = <<>> /\ commands = <<>> /\ task = Idle /\ frames = <<>>
        /\ owed = "no" /\ stores = Default
    BY DEF Init
  <1>2. IsQueue(<<>>) /\ DOMAIN <<>> = {}
    BY EmptyQueue DEF IsQueue, Items
  <1>3. AreStores(stores) /\ stores.connected = FALSE
    BY <1>1 DEF Default, AreStores
  <1>. QED BY <1>1, <1>2, <1>3
       DEF SessionInv, AreEvents, ConnectsFirst, NamedOnce, NotBegun, OwedIsLoaded,
           GapReloadsMessages, Negotiated

LEMMA SessionInvIsKept == SessionInv /\ [Next]_vars => SessionInv'
  <1>. SUFFICES ASSUME SessionInv, [Next]_vars PROVE SessionInv'
    OBVIOUS
  <1>. USE SessionAssumption
  <1>1. CASE UNCHANGED vars
    BY <1>1
    DEF vars, wire, SessionInv, AreEvents, ConnectsFirst, NamedOnce, NotBegun, OwedIsLoaded,
        GapReloadsMessages, NothingShown
  <1>2. CASE Coroutine \/ Replace \/ OpenFails \/ Command
    BY <1>2, EventHandled, OpensKeeps, CoroutineKeeps DEF Coroutine
  <1>3. CASE Task \/ CallFails
    BY <1>3, TaskKeeps
  <1>4. CASE Reader \/ Poller \/ PollFails \/ PollRound
    BY <1>4, ReaderKeeps, PollerKeeps
  <1>5. CASE AskForProfile \/ MessageChanges \/ OtherClient \/ PeerAnnounces \/ NetworkChanges
             \/ DaemonMoves \/ EventConnectionCloses
    BY <1>5, DaemonKeeps
  <1>. QED BY <1>1, <1>2, <1>3, <1>4, <1>5 DEF Next

(* What the desktop shows was observed on a connection it knows, and a gap in
   the events is not forgotten: ShownIsNegotiated and GapReloadsMessages of the
   run Screens. *)
THEOREM ShownIsOfConnections ==
  Spec => []ShownIsNegotiated
  <1>1. SessionInv => ShownIsNegotiated
    BY DEF SessionInv, Negotiated, ShownIsNegotiated
  <1>. QED BY <1>1, SessionInvHolds, SessionInvIsKept, PTL DEF Spec

THEOREM GapsAreMadeUp ==
  Spec => []GapReloadsMessages
  <1>1. SessionInv => GapReloadsMessages
    BY DEF SessionInv
  <1>. QED BY <1>1, SessionInvHolds, SessionInvIsKept, PTL DEF Spec

-----------------------------------------------------------------------------
(* The desktop session: the messages that went live. *)

NoneTwice(queue) == \A i, j \in DOMAIN queue : queue[i] = queue[j] => i = j

(* A queue without repetitions is no longer than the set its items are of. *)
LEMMA NoLonger ==
  ASSUME NEW S, IsFiniteSet(S), NEW queue \in Seq(S), NoneTwice(queue)
  PROVE  Cardinality(S) \in Nat /\ Len(queue) <= Cardinality(S)
  <1>1. Len(queue) \in Nat /\ DOMAIN queue = 1 .. Len(queue) /\ queue \in [1 .. Len(queue) -> S]
    OBVIOUS
  <1>2. queue \in Injection(1 .. Len(queue), S)
    BY <1>1 DEF Injection, NoneTwice, IsInjective
  <1>3. Cardinality(1 .. Len(queue)) <= Cardinality(S)
    BY <1>2, FS_Injection
  <1>4. Cardinality(1 .. Len(queue)) = Len(queue)
    BY <1>1, FS_Interval
  <1>. QED BY <1>3, <1>4, FS_CardinalityType

(* The stages of Without, which its definition chooses. *)
AreStages(marks, gone, n, f) ==
  f = [i \in 0 .. n |-> IF i = 0 THEN <<>>
                        ELSE IF marks[i] \in gone THEN f[i - 1] ELSE Append(f[i - 1], marks[i])]

LEMMA StagesExist ==
  ASSUME NEW marks, NEW gone, NEW n \in Nat
  PROVE  \E f : AreStages(marks, gone, n, f)
  <1>. DEFINE T == {k \in Nat : ~ \E f : AreStages(marks, gone, k, f)}
  <1>. SUFFICES T = {}
    OBVIOUS
  <1>. SUFFICES ASSUME T # {} PROVE FALSE
    OBVIOUS
  <1>1. PICK k \in T : \A m \in T : k <= m
    BY Least
  <1>2. CASE k = 0
    <2>1. AreStages(marks, gone, 0, [i \in 0 .. 0 |-> <<>>])
      BY DEF AreStages
    <2>. QED BY <1>2, <2>1
  <1>3. CASE k # 0
    <2>1. k - 1 \in Nat /\ k - 1 \notin T
      BY <1>1, <1>3
    <2>2. PICK f : AreStages(marks, gone, k - 1, f)
      BY <2>1
    <2>. DEFINE last == IF marks[k] \in gone THEN f[k - 1] ELSE Append(f[k - 1], marks[k])
                g == [i \in 0 .. k |-> IF i = k THEN last ELSE f[i]]
    <2>3. \A i \in 0 .. k - 1 : f[i] = IF i = 0 THEN <<>>
                        ELSE IF marks[i] \in gone THEN f[i - 1] ELSE Append(f[i - 1], marks[i])
      BY <2>2 DEF AreStages
    <2>4. g = [i \in 0 .. k |-> IF i = 0 THEN <<>>
                        ELSE IF marks[i] \in gone THEN g[i - 1] ELSE Append(g[i - 1], marks[i])]
      <3>1. ASSUME NEW i \in 0 .. k
            PROVE  (IF i = k THEN last ELSE f[i]) =
                     IF i = 0 THEN <<>>
                     ELSE IF marks[i] \in gone THEN g[i - 1] ELSE Append(g[i - 1], marks[i])
        <4>1. i # 0 => i - 1 \in 0 .. k /\ i - 1 # k /\ g[i - 1] = f[i - 1]
          BY <2>1
        <4>2. i = k => i # 0
          BY <1>3
        <4>3. i # k => i \in 0 .. k - 1
          BY <2>1
        <4>. HIDE DEF g
        <4>. QED BY <2>3, <4>1, <4>2, <4>3
      <3>. QED BY <3>1
    <2>. QED BY <2>4 DEF AreStages
  <1>. QED BY <1>2, <1>3

(* What is left of the marks: those that are not gone, none twice. *)
LEMMA WithoutIs ==
  ASSUME NEW S, NEW marks \in Seq(S), NEW gone
  PROVE  /\ Without(marks, gone) \in Seq(S)
         /\ Items(Without(marks, gone)) = Items(marks) \ gone
         /\ NoneTwice(marks) => NoneTwice(Without(marks, gone))
  <1>1. PICK f : AreStages(marks, gone, Len(marks), f) /\ Without(marks, gone) = f[Len(marks)]
    <2>0. Len(marks) \in Nat
      OBVIOUS
    <2>1. \E f : AreStages(marks, gone, Len(marks), f)
      BY <2>0, StagesExist, Zenon
    <2>2. \E f : AreStages(marks, gone, Len(marks), f) /\ Without(marks, gone) = f[Len(marks)]
      BY <2>1, Zenon DEF Without, AreStages
    <2>. QED BY <2>2
  <1>2. Len(marks) \in Nat /\ DOMAIN marks = 1 .. Len(marks)
    OBVIOUS
  <1>3. \A i \in 0 .. Len(marks) : f[i] = IF i = 0 THEN <<>>
                        ELSE IF marks[i] \in gone THEN f[i - 1] ELSE Append(f[i - 1], marks[i])
    BY <1>1 DEF AreStages
  <1>. DEFINE Good(i) == /\ f[i] \in Seq(S)
                         /\ Items(f[i]) = {marks[j] : j \in 1 .. i} \ gone
                         /\ NoneTwice(marks) => NoneTwice(f[i])
              T == {i \in 0 .. Len(marks) : ~Good(i)}
  <1>. HIDE DEF Good
  <1>4. T = {}
    <2>. SUFFICES ASSUME T # {} PROVE FALSE
      OBVIOUS
    <2>0. T \in SUBSET Nat
      BY <1>2
    <2>. HIDE DEF T
    <2>1. PICK k \in T : \A m \in T : k <= m
      BY <2>0, Least
    <2>2. CASE k = 0
      <3>1. f[0] = <<>>
        BY <1>2, <1>3
      <3>2. {marks[j] : j \in 1 .. 0} = {}
        OBVIOUS
      <3>3. Good(0)
        BY <3>1, <3>2, EmptyQueue DEF Items, NoneTwice, Good
      <3>. QED BY <2>2, <3>3 DEF T
    <2>3. CASE k # 0
      <3>. DEFINE s == f[k - 1]  x == marks[k]
      <3>1. k \in 1 .. Len(marks) /\ k - 1 \in 0 .. Len(marks) /\ k - 1 \notin T
        <4>1. k \in 1 .. Len(marks)
          BY <1>2, <2>3 DEF T
        <4>2. k - 1 \in 0 .. Len(marks) /\ k - 1 < k /\ k \in Nat
          BY <1>2, <4>1
        <4>3. k - 1 \notin T
          BY <2>0, <2>1, <4>2
        <4>. QED BY <4>1, <4>2, <4>3
      <3>2. Good(k - 1)
        BY <3>1 DEF T
      <3>3. f[k] = IF x \in gone THEN s ELSE Append(s, x)
        BY <1>3, <3>1
      <3>4. {marks[j] : j \in 1 .. k} = {marks[j] : j \in 1 .. (k - 1)} \cup {x}
        BY <3>1
      <3>5. NoneTwice(marks) => x \notin {marks[j] : j \in 1 .. (k - 1)}
        BY <1>2, <3>1 DEF NoneTwice
      <3>6. s \in Seq(S) /\ Items(s) = {marks[j] : j \in 1 .. (k - 1)} \ gone
            /\ (NoneTwice(marks) => NoneTwice(s)) /\ x \in S
        BY <1>2, <3>1, <3>2 DEF Good
      <3>. HIDE DEF s, x
      <3>7. CASE x \in gone
        <4>1. Good(k)
          BY <3>3, <3>4, <3>6, <3>7 DEF Good
        <4>. QED BY <4>1 DEF T
      <3>8. CASE x \notin gone
        <4>. DEFINE t == Append(s, x)
        <4>1. /\ t \in Seq(S) /\ Len(s) \in Nat /\ DOMAIN t = 1 .. Len(s) + 1 /\ t[Len(s) + 1] = x
              /\ DOMAIN s = 1 .. Len(s) /\ \A i \in DOMAIN s : t[i] = s[i]
          BY <3>6
        <4>. HIDE DEF t
        <4>2. Items(t) = Items(s) \cup {x}
          BY <4>1 DEF Items
        <4>3. x \notin Items(s) /\ NoneTwice(s) => NoneTwice(t)
          BY <4>1 DEF Items, NoneTwice
        <4>4. f[k] = t
          BY <3>3, <3>8 DEF t
        <4>5. Good(k)
          BY <3>4, <3>5, <3>6, <3>8, <4>1, <4>2, <4>3, <4>4 DEF Good
        <4>. QED BY <4>5 DEF T
      <3>. QED BY <3>7, <3>8
    <2>. QED BY <2>2, <2>3
  <1>5. Good(Len(marks))
    BY <1>2, <1>4
  <1>6. Items(marks) = {marks[j] : j \in 1 .. Len(marks)}
    BY <1>2 DEF Items
  <1>. QED BY <1>1, <1>5, <1>6 DEF Good

(* The conversation has no more messages than are ever marked. *)
FewMessages == IsFiniteSet(Messages) /\ Cardinality(Messages) <= TransientCapacity

(* The marks are of messages that are shown, each once. *)
AreMarked(s) ==
  /\ {"messages", "live", "cursors", "state"} \subseteq DOMAIN s
  /\ s.messages \in [Messages -> Int]
  /\ s.live \in Seq(Messages) /\ NoneTwice(s.live)
  /\ \A m \in Items(s.live) : s.messages[m] > 0

(* Messages and marks are left alone. *)
MarksStay(s, t) ==
  /\ {"messages", "live", "cursors", "state"} \subseteq DOMAIN t
  /\ t.messages = s.messages /\ t.live = s.live

LEMMA MarkedAfter ==
  ASSUME NEW s, NEW t, AreMarked(s), MarksStay(s, t) PROVE AreMarked(t)
  BY DEF AreMarked, MarksStay

(* The reducers of everything but the messages. *)
LEMMA MarksAreLeft ==
  ASSUME NEW s, AreMarked(s)
  PROVE  /\ MarksStay(s, s) /\ MarksStay(s, RefreshNetworkState(s))
         /\ \A g, x : MarksStay(s, SetStandard(s, g, x)) /\ MarksStay(s, SetPropagation(s, g, x))
                      /\ MarksStay(s, SetDraft(s, g, x))
         /\ \A g : MarksStay(s, FailStandard(s, g)) /\ MarksStay(s, FailSession(s, g))
                   /\ MarksStay(s, MarkPeerLoaded(s, g)) /\ MarksStay(s, BeginJob(s, g))
         /\ \A g, any, more : MarksStay(s, MergeConversations(s, g, any, more))
         /\ \A g, id, outcome : MarksStay(s, FinishJob(s, g, id, outcome))
         /\ \A g, kind, snapshot : MarksStay(s, SetSnapshot(s, g, kind, snapshot))
         /\ \A kind, record, observed :
              MarksStay(s, ApplyObservation(s, kind, record, observed).stores)
         /\ \A d, announce : MarksStay(s, ReducePeer(s, d, announce))
  <1>. USE DEF MarksStay, AreMarked
  <1>1. ASSUME NEW t, MarksStay(s, t) PROVE MarksStay(s, RefreshNetworkState(t))
    BY <1>1 DEF RefreshNetworkState
  <1>2. MarksStay(s, s) /\ MarksStay(s, RefreshNetworkState(s))
    BY <1>1
  <1>3. \A g, x : MarksStay(s, SetStandard(s, g, x)) /\ MarksStay(s, SetPropagation(s, g, x))
                   /\ MarksStay(s, SetDraft(s, g, x))
    BY DEF SetStandard, SetPropagation, SetDraft
  <1>4. \A g : MarksStay(s, FailStandard(s, g)) /\ MarksStay(s, FailSession(s, g))
                /\ MarksStay(s, MarkPeerLoaded(s, g)) /\ MarksStay(s, BeginJob(s, g))
    BY DEF FailStandard, FailSession, MarkPeerLoaded, BeginJob
  <1>5. \A g, any, more : MarksStay(s, MergeConversations(s, g, any, more))
    BY DEF MergeConversations
  <1>6. \A g, id, outcome : MarksStay(s, FinishJob(s, g, id, outcome))
    BY DEF FinishJob
  <1>7. ASSUME NEW g, NEW kind, NEW snapshot PROVE MarksStay(s, SetSnapshot(s, g, kind, snapshot))
    <2>. DEFINE t == [s EXCEPT !.net[kind] = snapshot]
    <2>1. MarksStay(s, t)
      OBVIOUS
    <2>2. SetSnapshot(s, g, kind, snapshot) \in {s, t, RefreshNetworkState(t)}
      BY DEF SetSnapshot
    <2>. HIDE DEF t
    <2>. QED BY <1>1, <1>2, <2>1, <2>2
  <1>8. ASSUME NEW kind, NEW record, NEW observed
        PROVE  MarksStay(s, ApplyObservation(s, kind, record, observed).stores)
    <2>. DEFINE t == [s EXCEPT !.net[kind] =
                   [r \in DOMAIN @ \union {record} |-> IF r = record THEN observed ELSE @[r]]]
    <2>1. MarksStay(s, t)
      OBVIOUS
    <2>2. ApplyObservation(s, kind, record, observed).stores \in {s, t, RefreshNetworkState(t)}
      BY DEF ApplyObservation, Applied, Rejected
    <2>. HIDE DEF t
    <2>. QED BY <1>1, <1>2, <2>1, <2>2
  <1>9. ASSUME NEW d, NEW announce PROVE MarksStay(s, ReducePeer(s, d, announce))
    <2>. DEFINE t == [s EXCEPT !.heard[d] = IF announce >= @ THEN announce ELSE @,
                               !.managed = @ \union {d},
                               !.state["fleet"] = IF d \in s.managed THEN @ ELSE "ready"]
    <2>1. MarksStay(s, t)
      OBVIOUS
    <2>2. ReducePeer(s, d, announce) = RefreshNetworkState(t)
      BY DEF ReducePeer
    <2>. HIDE DEF t
    <2>. QED BY <1>1, <2>1, <2>2
  <1>. QED BY <1>2, <1>3, <1>4, <1>5, <1>6, <1>7, <1>8, <1>9

(* A message that comes whole is marked, and no mark has to go for it. *)
LEMMA PushMarks ==
  ASSUME FewMessages, NEW s, AreMarked(s), NEW m \in Messages, NEW v \in Int, v > 0
  PROVE  LET t == PushMessage(s, m, v) IN
         AreMarked(t) /\ Items(t.live) = Items(s.live) \cup {m}
  <1>. DEFINE left   == Without(s.live, {m})
              marked == Append(left, m)
              shown  == ShownMessages(s)
              c      == Cardinality(shown)
  <1>1. s.live \in Seq(Messages) /\ NoneTwice(s.live)
    BY DEF AreMarked
  <1>2. left \in Seq(Messages) /\ Items(left) = Items(s.live) \ {m} /\ NoneTwice(left)
    BY <1>1, WithoutIs
  <1>3. shown \subseteq Messages /\ IsFiniteSet(shown) /\ c \in Nat
    BY FS_Subset, FS_CardinalityType DEF ShownMessages, FewMessages
  <1>4. IsFiniteSet(shown \cup {m}) /\ Cardinality(shown \cup {m}) <= c + 1
        /\ Cardinality(shown \cup {m}) \in Nat
    <2>1. IsFiniteSet(shown \cup {m})
          /\ Cardinality(shown \cup {m}) = IF m \in shown THEN c ELSE c + 1
      BY <1>3, FS_AddElement
    <2>. HIDE DEF c, shown
    <2>. QED BY <1>3, <2>1
  <1>5. Items(s.live) \subseteq shown
    BY <1>1 DEF AreMarked, ShownMessages, Items
  <1>. HIDE DEF left, shown, c
  <1>6. /\ marked \in Seq(Messages) /\ Len(left) \in Nat /\ Len(marked) = Len(left) + 1
        /\ DOMAIN marked = 1 .. Len(left) + 1 /\ marked[Len(left) + 1] = m
        /\ DOMAIN left = 1 .. Len(left) /\ \A i \in DOMAIN left : marked[i] = left[i]
    BY <1>2
  <1>. HIDE DEF marked
  <1>7. Items(marked) = Items(s.live) \cup {m}
    <2>1. Items(marked) = Items(left) \cup {m}
      BY <1>6 DEF Items
    <2>. QED BY <1>2, <2>1
  <1>8. NoneTwice(marked)
    <2>1. \A i \in DOMAIN left : left[i] # m
      BY <1>2 DEF Items
    <2>. QED BY <1>2, <1>6, <2>1 DEF NoneTwice
  <1>9. marked \in Seq(shown \cup {m})
    <2>1. \A i \in DOMAIN marked : marked[i] \in shown \cup {m}
      BY <1>5, <1>7 DEF Items
    <2>2. marked = [i \in 1 .. Len(marked) |-> marked[i]] /\ DOMAIN marked = 1 .. Len(marked)
          /\ Len(marked) \in Nat
      BY <1>6
    <2>. QED BY <2>1, <2>2
  <1>10. Len(marked) <= c + 1
    BY <1>3, <1>4, <1>6, <1>8, <1>9, NoLonger
  <1>11. Len(marked) <= TransientCapacity
    BY <1>6, <1>8, NoLonger, StoresAssumption DEF FewMessages
  <1>12. MarkLive(s, m) = [s EXCEPT !.live = marked]
    <2>1. marked = Append(Without(s.live, {m}), m) /\ c = Cardinality(ShownMessages(s))
      BY DEF marked, left, c, shown
    <2>. DEFINE limit == IF c + 1 < TransientCapacity THEN c + 1 ELSE TransientCapacity
    <2>2. ~(Len(marked) > limit)
      BY <1>3, <1>6, <1>10, <1>11, StoresAssumption
    <2>3. MarkLive(s, m) = [s EXCEPT !.live = IF Len(marked) > limit
                              THEN SubSeq(marked, Len(marked) - limit + 1, Len(marked)) ELSE marked]
      BY <2>1, Zenon DEF MarkLive
    <2>. HIDE DEF limit
    <2>. QED BY <2>2, <2>3
  <1>13. PushMessage(s, m, v) =
           [[s EXCEPT !.live = marked] EXCEPT !.messages[m] = v, !.state["messages"] = "ready"]
    BY <1>12 DEF PushMessage
  <1>14. m \in Items(marked) /\ \A n \in Items(marked) : n = m \/ s.messages[n] > 0
    BY <1>7 DEF AreMarked
  <1>15. Items(marked) \subseteq Messages
    BY <1>6 DEF Items
  <1>. DEFINE t == PushMessage(s, m, v)
  <1>16. /\ t.live = marked /\ DOMAIN t = DOMAIN s
         /\ t.messages = [s.messages EXCEPT ![m] = v]
    BY <1>13 DEF AreMarked
  <1>. HIDE DEF t
  <1>17. AreMarked(t)
    BY <1>6, <1>8, <1>14, <1>15, <1>16 DEF AreMarked
  <1>. QED BY <1>7, <1>16, <1>17 DEF t

(* A message that is gone has no mark. *)
LEMMA RemoveMarks ==
  ASSUME NEW s, AreMarked(s), NEW m \in Messages
  PROVE  AreMarked(RemoveMessage(s, m))
  <1>. DEFINE left == Without(s.live, {m})
              t    == RemoveMessage(s, m)
  <1>1. left \in Seq(Messages) /\ Items(left) = Items(s.live) \ {m} /\ NoneTwice(left)
    BY WithoutIs DEF AreMarked
  <1>2. t.live = left /\ DOMAIN t = DOMAIN s /\ t.messages = [s.messages EXCEPT ![m] = 0]
    BY DEF RemoveMessage, Unmark, AreMarked
  <1>. HIDE DEF left, t
  <1>3. Items(left) \subseteq Messages
    BY <1>1 DEF Items
  <1>4. AreMarked(t)
    BY <1>1, <1>2, <1>3 DEF AreMarked
  <1>. QED BY <1>4 DEF t

(* What an answer says of one message. *)
LEMMA AnswersMark ==
  ASSUME FewMessages, NEW s, AreMarked(s), NEW m \in Messages, NEW v \in Int, NEW g
  PROVE  /\ AreMarked(ResolveMessage(s, g, m, v))
         /\ \A found \in BOOLEAN : (found => v > 0) => AreMarked(ApplyLifecycle(s, g, m, v, found))
  <1>1. v > 0 => AreMarked(PushMessage(s, m, v))
    BY PushMarks
  <1>2. AreMarked(RemoveMessage(s, m))
    BY RemoveMarks
  <1>. DEFINE t == RemoveMessage(s, m)
  <1>3. \A x : AreMarked([t EXCEPT !.state["messages"] = x]) /\ AreMarked([t EXCEPT !.cursors = x])
    <2>. HIDE DEF t
    <2>. QED BY <1>2 DEF AreMarked, t
  <1>4. AreMarked(ResolveMessage(s, g, m, v))
    BY <1>1, <1>3 DEF ResolveMessage
  <1>5. ASSUME NEW found \in BOOLEAN, found => v > 0
        PROVE  AreMarked(ApplyLifecycle(s, g, m, v, found))
    <2>1. \/ ApplyLifecycle(s, g, m, v, found) = s
          \/ found /\ ApplyLifecycle(s, g, m, v, found) = PushMessage(s, m, v)
          \/ \E x : ApplyLifecycle(s, g, m, v, found) = [t EXCEPT !.cursors = x]
      BY DEF ApplyLifecycle
    <2>. HIDE DEF t
    <2>. QED BY <1>1, <1>3, <1>5, <2>1
  <1>. QED BY <1>4, <1>5

(* A page takes back no marked message, whether or not what was loaded before is
   dropped for it. *)
LEMMA PageMarks ==
  ASSUME NEW s, AreMarked(s), NEW page \in [Messages -> Int], NEW g
  PROVE  /\ AreMarked(ResetPeer(s, g)) /\ ResetPeer(s, g).live = s.live
         /\ \A m \in Items(s.live) : ResetPeer(s, g).messages[m] = s.messages[m]
         /\ AreMarked(MergePage(s, g, page, FALSE))
         /\ \A m \in Items(s.live) : MergePage(s, g, page, FALSE).messages[m] = s.messages[m]
  <1>0. /\ s.live \in Seq(Messages) /\ NoneTwice(s.live) /\ s.messages \in [Messages -> Int]
        /\ \A m \in Items(s.live) : m \in Messages /\ s.messages[m] > 0
        /\ {"messages", "live", "cursors", "state"} \subseteq DOMAIN s
        /\ ToSet(s.live) = Items(s.live)
    BY DEF AreMarked, Items, ToSet
  <1>1. /\ AreMarked(ResetPeer(s, g)) /\ ResetPeer(s, g).live = s.live
        /\ \A m \in Items(s.live) : ResetPeer(s, g).messages[m] = s.messages[m]
    <2>. DEFINE kept == [m \in Messages |-> IF m \in ToSet(s.live) THEN s.messages[m] ELSE 0]
                t == ResetPeer(s, g)
    <2>1. CASE ~Accepts(s, g)
      BY <2>1 DEF ResetPeer
    <2>2. CASE Accepts(s, g)
      <3>1. t.live = s.live /\ DOMAIN t = DOMAIN s /\ t.messages = kept
        BY <1>0, <2>2 DEF ResetPeer
      <3>2. kept \in [Messages -> Int] /\ \A m \in Items(s.live) : kept[m] = s.messages[m]
        BY <1>0
      <3>. HIDE DEF kept, t
      <3>3. AreMarked(t) /\ t.live = s.live /\ \A m \in Items(s.live) : t.messages[m] = s.messages[m]
        BY <1>0, <3>1, <3>2 DEF AreMarked
      <3>. QED BY <3>3 DEF t
    <2>. QED BY <2>1, <2>2
  <1>2. /\ AreMarked(MergePage(s, g, page, FALSE))
        /\ \A m \in Items(s.live) : MergePage(s, g, page, FALSE).messages[m] = s.messages[m]
    <2>. DEFINE held   == {m \in Messages : page[m] > 0}
                merged == [m \in Messages |->
                             IF m \in held /\ ~(s.messages[m] > 0 /\ m \in ToSet(s.live))
                             THEN page[m] ELSE s.messages[m]]
                left   == Without(s.live, held)
                t      == MergePage(s, g, page, FALSE)
    <2>1. CASE ~Accepts(s, g)
      BY <2>1 DEF MergePage
    <2>2. CASE Accepts(s, g)
      <3>1. t.live = left /\ DOMAIN t = DOMAIN s /\ t.messages = merged
        BY <1>0, <2>2 DEF MergePage
      <3>2. merged \in [Messages -> Int] /\ \A m \in Items(s.live) : merged[m] = s.messages[m]
        BY <1>0
      <3>. HIDE DEF held, merged, t
      <3>3. left \in Seq(Messages) /\ Items(left) = Items(s.live) \ held /\ NoneTwice(left)
        BY <1>0, WithoutIs
      <3>. HIDE DEF left
      <3>4. AreMarked(t) /\ \A m \in Items(s.live) : t.messages[m] = s.messages[m]
        BY <1>0, <3>1, <3>2, <3>3 DEF AreMarked
      <3>. QED BY <3>4 DEF t
    <2>. QED BY <2>1, <2>2
  <1>. QED BY <1>1, <1>2

IsWhole(e) == e.is = "message" /\ e.complete => e.message \in Messages /\ e.version \in Nat \ {0}

(* The messages on their way to the stores exist. *)
MessagesCarried ==
  /\ IsQueue(events) /\ IsQueue(frames)
  /\ \A i \in DOMAIN events : IsWhole(events[i])
  /\ \A i \in DOMAIN frames : IsWhole(frames[i])
  /\ "version" \in DOMAIN daemon /\ daemon.version \in [Messages -> Int]

(* What the task is about; what arrived while its page was on the way is marked. *)
TaskIsAbout ==
  /\ task.is = "page" =>
       /\ task = [is |-> "page", answer |-> task.answer, reset |-> task.reset,
                  arrived |-> task.arrived]
       /\ task.answer \in [Messages -> Int] /\ task.arrived \subseteq Items(stores.live)
  /\ task.is \in {"query", "sending", "changed"} => task.message \in Messages
  /\ task.is \in {"query", "changed"} => task.answer \in Int
  /\ task.is = "changed" /\ task.answer # Gone => task.answer > 0

LiveInv == AreMarked(stores) /\ MessagesCarried /\ TaskIsAbout

LEMMA LiveInvHolds == Init => LiveInv
  <1>. SUFFICES ASSUME Init PROVE LiveInv
    OBVIOUS
  <1>1. /\ stores = Default /\ events = <<>> /\ frames = <<>> /\ task = Idle
        /\ "version" \in DOMAIN daemon /\ daemon.version = [m \in Messages |-> 0]
    BY DEF Init
  <1>2. IsQueue(<<>>) /\ DOMAIN <<>> = {} /\ <<>> \in Seq(Messages)
    BY EmptyQueue DEF IsQueue, Items
  <1>3. AreMarked(stores)
    BY <1>1, <1>2 DEF Default, AreMarked, Items, NoneTwice
  <1>. QED BY <1>1, <1>2, <1>3 DEF LiveInv, MessagesCarried, TaskIsAbout, Idle

(* What an event makes of the messages and their marks. *)
LEMMA EventMarks ==
  ASSUME FewMessages, NEW s, AreMarked(s), NEW e, IsWhole(e), e.is \in EventKinds,
         NEW r, r = ApplyDaemonEvent(s, s.generation, e)
  PROVE  \/ MarksStay(s, r.stores) /\ ~(e.is = "message" /\ e.complete)
         \/ /\ e.is = "message" /\ e.complete /\ r.applied /\ AreMarked(r.stores)
            /\ Items(r.stores.live) = Items(s.live) \cup {e.message}
         \/ r.applied /\ e.is \in {"operation", "reconcile"} /\ AreMarked(r.stores)
  <1>0. Accepts(s, s.generation)
    BY DEF Accepts
  <1>1. MarksStay(s, s) /\ MarksStay(s, RefreshNetworkState(s))
    BY MarksAreLeft
  <1>2. CASE e.is \in {"identity", "connected", "disconnected", "event_generation"}
    <2>1. /\ e.is = "identity" => r.stores = [s EXCEPT !.state["identity"] = "ready"]
          /\ e.is = "connected" => r = ApplyConnected(s)
          /\ e.is = "disconnected" => r = ApplyDisconnected(s)
          /\ e.is = "event_generation" => r = ApplyEventGeneration(s, e.generation)
      BY <1>0 DEF ApplyDaemonEvent, Applied
    <2>2. MarksStay(s, [s EXCEPT !.state["identity"] = "ready"])
      BY DEF AreMarked, MarksStay
    <2>3. MarksStay(s, ApplyConnected(s).stores)
      <3>. DEFINE t == [s EXCEPT !.connected = TRUE,
                          !.state = [@ EXCEPT !["runtime"] = "ready", !["content"] = "empty",
                                     !["scenario"] = "ready", !["fleet"] = "empty",
                                     !["propagation"] = "empty", !["standard"] = "empty"]]
      <3>1. MarksStay(s, t)
        BY DEF AreMarked, MarksStay
      <3>2. ApplyConnected(s).stores = RefreshNetworkState(t)
        BY DEF ApplyConnected, Applied
      <3>. HIDE DEF t
      <3>. QED BY <3>1, <3>2 DEF AreMarked, MarksStay, RefreshNetworkState
    <2>4. MarksStay(s, ApplyDisconnected(s).stores)
      BY DEF ApplyDisconnected, Applied, AreMarked, MarksStay
    <2>5. MarksStay(s, ApplyEventGeneration(s, e.generation).stores)
      BY DEF ApplyEventGeneration, Applied, Rejected, AreMarked, MarksStay
    <2>. QED BY <1>2, <2>1, <2>2, <2>3, <2>4, <2>5
  <1>3. CASE e.is = "status"
    <2>. DEFINE t == [s EXCEPT !.server = e.generation,
                     !.capabilities = IF e.generation = Absent THEN {} ELSE e.authorised]
    <2>1. r.stores = ClearObserved(s) \/ r.stores = RefreshNetworkState(t)
      BY <1>0, <1>3 DEF ApplyDaemonEvent, ApplyStatus, Applied, Rejected
    <2>2. MarksStay(s, ClearObserved(s))
      BY DEF ClearObserved, AreMarked, MarksStay
    <2>3. MarksStay(s, RefreshNetworkState(t))
      BY DEF AreMarked, MarksStay, RefreshNetworkState
    <2>. QED BY <1>3, <2>1, <2>2, <2>3
  <1>4. CASE e.is \in {"peer", "path_table", "observation", "route"}
    <2>1. /\ e.is = "peer" => r.stores = ReducePeer(s, e.device, e.announce)
          /\ e.is = "path_table" => r.stores = SetSnapshot(s, s.generation, "paths", e.snapshot)
          /\ e.is = "observation" => r = ApplyObservation(s, e.kind, e.record, e.generation)
          /\ e.is = "route" => r = ApplyRoute(s, e.generation)
      BY <1>0 DEF ApplyDaemonEvent, Applied
    <2>2. ApplyRoute(s, e.generation).stores \in {s, RefreshNetworkState(s)}
      BY DEF ApplyRoute, Applied, Rejected
    <2>3. /\ MarksStay(s, ReducePeer(s, e.device, e.announce))
          /\ MarksStay(s, SetSnapshot(s, s.generation, "paths", e.snapshot))
          /\ MarksStay(s, ApplyObservation(s, e.kind, e.record, e.generation).stores)
      BY MarksAreLeft, Zenon
    <2>. QED BY <1>1, <1>4, <2>1, <2>2, <2>3
  <1>5. CASE e.is \in {"reconcile_requests", "standard_changed"}
    <2>1. r.stores = s
      BY <1>0, <1>5 DEF ApplyDaemonEvent, OfEventConnection, Applied, Rejected
    <2>. QED BY <1>1, <1>5, <2>1
  <1>6. CASE e.is \in {"operation", "reconcile"}
    <2>1. r.stores = s \/ (r.stores = ForgetPagination(s) /\ r.applied)
      <3>1. /\ e.is = "operation" => r = Applied(ForgetPagination(s))
            /\ e.is = "reconcile" => r = ApplyGap(s, e.generation)
        BY <1>0 DEF ApplyDaemonEvent
      <3>. QED BY <1>6, <3>1 DEF ApplyGap, Applied, Rejected
    <2>2. AreMarked(ForgetPagination(s))
      <3>1. <<>> \in Seq(Messages) /\ DOMAIN <<>> = {}
        BY EmptyQueue
      <3>. QED BY <3>1 DEF ForgetPagination, AreMarked, NoneTwice, Items
    <2>. QED BY <1>1, <1>6, <2>1, <2>2
  <1>7. CASE e.is = "message" /\ e.complete
    <2>1. r.stores = PushMessage(s, e.message, e.version) /\ r.applied
      BY <1>0, <1>7 DEF ApplyDaemonEvent, ApplyMessage, Applied
    <2>2. e.message \in Messages /\ e.version \in Int /\ e.version > 0
      BY <1>7 DEF IsWhole
    <2>3. /\ AreMarked(PushMessage(s, e.message, e.version))
          /\ Items(PushMessage(s, e.message, e.version).live) = Items(s.live) \cup {e.message}
      BY <2>2, PushMarks
    <2>. QED BY <1>7, <2>1, <2>3
  <1>8. CASE e.is = "message" /\ ~e.complete
    <2>1. r.stores = [s EXCEPT !.state["messages"] = "degraded"]
      BY <1>0, <1>8 DEF ApplyDaemonEvent, ApplyMessage, Rejected
    <2>2. MarksStay(s, r.stores)
      BY <2>1 DEF AreMarked, MarksStay
    <2>. QED BY <1>8, <2>2
  <1>. QED BY <1>2, <1>3, <1>4, <1>5, <1>6, <1>7, <1>8 DEF EventKinds, QuietKinds

(* An event that is handled while a page is on its way. *)
LEMMA EventKeepsLive ==
  ASSUME FewMessages, SessionInv, LiveInv, HandleEvent
  PROVE  AreMarked(stores') /\ TaskIsAbout' /\ task'.is = task.is
  <1>. DEFINE e == Head(events)
              r == ApplyDaemonEvent(stores, Generation, e)
  <1>1. events # <<>> /\ stores' = r.stores /\ task' = IF r.applied THEN Arrived(e) ELSE task
    BY DEF HandleEvent
  <1>2. e.is \in EventKinds /\ IsWhole(e)
    <2>1. 1 \in DOMAIN events /\ e = events[1]
      BY <1>1, ShortenedQueue DEF SessionInv, AreEvents
    <2>. QED BY <2>1 DEF SessionInv, AreEvents, LiveInv, MessagesCarried
  <1>. HIDE DEF e
  <1>3. r = ApplyDaemonEvent(stores, stores.generation, e)
    BY DEF Generation
  <1>. HIDE DEF r
  <1>4. \/ MarksStay(stores, stores') /\ ~(e.is = "message" /\ e.complete)
        \/ /\ e.is = "message" /\ e.complete /\ r.applied /\ AreMarked(stores')
           /\ Items(stores'.live) = Items(stores.live) \cup {e.message}
        \/ r.applied /\ e.is \in {"operation", "reconcile"} /\ AreMarked(stores')
    BY <1>1, <1>2, <1>3, EventMarks DEF LiveInv
  <1>5. AreMarked(stores')
    BY <1>4, MarkedAfter DEF LiveInv
  <1>6. CASE task.is # "page"
    <2>1. task' = task
      BY <1>1, <1>6 DEF Arrived
    <2>. QED BY <1>5, <1>6, <2>1 DEF LiveInv, TaskIsAbout
  <1>7. CASE task.is = "page"
    <2>1. /\ task = [is |-> "page", answer |-> task.answer, reset |-> task.reset,
                    arrived |-> task.arrived]
          /\ task.answer \in [Messages -> Int] /\ task.arrived \subseteq Items(stores.live)
      BY <1>7 DEF LiveInv, TaskIsAbout
    <2>2. task' \in {task, [task EXCEPT !.arrived = {}], [task EXCEPT !.arrived = @ \union {e.message}]}
      BY <1>1 DEF Arrived
    <2>3. task' = [is |-> "page", answer |-> task.answer, reset |-> task.reset,
                   arrived |-> task'.arrived]
          /\ task'.is = "page" /\ task'.answer = task.answer
      BY <2>1, <2>2
    <2>4. task'.arrived \subseteq Items(stores'.live)
      <3>1. CASE MarksStay(stores, stores') /\ ~(e.is = "message" /\ e.complete)
        <4>1. task' \in {task, [task EXCEPT !.arrived = {}]}
          BY <1>1, <3>1 DEF Arrived
        <4>2. task'.arrived \subseteq task.arrived
          BY <2>1, <4>1
        <4>. QED BY <2>1, <3>1, <4>2 DEF MarksStay
      <3>2. CASE /\ e.is = "message" /\ e.complete
                 /\ Items(stores'.live) = Items(stores.live) \cup {e.message}
        <4>1. task'.arrived \subseteq task.arrived \cup {e.message}
          BY <2>1, <2>2
        <4>. QED BY <2>1, <3>2, <4>1
      <3>3. CASE r.applied /\ e.is \in {"operation", "reconcile"}
        <4>1. task' = [task EXCEPT !.arrived = {}]
          BY <1>1, <1>7, <3>3 DEF Arrived
        <4>2. task'.arrived = {}
          BY <2>1, <4>1
        <4>. QED BY <4>2
      <3>. QED BY <1>4, <3>1, <3>2, <3>3
    <2>. QED BY <1>5, <1>7, <2>1, <2>3, <2>4 DEF TaskIsAbout
  <1>. QED BY <1>5, <1>6, <1>7

(* The command task. *)
LEMMA TaskKeepsLive ==
  ASSUME FewMessages, LiveInv, Task \/ CallFails
  PROVE  /\ AreMarked(stores') /\ TaskIsAbout'
         /\ task.is = "page" /\ task' = Idle =>
              \A m \in task.arrived : stores'.messages[m] = stores.messages[m]
  <1>0. AreMarked(stores) /\ MarksStay(stores, stores) /\ TaskIsAbout
        /\ "version" \in DOMAIN daemon /\ daemon.version \in [Messages -> Int] /\ Idle.is = "idle"
    BY MarksAreLeft DEF LiveInv, MessagesCarried, Idle
  <1>1. CASE DropCommand \/ TakeRefresh \/ TakeSend \/ TakeStart \/ TakeQuery
    <2>1. stores' = stores
      BY <1>1 DEF DropCommand, TakeRefresh, TakeSend, TakeStart, TakeQuery
    <2>2. CASE DropCommand
      BY <1>0, <2>1, <2>2 DEF DropCommand, TaskIsAbout
    <2>3. CASE TakeRefresh \/ TakeSend \/ TakeStart
      <3>1. task = Idle /\ task'.is \in {"refresh", "standard", "propagation", "conversations", "saving",
                                         "start"}
        BY <2>3 DEF TakeRefresh, TakeSend, TakeStart, Taken, Refresh, Standard, Propagation,
                    Conversations
      <3>. QED BY <1>0, <2>1, <3>1 DEF TaskIsAbout
    <2>4. CASE TakeQuery
      <3>1. PICK m \in Messages : task = Idle /\ task' = [is |-> "query", message |-> m, answer |-> Page[m]]
        BY <2>4 DEF TakeQuery, Taken
      <3>2. Page[m] \in Int
        BY <1>0 DEF Page
      <3>. QED BY <1>0, <2>1, <3>1, <3>2 DEF TaskIsAbout
    <2>. QED BY <1>1, <2>2, <2>3, <2>4
  <1>2. CASE TakeLoad
    <2>1. /\ task = Idle /\ stores' = MarkPeerLoaded(stores, Generation)
          /\ \E reset : task' = [is |-> "page", answer |-> Page, reset |-> reset, arrived |-> {}]
      BY <1>2 DEF TakeLoad, Taken
    <2>2. AreMarked(stores')
      BY <1>0, <2>1, MarksAreLeft, MarkedAfter
    <2>3. TaskIsAbout'
      BY <1>0, <2>1 DEF TaskIsAbout, Page
    <2>. QED BY <1>0, <2>1, <2>2, <2>3
  <1>3. CASE TakeJob \/ SendMessage \/ DraftDiscarded
    <2>1. stores' \in {stores, BeginJob(stores, Generation), SetDraft(stores, Generation, TRUE),
                       SetDraft(stores, Generation, FALSE)}
      BY <1>3 DEF TakeJob, SendMessage, DraftDiscarded
    <2>2. AreMarked(stores')
      BY <1>0, <2>1, MarksAreLeft, MarkedAfter
    <2>3. task.is # "page" /\ TaskIsAbout'
      <3>1. CASE TakeJob
        BY <1>0, <3>1 DEF TakeJob, Taken, TaskIsAbout
      <3>2. CASE SendMessage
        <4>1. task.is = "saving" /\ \E m \in Own : task' = [is |-> "sending", message |-> m]
          BY <3>2 DEF SendMessage
        <4>. QED BY <4>1, SessionAssumption DEF TaskIsAbout, SessionAssumption
      <3>3. CASE DraftDiscarded
        BY <1>0, <3>3 DEF DraftDiscarded, TaskIsAbout
      <3>. QED BY <1>3, <3>1, <3>2, <3>3
    <2>. QED BY <2>2, <2>3
  <1>4. CASE OutcomeApplied
    <2>1. task.is = "sending" /\ stores' = PushMessage(stores, task.message, 1)
          /\ task'.is \in {"discarding", "idle"}
      BY <1>0, <1>4 DEF OutcomeApplied
    <2>2. AreMarked(stores')
      BY <1>0, <2>1, PushMarks DEF TaskIsAbout
    <2>. QED BY <2>1, <2>2 DEF TaskIsAbout
  <1>5. CASE TakeChange
    <2>1. PICK m \in Messages :
            /\ task = Idle /\ stores' = stores
            /\ \/ Page[m] > 0 /\ task' = [is |-> "changed", message |-> m, answer |-> Page[m] + 1]
               \/ task' = [is |-> "changed", message |-> m, answer |-> Gone]
      BY <1>5 DEF TakeChange, Taken
    <2>2. Page[m] \in Int
      BY <1>0 DEF Page
    <2>3. Gone \in Int
      BY DEF Gone
    <2>. QED BY <1>0, <2>1, <2>2, <2>3 DEF TaskIsAbout
  <1>6. CASE ChangeAnswered
    <2>1. /\ task.is = "changed"
          /\ stores' = ApplyLifecycle(stores, Generation, task.message, task.answer, task.answer # Gone)
          /\ \/ task' = [is |-> "page", answer |-> Page, reset |-> TRUE, arrived |-> {}]
             \/ task' = Idle
      BY <1>6 DEF ChangeAnswered
    <2>2. AreMarked(stores')
      BY <1>0, <2>1, AnswersMark DEF TaskIsAbout
    <2>3. TaskIsAbout'
      BY <1>0, <2>1 DEF TaskIsAbout, Page
    <2>. QED BY <2>1, <2>2, <2>3
  <1>7. CASE ApplyAnswer
    <2>1. stores' = Result /\ task.is \in Single /\ task' = Idle
      BY <1>7 DEF ApplyAnswer
    <2>2. TaskIsAbout'
      BY <1>0, <2>1 DEF TaskIsAbout
    <2>3. CASE task.is \in {"refresh", "standard", "propagation", "conversations", "job", "start"}
      <3>1. \/ stores' = SetSnapshot(stores, Generation, task.command.kind,
                                     [r \in Records |-> task.answer])
            \/ stores' = SetStandard(stores, Generation, task.answer)
            \/ stores' = SetPropagation(stores, Generation, "ready")
            \/ stores' = MergeConversations(stores, Generation, TRUE, FALSE)
            \/ stores' = FinishJob(stores, Generation, task.answer, "succeeded")
            \/ stores' = ApplyObservation(stores, "operations", task.record, task.answer).stores
        BY <2>1, <2>3 DEF Result
      <3>2. MarksStay(stores, stores')
        BY <1>0, <3>1, MarksAreLeft
      <3>. QED BY <1>0, <2>2, <2>3, <3>2, MarkedAfter
    <2>4. CASE task.is = "query"
      <3>1. stores' = ResolveMessage(stores, Generation, task.message, task.answer)
        BY <2>1, <2>4 DEF Result
      <3>2. AreMarked(stores')
        BY <1>0, <2>4, <3>1, AnswersMark DEF TaskIsAbout
      <3>. QED BY <2>2, <2>4, <3>2
    <2>5. CASE task.is = "page"
      <3>1. \/ stores' = MergePage(ResetPeer(stores, Generation), Generation, task.answer, FALSE)
            \/ stores' = MergePage(stores, Generation, task.answer, FALSE)
        BY <2>1, <2>5 DEF Result
      <3>2. task.answer \in [Messages -> Int] /\ task.arrived \subseteq Items(stores.live)
        BY <1>0, <2>5 DEF TaskIsAbout
      <3>3. \A m \in Items(stores.live) : stores'.messages[m] = stores.messages[m]
        <4>. DEFINE t == ResetPeer(stores, Generation)
        <4>1. /\ AreMarked(t) /\ t.live = stores.live
              /\ \A m \in Items(stores.live) : t.messages[m] = stores.messages[m]
              /\ \A m \in Items(stores.live) :
                   MergePage(stores, Generation, task.answer, FALSE).messages[m] = stores.messages[m]
          <5>1. AreMarked(stores) /\ task.answer \in [Messages -> Int]
            BY <1>0, <3>2
          <5>2. /\ AreMarked(t) /\ t.live = stores.live
                /\ \A m \in Items(stores.live) : t.messages[m] = stores.messages[m]
                /\ AreMarked(MergePage(stores, Generation, task.answer, FALSE))
                /\ \A m \in Items(stores.live) :
                     MergePage(stores, Generation, task.answer, FALSE).messages[m] = stores.messages[m]
            BY <5>1, PageMarks, Zenon
          <5>. QED BY <5>2
        <4>. HIDE DEF t
        <4>2. \A m \in Items(t.live) :
                MergePage(t, Generation, task.answer, FALSE).messages[m] = t.messages[m]
          <5>1. AreMarked(t) /\ task.answer \in [Messages -> Int]
            BY <3>2, <4>1
          <5>2. /\ AreMarked(ResetPeer(t, Generation)) /\ ResetPeer(t, Generation).live = t.live
                /\ \A m \in Items(t.live) : ResetPeer(t, Generation).messages[m] = t.messages[m]
                /\ AreMarked(MergePage(t, Generation, task.answer, FALSE))
                /\ \A m \in Items(t.live) :
                     MergePage(t, Generation, task.answer, FALSE).messages[m] = t.messages[m]
            BY <5>1, PageMarks, Zenon
          <5>. QED BY <5>2
        <4>3. \/ stores' = MergePage(t, Generation, task.answer, FALSE)
              \/ stores' = MergePage(stores, Generation, task.answer, FALSE)
          BY <3>1 DEF t
        <4>. QED BY <4>1, <4>2, <4>3
      <3>4. AreMarked(stores')
        BY <1>0, <3>1, <3>2, PageMarks
      <3>. QED BY <2>2, <3>2, <3>3, <3>4
    <2>. QED BY <2>1, <2>3, <2>4, <2>5 DEF Single
  <1>8. CASE CallFails
    <2>1. task.is \in Single \union {"sending", "changed"} /\ task' = Idle
          /\ \/ stores' = stores
             \/ task.is # "page" /\ \/ stores' = FailStandard(stores, Generation)
                                     \/ stores' = SetPropagation(stores, Generation, "degraded")
                                     \/ stores' = FinishJob(stores, Generation, task.answer, "failed")
      BY <1>8 DEF CallFails
    <2>2. AreMarked(stores')
      BY <1>0, <2>1, MarksAreLeft, MarkedAfter
    <2>3. TaskIsAbout'
      BY <1>0, <2>1 DEF TaskIsAbout
    <2>. QED BY <2>1, <2>2, <2>3
  <1>. QED BY <1>1, <1>2, <1>3, <1>4, <1>5, <1>6, <1>7, <1>8 DEF Task

(* What is added to the channels is whole. *)
LEMMA WholeAfter ==
  ASSUME SessionAssumption, MessagesCarried, NEW e, IsWhole(e)
  PROVE  /\ events' \in {events, Append(events, e)} =>
              \A i \in DOMAIN events' : IsWhole(events'[i])
         /\ UNCHANGED frames \/ Emit(<<e>>) => \A i \in DOMAIN frames' : IsWhole(frames'[i])
  <1>0. /\ IsQueue(events) /\ \A i \in DOMAIN events : IsWhole(events[i])
        /\ IsQueue(frames) /\ \A i \in DOMAIN frames : IsWhole(frames[i])
    BY DEF MessagesCarried
  <1>1. ASSUME events' = Append(events, e) PROVE \A i \in DOMAIN events' : IsWhole(events'[i])
    <2>1. /\ DOMAIN events = 1 .. Len(events) /\ DOMAIN events' = 1 .. Len(events) + 1
          /\ events'[Len(events) + 1] = e /\ \A i \in DOMAIN events : events'[i] = events[i]
          /\ Len(events) \in Nat
      BY <1>0, <1>1, AppendedItem
    <2>2. \A i \in DOMAIN events' : i \in DOMAIN events \/ i = Len(events) + 1
      BY <2>1
    <2>. QED BY <1>0, <2>1, <2>2
  <1>2. ASSUME Emit(<<e>>) PROVE \A i \in DOMAIN frames' : IsWhole(frames'[i])
    <2>1. Items(frames') \subseteq Items(frames) \cup {e}
      BY <1>0, <1>2, EmittedFrame
    <2>2. \A i \in DOMAIN frames' : frames'[i] \in Items(frames')
      BY DEF Items
    <2>3. \A x \in Items(frames) : IsWhole(x)
      BY <1>0 DEF Items
    <2>. QED BY <2>1, <2>2, <2>3
  <1>. QED BY <1>0, <1>1, <1>2

(* What the daemon holds of the messages, and what it says of them. *)
LEMMA DaemonCarries ==
  ASSUME SessionAssumption, MessagesCarried, UNCHANGED events,
         \/ MessageChanges \/ OtherClient \/ PeerAnnounces \/ NetworkChanges
         \/ DaemonMoves \/ EventConnectionCloses \/ AskForProfile
         \/ Task \/ CallFails
  PROVE  /\ \A i \in DOMAIN events' : IsWhole(events'[i])
         /\ \A i \in DOMAIN frames' : IsWhole(frames'[i])
         /\ "version" \in DOMAIN daemon' /\ daemon'.version \in [Messages -> Int]
  <1>0. "version" \in DOMAIN daemon /\ daemon.version \in [Messages -> Int]
    BY DEF MessagesCarried
  <1>1. /\ \A i \in DOMAIN events' : IsWhole(events'[i])
        /\ UNCHANGED frames => \A i \in DOMAIN frames' : IsWhole(frames'[i])
    BY DEF MessagesCarried
  <1>. DEFINE Held == "version" \in DOMAIN daemon' /\ daemon'.version \in [Messages -> Int]
              Heard == \A i \in DOMAIN frames' : IsWhole(frames'[i])
  <1>2. CASE MessageChanges
    <2>1. PICK m \in Messages, complete \in BOOLEAN :
            /\ daemon.version[m] >= IF m \in Own THEN 1 ELSE 0
            /\ daemon' = [daemon EXCEPT !.version[m] = @ + 1]
            /\ Emit(<<MessageFrame(m, daemon.version[m] + 1, complete)>>)
      BY <1>2 DEF MessageChanges, Push
    <2>2. daemon.version[m] + 1 \in Nat \ {0}
      BY <1>0, <2>1
    <2>3. IsWhole(MessageFrame(m, daemon.version[m] + 1, complete))
      BY <2>2 DEF MessageFrame, IsWhole
    <2>4. Heard
      BY <2>1, <2>3, WholeAfter
    <2>5. Held
      BY <1>0, <2>1, <2>2
    <2>. QED BY <1>1, <2>4, <2>5
  <1>3. CASE OtherClient
    <2>1. PICK m \in Messages, kept \in BOOLEAN :
            /\ daemon' = [daemon EXCEPT !.version[m] = IF kept THEN @ + 1 ELSE Gone]
            /\ Emit(<<OperationFrame>>)
      BY <1>3 DEF OtherClient, Push
    <2>2. IsWhole(OperationFrame)
      BY DEF OperationFrame, IsWhole
    <2>3. daemon.version[m] + 1 \in Int /\ Gone \in Int
      BY <1>0 DEF Gone
    <2>4. Held
      BY <1>0, <2>1, <2>3
    <2>. QED BY <1>1, <2>1, <2>2, <2>4, WholeAfter
  <1>4. CASE PeerAnnounces
    <2>1. PICK d \in Devices :
            /\ daemon' = [daemon EXCEPT !.announced[d] = @ + 1]
            /\ Emit(<<[is |-> "peer", device |-> d, announce |-> daemon.announced[d] + 1]>>)
      BY <1>4 DEF PeerAnnounces, Push
    <2>2. IsWhole([is |-> "peer", device |-> d, announce |-> daemon.announced[d] + 1])
      BY DEF IsWhole
    <2>3. Held
      BY <1>0, <2>1
    <2>4. Heard
      BY <2>1, <2>2, WholeAfter
    <2>. QED BY <1>1, <2>3, <2>4
  <1>5. CASE NetworkChanges
    <2>1. PICK new : IsWhole(new) /\ Emit(<<new>>)
      <3>1. \/ \E k \in ObservedKinds, r \in Records :
                 Emit(<<Observation(k, r, daemon.eventGeneration)>>)
            \/ \E is \in {"route", "standard_changed", "reconcile_requests", "reconcile"} :
                 Emit(<<[is |-> is, generation |-> daemon.eventGeneration]>>)
        BY <1>5 DEF NetworkChanges, Push
      <3>2. /\ \A k, r : IsWhole(Observation(k, r, daemon.eventGeneration))
            /\ \A is \in {"route", "standard_changed", "reconcile_requests", "reconcile"} :
                 IsWhole([is |-> is, generation |-> daemon.eventGeneration])
        BY DEF Observation, IsWhole
      <3>. QED BY <3>1, <3>2
    <2>2. daemon' = daemon
      BY <1>5 DEF NetworkChanges
    <2>. QED BY <1>0, <1>1, <2>1, <2>2, WholeAfter
  <1>6. CASE DaemonMoves \/ EventConnectionCloses \/ AskForProfile
    <2>1. UNCHANGED frames
      BY <1>6 DEF DaemonMoves, EventConnectionCloses, AskForProfile, wire
    <2>2. Held
      BY <1>0, <1>6 DEF DaemonMoves, EventConnectionCloses, AskForProfile
    <2>. QED BY <1>1, <2>1, <2>2
  <1>7. CASE Task \/ CallFails
    <2>1. UNCHANGED frames \/ Emit(<<OperationFrame>>)
      BY <1>7 DEF Task, DropCommand, TakeRefresh, TakeLoad, TakeQuery, TakeSend, TakeChange, TakeJob,
             TakeStart, SendMessage, OutcomeApplied, DraftDiscarded, ChangeAnswered, ApplyAnswer,
             CallFails, wire
    <2>2. IsWhole(OperationFrame)
      BY DEF OperationFrame, IsWhole
    <2>3. Heard
      BY <2>1, <2>2, WholeAfter
    <2>4. \/ daemon' = daemon
          \/ \E m \in Messages : daemon' = [daemon EXCEPT !.version[m] = 1]
          \/ \E m \in Messages : daemon' = [daemon EXCEPT !.version[m] = @ + 1]
      <3>1. CASE SendMessage
        BY <3>1 DEF SendMessage, SessionAssumption
      <3>2. CASE TakeChange
        BY <3>2 DEF TakeChange
      <3>3. CASE ~SendMessage /\ ~TakeChange
        BY <1>7, <3>3
        DEF Task, DropCommand, TakeRefresh, TakeLoad, TakeQuery, TakeSend, TakeJob, TakeStart,
            OutcomeApplied, DraftDiscarded, ChangeAnswered, ApplyAnswer, CallFails
      <3>. QED BY <3>1, <3>2, <3>3
    <2>5. Held
      BY <1>0, <2>4
    <2>. QED BY <1>1, <2>3, <2>5
  <1>. QED BY <1>2, <1>3, <1>4, <1>5, <1>6, <1>7

LEMMA CarriedAfter ==
  ASSUME SessionInv, MessagesCarried, [Next]_vars
  PROVE  MessagesCarried'
  <1>. USE SessionAssumption
  <1>0. /\ IsQueue(events') /\ IsQueue(frames') /\ IsQueue(events) /\ IsQueue(frames)
        /\ \A i \in DOMAIN events : IsWhole(events[i])
        /\ \A i \in DOMAIN frames : IsWhole(frames[i])
        /\ "version" \in DOMAIN daemon /\ daemon.version \in [Messages -> Int]
    BY SessionInvIsKept DEF SessionInv, AreEvents, MessagesCarried
  <1>1. /\ \A i \in DOMAIN events' : IsWhole(events'[i])
        /\ \A i \in DOMAIN frames' : IsWhole(frames'[i])
        /\ "version" \in DOMAIN daemon' /\ daemon'.version \in [Messages -> Int]
    <2>. DEFINE none == [is |-> "disconnected"]
    <2>0. IsWhole(none)
      BY DEF IsWhole
    <2>1. CASE UNCHANGED <<events, frames, daemon>>
      BY <1>0, <2>1
    <2>2. CASE Opens
      <3>. DEFINE one   == [is |-> "connected"]
                  two   == StatusOf(daemon.given + 1)
                  three == PathsOf(daemon.given + 1)
                  four  == [is |-> "event_generation", generation |-> daemon.given + 2]
      <3>1. /\ events' = <<one, two, three, four>> /\ frames' = <<>>
            /\ daemon' = [daemon EXCEPT !.commandGeneration = daemon.given + 1,
                                        !.eventGeneration = daemon.given + 2,
                                        !.given = daemon.given + 2]
        BY <2>2 DEF Opens
      <3>2. IsWhole(one) /\ IsWhole(two) /\ IsWhole(three) /\ IsWhole(four)
        BY DEF IsWhole, StatusOf, PathsOf
      <3>3. "version" \in DOMAIN daemon' /\ daemon'.version = daemon.version
        BY <1>0, <3>1
      <3>. HIDE DEF one, two, three, four
      <3>4. \A i \in DOMAIN events' : IsWhole(events'[i])
        BY <3>1, <3>2
      <3>5. DOMAIN frames' = {}
        BY <3>1, EmptyQueue
      <3>. QED BY <1>0, <3>3, <3>4, <3>5
    <2>3. CASE HandleEvent
      <3>1. events # <<>> /\ events' = Tail(events) /\ UNCHANGED <<frames, daemon>>
        BY <2>3 DEF HandleEvent, wire
      <3>2. \A i \in DOMAIN events' : i + 1 \in DOMAIN events /\ events'[i] = events[i + 1]
        BY <1>0, <3>1, ShortenedQueue
      <3>. QED BY <1>0, <3>1, <3>2
    <2>4. CASE Replace
      <3>1. DOMAIN events' = {} /\ DOMAIN frames' = {} /\ UNCHANGED daemon
        BY <2>4, EmptyQueue DEF Replace
      <3>. QED BY <1>0, <3>1
    <2>5. CASE Begin \/ SendReload \/ EventsEnd \/ OpenFails \/ Command
      BY <2>1, <2>5 DEF Begin, SendReload, EventsEnd, OpenFails, Command, wire
    <2>6. CASE Reader
      <3>0. UNCHANGED daemon
        BY <2>6 DEF Reader, ReadFrame, ReadLag, ReportGap, ReadClosed, ReportClosed, FeederLeaves
      <3>1. CASE ReadFrame
        <4>1. /\ events' \in {events, Append(events, Head(frames))}
              /\ frames # <<>> /\ frames' = Tail(frames)
          BY <3>1 DEF ReadFrame, Deliver
        <4>2. /\ Head(frames) = frames[1] /\ 1 \in DOMAIN frames
              /\ \A i \in DOMAIN frames' : i + 1 \in DOMAIN frames /\ frames'[i] = frames[i + 1]
          BY <1>0, <4>1, ShortenedQueue
        <4>3. IsWhole(Head(frames))
          BY <1>0, <4>2
        <4>4. \A i \in DOMAIN events' : IsWhole(events'[i])
          BY <4>1, <4>3, WholeAfter
        <4>. QED BY <1>0, <3>0, <4>2, <4>4
      <3>2. CASE ReadLag \/ ReadClosed \/ ReportClosed
        <4>1. events' \in {events, Append(events, none)} /\ UNCHANGED frames
          BY <3>2 DEF ReadLag, ReadClosed, ReportClosed, Deliver, wire
        <4>. QED BY <1>0, <2>0, <3>0, <4>1, WholeAfter
      <3>3. CASE ReportGap
        <4>. DEFINE gap == [is |-> "reconcile", generation |-> daemon.eventGeneration]
        <4>1. events' = Append(events, gap) /\ UNCHANGED frames /\ IsWhole(gap)
          BY <3>3 DEF ReportGap, Deliver, wire, IsWhole
        <4>. HIDE DEF gap
        <4>. QED BY <1>0, <3>0, <4>1, WholeAfter
      <3>. QED BY <2>6, <3>1, <3>2, <3>3 DEF Reader
    <2>7. CASE Poller \/ PollFails \/ PollRound
      <3>0. UNCHANGED <<daemon, frames>>
        BY <2>7 DEF Poller, Poll, PollEnds, PollRound, PollFails, FeederLeaves, wire
      <3>1. CASE UNCHANGED events
        BY <2>1, <3>0, <3>1
      <3>2. CASE Poll /\ ~UNCHANGED events
        <4>1. PICK e \in Polled(Head(poller)) : events' \in {events, Append(events, e)}
          BY <3>2 DEF Poll, TryDeliver
        <4>2. Head(poller) \in {"status", "peers", "paths", "observations"}
          BY <3>2 DEF Poll, ToSet, Round
        <4>3. e.is \in {"status", "peer", "path_table", "observation"}
          BY <4>1, <4>2 DEF Polled, StatusOf, PathsOf, Observation
        <4>4. IsWhole(e)
          BY <4>3 DEF IsWhole
        <4>. QED BY <1>0, <3>0, <4>1, <4>4, WholeAfter
      <3>3. CASE PollEnds
        <4>1. events' = Append(events, none)
          BY <3>3 DEF PollEnds, Deliver
        <4>. QED BY <1>0, <2>0, <3>0, <4>1, WholeAfter
      <3>4. CASE PollRound \/ PollFails
        BY <3>1, <3>4 DEF PollRound, PollFails
      <3>. QED BY <2>7, <3>1, <3>2, <3>3, <3>4 DEF Poller
    <2>8. CASE \/ MessageChanges \/ OtherClient \/ PeerAnnounces \/ NetworkChanges
               \/ DaemonMoves \/ EventConnectionCloses \/ AskForProfile \/ Task \/ CallFails
      <3>1. UNCHANGED events
        BY <2>8, AnswersGoOn DEF MessageChanges, OtherClient, PeerAnnounces, NetworkChanges,
              DaemonMoves, EventConnectionCloses, AskForProfile, Push
      <3>. QED BY <2>8, <3>1, DaemonCarries
    <2>. QED BY <2>1, <2>2, <2>3, <2>4, <2>5, <2>6, <2>7, <2>8 DEF Next, Coroutine, vars, wire
  <1>. QED BY <1>0, <1>1 DEF MessagesCarried

(* Nothing arrives for a page, and no page is answered, that has it forgotten. *)
LEMMA LiveInvIsKept ==
  ASSUME FewMessages, SessionInv, LiveInv, [Next]_vars
  PROVE  /\ LiveInv'
         /\ task.is = "page" /\ task' = Idle /\ main' = main =>
              \A m \in task.arrived : stores'.messages[m] = stores.messages[m]
  <1>. DEFINE Outlives == task.is = "page" /\ task' = Idle /\ main' = main =>
                            \A m \in task.arrived : stores'.messages[m] = stores.messages[m]
  <1>0. AreMarked(stores) /\ TaskIsAbout /\ MessagesCarried' /\ Idle.is = "idle"
    BY CarriedAfter DEF LiveInv, Idle
  <1>1. CASE UNCHANGED <<stores, task>>
    <2>1. AreMarked(stores') /\ TaskIsAbout'
      BY <1>0, <1>1 DEF TaskIsAbout
    <2>. QED BY <1>0, <1>1, <2>1 DEF LiveInv
  <1>2. CASE Task \/ CallFails
    BY <1>0, <1>2, TaskKeepsLive DEF LiveInv
  <1>3. CASE HandleEvent
    <2>1. AreMarked(stores') /\ TaskIsAbout' /\ task'.is = task.is
      BY <1>3, EventKeepsLive
    <2>. QED BY <1>0, <2>1 DEF LiveInv
  <1>4. CASE Begin \/ OpenFails
    <2>1. task = Idle /\ task' = Idle
      BY <1>4 DEF Begin, OpenFails, SessionInv, NotBegun
    <2>2. AreMarked(stores')
      <3>1. CASE Begin
        <4>1. DOMAIN <<>> = {} /\ <<>> \in Seq(Messages)
          BY EmptyQueue
        <4>2. stores' = BeginSession(Generation + 1)
          BY <3>1 DEF Begin
        <4>3. /\ stores'.live = <<>> /\ stores'.messages = [m \in Messages |-> 0]
              /\ {"messages", "live", "cursors", "state"} \subseteq DOMAIN stores'
          BY <4>2 DEF BeginSession, Default
        <4>. QED BY <4>1, <4>3 DEF AreMarked, NoneTwice, Items
      <3>2. CASE OpenFails
        <4>1. MarksStay(stores, stores')
          BY <1>0, <3>2, MarksAreLeft DEF OpenFails
        <4>. QED BY <1>0, <4>1, MarkedAfter
      <3>. QED BY <1>4, <3>1, <3>2
    <2>. QED BY <1>0, <2>1, <2>2 DEF LiveInv, TaskIsAbout
  <1>5. CASE Replace
    <2>1. stores' = stores /\ task' = Idle /\ main' # main
      BY <1>5 DEF Replace
    <2>. QED BY <1>0, <2>1 DEF LiveInv, TaskIsAbout
  <1>6. CASE Opens \/ SendReload \/ EventsEnd \/ Command \/ AskForProfile
    BY <1>1, <1>6 DEF Opens, SendReload, EventsEnd, Command, AskForProfile
  <1>7. CASE Reader \/ Poller \/ PollFails \/ PollRound
    BY <1>1, <1>7
    DEF Reader, ReadFrame, ReadLag, ReportGap, ReadClosed, ReportClosed, Poller, Poll, PollEnds,
        PollFails, PollRound, FeederLeaves
  <1>8. CASE MessageChanges \/ OtherClient \/ PeerAnnounces \/ NetworkChanges \/ DaemonMoves
             \/ EventConnectionCloses
    BY <1>1, <1>8
    DEF MessageChanges, OtherClient, PeerAnnounces, NetworkChanges, DaemonMoves,
        EventConnectionCloses, Push
  <1>. QED BY <1>1, <1>2, <1>3, <1>4, <1>5, <1>6, <1>7, <1>8 DEF Next, Coroutine, vars

(* A page of messages takes back nothing that arrived whole while it was on its
   way: LiveOutlivesPage of the run Screens, for a conversation with no more
   messages than are ever marked.  Beyond that the oldest mark is displaced, and
   a page may take its message back. *)
THEOREM LiveOutlivesPages ==
  ASSUME FewMessages PROVE Spec => LiveOutlivesPage
  <1>1. Init => LiveInv
    BY LiveInvHolds
  <1>2. /\ SessionInv /\ LiveInv /\ [Next]_vars => LiveInv'
        /\ SessionInv /\ LiveInv /\ [Next]_vars =>
             [task.is = "page" /\ task' = Idle /\ main' = main =>
                \A m \in task.arrived : stores'.messages[m] = stores.messages[m]]_vars
    BY LiveInvIsKept
  <1>. QED BY <1>1, <1>2, SessionInvHolds, SessionInvIsKept, PTL DEF Spec, LiveOutlivesPage

-----------------------------------------------------------------------------
(* The messages surface: the thread that is open. *)

Thread == IF threadOpen THEN selectedPeer ELSE Nobody

Activates(action) == action.is \in {"SetActiveConversation", "StartConversation"}

(* The last action on the way that opens a conversation is about the thread;
   where none is on the way, the node has the thread's conversation active. *)
FollowsThread ==
  ~adrift =>
    \/ active = Thread /\ \A i \in DOMAIN tapped : ~Activates(tapped[i])
    \/ \E i \in DOMAIN tapped :
         /\ Activates(tapped[i]) /\ tapped[i].peer = Thread
         /\ \A j \in DOMAIN tapped : j > i => ~Activates(tapped[j])

ThreadInv == IsQueue(tapped) /\ FollowsThread

(* A tap opens the thread it asks the node for, or leaves both alone. *)
LEMMA TapFollows ==
  ASSUME ThreadInv, NEW action, Dispatch(action), UNCHANGED active,
         \/ Activates(action) /\ action.peer = Thread'
         \/ ~Activates(action) /\ Thread' = Thread
  PROVE  ThreadInv'
  <1>1. CASE tapped' = tapped /\ Loses(action)
    BY <1>1 DEF ThreadInv, FollowsThread, Loses, Activates
  <1>2. CASE tapped' = Append(tapped, action) /\ UNCHANGED adrift
    <2>1. /\ IsQueue(tapped') /\ Len(tapped) \in Nat /\ DOMAIN tapped = 1 .. Len(tapped)
          /\ DOMAIN tapped' = 1 .. Len(tapped) + 1 /\ tapped'[Len(tapped) + 1] = action
          /\ \A i \in DOMAIN tapped : tapped'[i] = tapped[i]
      BY <1>2, AppendedItem DEF ThreadInv
    <2>2. CASE Activates(action) /\ action.peer = Thread'
      <3>. DEFINE last == Len(tapped) + 1
      <3>1. /\ last \in DOMAIN tapped' /\ tapped'[last] = action
            /\ \A j \in DOMAIN tapped' : ~(j > last)
        BY <2>1
      <3>. HIDE DEF last
      <3>. QED BY <2>1, <2>2, <3>1 DEF ThreadInv, FollowsThread
    <2>3. CASE ~Activates(action) /\ Thread' = Thread
      <3>1. \A i \in DOMAIN tapped' : \/ i \in DOMAIN tapped /\ tapped'[i] = tapped[i]
                                      \/ tapped'[i] = action
        BY <2>1
      <3>2. CASE active = Thread /\ \A i \in DOMAIN tapped : ~Activates(tapped[i])
        BY <2>1, <2>3, <3>1, <3>2 DEF ThreadInv, FollowsThread
      <3>3. ASSUME NEW i \in DOMAIN tapped, Activates(tapped[i]), tapped[i].peer = Thread,
                   \A j \in DOMAIN tapped : j > i => ~Activates(tapped[j])
            PROVE  ThreadInv'
        <4>1. /\ i \in DOMAIN tapped' /\ Activates(tapped'[i]) /\ tapped'[i].peer = Thread'
              /\ \A j \in DOMAIN tapped' : j > i => ~Activates(tapped'[j])
          BY <2>1, <2>3, <3>1, <3>3
        <4>. QED BY <2>1, <4>1 DEF ThreadInv, FollowsThread
      <3>4. CASE adrift
        BY <1>2, <2>1, <3>4 DEF ThreadInv, FollowsThread
      <3>. QED BY <3>2, <3>3, <3>4 DEF ThreadInv, FollowsThread
    <2>. QED BY <2>2, <2>3
  <1>. QED BY <1>1, <1>2 DEF Dispatch

(* The owner takes the first action: the node does what it says, or has lost track. *)
LEMMA TakenFollows ==
  ASSUME ThreadInv, TakeTapped, Thread' = Thread, adrift => adrift',
         \/ adrift'
         \/ Activates(Head(tapped)) /\ active' = Head(tapped).peer
         \/ ~Activates(Head(tapped)) /\ active' = active
  PROVE  ThreadInv'
  <1>1. /\ IsQueue(tapped') /\ Len(tapped) \in Nat \ {0} /\ DOMAIN tapped = 1 .. Len(tapped)
        /\ DOMAIN tapped' = 1 .. Len(tapped) - 1 /\ Head(tapped) = tapped[1]
        /\ \A i \in DOMAIN tapped' : i + 1 \in DOMAIN tapped /\ tapped'[i] = tapped[i + 1]
    BY ShortenedQueue DEF ThreadInv, TakeTapped
  <1>2. CASE adrift'
    BY <1>1, <1>2 DEF ThreadInv, FollowsThread
  <1>3. CASE ~adrift'
    <2>1. CASE active = Thread /\ \A i \in DOMAIN tapped : ~Activates(tapped[i])
      <3>1. 1 \in DOMAIN tapped /\ active' = active /\ \A i \in DOMAIN tapped' : ~Activates(tapped'[i])
        BY <1>1, <1>3, <2>1
      <3>. QED BY <1>1, <2>1, <3>1 DEF ThreadInv, FollowsThread
    <2>2. ASSUME NEW i \in DOMAIN tapped, Activates(tapped[i]), tapped[i].peer = Thread,
                 \A j \in DOMAIN tapped : j > i => ~Activates(tapped[j])
          PROVE  ThreadInv'
      <3>1. CASE i = 1
        <4>1. active' = Thread /\ \A j \in DOMAIN tapped' : ~Activates(tapped'[j])
          BY <1>1, <1>3, <2>2, <3>1
        <4>. QED BY <1>1, <4>1 DEF ThreadInv, FollowsThread
      <3>2. CASE i # 1
        <4>. DEFINE k == i - 1
        <4>1. /\ k \in DOMAIN tapped' /\ tapped'[k] = tapped[i]
              /\ \A j \in DOMAIN tapped' : j > k => ~Activates(tapped'[j])
          BY <1>1, <2>2, <3>2
        <4>. HIDE DEF k
        <4>. QED BY <1>1, <2>2, <4>1 DEF ThreadInv, FollowsThread
      <3>. QED BY <3>1, <3>2
    <2>. QED BY <1>3, <2>1, <2>2 DEF ThreadInv, FollowsThread
  <1>. QED BY <1>2, <1>3

LEMMA ThreadInvIsKept == ThreadInv /\ [ComposerNext]_composerVars => ThreadInv'
  <1>. SUFFICES ASSUME ThreadInv, [ComposerNext]_composerVars PROVE ThreadInv'
    OBVIOUS
  <1>0. \A p : /\ Activates(SetActiveConversation(p)) /\ SetActiveConversation(p).peer = p
               /\ Activates(StartConversation(p)) /\ StartConversation(p).peer = p
    BY DEF Activates, SetActiveConversation, StartConversation, MobileAction
  <1>1. ASSUME NEW p, SelectConversation(p) \/ ChooseContact(p) \/ AddContact(p)
        PROVE  ThreadInv'
    <2>1. /\ Dispatch(SetActiveConversation(p)) \/ Dispatch(StartConversation(p))
          /\ UNCHANGED active /\ Thread' = p
      BY <1>1 DEF SelectConversation, ChooseContact, AddContact, Issue, ShowThread, Thread, nodeState
    <2>. QED BY <1>0, <2>1, TapFollows
  <1>2. CASE CloseThread \/ LeaveMessages
    <2>1. CASE Dispatch(SetActiveConversation(Nobody)) /\ UNCHANGED active /\ Thread' = Nobody
      BY <1>0, <2>1, TapFollows
    <2>2. CASE UNCHANGED <<tapped, active, adrift>> /\ Thread' = Thread
      BY <2>2 DEF ThreadInv, FollowsThread
    <2>3. \/ Dispatch(SetActiveConversation(Nobody)) /\ UNCHANGED active /\ Thread' = Nobody
          \/ UNCHANGED <<tapped, active, adrift>> /\ Thread' = Thread
      BY <1>2 DEF CloseThread, LeaveMessages, Issue, Thread, nodeState, witness
    <2>. QED BY <2>1, <2>2, <2>3
  <1>3. ASSUME NEW p, NewMessage(p) PROVE ThreadInv'
    <2>1. adrift' /\ tapped' \in {tapped, Append(tapped, StartConversation(p))}
      BY <1>3 DEF NewMessage
    <2>2. \A action : IsQueue(Append(tapped, action))
      BY AppendedItem DEF ThreadInv
    <2>3. IsQueue(tapped')
      BY <2>1, <2>2 DEF ThreadInv
    <2>. QED BY <2>1, <2>3 DEF ThreadInv, FollowsThread
  <1>4. CASE TypeText \/ SendTap
    <2>1. \E action : Dispatch(action) /\ ~Activates(action) /\ UNCHANGED active /\ Thread' = Thread
      <3>1. CASE TypeText
        <4>. DEFINE action == MobileAction("SaveDraft", Selected, Earlier + keys',
                                           screen.drafts[Selected].revision)
        <4>1. Dispatch(action) /\ UNCHANGED active /\ Thread' = Thread
          BY <3>1 DEF TypeText, Thread, nodeState, shellState
        <4>2. ~Activates(action)
          BY DEF Activates, MobileAction
        <4>. HIDE DEF action
        <4>. QED BY <4>1, <4>2
      <3>2. CASE SendTap
        <4>. DEFINE action == MobileAction("SubmitMessage", Selected, ShownText(Selected),
                                           screen.drafts[Selected].revision)
        <4>1. Dispatch(action) /\ UNCHANGED active /\ Thread' = Thread
          BY <3>2 DEF SendTap, Issue, Thread, nodeState, shellState
        <4>2. ~Activates(action)
          BY DEF Activates, MobileAction
        <4>. HIDE DEF action
        <4>. QED BY <4>1, <4>2
      <3>. QED BY <1>4, <3>1, <3>2
    <2>. QED BY <2>1, TapFollows
  <1>5. CASE CarryOut
    <2>1. TakeTapped /\ Thread' = Thread /\ adrift' = adrift /\ ExecuteAction(Head(tapped))
      BY <1>5 DEF CarryOut, Thread, shellState
    <2>2. \/ Activates(Head(tapped)) /\ active' = Head(tapped).peer
          \/ ~Activates(Head(tapped)) /\ active' = active
      BY <2>1 DEF ExecuteAction, SaveDraft, SubmitMessage, Activates
    <2>. QED BY <2>1, <2>2, TakenFollows
  <1>6. CASE RefuseTapped \/ DropStale
    <2>1. TakeTapped /\ Thread' = Thread /\ active' = active /\ Loses(Head(tapped))
      BY <1>6 DEF RefuseTapped, DropStale, Thread, shellState, nodeState
    <2>2. (adrift => adrift') /\ (adrift' \/ ~Activates(Head(tapped)))
      BY <2>1 DEF Loses, Activates
    <2>. QED BY <2>1, <2>2, TakenFollows
  <1>7. CASE ReplaceNode
    BY <1>7 DEF ReplaceNode, ThreadInv, FollowsThread
  <1>8. CASE ReturnToMessages \/ SendLimitElapses \/ ReceiveSnapshot \/ PublishSnapshot
             \/ ProjectionFails \/ UNCHANGED composerVars
    <2>1. UNCHANGED <<tapped, active, adrift, selectedPeer, threadOpen>>
      BY <1>8 DEF ReturnToMessages, SendLimitElapses, ReceiveSnapshot, PublishSnapshot,
                  ProjectionFails, composerVars, nodeState, shellState, witness
    <2>. QED BY <2>1 DEF ThreadInv, FollowsThread, Thread
  <1>. QED BY <1>1, <1>2, <1>3, <1>4, <1>5, <1>6, <1>7, <1>8 DEF ComposerNext

(* When everything tapped has been dealt with the conversation the node takes
   to be open is the one whose thread is: ThreadIsActive of the run Screens. *)
THEOREM ThreadsAreActive ==
  ComposerSpec => []ThreadIsActive
  <1>1. ComposerInit => ThreadInv
    <2>1. IsQueue(<<>>) /\ DOMAIN <<>> = {}
      BY EmptyQueue DEF IsQueue, Items
    <2>2. ComposerInit => tapped = <<>> /\ active = Nobody /\ Thread = Nobody
      BY DEF ComposerInit, Thread
    <2>. QED BY <2>1, <2>2 DEF ThreadInv, FollowsThread
  <1>2. ThreadInv => ThreadIsActive
    <2>1. tapped = <<>> => DOMAIN tapped = {}
      BY EmptyQueue
    <2>. QED BY <2>1 DEF ThreadInv, FollowsThread, ThreadIsActive, Quiet, Thread
  <1>. QED BY <1>1, <1>2, ThreadInvIsKept, PTL DEF ComposerSpec

-----------------------------------------------------------------------------
(* The messages surface: the text that was typed. *)

Revisions == 0 .. Earlier + keys

(* A draft has the text of its revision, or was sent. *)
AreDrafts(d) ==
  /\ DOMAIN d = Peers
  /\ \A p \in Peers : d[p].revision \in Revisions /\ d[p].text \in {Empty, d[p].revision}

TextsShaped ==
  /\ IsQueue(tapped) /\ keys \in Nat /\ typed \in [Peers -> Revisions]
  /\ AreDrafts(drafts) /\ AreDrafts(screen.drafts)
  /\ update # <<>> => AreDrafts(Head(update).drafts)

(* The buffer holds what was typed, over a revision that was there before. *)
BufferIsTyped ==
  \A p \in Peers \cap DOMAIN draftBuffers :
    /\ draftBuffers[p].text = typed[p]
    /\ draftBuffers[p].revision \in Nat /\ draftBuffers[p].revision < typed[p]

(* A message on the way is the draft it names, or names one that was typed over. *)
SubmitsShown ==
  \A i \in DOMAIN tapped : \A p \in Peers :
    tapped[i].is = "SubmitMessage" /\ tapped[i].peer = p =>
      \/ tapped[i].text = tapped[i].revision
      \/ tapped[i].revision \in Nat /\ tapped[i].revision < typed[p]

IsSave(action, p) == action.is = "SaveDraft" /\ action.peer = p

SavesTyped == \A i \in DOMAIN tapped : tapped[i].is = "SaveDraft" => tapped[i].text \in Revisions

(* The text typed last is the node's draft, or on its way to be. *)
Stored(p) == drafts[p].text = typed[p] /\ \A i \in DOMAIN tapped : ~IsSave(tapped[i], p)
OnItsWay(p) ==
  \E i \in DOMAIN tapped :
    /\ IsSave(tapped[i], p) /\ tapped[i].text = typed[p]
    /\ \A j \in DOMAIN tapped : j > i => ~IsSave(tapped[j], p)

NotForgotten == \A p \in Peers : typed[p] \in delivered \cup lost \/ Stored(p) \/ OnItsWay(p)

TypedInv == TextsShaped /\ BufferIsTyped /\ SubmitsShown /\ SavesTyped /\ NotForgotten

(* What waits, after something more was tapped or the first of it was taken. *)
LEMMA TappedMore ==
  ASSUME IsQueue(tapped), NEW action,
         Dispatch(action) \/ (tapped' = Append(tapped, action) /\ UNCHANGED lost)
  PROVE  /\ IsQueue(tapped') /\ lost \subseteq lost'
         /\ \A i \in DOMAIN tapped' : \/ i \in DOMAIN tapped /\ tapped'[i] = tapped[i]
                                      \/ tapped'[i] = action
         /\ action.is = "SaveDraft" =>
              \/ action.text \in lost'
              \/ \E i \in DOMAIN tapped' :
                   tapped'[i] = action /\ \A j \in DOMAIN tapped' : ~(j > i)
         /\ \A i \in DOMAIN tapped : i \in DOMAIN tapped' /\ tapped'[i] = tapped[i]
  <1>1. CASE tapped' = tapped /\ Loses(action)
    BY <1>1 DEF Loses
  <1>2. CASE tapped' = Append(tapped, action) /\ UNCHANGED lost
    <2>. DEFINE last == Len(tapped) + 1
    <2>1. /\ IsQueue(tapped') /\ Len(tapped) \in Nat /\ DOMAIN tapped = 1 .. Len(tapped)
          /\ DOMAIN tapped' = 1 .. last /\ tapped'[last] = action
          /\ \A i \in DOMAIN tapped : tapped'[i] = tapped[i]
      BY <1>2, AppendedItem
    <2>2. last \in DOMAIN tapped' /\ \A j \in DOMAIN tapped' : ~(j > last)
      BY <2>1
    <2>3. \A i \in DOMAIN tapped' : \/ i \in DOMAIN tapped /\ tapped'[i] = tapped[i]
                                    \/ tapped'[i] = action
      BY <2>1
    <2>4. \A i \in DOMAIN tapped : i \in DOMAIN tapped'
      BY <2>1
    <2>. HIDE DEF last
    <2>. QED BY <1>2, <2>1, <2>2, <2>3, <2>4
  <1>. QED BY <1>1, <1>2 DEF Dispatch

(* A tap that types nothing leaves what was typed where it is. *)
LEMMA TapKeepsTyped ==
  ASSUME TypedInv, NEW action,
         Dispatch(action) \/ (tapped' = Append(tapped, action) /\ UNCHANGED lost),
         UNCHANGED <<drafts, screen, update, keys, typed, draftBuffers, delivered>>,
         action.is # "SaveDraft",
         action.is = "SubmitMessage" /\ action.peer \in Peers =>
           \/ action.text = action.revision
           \/ action.revision \in Nat /\ action.revision < typed[action.peer]
  PROVE  TypedInv'
  <1>1. /\ IsQueue(tapped') /\ lost \subseteq lost'
        /\ \A i \in DOMAIN tapped' : \/ i \in DOMAIN tapped /\ tapped'[i] = tapped[i]
                                     \/ tapped'[i] = action
        /\ \A i \in DOMAIN tapped : i \in DOMAIN tapped' /\ tapped'[i] = tapped[i]
    BY TappedMore DEF TypedInv, TextsShaped
  <1>2. TextsShaped' /\ BufferIsTyped'
    BY <1>1 DEF TypedInv, TextsShaped, BufferIsTyped, AreDrafts, Revisions
  <1>3. SubmitsShown' /\ SavesTyped'
    BY <1>1 DEF TypedInv, SubmitsShown, SavesTyped, Revisions
  <1>4. \A p \in Peers : ~IsSave(action, p)
    BY DEF IsSave
  <1>5. ASSUME NEW p \in Peers
        PROVE  typed'[p] \in delivered' \cup lost' \/ Stored(p)' \/ OnItsWay(p)'
    <2>1. typed[p] \in delivered \cup lost \/ Stored(p) \/ OnItsWay(p)
      BY DEF TypedInv, NotForgotten
    <2>2. CASE typed[p] \in delivered \cup lost
      BY <1>1, <2>2
    <2>3. CASE Stored(p)
      BY <1>1, <1>4, <2>3 DEF Stored
    <2>4. CASE OnItsWay(p)
      <3>1. PICK i \in DOMAIN tapped : /\ IsSave(tapped[i], p) /\ tapped[i].text = typed[p]
                                       /\ \A j \in DOMAIN tapped : j > i => ~IsSave(tapped[j], p)
        BY <2>4 DEF OnItsWay
      <3>2. /\ i \in DOMAIN tapped' /\ IsSave(tapped'[i], p) /\ tapped'[i].text = typed'[p]
            /\ \A j \in DOMAIN tapped' : j > i => ~IsSave(tapped'[j], p)
        BY <1>1, <1>4, <3>1
      <3>. QED BY <3>2 DEF OnItsWay
    <2>. QED BY <2>1, <2>2, <2>3, <2>4
  <1>. QED BY <1>2, <1>3, <1>5 DEF TypedInv, NotForgotten

(* A keystroke is newer than everything. *)
LEMMA KeystrokeIsKept ==
  ASSUME TypedInv, TypeText
  PROVE  TypedInv'
  <1>. DEFINE peer   == Selected
              text   == Earlier + keys'
              over   == screen.drafts[peer].revision
              action == MobileAction("SaveDraft", peer, text, over)
  <1>1. /\ keys' = keys + 1 /\ Dispatch(action) /\ typed' = [typed EXCEPT ![peer] = text]
        /\ draftBuffers' = [p \in DOMAIN draftBuffers \cup {peer} |->
                              IF p = peer THEN [revision |-> over, text |-> text]
                              ELSE draftBuffers[p]]
        /\ UNCHANGED <<drafts, screen, update, delivered>>
    BY DEF TypeText, nodeState
  <1>2. action.is = "SaveDraft" /\ action.peer = peer /\ action.text = text
    BY DEF MobileAction
  <1>. HIDE DEF peer
  <1>3. /\ DOMAIN draftBuffers' = DOMAIN draftBuffers \cup {peer}
        /\ draftBuffers'[peer].revision = over /\ draftBuffers'[peer].text = text
        /\ \A p \in DOMAIN draftBuffers : p # peer => draftBuffers'[p] = draftBuffers[p]
    BY <1>1
  <1>. HIDE DEF action
  <1>4. /\ keys \in Nat /\ text \in Nat /\ Revisions \subseteq Revisions' /\ text \in Revisions'
        /\ \A r \in Revisions : r \in Nat /\ r < text
    BY <1>1 DEF TypedInv, TextsShaped, Revisions, Earlier
  <1>. HIDE DEF text
  <1>5. /\ typed \in [Peers -> Revisions] /\ AreDrafts(screen.drafts) /\ AreDrafts(drafts)
        /\ update # <<>> => AreDrafts(Head(update).drafts)
    BY DEF TypedInv, TextsShaped
  <1>6. /\ \A p \in Peers : typed'[p] = IF p = peer THEN text ELSE typed[p]
        /\ \A p \in Peers : typed[p] \in Nat /\ typed[p] <= typed'[p]
        /\ typed' \in [Peers -> Revisions']
    <2>1. /\ \A p \in Peers : typed'[p] = IF p = peer THEN text ELSE typed[p]
          /\ DOMAIN typed' = Peers /\ typed' = [p \in Peers |-> typed'[p]]
      BY <1>1, <1>5
    <2>2. \A p \in Peers : typed[p] \in Revisions /\ typed[p] \in Nat /\ typed[p] < text
      BY <1>4, <1>5
    <2>3. \A p \in Peers : typed'[p] \in Revisions' /\ typed[p] <= typed'[p]
      BY <1>4, <2>1, <2>2
    <2>. QED BY <2>1, <2>2, <2>3
  <1>7. /\ IsQueue(tapped') /\ lost \subseteq lost'
        /\ \A i \in DOMAIN tapped' : \/ i \in DOMAIN tapped /\ tapped'[i] = tapped[i]
                                     \/ tapped'[i] = action
        /\ \A i \in DOMAIN tapped : i \in DOMAIN tapped' /\ tapped'[i] = tapped[i]
        /\ \/ text \in lost'
           \/ \E i \in DOMAIN tapped' : tapped'[i] = action /\ \A j \in DOMAIN tapped' : ~(j > i)
    BY <1>1, <1>2, TappedMore DEF TypedInv, TextsShaped
  <1>8. TextsShaped'
    <2>1. keys' \in Nat
      BY <1>1, <1>4
    <2>2. /\ AreDrafts(drafts)' /\ AreDrafts(screen.drafts)'
          /\ update' # <<>> => AreDrafts(Head(update).drafts)'
      BY <1>1, <1>4, <1>5 DEF AreDrafts
    <2>. QED BY <1>6, <1>7, <2>1, <2>2 DEF TextsShaped
  <1>9. BufferIsTyped'
    <2>1. SUFFICES ASSUME NEW p \in Peers \cap DOMAIN draftBuffers'
                   PROVE  /\ draftBuffers'[p].text = typed'[p]
                          /\ draftBuffers'[p].revision \in Nat
                          /\ draftBuffers'[p].revision < typed'[p]
      BY DEF BufferIsTyped
    <2>2. CASE p = peer
      <3>1. over \in Revisions
        BY <1>5, <2>2 DEF AreDrafts
      <3>. QED BY <1>3, <1>4, <1>6, <2>2, <3>1
    <2>3. CASE p # peer
      BY <1>3, <1>6, <2>1, <2>3 DEF TypedInv, BufferIsTyped
    <2>. QED BY <2>2, <2>3
  <1>10. SubmitsShown'
    <2>1. SUFFICES ASSUME NEW i \in DOMAIN tapped', NEW p \in Peers,
                          tapped'[i].is = "SubmitMessage", tapped'[i].peer = p
                   PROVE  \/ tapped'[i].text = tapped'[i].revision
                          \/ tapped'[i].revision \in Nat /\ tapped'[i].revision < typed'[p]
      BY DEF SubmitsShown
    <2>2. i \in DOMAIN tapped /\ tapped'[i] = tapped[i]
      BY <1>2, <1>7, <2>1
    <2>3. \/ tapped[i].text = tapped[i].revision
          \/ tapped[i].revision \in Nat /\ tapped[i].revision < typed[p]
      BY <2>1, <2>2 DEF TypedInv, SubmitsShown
    <2>4. typed[p] \in Nat /\ typed'[p] \in Nat /\ typed[p] <= typed'[p]
      BY <1>4, <1>6
    <2>. QED BY <2>2, <2>3, <2>4
  <1>11. SavesTyped'
    BY <1>2, <1>4, <1>7 DEF TypedInv, SavesTyped
  <1>12. ASSUME NEW p \in Peers
         PROVE  typed'[p] \in delivered' \cup lost' \/ Stored(p)' \/ OnItsWay(p)'
    <2>1. CASE p = peer
      <3>1. CASE text \in lost'
        BY <1>6, <2>1, <3>1
      <3>2. ASSUME NEW i \in DOMAIN tapped', tapped'[i] = action, \A j \in DOMAIN tapped' : ~(j > i)
            PROVE  OnItsWay(p)'
        BY <1>2, <1>6, <2>1, <3>2 DEF OnItsWay, IsSave
      <3>. QED BY <1>7, <3>1, <3>2
    <2>2. CASE p # peer
      <3>1. typed'[p] = typed[p] /\ ~IsSave(action, p)
        BY <1>2, <1>6, <2>2 DEF IsSave
      <3>2. CASE typed[p] \in delivered \cup lost
        BY <1>1, <1>7, <3>1, <3>2
      <3>3. CASE Stored(p)
        BY <1>1, <1>7, <3>1, <3>3 DEF Stored
      <3>4. CASE OnItsWay(p)
        <4>1. PICK i \in DOMAIN tapped : /\ IsSave(tapped[i], p) /\ tapped[i].text = typed[p]
                                         /\ \A j \in DOMAIN tapped : j > i => ~IsSave(tapped[j], p)
          BY <3>4 DEF OnItsWay
        <4>2. /\ i \in DOMAIN tapped' /\ IsSave(tapped'[i], p) /\ tapped'[i].text = typed'[p]
              /\ \A j \in DOMAIN tapped' : j > i => ~IsSave(tapped'[j], p)
          BY <1>7, <3>1, <4>1
        <4>. QED BY <4>2 DEF OnItsWay
      <3>. QED BY <3>2, <3>3, <3>4 DEF TypedInv, NotForgotten
    <2>. QED BY <2>1, <2>2
  <1>. QED BY <1>8, <1>9, <1>10, <1>11, <1>12 DEF TypedInv, NotForgotten

(* The owner takes the first action: what it says of the draft is stored, sent
   or lost. *)
LEMMA TakenKeepsTyped ==
  ASSUME TypedInv, TakeTapped, UNCHANGED <<screen, update, keys, typed, draftBuffers>>,
         delivered \subseteq delivered', lost \subseteq lost', AreDrafts(drafts'),
         \A p \in Peers :
           \/ typed[p] \in delivered' \cup lost'
           \/ ~IsSave(Head(tapped), p) /\ (Stored(p) => drafts'[p].text = typed[p])
           \/ /\ IsSave(Head(tapped), p)
              /\ Head(tapped).text = typed[p] => \/ typed[p] \in lost'
                                                 \/ drafts'[p].text = typed[p]
  PROVE  TypedInv'
  <1>1. /\ IsQueue(tapped') /\ Len(tapped) \in Nat \ {0} /\ DOMAIN tapped = 1 .. Len(tapped)
        /\ DOMAIN tapped' = 1 .. Len(tapped) - 1 /\ Head(tapped) = tapped[1]
        /\ \A i \in DOMAIN tapped' : i + 1 \in DOMAIN tapped /\ tapped'[i] = tapped[i + 1]
    BY ShortenedQueue DEF TypedInv, TextsShaped, TakeTapped
  <1>2. TextsShaped' /\ BufferIsTyped'
    BY <1>1 DEF TypedInv, TextsShaped, BufferIsTyped, AreDrafts, Revisions
  <1>3. SubmitsShown' /\ SavesTyped'
    BY <1>1 DEF TypedInv, SubmitsShown, SavesTyped, Revisions
  <1>4. ASSUME NEW p \in Peers
        PROVE  typed'[p] \in delivered' \cup lost' \/ Stored(p)' \/ OnItsWay(p)'
    <2>1. typed[p] \in delivered \cup lost \/ Stored(p) \/ OnItsWay(p)
      BY DEF TypedInv, NotForgotten
    <2>2. CASE typed[p] \in delivered' \cup lost'
      BY <2>2
    <2>3. CASE Stored(p) /\ typed[p] \notin delivered' \cup lost'
      <3>1. ~IsSave(Head(tapped), p)
        BY <1>1, <2>3 DEF Stored
      <3>2. drafts'[p].text = typed'[p]
        BY <2>3, <3>1
      <3>. QED BY <1>1, <2>3, <3>2 DEF Stored
    <2>4. CASE OnItsWay(p) /\ typed[p] \notin delivered' \cup lost'
      <3>1. PICK i \in DOMAIN tapped : /\ IsSave(tapped[i], p) /\ tapped[i].text = typed[p]
                                       /\ \A j \in DOMAIN tapped : j > i => ~IsSave(tapped[j], p)
        BY <2>4 DEF OnItsWay
      <3>2. CASE i = 1
        <4>1. drafts'[p].text = typed'[p]
          BY <1>1, <2>4, <3>1, <3>2
        <4>2. \A j \in DOMAIN tapped' : ~IsSave(tapped'[j], p)
          BY <1>1, <3>1, <3>2
        <4>. QED BY <4>1, <4>2 DEF Stored
      <3>3. CASE i # 1
        <4>. DEFINE k == i - 1
        <4>1. /\ k \in DOMAIN tapped' /\ tapped'[k] = tapped[i]
              /\ \A j \in DOMAIN tapped' : j > k => ~IsSave(tapped'[j], p)
          BY <1>1, <3>1, <3>3
        <4>. HIDE DEF k
        <4>. QED BY <3>1, <4>1 DEF OnItsWay
      <3>. QED BY <3>2, <3>3
    <2>. QED BY <2>1, <2>2, <2>3, <2>4
  <1>. QED BY <1>2, <1>3, <1>4 DEF TypedInv, NotForgotten

LEMMA CarryOutKeepsTyped ==
  ASSUME TypedInv, CarryOut
  PROVE  TypedInv'
  <1>. DEFINE action == Head(tapped)
  <1>1. /\ TakeTapped /\ ExecuteAction(action) /\ lost' = lost
        /\ UNCHANGED <<screen, update, keys, typed, draftBuffers>>
    BY DEF CarryOut, formState, spent
  <1>2. action = tapped[1] /\ 1 \in DOMAIN tapped
    BY <1>1, ShortenedQueue DEF TypedInv, TextsShaped, TakeTapped
  <1>. HIDE DEF action
  <1>3. AreDrafts(drafts) /\ typed \in [Peers -> Revisions] /\ keys \in Nat
    BY DEF TypedInv, TextsShaped
  <1>4. CASE action.is \in {"SetActiveConversation", "StartConversation"}
    <2>1. UNCHANGED <<drafts, delivered>>
      BY <1>1, <1>4 DEF ExecuteAction
    <2>2. \A p \in Peers : ~IsSave(action, p)
      BY <1>4 DEF IsSave
    <2>3. AreDrafts(drafts')
      BY <1>3, <2>1
    <2>4. \A p \in Peers : Stored(p) => drafts'[p].text = typed[p]
      BY <2>1 DEF Stored
    <2>. QED BY <1>1, <2>1, <2>2, <2>3, <2>4, TakenKeepsTyped DEF action
  <1>5. CASE action.is = "SaveDraft"
    <2>1. /\ drafts' = [drafts EXCEPT ![action.peer] = Draft(action.text)]
          /\ UNCHANGED delivered
      BY <1>1, <1>5 DEF ExecuteAction, SaveDraft
    <2>2. action.text \in Revisions
      BY <1>2, <1>5 DEF TypedInv, SavesTyped
    <2>3. /\ DOMAIN drafts' = Peers
          /\ \A p \in Peers : drafts'[p] = IF p = action.peer THEN Draft(action.text) ELSE drafts[p]
      BY <1>3, <2>1 DEF AreDrafts
    <2>4. Draft(action.text).revision = action.text /\ Draft(action.text).text = action.text
      BY DEF Draft
    <2>5. AreDrafts(drafts')
      BY <1>3, <2>2, <2>3, <2>4 DEF AreDrafts
    <2>6. ASSUME NEW p \in Peers
          PROVE  \/ ~IsSave(action, p) /\ (Stored(p) => drafts'[p].text = typed[p])
                 \/ /\ IsSave(action, p)
                    /\ action.text = typed[p] => drafts'[p].text = typed[p]
      BY <1>5, <2>3, <2>4 DEF IsSave, Stored
    <2>. QED BY <1>1, <2>1, <2>5, <2>6, TakenKeepsTyped DEF action
  <1>6. CASE action.is = "SubmitMessage"
    <2>. DEFINE to == action.peer
    <2>1. PICK kept \in {0, drafts[to].revision} :
            /\ drafts' = IF drafts[to].revision = action.revision
                         THEN [drafts EXCEPT ![to] = [revision |-> kept, text |-> Empty]] ELSE drafts
            /\ delivered' = delivered \cup {action.text}
      BY <1>1, <1>6 DEF ExecuteAction, SubmitMessage
    <2>2. /\ DOMAIN drafts' = Peers
          /\ \A p \in Peers : \/ drafts'[p] = drafts[p]
                              \/ /\ p = to /\ drafts[p].revision = action.revision
                                 /\ drafts'[p].revision = kept /\ drafts'[p].text = Empty
      BY <1>3, <2>1 DEF AreDrafts
    <2>3. 0 \in Revisions /\ Revisions \subseteq Nat
      BY <1>3 DEF Revisions, Earlier
    <2>4. AreDrafts(drafts')
      BY <1>3, <2>1, <2>2, <2>3 DEF AreDrafts
    <2>5. \A p \in Peers : ~IsSave(action, p)
      BY <1>6 DEF IsSave
    <2>6. ASSUME NEW p \in Peers, Stored(p), drafts'[p].text # typed[p]
          PROVE  typed[p] \in delivered'
      <3>1. /\ drafts[p].text = typed[p] /\ p = to /\ drafts[p].revision = action.revision
            /\ drafts'[p].text = Empty
        BY <2>2, <2>6 DEF Stored
      <3>2. typed[p] = drafts[p].revision /\ typed[p] \in Nat /\ typed[p] = action.revision
        BY <1>3, <2>3, <2>6, <3>1 DEF AreDrafts
      <3>3. action.text = action.revision \/ (action.revision \in Nat /\ action.revision < typed[p])
        <4>1. tapped[1].is = "SubmitMessage" /\ tapped[1].peer = p
          BY <1>2, <1>6, <3>1
        <4>. QED BY <1>2, <4>1 DEF TypedInv, SubmitsShown
      <3>. QED BY <2>1, <3>2, <3>3
    <2>7. \A p \in Peers : typed[p] \in delivered' \/ (Stored(p) => drafts'[p].text = typed[p])
      BY <2>6
    <2>8. delivered \subseteq delivered' /\ lost \subseteq lost'
      BY <1>1, <2>1
    <2>. QED BY <1>1, <2>4, <2>5, <2>7, <2>8, TakenKeepsTyped DEF action
  <1>. QED BY <1>1, <1>4, <1>5, <1>6 DEF ExecuteAction

LEMMA TypedInvIsKept == TypedInv /\ [ComposerNext]_composerVars => TypedInv'
  <1>. SUFFICES ASSUME TypedInv, [ComposerNext]_composerVars PROVE TypedInv'
    OBVIOUS
  <1>1. ASSUME NEW action, Dispatch(action), action.is \notin {"SaveDraft", "SubmitMessage"},
               UNCHANGED <<drafts, screen, update, keys, typed, draftBuffers, delivered>>
        PROVE  TypedInv'
    BY <1>1, TapKeepsTyped
  <1>2. \A p : /\ SetActiveConversation(p).is = "SetActiveConversation"
               /\ StartConversation(p).is = "StartConversation"
    BY DEF SetActiveConversation, StartConversation, MobileAction
  <1>3. ASSUME UNCHANGED <<drafts, screen, update, keys, typed, draftBuffers, delivered, tapped, lost>>
        PROVE  TypedInv'
    BY <1>3 DEF TypedInv, TextsShaped, BufferIsTyped, SubmitsShown, SavesTyped, NotForgotten,
                Stored, OnItsWay, AreDrafts, Revisions
  <1>4. ASSUME NEW p, SelectConversation(p) \/ ChooseContact(p) \/ AddContact(p) \/ NewMessage(p)
        PROVE  TypedInv'
    <2>1. UNCHANGED <<drafts, screen, update, keys, typed, draftBuffers, delivered>>
      BY <1>4 DEF SelectConversation, ChooseContact, AddContact, NewMessage, Issue, nodeState, formState
    <2>2. \/ Dispatch(SetActiveConversation(p)) \/ Dispatch(StartConversation(p))
          \/ UNCHANGED <<tapped, lost>>
          \/ NewMessage(p) /\ tapped' = Append(tapped, StartConversation(p)) /\ UNCHANGED lost
      BY <1>4 DEF SelectConversation, ChooseContact, AddContact, NewMessage, Issue
    <2>3. CASE NewMessage(p) /\ tapped' = Append(tapped, StartConversation(p)) /\ UNCHANGED lost
      <3>. DEFINE action == StartConversation(p)
      <3>1. /\ tapped' = Append(tapped, action) /\ UNCHANGED lost
            /\ action.is = "StartConversation"
        BY <1>2, <2>3
      <3>. HIDE DEF action
      <3>. QED BY <2>1, <3>1, TapKeepsTyped
    <2>. QED BY <1>1, <1>2, <1>3, <2>1, <2>2, <2>3
  <1>5. CASE CloseThread \/ LeaveMessages
    <2>1. UNCHANGED <<drafts, screen, update, keys, typed, draftBuffers, delivered>>
      BY <1>5 DEF CloseThread, LeaveMessages, Issue, nodeState, formState, witness, spent
    <2>2. Dispatch(SetActiveConversation(Nobody)) \/ UNCHANGED <<tapped, lost>>
      BY <1>5 DEF CloseThread, LeaveMessages, Issue, witness
    <2>. QED BY <1>1, <1>2, <1>3, <2>1, <2>2
  <1>6. CASE TypeText
    BY <1>6, KeystrokeIsKept
  <1>7. CASE SendTap
    <2>. DEFINE peer   == Selected
                text   == ShownText(peer)
                action == MobileAction("SubmitMessage", peer, text, screen.drafts[peer].revision)
    <2>1. /\ Dispatch(action) /\ text # Empty
          /\ UNCHANGED <<drafts, screen, update, keys, typed, draftBuffers, delivered>>
      BY <1>7 DEF SendTap, Issue, nodeState, SendEnabled
    <2>2. /\ action.is = "SubmitMessage" /\ action.peer = peer /\ action.text = text
          /\ action.revision = screen.drafts[peer].revision
      BY DEF MobileAction
    <2>. HIDE DEF action, peer
    <2>3. ASSUME peer \in Peers
          PROVE  \/ text = screen.drafts[peer].revision
                 \/ /\ screen.drafts[peer].revision \in Nat
                    /\ screen.drafts[peer].revision < typed[peer]
      <3>1. screen.drafts[peer].text \in {Empty, screen.drafts[peer].revision}
        BY <2>3 DEF TypedInv, TextsShaped, AreDrafts
      <3>2. CASE peer \in DOMAIN draftBuffers /\ draftBuffers[peer].revision = screen.drafts[peer].revision
        BY <2>3, <3>2 DEF TypedInv, BufferIsTyped
      <3>3. CASE ~(peer \in DOMAIN draftBuffers /\ draftBuffers[peer].revision = screen.drafts[peer].revision)
        BY <2>1, <3>1, <3>3 DEF ShownText
      <3>. QED BY <3>2, <3>3
    <2>. HIDE DEF text
    <2>. QED BY <2>1, <2>2, <2>3, TapKeepsTyped
  <1>8. CASE ReceiveSnapshot
    <2>1. /\ update # <<>> /\ screen' = Head(update) /\ update' = <<>>
          /\ UNCHANGED <<drafts, tapped, draftBuffers, typed, delivered, lost, keys>>
      BY <1>8 DEF ReceiveSnapshot, nodeState, formState, witness, spent
    <2>. QED BY <2>1 DEF TypedInv, TextsShaped, BufferIsTyped, SubmitsShown, SavesTyped,
                         NotForgotten, Stored, OnItsWay, AreDrafts, Revisions
  <1>9. CASE PublishSnapshot
    <2>1. /\ update' = <<Snapshot>>
          /\ UNCHANGED <<drafts, tapped, screen, draftBuffers, typed, delivered, lost, keys>>
      BY <1>9 DEF PublishSnapshot, nodeState, formState, witness, spent
    <2>2. Head(update') = Snapshot /\ Snapshot.drafts = drafts
      BY <2>1, ShortQueues DEF Snapshot
    <2>3. AreDrafts(Head(update').drafts)
      BY <2>2 DEF TypedInv, TextsShaped
    <2>. QED BY <2>1, <2>3 DEF TypedInv, TextsShaped, BufferIsTyped, SubmitsShown, SavesTyped,
                         NotForgotten, Stored, OnItsWay, AreDrafts, Revisions
  <1>10. CASE CarryOut
    BY <1>10, CarryOutKeepsTyped
  <1>11. CASE RefuseTapped \/ DropStale
    <2>1. /\ TakeTapped /\ Loses(Head(tapped))
          /\ UNCHANGED <<drafts, screen, update, keys, typed, draftBuffers, delivered>>
      BY <1>11 DEF RefuseTapped, DropStale, nodeState, formState, spent
    <2>2. lost \subseteq lost' /\ (Head(tapped).is = "SaveDraft" => Head(tapped).text \in lost')
      BY <2>1 DEF Loses
    <2>3. AreDrafts(drafts')
      BY <2>1 DEF TypedInv, TextsShaped
    <2>4. \A p \in Peers : /\ Stored(p) => drafts'[p].text = typed[p]
                           /\ IsSave(Head(tapped), p) => Head(tapped).text \in lost'
      BY <2>1, <2>2 DEF Stored, IsSave
    <2>. QED BY <2>1, <2>2, <2>3, <2>4, TakenKeepsTyped
  <1>12. CASE ReturnToMessages \/ SendLimitElapses \/ ReplaceNode \/ ProjectionFails
              \/ UNCHANGED composerVars
    <2>1. UNCHANGED <<drafts, screen, update, keys, typed, draftBuffers, delivered, tapped, lost>>
      BY <1>12 DEF ReturnToMessages, SendLimitElapses, ReplaceNode, ProjectionFails, composerVars,
                   nodeState, formState, witness, spent
    <2>. QED BY <1>3, <2>1
  <1>. QED BY <1>4, <1>5, <1>6, <1>7, <1>8, <1>9, <1>10, <1>11, <1>12 DEF ComposerNext

(* What was typed last is the draft, or was sent, or its keystroke was lost:
   TypedIsKept of the run Screens. *)
THEOREM TextsAreKept ==
  ComposerSpec => []TypedIsKept
  <1>1. ComposerInit => TypedInv
    <2>. SUFFICES ASSUME ComposerInit PROVE TypedInv
      OBVIOUS
    <2>1. /\ keys = 0 /\ tapped = <<>> /\ update = <<>> /\ draftBuffers = <<>> /\ screen = Snapshot
          /\ drafts \in [Peers -> {Unsaved, Draft(Earlier)}]
          /\ typed = [p \in Peers |-> drafts[p].text]
      BY DEF ComposerInit
    <2>2. IsQueue(<<>>) /\ DOMAIN <<>> = {}
      BY EmptyQueue DEF IsQueue, Items
    <2>3. AreDrafts(drafts)
      BY <2>1 DEF AreDrafts, Unsaved, Draft, Empty, Earlier, Revisions
    <2>4. screen.drafts = drafts
      BY <2>1 DEF Snapshot
    <2>5. typed \in [Peers -> Revisions]
      BY <2>1, <2>3 DEF AreDrafts, Revisions, Empty, Earlier
    <2>6. TextsShaped
      BY <2>1, <2>2, <2>3, <2>4, <2>5 DEF TextsShaped
    <2>7. BufferIsTyped /\ SubmitsShown /\ SavesTyped
      BY <2>1, <2>2 DEF BufferIsTyped, SubmitsShown, SavesTyped
    <2>8. NotForgotten
      BY <2>1, <2>2 DEF NotForgotten, Stored
    <2>. QED BY <2>6, <2>7, <2>8 DEF TypedInv
  <1>2. TypedInv => TypedIsKept
    <2>. SUFFICES ASSUME TypedInv, Quiet, NEW p \in Peers
                  PROVE  \/ typed[p] \in delivered \cup lost
                         \/ /\ drafts[p].text = typed[p]
                            /\ screen.drafts[p] = drafts[p] => ShownText(p) = typed[p]
      BY DEF TypedIsKept
    <2>1. DOMAIN tapped = {}
      BY EmptyQueue DEF Quiet
    <2>2. typed[p] \in delivered \cup lost \/ drafts[p].text = typed[p]
      BY <2>1 DEF TypedInv, NotForgotten, Stored, OnItsWay
    <2>3. p \in DOMAIN draftBuffers => draftBuffers[p].text = typed[p]
      BY DEF TypedInv, BufferIsTyped
    <2>. QED BY <2>2, <2>3 DEF ShownText
  <1>. QED BY <1>1, <1>2, TypedInvIsKept, PTL DEF ComposerSpec

-----------------------------------------------------------------------------
(* The reducer of the phone. *)

(* A state of the backend: its generation, and how often each peer was observed. *)
IsBackend(n) ==
  /\ DOMAIN n = {"generation", "peers", "message", "tcp", "draft", "propagation", "ready",
                 "announce", "submitted"}
  /\ n.generation \in Nat /\ n.peers \in [ReducerPeers -> Nat]

IsStore(s) ==
  /\ DOMAIN s = {"generation", "phase", "peers", "message", "tcp", "draft", "ready", "announce",
                 "propagation"}
  /\ DOMAIN s.propagation = {"generation", "of", "ready"}
  /\ s.generation \in Nat /\ s.peers \in [ReducerPeers -> Nat]

ReducerTyped ==
  /\ IsQueue(history) /\ history # <<>> /\ \A n \in Told : IsBackend(n)
  /\ IsStore(store)

ReducerInv == ReducerTyped /\ ConnectedIsOfOneGeneration

(* A field is as the store has it, or as the backend told it in the generation shown. *)
FieldIsTold(field, value) ==
  value = store[field] \/ \E n \in Told : OfStore(n) /\ value = n[field]

LEMMA ToldIsHistory ==
  ASSUME IsQueue(history), history # <<>>
  PROVE  Told = Items(history) /\ Backend \in Told
  <1>. DEFINE S == Items(history)
  <1>1. history \in Seq(S)
    BY DEF IsQueue
  <1>. HIDE DEF S
  <1>2. Len(history) \in DOMAIN history
    BY <1>1
  <1>. QED BY <1>2 DEF Told, ToSet, Items, Backend, Last

LEMMA HistoryGrows ==
  ASSUME ReducerInv, NEW n, IsBackend(n), Becomes(n)
  PROVE  ReducerInv'
  <1>1. history' = Append(history, n) /\ store' = store
    BY DEF Becomes
  <1>2. /\ IsQueue(history') /\ history' # <<>>
        /\ \A i \in DOMAIN history : i \in DOMAIN history' /\ history'[i] = history[i]
        /\ \A i \in DOMAIN history' : history'[i] = n \/ i \in DOMAIN history
    <2>1. IsQueue(history)
      BY DEF ReducerInv, ReducerTyped
    <2>2. history' # <<>>
      BY <1>1, <2>1, AppendedItem
    <2>. QED BY <1>1, <2>1, <2>2, AppendedItem
  <1>3. Told \subseteq Told' /\ Told' \subseteq Told \cup {n}
    BY <1>2 DEF Told, ToSet
  <1>4. ConnectedIsOfOneGeneration'
    BY <1>1, <1>3 DEF ReducerInv, ConnectedIsOfOneGeneration
  <1>5. \A m \in Told' : IsBackend(m)
    BY <1>3 DEF ReducerInv, ReducerTyped
  <1>. QED BY <1>1, <1>2, <1>4, <1>5 DEF ReducerInv, ReducerTyped

LEMMA BackendKeeps ==
  ASSUME ReducerInv, BackendMoves \/ BackendSends \/ BackendReconnects
  PROVE  ReducerInv' /\ ObservationsAreKept
  <1>1. IsBackend(Backend)
    BY ToldIsHistory DEF ReducerInv, ReducerTyped
  <1>2. \E n : IsBackend(n) /\ Becomes(n)
    <2>1. ASSUME NEW field \in {"message", "tcp", "announce", "propagation"}
          PROVE  IsBackend(Bump(field))
      BY <1>1 DEF Bump, IsBackend
    <2>2. IsBackend([Bump("propagation") EXCEPT !.ready = ~@])
      BY <2>1 DEF IsBackend
    <2>3. IsBackend([Backend EXCEPT !.draft = [revision |-> @.revision + 1, written |-> TRUE],
                                    !.submitted = 0])
      BY <1>1 DEF IsBackend
    <2>4. IsBackend([Backend EXCEPT !.message = @ + 1, !.draft.written = FALSE,
                                    !.submitted = Backend.draft.revision])
      BY <1>1 DEF IsBackend
    <2>5. IsBackend([Backend EXCEPT !.generation = @ + 1, !.tcp = @ + 1, !.ready = FALSE,
                                    !.submitted = 0])
      BY <1>1 DEF IsBackend
    <2>6. CASE BackendMoves
      <3>1. ASSUME NEW field \in {"message", "tcp", "announce"}, Becomes(Bump(field))
            PROVE  \E n : IsBackend(n) /\ Becomes(n)
        <4>1. IsBackend(Bump(field))
          BY <2>1
        <4>. QED BY <3>1, <4>1
      <3>2. ASSUME NEW p \in ReducerPeers,
                   Becomes([Backend EXCEPT !.peers[p] = @ + 1, !.submitted = 0])
            PROVE  \E n : IsBackend(n) /\ Becomes(n)
        <4>. DEFINE n == [Backend EXCEPT !.peers[p] = @ + 1, !.submitted = 0]
        <4>1. IsBackend(n)
          BY <1>1 DEF IsBackend
        <4>2. Becomes(n)
          BY <3>2, Zenon
        <4>. HIDE DEF n
        <4>. QED BY <4>1, <4>2
      <3>3. CASE Becomes([Bump("propagation") EXCEPT !.ready = ~@])
        BY <2>2, <3>3
      <3>4. CASE Becomes([Backend EXCEPT !.draft = [revision |-> @.revision + 1,
                                                    written |-> TRUE],
                                         !.submitted = 0])
        BY <2>3, <3>4
      <3>. QED BY <2>6, <3>1, <3>2, <3>3, <3>4, Zenon DEF BackendMoves
    <2>7. CASE BackendSends
      BY <2>4, <2>7 DEF BackendSends
    <2>8. CASE BackendReconnects
      BY <2>5, <2>8 DEF BackendReconnects
    <2>. QED BY <2>6, <2>7, <2>8
  <1>3. ObservationsAreKept
    <2>1. store' = store /\ IsStore(store)
      BY <1>2 DEF Becomes, ReducerInv, ReducerTyped
    <2>. QED BY <2>1 DEF ObservationsAreKept, IsStore
  <1>. QED BY <1>2, <1>3, HistoryGrows

(* Applying an update to the store of its generation. *)
LEMMA UpdatesKeep ==
  ASSUME ReducerInv, UNCHANGED history, IsStore(store'),
         store'.phase = store.phase, store'.generation = store.generation,
         \A field \in {"message", "tcp"} : FieldIsTold(field, store'[field]),
         \A p \in ReducerPeers :
           \/ store'.peers[p] = store.peers[p]
           \/ \E n \in Told : OfStore(n) /\ store'.peers[p] = n.peers[p],
         \/ store'.ready = store.ready /\ store'.propagation.ready = store.propagation.ready
         \/ \E n \in Told :
              OfStore(n) /\ store'.ready = n.ready /\ store'.propagation.ready = n.ready
  PROVE  ReducerInv'
  <1>1. Told' = Told
    BY DEF Told
  <1>. DEFINE now == {n \in Told : n.generation = store.generation}
  <1>2. ASSUME store'.phase = "connected"
        PROVE  /\ \A field \in {"message", "tcp"} : \E n \in now : store'[field] = n[field]
               /\ \E n \in now : store'.ready = n.ready
               /\ \A p \in ReducerPeers : \E n \in now : store'.peers[p] = n.peers[p]
               /\ store'.propagation.ready = store'.ready
    <2>1. /\ \A field \in {"message", "tcp", "ready"} : \E n \in now : store[field] = n[field]
          /\ \A p \in ReducerPeers : \E n \in now : store.peers[p] = n.peers[p]
          /\ store.propagation.ready = store.ready
      BY <1>2 DEF ReducerInv, ConnectedIsOfOneGeneration
    <2>2. \A n \in Told : OfStore(n) => n \in now
      BY DEF OfStore
    <2>. HIDE DEF now
    <2>3. \A field \in {"message", "tcp"} : \E n \in now : store'[field] = n[field]
      BY <2>1, <2>2 DEF FieldIsTold
    <2>4. \A p \in ReducerPeers : \E n \in now : store'.peers[p] = n.peers[p]
      BY <2>1, <2>2
    <2>5. (\E n \in now : store'.ready = n.ready) /\ store'.propagation.ready = store'.ready
      BY <2>1, <2>2
    <2>. QED BY <2>3, <2>4, <2>5
  <1>3. ConnectedIsOfOneGeneration'
    BY <1>1, <1>2 DEF ConnectedIsOfOneGeneration
  <1>4. ReducerTyped'
    BY <1>1 DEF ReducerInv, ReducerTyped
  <1>. QED BY <1>3, <1>4 DEF ReducerInv

(* The snapshot of a backend, taken whole. *)
LEMMA SnapshotKeeps ==
  ASSUME ReducerInv, ApplySnapshot
  PROVE  ReducerInv' /\ ObservationsAreKept
  <1>1. PICK n \in Told : n.generation = store.generation /\ Reduces(Replacing(n))
    BY DEF ApplySnapshot, OfRequest
  <1>2. IsBackend(n) /\ history' = history /\ Told' = Told /\ store' = Replacing(n)
    BY <1>1 DEF ReducerInv, ReducerTyped, Reduces, Told
  <1>3. /\ IsStore(store') /\ store'.generation = n.generation
        /\ store'.message = n.message /\ store'.tcp = n.tcp /\ store'.ready = n.ready
        /\ store'.peers = n.peers /\ store'.propagation.ready = n.ready
    BY <1>2 DEF Replacing, NewStore, FromFixture, IsStore, IsBackend
  <1>4. ConnectedIsOfOneGeneration'
    BY <1>1, <1>2, <1>3 DEF ConnectedIsOfOneGeneration
  <1>5. ObservationsAreKept
    <2>1. store'.generation >= store.generation
      BY <1>1, <1>2, <1>3 DEF IsBackend
    <2>2. \E m \in Told : store' = Replacing(m)
      BY <1>1, <1>2
    <2>. QED BY <2>1, <2>2 DEF ObservationsAreKept
  <1>. QED BY <1>2, <1>3, <1>4, <1>5 DEF ReducerInv, ReducerTyped

(* A reconnection begins: another generation, in which nothing was told yet. *)
LEMMA ReconnectKeeps ==
  ASSUME ReducerInv, BeginReconnect
  PROVE  ReducerInv' /\ ObservationsAreKept
  <1>1. PICK n \in Told : /\ n.generation > store.generation
                          /\ Reduces(Reconnected(store, n.generation))
    BY DEF BeginReconnect
  <1>2. /\ IsBackend(n) /\ IsStore(store) /\ history' = history /\ Told' = Told
        /\ store' = Reconnected(store, n.generation)
    BY <1>1 DEF ReducerInv, ReducerTyped, Reduces, Told
  <1>3. /\ DOMAIN store' = DOMAIN store /\ store'.generation = n.generation
        /\ store'.phase = "reconnecting" /\ store'.peers = store.peers
        /\ DOMAIN store'.propagation = DOMAIN store.propagation
    BY <1>2 DEF Reconnected, IsStore
  <1>4. IsStore(store') /\ ConnectedIsOfOneGeneration'
    BY <1>2, <1>3 DEF IsStore, IsBackend, ConnectedIsOfOneGeneration
  <1>5. ObservationsAreKept
    BY <1>1, <1>2, <1>3 DEF ObservationsAreKept, IsStore, IsBackend
  <1>. QED BY <1>2, <1>4, <1>5 DEF ReducerInv, ReducerTyped

(* What is left alone where the peers are. *)
LEMMA PeersStay ==
  ASSUME IsStore(store), IsStore(store'), store'.generation = store.generation,
         store'.peers = store.peers
  PROVE  ObservationsAreKept
  BY DEF ObservationsAreKept, IsStore

LEMMA PeersKeep ==
  ASSUME ReducerInv, ApplyPeerSnapshot \/ ApplyPeerEvent
  PROVE  ReducerInv' /\ ObservationsAreKept
  <1>0. IsStore(store) /\ \A n \in Told : IsBackend(n)
    BY DEF ReducerInv, ReducerTyped
  <1>1. CASE ApplyPeerSnapshot
    <2>1. PICK n \in Told : OfStore(n) /\ Reduces([store EXCEPT !.peers = NewestObserved(n)])
      BY <1>1 DEF ApplyPeerSnapshot
    <2>2. /\ NewestObserved(n) \in [ReducerPeers -> Nat]
          /\ \A p \in ReducerPeers :
               /\ NewestObserved(n)[p] \in {store.peers[p], n.peers[p]}
               /\ NewestObserved(n)[p] = NotListed \/ NewestObserved(n)[p] >= store.peers[p]
      BY <1>0, <2>1 DEF NewestObserved, IsStore, IsBackend, NotListed
    <2>3. /\ history' = history /\ DOMAIN store' = DOMAIN store
          /\ store'.peers = NewestObserved(n)
          /\ \A field \in DOMAIN store \ {"peers"} : store'[field] = store[field]
      BY <1>0, <2>1 DEF Reduces, IsStore
    <2>. HIDE DEF NewestObserved
    <2>4. /\ IsStore(store') /\ store'.phase = store.phase
          /\ store'.generation = store.generation /\ store'.ready = store.ready
          /\ store'.propagation = store.propagation
          /\ store'.message = store.message /\ store'.tcp = store.tcp
      BY <1>0, <2>2, <2>3 DEF IsStore
    <2>5. ReducerInv'
      BY <2>1, <2>2, <2>3, <2>4, UpdatesKeep DEF FieldIsTold
    <2>6. ObservationsAreKept
      BY <1>0, <2>2, <2>3, <2>4 DEF ObservationsAreKept, IsStore
    <2>. QED BY <2>5, <2>6
  <1>2. CASE ApplyPeerEvent
    <2>1. PICK n \in Told, p \in ReducerPeers :
            /\ OfStore(n) /\ n.peers[p] >= store.peers[p]
            /\ Reduces([store EXCEPT !.peers[p] = n.peers[p]])
      BY <1>2 DEF ApplyPeerEvent
    <2>2. /\ history' = history /\ DOMAIN store' = DOMAIN store
          /\ store'.peers = [store.peers EXCEPT ![p] = n.peers[p]]
          /\ \A field \in DOMAIN store \ {"peers"} : store'[field] = store[field]
      BY <1>0, <2>1 DEF Reduces, IsStore
    <2>3. /\ store'.peers \in [ReducerPeers -> Nat]
          /\ \A q \in ReducerPeers : /\ store'.peers[q] >= store.peers[q]
                                     /\ store'.peers[q] \in {store.peers[q], n.peers[q]}
      BY <1>0, <2>1, <2>2 DEF IsStore, IsBackend
    <2>4. /\ IsStore(store') /\ store'.phase = store.phase
          /\ store'.generation = store.generation /\ store'.ready = store.ready
          /\ store'.propagation = store.propagation
          /\ store'.message = store.message /\ store'.tcp = store.tcp
      BY <1>0, <2>2, <2>3 DEF IsStore
    <2>5. ReducerInv'
      BY <2>1, <2>2, <2>3, <2>4, UpdatesKeep DEF FieldIsTold
    <2>6. ObservationsAreKept
      BY <1>0, <2>3, <2>4 DEF ObservationsAreKept, IsStore
    <2>. QED BY <2>5, <2>6
  <1>. QED BY <1>1, <1>2

(* A step changes these fields of the store and nothing else. *)
OnlyIn(fields) ==
  /\ history' = history /\ DOMAIN store' = DOMAIN store
  /\ \A field \in DOMAIN store \ fields : store'[field] = store[field]

ReadyIsTold ==
  /\ DOMAIN store'.propagation = {"generation", "of", "ready"}
  /\ \/ store'.ready = store.ready /\ store'.propagation.ready = store.propagation.ready
     \/ \E n \in Told :
          OfStore(n) /\ store'.ready = n.ready /\ store'.propagation.ready = n.ready

LEMMA FieldsKeep ==
  ASSUME ReducerInv,
         OnlyIn({"message", "tcp", "draft", "announce", "ready", "propagation"}),
         FieldIsTold("message", store'.message), FieldIsTold("tcp", store'.tcp), ReadyIsTold
  PROVE  ReducerInv' /\ ObservationsAreKept
  <1>1. IsStore(store)
    BY DEF ReducerInv, ReducerTyped
  <1>2. /\ history' = history /\ IsStore(store') /\ store'.phase = store.phase
        /\ store'.generation = store.generation /\ store'.peers = store.peers
    BY <1>1 DEF IsStore, OnlyIn, ReadyIsTold
  <1>3. ReducerInv'
    BY <1>2, UpdatesKeep DEF ReadyIsTold
  <1>. QED BY <1>1, <1>2, <1>3, PeersStay

(* The fields that are let alone. *)
LEMMA OthersStay ==
  ASSUME IsStore(store), NEW fields, OnlyIn(fields),
         fields \subseteq {"message", "tcp", "draft", "announce", "ready", "propagation"}
  PROVE  /\ OnlyIn({"message", "tcp", "draft", "announce", "ready", "propagation"})
         /\ "message" \notin fields => FieldIsTold("message", store'.message)
         /\ "tcp" \notin fields => FieldIsTold("tcp", store'.tcp)
         /\ "ready" \notin fields /\ "propagation" \notin fields => ReadyIsTold
  BY DEF OnlyIn, FieldIsTold, ReadyIsTold, IsStore

LEMMA MessagesKeep ==
  ASSUME ReducerInv,
         \/ ApplyAnnounceOutcome \/ ApplyDraft \/ ApplyMessageSnapshot \/ ApplyMessageEvent
         \/ ApplySendOutcome \/ ApplyPropagationUpdate \/ ApplyBearerEvent
  PROVE  ReducerInv' /\ ObservationsAreKept
  <1>0. IsStore(store)
    BY DEF ReducerInv, ReducerTyped
  <1>1. CASE ApplyAnnounceOutcome
    <2>1. PICK n \in Told : Reduces([store EXCEPT !.announce = n.announce])
      BY <1>1 DEF ApplyAnnounceOutcome
    <2>2. OnlyIn({"announce"})
      BY <1>0, <2>1 DEF Reduces, IsStore, OnlyIn
    <2>. QED BY <1>0, <2>2, OthersStay, FieldsKeep
  <1>2. CASE ApplyDraft
    <2>1. PICK n \in Told : Reduces([store EXCEPT !.draft = n.draft])
      BY <1>2 DEF ApplyDraft
    <2>2. OnlyIn({"draft"})
      BY <1>0, <2>1 DEF Reduces, IsStore, OnlyIn
    <2>. QED BY <1>0, <2>2, OthersStay, FieldsKeep
  <1>3. CASE ApplyMessageSnapshot
    <2>1. PICK n \in Told :
            /\ OfStore(n) /\ history' = history
            /\ store' = [store EXCEPT !.message = n.message, !.draft = n.draft]
      BY <1>3, Zenon DEF ApplyMessageSnapshot, Reduces
    <2>2. OnlyIn({"message", "draft"})
      BY <1>0, <2>1 DEF Reduces, IsStore, OnlyIn
    <2>3. FieldIsTold("message", store'.message)
      BY <1>0, <2>1 DEF Reduces, IsStore, FieldIsTold
    <2>. QED BY <1>0, <2>2, <2>3, OthersStay, FieldsKeep
  <1>4. CASE ApplyMessageEvent
    <2>1. PICK n \in Told : OfStore(n) /\ Reduces([store EXCEPT !.message = n.message])
      BY <1>4 DEF ApplyMessageEvent
    <2>2. OnlyIn({"message"})
      BY <1>0, <2>1 DEF Reduces, IsStore, OnlyIn
    <2>3. FieldIsTold("message", store'.message)
      BY <1>0, <2>1 DEF Reduces, IsStore, FieldIsTold
    <2>. QED BY <1>0, <2>2, <2>3, OthersStay, FieldsKeep
  <1>5. CASE ApplySendOutcome
    <2>1. PICK n \in Told :
            /\ OfStore(n)
            /\ store' = [store EXCEPT !.message = n.message,
                           !.draft.written = @ /\ store.draft.revision # n.submitted]
            /\ history' = history
      BY <1>5, Zenon DEF ApplySendOutcome, Reduces
    <2>2. OnlyIn({"message", "draft"})
      BY <1>0, <2>1 DEF Reduces, IsStore, OnlyIn
    <2>3. FieldIsTold("message", store'.message)
      BY <1>0, <2>1 DEF Reduces, IsStore, FieldIsTold
    <2>. QED BY <1>0, <2>2, <2>3, OthersStay, FieldsKeep
  <1>6. CASE ApplyPropagationUpdate
    <2>1. PICK n \in Told :
            OfStore(n) /\ Reduces([store EXCEPT !.ready = n.ready, !.propagation = FromFixture(n)])
      BY <1>6, Zenon DEF ApplyPropagationUpdate
    <2>2. OnlyIn({"ready", "propagation"})
      BY <1>0, <2>1 DEF Reduces, IsStore, OnlyIn
    <2>3. store'.ready = n.ready /\ store'.propagation = FromFixture(n)
      BY <1>0, <2>1 DEF Reduces, IsStore
    <2>4. ReadyIsTold
      BY <2>1, <2>3 DEF ReadyIsTold, FromFixture
    <2>. QED BY <1>0, <2>2, <2>4, OthersStay, FieldsKeep
  <1>7. CASE ApplyBearerEvent
    <2>1. PICK n \in Told : OfStore(n) /\ Reduces([store EXCEPT !.tcp = n.tcp])
      BY <1>7 DEF ApplyBearerEvent
    <2>2. OnlyIn({"tcp"})
      BY <1>0, <2>1 DEF Reduces, IsStore, OnlyIn
    <2>3. FieldIsTold("tcp", store'.tcp)
      BY <1>0, <2>1 DEF Reduces, IsStore, FieldIsTold
    <2>. QED BY <1>0, <2>2, <2>3, OthersStay, FieldsKeep
  <1>. QED BY <1>1, <1>2, <1>3, <1>4, <1>5, <1>6, <1>7

LEMMA ReducerInvHolds ==
  ReducerInit => ReducerInv
  <1>. SUFFICES ASSUME ReducerInit PROVE ReducerInv
    OBVIOUS
  <1>. DEFINE one == FirstOf(1)
              two == FirstOf(2)
  <1>1. /\ IsBackend(one) /\ one.generation = 1 /\ IsBackend(two) /\ two.generation = 2
    BY DEF FirstOf, IsBackend
  <1>2. /\ IsStore(NewStore(one)) /\ NewStore(one).message = one.message
        /\ NewStore(one).tcp = one.tcp /\ NewStore(one).ready = one.ready
        /\ NewStore(one).peers = one.peers /\ NewStore(one).propagation.ready = one.ready
        /\ NewStore(one).generation = one.generation
    BY <1>1 DEF NewStore, FromFixture, IsStore, IsBackend
  <1>. HIDE DEF one, two
  <1>3. /\ IsQueue(<<one>>) /\ IsQueue(<<one, two>>)
        /\ ToSet(<<one>>) = {one} /\ ToSet(<<one, two>>) = {one, two}
    BY DEF IsQueue, Items, ToSet
  <1>4. CASE history = <<one>> /\ store = NewStore(one)
    <2>1. Told = {one}
      BY <1>3, <1>4 DEF Told
    <2>2. ConnectedIsOfOneGeneration
      BY <1>2, <1>4, <2>1 DEF ConnectedIsOfOneGeneration
    <2>. QED BY <1>1, <1>2, <1>3, <1>4, <2>1, <2>2 DEF ReducerInv, ReducerTyped
  <1>5. CASE history = <<one, two>> /\ store = Reconnected(NewStore(one), 2)
    <2>1. Told = {one, two}
      BY <1>3, <1>5 DEF Told
    <2>2. store.phase = "reconnecting" /\ IsStore(store)
      BY <1>2, <1>5 DEF Reconnected, IsStore
    <2>3. ConnectedIsOfOneGeneration
      BY <2>2 DEF ConnectedIsOfOneGeneration
    <2>. QED BY <1>1, <1>3, <1>5, <2>1, <2>2, <2>3 DEF ReducerInv, ReducerTyped
  <1>. QED BY <1>4, <1>5 DEF ReducerInit, one, two

(* The phone shows one generation of its backend: once connected nothing of an earlier
   one is left or comes back, whatever updates come late, twice or out of order, and no
   update about peers takes a later observation back (MobileStore); UpdatesAreFenced of
   the run Screens. *)
THEOREM UpdatesStayFenced ==
  ReducerSpec => UpdatesAreFenced
  <1>1. ASSUME ReducerInv, ReducerNext
        PROVE  ReducerInv' /\ ObservationsAreKept
    BY <1>1, BackendKeeps, SnapshotKeeps, ReconnectKeeps, PeersKeep, MessagesKeep DEF ReducerNext
  <1>2. ASSUME ReducerInv, UNCHANGED reducerVars
        PROVE  ReducerInv'
    BY <1>2
       DEF reducerVars, ReducerInv, ReducerTyped, ConnectedIsOfOneGeneration, Told, IsStore
  <1>3. ReducerInv /\ [ReducerNext]_reducerVars => ReducerInv'
    BY <1>1, <1>2
  <1>4. ReducerInv /\ [ReducerNext]_reducerVars =>
          [ConnectedIsOfOneGeneration' /\ ObservationsAreKept]_reducerVars
    BY <1>1 DEF ReducerInv
  <1>. QED BY <1>3, <1>4, ReducerInvHolds, PTL DEF ReducerSpec, UpdatesAreFenced

-----------------------------------------------------------------------------
(* The Protocol Lab. *)

(* A run by itself: a fixture is played back in one go and never asked to stop, a
   live run has no outcome before its worker gave one. *)
IsRun(r) ==
  /\ DOMAIN r = {"profile", "status", "exported", "worker", "child", "signalled", "told"}
  /\ r.profile \in {"fixture", "live"}
  /\ r.status \in {"running", "cancelling"} \/ IsTerminal(r.status)
  /\ r.profile = "fixture" => r.worker \in {"queued", "over"} /\ r.status # "cancelling"
  /\ r.profile = "live" /\ IsTerminal(r.status) => r.worker = "over"

(* What the page asks for: another run, or something of a run there was. *)
IsRequest(r, runs) ==
  /\ r.is \in {"start", "cancel", "wait", "export", "mark"}
  /\ IF r.is = "start" THEN r.profile \in {"fixture", "live"} ELSE r.run \in runs

AreRequests(queue, runs) ==
  IsQueue(queue) /\ \A i \in DOMAIN queue : IsRequest(queue[i], runs)

DialogAsks ==
  dialog # NoDialog =>
    /\ DOMAIN dialog = {"action", "asks", "key", "fresh"}
    /\ dialog.asks = <<>> \/ \E r : IsRequest(r, DOMAIN labRuns) /\ dialog.asks = <<r>>

(* What is shown is the current run, and its outcome once it has one. *)
ShowsCurrent ==
  /\ shownRun = NoRun \/ (Current # 0 /\ shownRun.run = Current)
  /\ IsTerminal(shownRun.status) => labRuns[Current].status = shownRun.status

LabInv ==
  /\ IsQueue(labRuns) /\ \A i \in DOMAIN labRuns : IsRun(labRuns[i])
  /\ AreRequests(asked, DOMAIN labRuns) /\ DialogAsks
  /\ waiting \subseteq DOMAIN labRuns /\ writing \subseteq DOMAIN labRuns
  /\ ShowsCurrent /\ OutcomeIsAwaited

-----------------------------------------------------------------------------
LEMMA ReplacedItem ==
  ASSUME NEW queue, IsQueue(queue), NEW k \in DOMAIN queue, NEW item
  PROVE  LET changed == [queue EXCEPT ![k] = item] IN
         /\ IsQueue(changed) /\ DOMAIN changed = DOMAIN queue /\ Len(changed) = Len(queue)
         /\ changed[k] = item /\ \A i \in DOMAIN queue \ {k} : changed[i] = queue[i]
  <1>. DEFINE S == Items(queue) \cup {item}
              changed == [queue EXCEPT ![k] = item]
  <1>1. queue \in Seq(S) /\ item \in S
    BY DEF IsQueue
  <1>. HIDE DEF S
  <1>2. k \in 1 .. Len(queue) /\ DOMAIN queue = 1 .. Len(queue)
    BY <1>1
  <1>3. /\ changed \in Seq(S) /\ Len(changed) = Len(queue)
        /\ DOMAIN changed = DOMAIN queue
        /\ changed[k] = item /\ \A i \in DOMAIN queue \ {k} : changed[i] = queue[i]
    BY <1>1, <1>2, ExceptSeq
  <1>. HIDE DEF changed
  <1>4. changed \in Seq(Items(changed))
    <2>1. changed = [i \in 1 .. Len(changed) |-> changed[i]] /\ Len(changed) \in Nat
      BY <1>3
    <2>. QED BY <1>3, <2>1 DEF Items
  <1>. QED BY <1>3, <1>4 DEF IsQueue, changed

LEMMA AskedMore ==
  ASSUME NEW queue, NEW runs, NEW r, AreRequests(queue, runs), IsRequest(r, runs)
  PROVE  /\ AreRequests(Append(queue, r), runs) /\ queue \o <<r>> = Append(queue, r)
         /\ ToSet(queue) \subseteq ToSet(Append(queue, r)) /\ r \in ToSet(Append(queue, r))
  <1>1. /\ IsQueue(Append(queue, r)) /\ Len(queue) \in Nat
        /\ DOMAIN Append(queue, r) = 1 .. Len(queue) + 1 /\ DOMAIN queue = 1 .. Len(queue)
        /\ Append(queue, r)[Len(queue) + 1] = r
        /\ \A i \in DOMAIN queue : Append(queue, r)[i] = queue[i]
    BY AppendedItem DEF AreRequests
  <1>2. AreRequests(Append(queue, r), runs)
    BY <1>1 DEF AreRequests
  <1>3. ToSet(queue) \subseteq ToSet(Append(queue, r)) /\ r \in ToSet(Append(queue, r))
    BY <1>1 DEF ToSet
  <1>4. queue \o <<r>> = Append(queue, r)
    <2>. DEFINE S == Items(queue) \cup {r}
    <2>1. queue \in Seq(S) /\ r \in S
      BY DEF AreRequests, IsQueue
    <2>. HIDE DEF S
    <2>. QED BY <2>1, AppendIsConcat
  <1>. QED BY <1>2, <1>3, <1>4

LEMMA AskedFirst ==
  ASSUME NEW queue, NEW runs, AreRequests(queue, runs), queue # <<>>
  PROVE  /\ IsRequest(Head(queue), runs) /\ AreRequests(Tail(queue), runs)
         /\ ToSet(queue) \subseteq ToSet(Tail(queue)) \cup {Head(queue)}
  <1>1. /\ IsQueue(Tail(queue)) /\ Len(queue) \in Nat \ {0} /\ DOMAIN queue = 1 .. Len(queue)
        /\ DOMAIN Tail(queue) = 1 .. Len(queue) - 1 /\ Head(queue) = queue[1]
        /\ \A i \in DOMAIN Tail(queue) : i + 1 \in DOMAIN queue /\ Tail(queue)[i] = queue[i + 1]
    BY ShortenedQueue DEF AreRequests
  <1>2. AreRequests(Tail(queue), runs) /\ IsRequest(Head(queue), runs)
    BY <1>1 DEF AreRequests
  <1>3. ASSUME NEW i \in DOMAIN queue
        PROVE  queue[i] \in ToSet(Tail(queue)) \cup {Head(queue)}
    <2>1. CASE i = 1
      BY <1>1, <2>1
    <2>2. CASE i # 1
      <3>1. i - 1 \in DOMAIN Tail(queue) /\ Tail(queue)[i - 1] = queue[i]
        BY <1>1, <2>2
      <3>. QED BY <3>1 DEF ToSet
    <2>. QED BY <2>1, <2>2
  <1>. QED BY <1>2, <1>3 DEF ToSet

(* A dialog that is dropped, or goes stale. *)
LEMMA DialogStays ==
  ASSUME DialogAsks, DOMAIN labRuns \subseteq DOMAIN labRuns',
         dialog' \in {dialog, NoDialog} \/ (dialog # NoDialog
                                            /\ dialog' = [dialog EXCEPT !.fresh = FALSE])
  PROVE  DialogAsks'
  <1>1. CASE dialog' = NoDialog
    BY <1>1 DEF DialogAsks
  <1>2. CASE dialog' # NoDialog
    <2>1. /\ dialog # NoDialog /\ DOMAIN dialog' = {"action", "asks", "key", "fresh"}
          /\ dialog'.asks = dialog.asks
      BY <1>2 DEF DialogAsks
    <2>2. dialog.asks = <<>> \/ \E r : IsRequest(r, DOMAIN labRuns) /\ dialog.asks = <<r>>
      BY <2>1 DEF DialogAsks
    <2>3. \A r : IsRequest(r, DOMAIN labRuns) => IsRequest(r, DOMAIN labRuns')
      BY DEF IsRequest
    <2>. QED BY <2>1, <2>2, <2>3 DEF DialogAsks
  <1>. QED BY <1>1, <1>2

(* What the pages do leaves the runs alone; at most the page forgets the one shown,
   and something is asked for. *)
LEMMA PagesKeep ==
  ASSUME LabInv, UNCHANGED <<labRuns, waiting>>, writing' \subseteq writing,
         shownRun' \in {shownRun, NoRun}, DialogAsks',
         \/ asked' = asked
         \/ \E r : IsRequest(r, DOMAIN labRuns) /\ asked' = Append(asked, r)
  PROVE  LabInv' /\ OutcomeStands
  <1>1. AreRequests(asked', DOMAIN labRuns) /\ ToSet(asked) \subseteq ToSet(asked')
    BY AskedMore DEF LabInv
  <1>2. ShowsCurrent'
    BY DEF LabInv, ShowsCurrent, NoRun, IsTerminal, Current
  <1>3. OutcomeIsAwaited'
    BY <1>1 DEF LabInv, OutcomeIsAwaited, NoRun
  <1>4. OutcomeStands
    BY DEF OutcomeStands
  <1>. QED BY <1>1, <1>2, <1>3, <1>4 DEF LabInv

(* A request is served which leaves the runs alone. *)
LEMMA ServedKeeps ==
  ASSUME LabInv, asked # <<>>, asked' = Tail(asked), UNCHANGED <<labRuns, shownRun, dialog>>,
         waiting \subseteq waiting', waiting' \subseteq DOMAIN labRuns,
         writing' \subseteq DOMAIN labRuns,
         Head(asked) = WaitOf(shownRun.run) => shownRun.run \in waiting' \/ shownRun = NoRun
  PROVE  LabInv' /\ OutcomeStands
  <1>1. /\ AreRequests(asked', DOMAIN labRuns)
        /\ ToSet(asked) \subseteq ToSet(asked') \cup {Head(asked)}
    BY AskedFirst DEF LabInv
  <1>2. ShowsCurrent'
    BY DEF LabInv, ShowsCurrent, Current
  <1>3. OutcomeIsAwaited'
    BY <1>1 DEF LabInv, OutcomeIsAwaited, NoRun
  <1>4. OutcomeStands
    BY DEF OutcomeStands
  <1>5. DialogAsks'
    BY DialogStays DEF LabInv
  <1>. QED BY <1>1, <1>2, <1>3, <1>4, <1>5 DEF LabInv

(* One run changes, but not its outcome, and the page may be told. *)
LEMMA RunsKeep ==
  ASSUME LabInv, NEW k \in DOMAIN labRuns, NEW r, IsRun(r), labRuns' = [labRuns EXCEPT ![k] = r],
         IsTerminal(labRuns[k].status) => r.status = labRuns[k].status,
         k = Current /\ r.worker = "over" =>
           IsTerminal(r.status) \/ labRuns[k].worker = "over",
         UNCHANGED <<dialog, writing>>,
         \/ UNCHANGED <<waiting, shownRun>>
         \/ waiting' = waiting /\ UpdateShown(k)
         \/ waiting' = waiting \ {k} /\ UpdateShown(k) /\ IsTerminal(r.status),
         asked' = asked \/ (asked # <<>> /\ Head(asked).is # "wait" /\ asked' = Tail(asked))
  PROVE  LabInv' /\ OutcomeStands
  <1>1. /\ IsQueue(labRuns') /\ DOMAIN labRuns' = DOMAIN labRuns /\ Len(labRuns') = Len(labRuns)
        /\ labRuns'[k] = r /\ \A i \in DOMAIN labRuns \ {k} : labRuns'[i] = labRuns[i]
    BY ReplacedItem DEF LabInv
  <1>2. \A i \in DOMAIN labRuns' : IsRun(labRuns'[i])
    BY <1>1 DEF LabInv
  <1>3. /\ AreRequests(asked', DOMAIN labRuns')
        /\ \A i : WaitOf(i) \in ToSet(asked) => WaitOf(i) \in ToSet(asked')
    <2>1. CASE asked' = asked
      BY <1>1, <2>1 DEF LabInv
    <2>2. CASE asked # <<>> /\ Head(asked).is # "wait" /\ asked' = Tail(asked)
      <3>1. /\ AreRequests(asked', DOMAIN labRuns)
            /\ ToSet(asked) \subseteq ToSet(asked') \cup {Head(asked)}
        BY <2>2, AskedFirst DEF LabInv
      <3>2. \A i : WaitOf(i) # Head(asked)
        BY <2>2 DEF WaitOf
      <3>. QED BY <1>1, <3>1, <3>2
    <2>. QED BY <2>1, <2>2
  <1>4. DialogAsks'
    BY <1>1, DialogStays DEF LabInv
  <1>5. \A i \in DOMAIN labRuns : IsTerminal(labRuns[i].status) =>
          labRuns'[i].status = labRuns[i].status
    BY <1>1
  <1>6. /\ shownRun = NoRun \/ shownRun.run \in DOMAIN labRuns
        /\ IsTerminal(shownRun.status) =>
             /\ shownRun.run = Current /\ Current \in DOMAIN labRuns
             /\ labRuns[Current].status = shownRun.status
    <2>1. Current \in Nat /\ DOMAIN labRuns = 1 .. Current
      BY DEF LabInv, IsQueue, Current
    <2>2. ~IsTerminal(NoRun.status)
      BY DEF IsTerminal, NoRun
    <2>. QED BY <2>1, <2>2 DEF LabInv, ShowsCurrent
  <1>7. CASE shownRun' = shownRun /\ waiting' = waiting
    <2>1. ShowsCurrent'
      BY <1>1, <1>5, <1>6, <1>7 DEF LabInv, ShowsCurrent, Current
    <2>2. OutcomeIsAwaited'
      <3>1. SUFFICES ASSUME shownRun.run # 0, ~IsTerminal(shownRun.status)
                     PROVE  /\ shownRun.run \in waiting \/ WaitOf(shownRun.run) \in ToSet(asked')
                            /\ \/ IsTerminal(labRuns'[shownRun.run].status)
                               \/ labRuns'[shownRun.run].worker # "over"
        BY <1>7 DEF OutcomeIsAwaited
      <3>2. /\ shownRun.run = Current /\ shownRun.run \in DOMAIN labRuns
            /\ shownRun.run \in waiting \/ WaitOf(shownRun.run) \in ToSet(asked)
            /\ \/ IsTerminal(labRuns[shownRun.run].status)
               \/ labRuns[shownRun.run].worker # "over"
        BY <1>6, <3>1 DEF LabInv, ShowsCurrent, OutcomeIsAwaited, NoRun
      <3>3. CASE shownRun.run = k
        BY <1>1, <1>3, <3>2, <3>3
      <3>4. CASE shownRun.run # k
        BY <1>1, <1>3, <3>2, <3>4
      <3>. QED BY <3>3, <3>4
    <2>3. OutcomeStands
      BY <1>5, <1>7 DEF OutcomeStands
    <2>. QED BY <1>1, <1>2, <1>3, <1>4, <1>7, <2>1, <2>2, <2>3 DEF LabInv
  <1>8. CASE UpdateShown(k) /\ shownRun.run = k
    <2>1. /\ shownRun'.run = k /\ shownRun'.status = r.status
          /\ shownRun # NoRun /\ k = Current /\ k # 0
      <3>1. 0 \notin DOMAIN labRuns
        BY DEF LabInv, IsQueue
      <3>. QED BY <1>1, <1>8, <3>1 DEF UpdateShown, Shows, NoRun, LabInv, ShowsCurrent
    <2>2. ShowsCurrent'
      BY <1>1, <2>1 DEF ShowsCurrent, Current
    <2>3. OutcomeIsAwaited'
      <3>1. SUFFICES ASSUME ~IsTerminal(r.status)
                     PROVE  /\ k \in waiting \/ WaitOf(k) \in ToSet(asked')
                            /\ r.worker # "over"
        BY <1>1, <2>1 DEF OutcomeIsAwaited
      <3>2. ~IsTerminal(labRuns[k].status) /\ ~IsTerminal(shownRun.status)
        BY <1>6, <2>1, <3>1
      <3>. QED BY <1>3, <1>8, <2>1, <3>1, <3>2 DEF LabInv, OutcomeIsAwaited
    <2>4. OutcomeStands
      <3>1. IsTerminal(shownRun.status) => shownRun'.status = shownRun.status
        BY <1>6, <2>1
      <3>. QED BY <1>5, <3>1 DEF OutcomeStands
    <2>5. waiting' \subseteq DOMAIN labRuns /\ writing' \subseteq DOMAIN labRuns
      BY DEF LabInv
    <2>. QED BY <1>1, <1>2, <1>3, <1>4, <2>2, <2>3, <2>4, <2>5 DEF LabInv
  <1>9. CASE UpdateShown(k) /\ shownRun.run # k
    <2>1. shownRun' = shownRun /\ waiting \ {k} \subseteq waiting' /\ waiting' \subseteq waiting
      BY <1>9 DEF UpdateShown
    <2>2. ShowsCurrent'
      BY <1>1, <1>5, <1>6, <2>1 DEF LabInv, ShowsCurrent, Current
    <2>3. OutcomeIsAwaited'
      <3>1. SUFFICES ASSUME shownRun.run # 0, ~IsTerminal(shownRun.status)
                     PROVE  /\ shownRun.run \in waiting' \/ WaitOf(shownRun.run) \in ToSet(asked')
                            /\ \/ IsTerminal(labRuns'[shownRun.run].status)
                               \/ labRuns'[shownRun.run].worker # "over"
        BY <2>1 DEF OutcomeIsAwaited
      <3>2. /\ shownRun.run \in DOMAIN labRuns
            /\ shownRun.run \in waiting \/ WaitOf(shownRun.run) \in ToSet(asked)
            /\ \/ IsTerminal(labRuns[shownRun.run].status)
               \/ labRuns[shownRun.run].worker # "over"
        BY <1>6, <3>1 DEF LabInv, OutcomeIsAwaited, NoRun
      <3>. QED BY <1>1, <1>3, <1>9, <2>1, <3>2
    <2>4. OutcomeStands
      BY <1>5, <2>1 DEF OutcomeStands
    <2>. QED BY <1>1, <1>2, <1>3, <1>4, <2>1, <2>2, <2>3, <2>4 DEF LabInv
  <1>. QED BY <1>7, <1>8, <1>9

-----------------------------------------------------------------------------
LEMMA ContextsKeep ==
  ASSUME LabInv, SessionBegins \/ Connected \/ StatusReported \/ SessionLost
  PROVE  LabInv' /\ OutcomeStands
  <1>1. /\ UNCHANGED <<labRuns, asked, waiting, writing>>
        /\ dialog' = IF dialog = NoDialog THEN dialog ELSE [dialog EXCEPT !.fresh = FALSE]
    <2>1. \E c : ContextIs(c)
      BY Zenon DEF SessionBegins, Connected, StatusReported, SessionLost
    <2>. QED BY <2>1 DEF ContextIs
  <1>2. shownRun' \in {shownRun, NoRun}
    <2>1. shownRun' = shownRun \/ shownRun' = NoRun
      BY Zenon DEF SessionBegins, Connected, StatusReported, SessionLost
    <2>. QED BY <2>1
  <1>3. DialogAsks'
    BY <1>1, DialogStays DEF LabInv
  <1>. QED BY <1>1, <1>2, <1>3, PagesKeep

(* A dialog opens with what it will ask for. *)
LEMMA DialogOpens ==
  ASSUME LabInv, NEW action, NEW asks, BeginConfirmation(action, asks), UNCHANGED labRuns,
         asks = <<>> \/ \E r : IsRequest(r, DOMAIN labRuns) /\ asks = <<r>>
  PROVE  DialogAsks'
  BY DEF BeginConfirmation, DialogAsks

LEMMA ReviewsKeep ==
  ASSUME LabInv,
         \/ \E p \in {"lab", "fleet", "network"} : Navigate(p)
         \/ ReviewFleet \/ ReviewLink \/ ReviewCancel \/ NetworkEffect \/ Dismiss
  PROVE  LabInv' /\ OutcomeStands
  <1>0. ReviewFleet \/ ReviewLink \/ ReviewCancel =>
          Others /\ \E c : BeginConfirmation(Operate(c), <<>>)
    BY Zenon DEF ReviewFleet, ReviewLink, ReviewCancel, Review
  <1>1. UNCHANGED <<labRuns, asked, waiting, writing, shownRun>>
    <2>1. Others
      BY <1>0, Zenon DEF Navigate, NetworkEffect, Dismiss
    <2>. QED BY <2>1 DEF Others
  <1>2. DialogAsks'
    <2>1. CASE (\E p \in {"lab", "fleet", "network"} : Navigate(p)) \/ NetworkEffect \/ Dismiss
      <3>1. dialog' = NoDialog
        BY <2>1 DEF Navigate, NetworkEffect, Dismiss
      <3>. QED BY <1>1, <3>1, DialogStays DEF LabInv
    <2>2. CASE ReviewFleet \/ ReviewLink \/ ReviewCancel
      <3>. QED BY <1>0, <1>1, <2>2, DialogOpens
    <2>. QED BY <2>1, <2>2
  <1>. QED BY <1>1, <1>2, PagesKeep

LEMMA ClickKeeps ==
  ASSUME LabInv, NEW action, NEW r, IsRequest(r, DOMAIN labRuns), Click(action, r)
  PROVE  LabInv' /\ OutcomeStands
  <1>1. UNCHANGED <<labRuns, waiting, writing, shownRun>>
    BY DEF Click, LabKeeps
  <1>2. /\ asked' = asked \/ asked' = Append(asked, r)
        /\ BeginConfirmation(action, <<r>>) \/ dialog' = dialog
    BY DEF Click, Ask
  <1>3. DialogAsks'
    BY <1>1, <1>2, DialogOpens, DialogStays DEF LabInv
  <1>. QED BY <1>1, <1>2, <1>3, PagesKeep

LEMMA ClicksKeep ==
  ASSUME LabInv,
         \/ \E profile \in {"fixture", "live"} : ClickStart(profile)
         \/ ClickCancel \/ ClickRerun \/ ClickExport
  PROVE  LabInv' /\ OutcomeStands
  <1>0. shownRun.status = "running" \/ IsTerminal(shownRun.status) =>
          shownRun.run \in DOMAIN labRuns /\ IsRun(labRuns[shownRun.run])
    <2>1. Current \in Nat /\ DOMAIN labRuns = 1 .. Current
      BY DEF LabInv, IsQueue, Current
    <2>2. shownRun = NoRun \/ shownRun.run \in DOMAIN labRuns
      BY <2>1 DEF LabInv, ShowsCurrent
    <2>. QED BY <2>2 DEF LabInv, IsTerminal, NoRun
  <1>1. CASE \E profile \in {"fixture", "live"} : ClickStart(profile)
    <2>1. PICK profile \in {"fixture", "live"} :
            Click(ScenarioAction(profile), StartOf(profile))
      BY <1>1 DEF ClickStart
    <2>2. IsRequest(StartOf(profile), DOMAIN labRuns)
      BY DEF IsRequest, StartOf
    <2>. QED BY <2>1, <2>2, ClickKeeps
  <1>2. CASE ClickCancel
    <2>1. IsRequest(CancelOf(shownRun.run), DOMAIN labRuns)
      BY <1>0, <1>2 DEF ClickCancel, IsRequest, CancelOf
    <2>. QED BY <1>2, <2>1, ClickKeeps DEF ClickCancel
  <1>3. CASE ClickRerun
    <2>1. IsRequest(StartOf(ProfileOfShown), DOMAIN labRuns)
      BY <1>0, <1>3 DEF ClickRerun, IsRequest, StartOf, ProfileOfShown, IsRun
    <2>. QED BY <1>3, <2>1, ClickKeeps DEF ClickRerun
  <1>4. CASE ClickExport
    <2>1. IsRequest(ExportOf(shownRun.run), DOMAIN labRuns)
      BY <1>0, <1>4 DEF ClickExport, IsRequest, ExportOf
    <2>. QED BY <1>4, <2>1, ClickKeeps DEF ClickExport
  <1>. QED BY <1>1, <1>2, <1>3, <1>4

LEMMA ConfirmKeeps ==
  ASSUME LabInv, Confirm
  PROVE  LabInv' /\ OutcomeStands
  <1>1. /\ UNCHANGED <<labRuns, waiting, writing, shownRun>> /\ dialog # NoDialog
        /\ asked' = asked \/ asked' = asked \o dialog.asks
        /\ dialog' \in {dialog, NoDialog}
    BY DEF Confirm, LabKeeps
  <1>2. DialogAsks'
    BY <1>1, DialogStays DEF LabInv
  <1>3. asked' = asked \/ \E r : IsRequest(r, DOMAIN labRuns) /\ asked' = Append(asked, r)
    <2>1. CASE asked' = asked \o <<>>
      <3>1. asked \in Seq(Items(asked))
        BY DEF LabInv, AreRequests, IsQueue
      <3>. QED BY <2>1, <3>1, ConcatEmptySeq
    <2>2. CASE \E r : IsRequest(r, DOMAIN labRuns) /\ asked' = asked \o <<r>>
      BY <2>2, AskedMore DEF LabInv
    <2>. QED BY <1>1, <2>1, <2>2 DEF LabInv, DialogAsks
  <1>. QED BY <1>1, <1>2, <1>3, PagesKeep

(* What the request in front is of. *)
LEMMA ServedIsRequest ==
  ASSUME LabInv, NEW kind, Served(kind)
  PROVE  /\ asked # <<>> /\ Head(asked).is = kind /\ IsRequest(Head(asked), DOMAIN labRuns)
         /\ Current \in Nat /\ DOMAIN labRuns = 1 .. Current
  <1>1. asked # <<>> /\ Head(asked).is = kind /\ AreRequests(asked, DOMAIN labRuns)
    BY DEF LabInv, Served
  <1>2. IsRequest(Head(asked), DOMAIN labRuns)
    BY <1>1, AskedFirst
  <1>3. Current \in Nat /\ DOMAIN labRuns = 1 .. Current
    BY DEF LabInv, IsQueue, Current
  <1>. QED BY <1>1, <1>2, <1>3

LEMMA StartKeeps ==
  ASSUME LabInv, StartRun
  PROVE  LabInv' /\ OutcomeStands
  <1>. DEFINE fresh == NewRun(Head(asked).profile)
              last == Current + 1
  <1>1. /\ asked # <<>> /\ Head(asked).is = "start" /\ IsRequest(Head(asked), DOMAIN labRuns)
        /\ Current \in Nat /\ DOMAIN labRuns = 1 .. Current
    BY ServedIsRequest DEF StartRun
  <1>2. IsRun(fresh) /\ fresh.status = "running" /\ fresh.worker = "queued"
    BY <1>1 DEF NewRun, IsRun, IsRequest, IsTerminal
  <1>3. /\ labRuns' = Append(labRuns, fresh) /\ shownRun' = Shows(last)
        /\ asked' = Append(Tail(asked), WaitOf(last)) /\ UNCHANGED <<dialog, waiting, writing>>
    BY DEF StartRun, review
  <1>. HIDE DEF fresh
  <1>4. /\ IsQueue(labRuns') /\ DOMAIN labRuns' = 1 .. last /\ Len(labRuns') = last
        /\ labRuns'[last] = fresh /\ \A i \in DOMAIN labRuns : labRuns'[i] = labRuns[i]
    BY <1>1, <1>3, AppendedItem DEF LabInv, Current
  <1>5. \A i \in DOMAIN labRuns' : IsRun(labRuns'[i])
    BY <1>1, <1>2, <1>4 DEF LabInv
  <1>6. AreRequests(asked', DOMAIN labRuns') /\ WaitOf(last) \in ToSet(asked')
    <2>1. AreRequests(Tail(asked), DOMAIN labRuns)
      BY <1>1, AskedFirst DEF LabInv
    <2>2. AreRequests(Tail(asked), DOMAIN labRuns')
      BY <1>1, <1>4, <2>1 DEF AreRequests, IsRequest
    <2>3. IsRequest(WaitOf(last), DOMAIN labRuns')
      BY <1>1, <1>4 DEF IsRequest, WaitOf
    <2>. QED BY <1>3, <2>2, <2>3, AskedMore
  <1>7. DialogAsks'
    BY <1>1, <1>3, <1>4, DialogStays DEF LabInv
  <1>8. shownRun'.run = last /\ shownRun'.status = "running"
    BY <1>2, <1>3, <1>4 DEF Shows
  <1>9. ShowsCurrent'
    BY <1>1, <1>4, <1>8 DEF ShowsCurrent, Current, IsTerminal
  <1>10. OutcomeIsAwaited'
    BY <1>2, <1>4, <1>6, <1>8 DEF OutcomeIsAwaited
  <1>11. OutcomeStands
    <2>1. shownRun = NoRun \/ shownRun.run = Current
      BY DEF LabInv, ShowsCurrent
    <2>. QED BY <1>1, <1>4, <1>8, <2>1 DEF OutcomeStands, IsTerminal, NoRun
  <1>12. waiting' \subseteq DOMAIN labRuns' /\ writing' \subseteq DOMAIN labRuns'
    BY <1>1, <1>3, <1>4 DEF LabInv
  <1>. QED BY <1>4, <1>5, <1>6, <1>7, <1>9, <1>10, <1>12, <1>11 DEF LabInv

LEMMA ServesKeep ==
  ASSUME LabInv, ServeStep
  PROVE  LabInv' /\ OutcomeStands
  <1>0. \A kind \in {"start", "cancel", "wait", "export", "mark"} : Served(kind) =>
          /\ asked # <<>> /\ Head(asked).is = kind /\ IsRequest(Head(asked), DOMAIN labRuns)
          /\ Current \in Nat /\ DOMAIN labRuns = 1 .. Current
    BY ServedIsRequest
  <1>1. CASE StartRun
    BY <1>1, StartKeeps
  <1>2. CASE StartRefused \/ CancelRefused
    <2>1. /\ asked # <<>> /\ Head(asked).is # "wait" /\ asked' = Tail(asked)
          /\ UNCHANGED <<labRuns, shownRun, dialog, waiting, writing>>
      BY <1>0, <1>2 DEF StartRefused, CancelRefused, Unqueue, review
    <2>2. Head(asked) # WaitOf(shownRun.run)
      BY <2>1 DEF WaitOf
    <2>. QED BY <2>1, <2>2, ServedKeeps DEF LabInv
  <1>3. CASE CancelRun
    <2>1. /\ asked # <<>> /\ Head(asked).is = "cancel" /\ Current \in DOMAIN labRuns
          /\ asked' = Tail(asked) /\ UNCHANGED <<dialog, waiting, writing>>
          /\ UpdateShown(Current) /\ ~IsTerminal(labRuns[Current].status)
          /\ labRuns' = CancelCurrent(Current)
      BY <1>0, <1>3 DEF CancelRun, Unqueue, review, Busy
    <2>2. IsRun(labRuns[Current])
      BY <2>1 DEF LabInv
    <2>3. CASE labRuns[Current].profile = "live"
      <3>. DEFINE r == [[labRuns[Current] EXCEPT !.told = TRUE] EXCEPT !.status = "cancelling"]
      <3>1. labRuns' = [labRuns EXCEPT ![Current] = r]
        BY <2>1, <2>3 DEF CancelCurrent
      <3>2. IsRun(r) /\ r.worker = labRuns[Current].worker
        BY <2>2, <2>3 DEF IsRun, IsTerminal
      <3>. HIDE DEF r
      <3>. QED BY <2>1, <3>1, <3>2, RunsKeep
    <2>4. CASE labRuns[Current].profile # "live"
      <3>. DEFINE r == [labRuns[Current] EXCEPT !.status = "cancelled"]
      <3>1. labRuns' = [labRuns EXCEPT ![Current] = r]
        BY <2>1, <2>4 DEF CancelCurrent
      <3>2. IsRun(r) /\ IsTerminal(r.status)
        BY <2>2, <2>4 DEF IsRun, IsTerminal
      <3>. HIDE DEF r
      <3>. QED BY <2>1, <3>1, <3>2, RunsKeep
    <2>. QED BY <2>3, <2>4
  <1>4. CASE SubscribeRun
    <2>1. /\ asked # <<>> /\ Head(asked).is = "wait" /\ asked' = Tail(asked)
          /\ UNCHANGED <<labRuns, shownRun, dialog, writing>>
          /\ Head(asked).run \in DOMAIN labRuns
          /\ waiting' = IF Head(asked).run = Current THEN waiting \cup {Current} ELSE waiting
      BY <1>0, <1>4 DEF SubscribeRun, Unqueue, review, IsRequest
    <2>2. Head(asked) = WaitOf(shownRun.run) => shownRun.run \in waiting' \/ shownRun = NoRun
      BY <2>1 DEF WaitOf, LabInv, ShowsCurrent
    <2>. QED BY <2>1, <2>2, ServedKeeps DEF LabInv
  <1>5. CASE ExportRun
    <2>1. /\ asked # <<>> /\ Head(asked).is = "export" /\ asked' = Tail(asked)
          /\ UNCHANGED <<labRuns, shownRun, dialog, waiting>>
          /\ Head(asked).run \in DOMAIN labRuns
          /\ writing' \subseteq writing \cup {Head(asked).run}
      BY <1>0, <1>5 DEF ExportRun, Unqueue, review, IsRequest
    <2>2. Head(asked) # WaitOf(shownRun.run)
      BY <2>1 DEF WaitOf
    <2>. QED BY <2>1, <2>2, ServedKeeps DEF LabInv
  <1>6. CASE MarkExported
    <2>1. /\ asked # <<>> /\ Head(asked).is = "mark" /\ asked' = Tail(asked)
          /\ UNCHANGED <<dialog, waiting, writing>> /\ Head(asked).run \in DOMAIN labRuns
      BY <1>0, <1>6 DEF MarkExported, Unqueue, review, IsRequest
    <2>2. CASE Head(asked).run = Current
      <3>. DEFINE r == [labRuns[Current] EXCEPT !.exported = TRUE]
      <3>1. labRuns' = [labRuns EXCEPT ![Current] = r] /\ UpdateShown(Current)
        BY <1>6, <2>2 DEF MarkExported
      <3>2. /\ IsRun(r) /\ r.status = labRuns[Current].status
            /\ r.worker = labRuns[Current].worker
        BY <2>1, <2>2 DEF LabInv, IsRun
      <3>. HIDE DEF r
      <3>. QED BY <2>1, <2>2, <3>1, <3>2, RunsKeep
    <2>3. CASE Head(asked).run # Current
      <3>1. UNCHANGED <<labRuns, shownRun>>
        BY <1>6, <2>3 DEF MarkExported
      <3>2. Head(asked) # WaitOf(shownRun.run)
        BY <2>1 DEF WaitOf
      <3>. QED BY <2>1, <3>1, <3>2, ServedKeeps DEF LabInv
    <2>. QED BY <2>2, <2>3
  <1>. QED BY <1>1, <1>2, <1>3, <1>4, <1>5, <1>6 DEF ServeStep

(* A worker goes on. *)
LEMMA WorksKeep ==
  ASSUME LabInv, NEW k \in DOMAIN labRuns, NEW r, IsRun(r), Works(k, r),
         IsTerminal(labRuns[k].status) => r.status = labRuns[k].status,
         k = Current /\ r.worker = "over" =>
           IsTerminal(r.status) \/ labRuns[k].worker = "over"
  PROVE  LabInv' /\ OutcomeStands
  <1>1. /\ labRuns' = [labRuns EXCEPT ![k] = r]
        /\ UNCHANGED <<dialog, shownRun, asked, waiting, writing>>
    BY DEF Works, review
  <1>. QED BY <1>1, RunsKeep

LEMMA WorkersKeep ==
  ASSUME LabInv, NEW k \in DOMAIN labRuns,
         WorkStep(k) \/ RunnerPollFails(k) \/ ChildEnds(k)
  PROVE  LabInv' /\ OutcomeStands
  <1>. DEFINE old == labRuns[k]
  <1>0. IsRun(old)
    BY DEF LabInv
  <1>1. CASE FixtureEnds(k)
    <2>. DEFINE over == [old EXCEPT !.worker = "over"]
                r == IF k = Current /\ over.status = "running"
                       THEN [over EXCEPT !.status = "passed"] ELSE over
    <2>1. Works(k, r) /\ old.profile = "fixture"
      BY <1>1 DEF FixtureEnds
    <2>2. IsRun(over) /\ over.worker = "over" /\ over.status = old.status
          /\ over.profile = "fixture"
      BY <1>0, <2>1 DEF IsRun
    <2>. HIDE DEF over
    <2>3. IsRun(r) /\ (IsTerminal(old.status) => r.status = old.status)
      BY <2>2 DEF IsRun, IsTerminal
    <2>4. k = Current => IsTerminal(r.status)
      BY <2>2 DEF IsRun, IsTerminal
    <2>. HIDE DEF r
    <2>. QED BY <2>1, <2>3, <2>4, WorksKeep
  <1>2. CASE LiveEnds(k)
    <2>. DEFINE over == [old EXCEPT !.worker = "over"]
                r == IF k = Current THEN [over EXCEPT !.status = old.worker] ELSE over
    <2>1. Works(k, r) /\ IsTerminal(old.worker)
      BY <1>2 DEF LiveEnds
    <2>2. old.profile = "live" /\ ~IsTerminal(old.status)
      BY <1>0, <2>1 DEF IsRun, IsTerminal
    <2>3. IsRun(over) /\ over.worker = "over" /\ over.profile = "live"
      BY <1>0, <2>2 DEF IsRun
    <2>. HIDE DEF over
    <2>4. IsRun(r) /\ (k = Current => IsTerminal(r.status))
      BY <2>1, <2>3 DEF IsRun
    <2>. HIDE DEF r
    <2>. QED BY <2>1, <2>2, <2>4, WorksKeep
  <1>3. CASE ~FixtureEnds(k) /\ ~LiveEnds(k)
    <2>1. \E r : /\ Works(k, r) /\ IsRun(r) /\ r.status = old.status
                 /\ r.worker = "over" => old.worker = "over"
      <3>1. CASE Spawn(k)
        <4>1. old.profile = "live" /\ old.worker = "queued" /\ ~IsTerminal(old.status)
          BY <1>0, <3>1 DEF Spawn, IsRun
        <4>2. CASE Works(k, [old EXCEPT !.worker = "polling", !.child = "runs"])
          <5>. DEFINE r == [old EXCEPT !.worker = "polling", !.child = "runs"]
          <5>1. IsRun(r) /\ r.status = old.status /\ r.worker = "polling"
            BY <1>0, <4>1 DEF IsRun
          <5>. QED BY <4>2, <5>1
        <4>3. CASE Works(k, [old EXCEPT !.worker = "failed"])
          <5>. DEFINE r == [old EXCEPT !.worker = "failed"]
          <5>1. IsRun(r) /\ r.status = old.status /\ r.worker = "failed"
            BY <1>0, <4>1 DEF IsRun
          <5>. QED BY <4>3, <5>1
        <4>. QED BY <3>1, <4>2, <4>3 DEF Spawn
      <3>2. CASE SignalCancel(k) \/ ReadEvidence(k) \/ RunnerPollFails(k)
        <4>1. old.profile = "live" /\ old.worker = "polling" /\ ~IsTerminal(old.status)
          BY <1>0, <3>2 DEF SignalCancel, ReadEvidence, RunnerPollFails, IsRun
        <4>2. CASE Works(k, [old EXCEPT !.signalled = TRUE])
          <5>. DEFINE r == [old EXCEPT !.signalled = TRUE]
          <5>1. IsRun(r) /\ r.status = old.status /\ r.worker = "polling"
            BY <1>0, <4>1 DEF IsRun
          <5>. QED BY <4>2, <5>1
        <4>3. CASE Works(k, [old EXCEPT !.worker = "failed", !.child = "ended"])
          <5>. DEFINE r == [old EXCEPT !.worker = "failed", !.child = "ended"]
          <5>1. IsRun(r) /\ r.status = old.status /\ r.worker = "failed"
            BY <1>0, <4>1 DEF IsRun
          <5>. QED BY <4>3, <5>1
        <4>4. ASSUME NEW s \in {"passed", "failed", "timed_out", "cancelled"},
                     Works(k, [old EXCEPT !.worker = s])
              PROVE  \E r : /\ Works(k, r) /\ IsRun(r) /\ r.status = old.status
                            /\ r.worker = "over" => old.worker = "over"
          <5>. DEFINE r == [old EXCEPT !.worker = s]
          <5>1. IsRun(r) /\ r.status = old.status /\ r.worker = s
            BY <1>0, <4>1 DEF IsRun
          <5>. QED BY <4>4, <5>1
        <4>5. CASE RunnerPollFails(k)
          <5>. DEFINE r == [old EXCEPT !.worker = "failed",
                                       !.child = IF @ = "runs" THEN "stray" ELSE @]
          <5>1. Works(k, r)
            BY <4>5, Zenon DEF RunnerPollFails
          <5>2. IsRun(r) /\ r.status = old.status /\ r.worker = "failed"
            BY <1>0, <4>1 DEF IsRun
          <5>. HIDE DEF r
          <5>. QED BY <5>1, <5>2
        <4>. QED BY <3>2, <4>2, <4>3, <4>4, <4>5 DEF SignalCancel, ReadEvidence
      <3>3. CASE ChildEnds(k)
        <4>. DEFINE r == [old EXCEPT !.child = "ended"]
        <4>1. Works(k, r)
          BY <3>3 DEF ChildEnds
        <4>2. IsRun(r) /\ r.status = old.status /\ r.worker = old.worker
          BY <1>0 DEF IsRun
        <4>. QED BY <4>1, <4>2
      <3>. QED BY <1>3, <3>1, <3>2, <3>3 DEF WorkStep
    <2>. QED BY <2>1, WorksKeep
  <1>. QED BY <1>1, <1>2, <1>3

LEMMA TasksKeep ==
  ASSUME LabInv, NEW k \in DOMAIN labRuns, WaitEnds(k) \/ WriteEnds(k)
  PROVE  LabInv' /\ OutcomeStands
  <1>1. CASE WaitEnds(k)
    <2>. DEFINE r == labRuns[k]
    <2>1. /\ IsTerminal(r.status) /\ waiting' = waiting \ {k} /\ UpdateShown(k)
          /\ UNCHANGED <<labRuns, dialog, asked, writing>>
      BY <1>1 DEF WaitEnds, review
    <2>2. IsRun(r) /\ labRuns' = [labRuns EXCEPT ![k] = r]
      BY <2>1 DEF LabInv, IsQueue
    <2>. QED BY <2>1, <2>2, RunsKeep
  <1>2. CASE WriteEnds(k)
    <2>1. /\ UNCHANGED <<labRuns, dialog, shownRun, waiting>> /\ writing' \subseteq writing
          /\ asked' = asked \/ asked' = Append(asked, MarkOf(k))
      BY <1>2 DEF WriteEnds, review, Ask
    <2>2. IsRequest(MarkOf(k), DOMAIN labRuns)
      BY DEF IsRequest, MarkOf
    <2>3. DialogAsks'
      BY <2>1, DialogStays DEF LabInv
    <2>. QED BY <2>1, <2>2, <2>3, PagesKeep
  <1>. QED BY <1>1, <1>2

(* A run gets one outcome and the page hears of it, however starts, cancellations,
   waits and exports of the page take turns with the workers (ScenarioManager):
   OutcomeReachesPage of the run Screens. *)
THEOREM OutcomesReachPages ==
  LabSpec => OutcomeReachesPage
  <1>1. LabInit => LabInv
    <2>. SUFFICES ASSUME LabInit PROVE LabInv
      OBVIOUS
    <2>1. IsQueue(<<>>) /\ DOMAIN <<>> = {}
      BY EmptyQueue DEF IsQueue, Items
    <2>2. ShowsCurrent /\ OutcomeIsAwaited
      BY DEF LabInit, ShowsCurrent, OutcomeIsAwaited, NoRun, IsTerminal
    <2>. QED BY <2>1, <2>2 DEF LabInit, LabInv, AreRequests, DialogAsks
  <1>2. ASSUME LabInv, LabNext
        PROVE  LabInv' /\ OutcomeStands
    BY <1>2, ContextsKeep, ReviewsKeep, ConfirmKeeps, ClicksKeep, ServesKeep, TasksKeep,
       WorkersKeep DEF LabNext
  <1>3. ASSUME LabInv, UNCHANGED labVars
        PROVE  LabInv'
    BY <1>3
       DEF labVars, review, LabInv, DialogAsks, ShowsCurrent, OutcomeIsAwaited, Current
  <1>4. LabInv /\ [LabNext]_labVars => LabInv'
    BY <1>2, <1>3
  <1>5. LabInv /\ [LabNext]_labVars => [OutcomeIsAwaited' /\ OutcomeStands]_labVars
    BY <1>2 DEF LabInv
  <1>. QED BY <1>1, <1>4, <1>5, PTL DEF LabSpec, OutcomeReachesPage
=============================================================================
