---------------------------- MODULE PageContent ----------------------------
(***************************************************************************)
(* The content page of the desktop application: the page and the download  *)
(* in the stores, the PageBrowser component with its own signals, and the  *)
(* commands between them.  One command task carries them out in order,     *)
(* each with one call of the daemon (main.rs, page_browser.rs).            *)
(*                                                                         *)
(* The browser is rendered after the stores changed: until then a click    *)
(* runs the closures of the page before, which read the signals as they    *)
(* are at the click.  Only a render sets the signals from the page.        *)
(*                                                                         *)
(* A page of the daemon has a correlation of its own and belongs to a      *)
(* browsing session of the daemon; its text, fields and links are left out.*)
(***************************************************************************)
EXTENDS Naturals, Sequences, SequencesExt

CONSTANTS
  Addresses,      \* of pages and files: typed, linked, hosted
  PageQueue,      \* commands waiting for the task
  MaxPageTaps, MaxAnswers, MaxProfiles, MaxPageFaults

ASSUME ContentAssumption ==
  /\ Addresses # {} /\ PageQueue \in Nat \ {0}
  /\ {MaxPageTaps, MaxAnswers, MaxProfiles, MaxPageFaults} \subseteq Nat

VARIABLES
  content,     \* the page and the download in the stores
  granted,     \* page.browse is negotiated
  rendered,    \* content and granted as last rendered
  browser,     \* the signals of PageBrowser
  pageQueue,   \* commands in the channel
  doing,       \* the command in hand
  session,     \* generation of the connection; open: its task runs
  given,       \* answers of the daemon: each names a correlation and, if it
               \* begins one, a browsing session
  pageTaps, pageFaults

contentVars ==
  <<content, granted, rendered, browser, pageQueue, doing, session, given, pageTaps, pageFaults>>
world == <<granted, session>>

(* PageView.  begun: the browsing session of an authoritative page. *)
NoPage == [is |-> "none", correlation |-> 0, begun |-> 0]
Loading(a)      == [is |-> "loading", address |-> a, correlation |-> 0, begun |-> 0]
FailedBefore(a) == [is |-> "failed", address |-> a, correlation |-> 0, begun |-> 0]
(* FromDaemon: "retryable" and "final" name a failure the page reports. *)
FromDaemon(a, begun, outcome) ==
  [is |-> outcome, address |-> a, correlation |-> given + 1, begun |-> begun]

Authoritative(page) == page.correlation # 0

NoDownload == [id |-> 0, state |-> "none"]
IsOver(download) == download.state \in {"verified", "failed"}

(* The signals: the session, the correlation whose fields were put in, and the
   correlations of the pages the values in the map were typed on. *)
Unmounted == [mounted |-> FALSE, session |-> 0, correlation |-> 0, typed |-> {}]
Mounted   == [Unmounted EXCEPT !.mounted = TRUE]

DoesNothing == [is |-> "nothing"]
BrowsePage(a)     == [is |-> "browse", address |-> a]
ClosePage(s)      == [is |-> "close", session |-> s]
StartDownload(a)  == [is |-> "start", address |-> a]
ChangeDownload(action, id) == [is |-> action, id |-> id]
(* NavigatePage: back, forward and reload have no address; values are those a
   link submits, by the pages they were typed on. *)
NavigatePage(a, values) ==
  [is |-> "navigate", session |-> browser.session, address |-> a, values |-> values]

ContentInit ==
  /\ content = [page |-> NoPage, download |-> NoDownload] /\ granted = TRUE
  /\ rendered = [page |-> NoPage, download |-> NoDownload, granted |-> TRUE]
  /\ browser = Mounted
  /\ pageQueue = <<>> /\ doing = DoesNothing
  /\ session = [generation |-> 1, open |-> TRUE]
  /\ given = 0 /\ pageTaps = 0 /\ pageFaults = 0

PageTap   == pageTaps < MaxPageTaps /\ pageTaps' = pageTaps + 1
PageFault == pageFaults < MaxPageFaults /\ pageFaults' = pageFaults + 1

-----------------------------------------------------------------------------
(* The component. *)

(* Mutant for FormStaysHere: the fields follow the address, as the input does. *)
ResetsAtAddress(page) ==
  Authoritative(page) /\ (rendered.page.is = "none" \/ rendered.page.address # page.address)
(* authoritative_field_reset *)
ResetsFields(page) == Authoritative(page) /\ browser.correlation # page.correlation

(* The body of the component: what a page sets before it is shown. *)
Fielded(page) ==
  IF ResetsFields(page)
  THEN [browser EXCEPT !.correlation = page.correlation, !.typed = {}] ELSE browser
Signals(page) ==
  CASE page.is = "none"         -> [browser EXCEPT !.session = 0]
    [] Authoritative(page)      -> [Fielded(page) EXCEPT !.session = page.begun]
    [] OTHER                    -> browser

View == [page |-> content.page, download |-> content.download, granted |-> granted]

Render ==
  /\ browser.mounted /\ rendered # View
  /\ rendered' = View /\ browser' = Signals(content.page)
  /\ UNCHANGED <<content, world, pageQueue, doing, given, pageTaps, pageFaults>>

(* Another route is chosen. *)
LeaveContent ==
  /\ browser.mounted /\ PageTap /\ browser' = Unmounted
  /\ rendered' = [page |-> NoPage, download |-> NoDownload, granted |-> FALSE]
  /\ UNCHANGED <<content, world, pageQueue, doing, given, pageFaults>>
(* send_cmd: nothing without a task, nor when the channel is full. *)
Sent(command) ==
  pageQueue' = IF session.open /\ Len(pageQueue) < PageQueue THEN Append(pageQueue, command)
               ELSE pageQueue
Clicked(command) ==
  /\ browser.mounted /\ rendered.granted /\ PageTap
  /\ Sent(command)
  /\ UNCHANGED <<content, world, rendered, browser, doing, given, pageFaults>>

(* Back on this route the component begins again; the Network page asks for the
   index of a host as it opens it. *)
EnterContent ==
  /\ ~browser.mounted /\ browser' = Mounted
  /\ \/ UNCHANGED <<pageQueue, pageTaps>>
     \/ PageTap /\ \E a \in Addresses : Sent(BrowsePage(a))
  /\ UNCHANGED <<content, world, rendered, doing, given, pageFaults>>

ShownPage == rendered.page

(* The hosts in the sidebar. *)
ClickHost == \E a \in Addresses : Clicked(BrowsePage(a))
(* Go and Enter with what is typed; "Browse Local Pages" is one of them. *)
ClickGo   == \E a \in Addresses : Clicked(NavigatePage(a, {}))
(* Back and Forward, if the daemon offers them, and Reload, always but while a
   page loads; and the address again past the cache (Bypass cache, Retry). *)
ClickHistory == ShownPage.is # "loading" /\ Clicked(NavigatePage("history", {}))
ClickAgain ==
  /\ ShownPage.is \notin {"none", "loading"}
  /\ Clicked(NavigatePage(ShownPage.address, {}))
ClickClose == browser.session # 0 /\ Clicked(ClosePage(browser.session))

(* A link of the page, with the fields it submits if it has any. *)
ClickLink ==
  /\ ShownPage.is = "shown"
  /\ \E a \in Addresses :
       \/ Clicked(NavigatePage(a, {})) \/ Clicked(NavigatePage(a, browser.typed))
       \/ Clicked(StartDownload(a))
Type ==
  /\ browser.mounted /\ rendered.granted /\ ShownPage.is = "shown" /\ PageTap
  /\ browser' = [browser EXCEPT !.typed = @ \cup {ShownPage.correlation}]
  /\ UNCHANGED <<content, world, rendered, pageQueue, doing, given, pageFaults>>

ShownDownload == rendered.download
ClickDownload ==
  /\ ShownDownload.id # 0
  /\ \/ Clicked(ChangeDownload("query", ShownDownload.id))
     \/ ~IsOver(ShownDownload) /\ Clicked(ChangeDownload("cancel", ShownDownload.id))
     \/ ShownDownload.state = "verified" /\ Clicked(ChangeDownload("save", ShownDownload.id))

-----------------------------------------------------------------------------
(* The command task.  It is cancelled before the stores begin another session, so
   the generation it passes to them is theirs. *)

(* required_capability: page.browse for every command; mutation_availability_at *)
Available == granted

TakeContent ==
  /\ session.open /\ doing = DoesNothing /\ pageQueue # <<>> /\ Available
  /\ pageQueue' = Tail(pageQueue) /\ doing' = Head(pageQueue)
  /\ content' = IF doing'.is = "browse" THEN [content EXCEPT !.page = Loading(doing'.address)]
                ELSE content
  /\ UNCHANGED <<world, rendered, browser, given, pageTaps, pageFaults>>
RefuseContent ==
  /\ session.open /\ doing = DoesNothing /\ pageQueue # <<>> /\ ~Available
  /\ pageQueue' = Tail(pageQueue)
  /\ UNCHANGED <<content, world, rendered, browser, doing, given, pageTaps, pageFaults>>

Answered(command) ==
  /\ doing.is = command /\ doing' = DoesNothing
  /\ UNCHANGED <<world, rendered, browser, pageQueue, pageTaps>>
Answers == given < MaxAnswers /\ given' = given + 1 /\ UNCHANGED pageFaults

(* The daemon begins a browsing session, or goes on with the one it is given. *)
Outcomes == {"shown", "retryable", "final"}
PageBrowsed ==
  /\ Answered("browse") /\ Answers
  /\ \E outcome \in Outcomes :
       content' = [content EXCEPT !.page = FromDaemon(doing.address, given + 1, outcome)]
(* Mutant for LoadingIsAnswered: the page stays, as after a failed navigation. *)
BrowseFailsQuietly ==
  /\ Answered("browse") /\ PageFault /\ UNCHANGED <<content, given>>
BrowseFails ==
  /\ Answered("browse") /\ PageFault /\ UNCHANGED given
  /\ content' = [content EXCEPT !.page = FailedBefore(doing.address)]
Astray == doing.is = "navigate" /\ doing.address = "history" /\ doing.session = 0
Navigated ==
  /\ Answered("navigate") /\ ~Astray /\ Answers
  /\ \E outcome \in Outcomes,
        a \in IF doing.address = "history" THEN Addresses ELSE {doing.address} :
       content' = [content EXCEPT !.page =
                     FromDaemon(a, IF doing.session = 0 THEN given + 1 ELSE doing.session, outcome)]

(* clear_page *)
PageClosed ==
  /\ Answered("close") /\ UNCHANGED <<given, pageFaults>>
  /\ content' = [page |-> NoPage, download |-> NoDownload]

(* set_download, with what the daemon reports of it. *)
DownloadStarted ==
  /\ Answered("start") /\ Answers
  /\ content' = [content EXCEPT !.download = [id |-> given + 1, state |-> "running"]]
DownloadAnswered ==
  /\ \E command \in {"query", "cancel", "save"} : Answered(command)
  /\ UNCHANGED <<given, pageFaults>>
  /\ \E state \in {"running", "verified", "failed"} :
       /\ doing.is = "cancel" => state # "running"
       /\ doing.is = "save" => state = "verified"
       /\ content' = [content EXCEPT !.download = [id |-> doing.id, state |-> state]]

(* Every other failed call changes nothing; only the log tells. *)
CallRefused ==
  /\ doing.is \notin {"nothing", "browse"} /\ Answered(doing.is)
  /\ PageFault \/ (Astray /\ UNCHANGED pageFaults)
  /\ UNCHANGED <<content, given>>

-----------------------------------------------------------------------------
(* The session. *)

(* page.browse comes and goes with the status the daemon reports. *)
GrantChanges ==
  /\ session.open /\ granted' = ~granted
  /\ granted \/ pageFaults < MaxPageFaults
  /\ pageFaults' = IF granted THEN pageFaults + 1 ELSE pageFaults
  /\ pageFaults' <= MaxPageFaults
  /\ UNCHANGED <<content, session, rendered, browser, pageQueue, doing, given, pageTaps>>

(* Another profile: the task is cancelled, the backend shut down, and only then
   do the stores begin again. *)
TaskCancelled ==
  /\ session.open /\ session.generation < MaxProfiles
  /\ session' = [session EXCEPT !.open = FALSE]
  /\ pageQueue' = <<>> /\ doing' = DoesNothing
  /\ UNCHANGED <<content, granted, rendered, browser, given, pageTaps, pageFaults>>
(* begin_session *)
SessionBegun ==
  /\ ~session.open
  /\ session' = [generation |-> session.generation + 1, open |-> TRUE]
  /\ content' = [page |-> NoPage, download |-> NoDownload] /\ granted' = FALSE
  /\ UNCHANGED <<rendered, browser, pageQueue, doing, given, pageTaps, pageFaults>>

BrowserStep ==
  \/ LeaveContent \/ EnterContent
  \/ ClickHost \/ ClickGo \/ ClickHistory \/ ClickAgain \/ ClickClose \/ ClickLink \/ Type
  \/ ClickDownload
TaskStep ==
  \/ TakeContent \/ RefuseContent \/ PageBrowsed \/ BrowseFails \/ Navigated \/ PageClosed
  \/ DownloadStarted \/ DownloadAnswered \/ CallRefused

ContentNext ==
  \/ Render \/ BrowserStep \/ TaskStep
  \/ GrantChanges \/ TaskCancelled \/ SessionBegun

ContentSpec == ContentInit /\ [][ContentNext]_contentVars

-----------------------------------------------------------------------------
(* What is typed on a page leaves with that page only: a link submits no value of
   a page shown before, and goes to the browsing session of the page it is on --
   through failed loads, pages seen again, closed and replaced sessions, and
   clicks on a page whose successor is already in the stores. *)
FormStaysHere ==
  [][\A i \in DOMAIN pageQueue' \ DOMAIN pageQueue :
       LET command == pageQueue'[i]
       IN command.is = "navigate" /\ command.values # {} =>
            /\ command.values = {ShownPage.correlation}
            /\ command.session = ShownPage.begun]_contentVars

(* "Loading page..." is never the last word: the command in hand is loading that
   very page, or its session is over and about to be forgotten. *)
LoadingIsAnswered ==
  content.page.is = "loading" /\ session.open => doing = BrowsePage(content.page.address)
=============================================================================
