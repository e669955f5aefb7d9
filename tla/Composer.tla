------------------------------ MODULE Composer ------------------------------
(***************************************************************************)
(* The messages surface of the phone (MobileShell, Composer) and what the  *)
(* session owner and the node make of its actions.  The interface works on *)
(* snapshots: a keystroke saves a draft, a tap sends the text on screen,   *)
(* opening a thread makes its conversation the active one of the node; all *)
(* of them wait in one queue while the owner is busy, and each snapshot    *)
(* carries what the node held after an earlier action.                     *)
(*                                                                         *)
(* A text is a number, fresh with every keystroke.  The awaits of the      *)
(* owner are those of SessionOwner; here an action is one step and the     *)
(* snapshot that follows it another.                                       *)
(***************************************************************************)
EXTENDS Naturals, FiniteSets, SequencesExt

CONSTANTS
  Peers,             \* destinations the operator may write to
  Announced,         \* those heard on the mesh
  MessageCapacity,   \* ACTION_CAPACITY
  MaxKeys,           \* keystrokes
  MaxMessageTaps,    \* other taps
  MaxUpsets          \* endpoints applied, calls that fail, sends that take too long

ASSUME ComposerAssumption ==
  /\ Announced \subseteq Peers /\ MessageCapacity \in Nat \ {0}
  /\ {MaxKeys, MaxMessageTaps, MaxUpsets} \subseteq Nat

VARIABLES
  \* The node: its conversations, the draft, and the messages sent in each.
  order, drafts, outgoing, active,
  \* The owner and its channels.
  ownerAt, current, tapped, update,
  \* The interface: the snapshot shown, and the signals of MobileShell and Composer.
  screen, surface, selectedPeer, threadOpen, draftBuffers, sendingMarker,
  \* What was typed last in each conversation, the texts that were sent, those
  \* whose keystroke never reached the node, and whether the node lost track
  \* of the thread that is open.
  typed, delivered, lost, adrift,
  \* What the bounds count.
  keys, messageTaps, upsets

nodeState  == <<order, drafts, outgoing, active>>
shellState == <<surface, selectedPeer, threadOpen>>
formState  == <<draftBuffers, sendingMarker>>
witness    == <<typed, delivered, lost, adrift>>
spent      == <<keys, messageTaps, upsets>>
composerVars == <<nodeState, ownerAt, current, tapped, update, screen, shellState, formState,
                  witness, spent>>

Empty   == 0
Earlier == 1
Nobody  == "nobody"

(* The revisions a node gives to drafts only grow (apply_draft relies on it),
   as do the texts that are typed: a text is its own revision.  A conversation
   without a draft is shown with revision 0. *)
Draft(text) == [revision |-> text, text |-> text]
Unsaved     == Draft(Empty)

Snapshot == [generation |-> current, order |-> order, drafts |-> drafts, outgoing |-> outgoing]

(* The node was used before: it has conversations, drafts and messages. *)
ComposerInit ==
  /\ order \in SetToSeqs(Announced)
  /\ drafts \in {d \in [Peers -> {Unsaved, Draft(Earlier)}] :
                   \A p \in Peers \ Announced : d[p] = Unsaved}
  /\ outgoing \in {[p \in Peers |-> IF p \in before THEN 1 ELSE 0] : before \in SUBSET Announced}
  /\ active = Nobody /\ ownerAt = "idle" /\ current = 1 /\ tapped = <<>> /\ update = <<>>
  /\ screen = Snapshot
  /\ surface = "Messages" /\ selectedPeer = Nobody /\ threadOpen = FALSE
  /\ draftBuffers = <<>> /\ sendingMarker = {}
  /\ typed = [p \in Peers |-> drafts[p].text] /\ delivered = {} /\ lost = {} /\ adrift = FALSE
  /\ keys = 0 /\ messageTaps = 0 /\ upsets = 0

Upset == upsets < MaxUpsets /\ upsets' = upsets + 1

-----------------------------------------------------------------------------
(* What the snapshot and the signals show. *)

(* selected_hash: the peer the operator chose if the snapshot knows it, the
   first conversation otherwise. *)
Selected ==
  IF selectedPeer \in ToSet(screen.order) \cup Announced THEN selectedPeer
  ELSE IF screen.order # <<>> THEN Head(screen.order) ELSE Nobody

HasConversation == Selected \in ToSet(screen.order)

(* The buffer hides the snapshot's draft as long as the revision it was typed
   over is the one shown. *)
ShownText(p) ==
  IF p \in DOMAIN draftBuffers /\ draftBuffers[p].revision = screen.drafts[p].revision
    THEN draftBuffers[p].text ELSE screen.drafts[p].text

(* outbound_marker: the newest outgoing message of the conversation, if any. *)
OutboundMarker ==
  IF screen.outgoing[Selected] = 0 THEN <<>> ELSE <<Selected, screen.outgoing[Selected]>>

SendEnabled ==
  HasConversation /\ ShownText(Selected) # Empty /\ OutboundMarker \notin sendingMarker

-----------------------------------------------------------------------------
(* Actions of the interface and their way to the owner. *)

MobileAction(is, peer, text, revision) ==
  [is |-> is, generation |-> screen.generation, peer |-> peer, text |-> text,
   revision |-> revision]
SetActiveConversation(peer) == MobileAction("SetActiveConversation", peer, Empty, 0)
StartConversation(peer)     == MobileAction("StartConversation", peer, Empty, 0)

(* The action does not happen, and nobody is told. *)
Loses(action) ==
  /\ lost' = IF action.is = "SaveDraft" THEN lost \cup {action.text} ELSE lost
  /\ adrift' = (adrift \/ action.is \in {"SetActiveConversation", "StartConversation"})

(* dispatch *)
Dispatch(action) ==
  IF Len(tapped) < MessageCapacity
    THEN tapped' = Append(tapped, action) /\ UNCHANGED <<lost, adrift>>
    ELSE Loses(action) /\ UNCHANGED tapped

Issue(action) ==
  /\ messageTaps < MaxMessageTaps /\ messageTaps' = messageTaps + 1
  /\ Dispatch(action)
  /\ UNCHANGED <<nodeState, ownerAt, current, update, screen, typed, delivered, keys, upsets>>

ShowThread(p) == selectedPeer' = p /\ threadOpen' = TRUE /\ surface' = "Messages"

(* ConversationList on_select *)
SelectConversation(p) ==
  /\ surface = "Messages" /\ p \in ToSet(screen.order)
  /\ Issue(SetActiveConversation(p)) /\ ShowThread(p)
  /\ UNCHANGED formState

(* A row of Contacts: a conversation is opened, or started with a peer heard. *)
ChooseContact(p) ==
  /\ surface = "Contacts" /\ p \in ToSet(screen.order) \cup Announced
  /\ Issue(IF p \in ToSet(screen.order) THEN SetActiveConversation(p) ELSE StartConversation(p))
  /\ ShowThread(p)
  /\ UNCHANGED formState

(* The form of Contacts: any destination. *)
AddContact(p) ==
  /\ surface = "Contacts" /\ Issue(StartConversation(p)) /\ ShowThread(p)
  /\ UNCHANGED formState

(* NewMessageForm starts a conversation and shows nothing of it: the node's
   active conversation is then one the operator may not be looking at. *)
NewMessage(p) ==
  /\ surface = "Messages"
  /\ messageTaps < MaxMessageTaps /\ messageTaps' = messageTaps + 1
  /\ IF Len(tapped) < MessageCapacity THEN tapped' = Append(tapped, StartConversation(p))
     ELSE UNCHANGED tapped
  /\ adrift' = TRUE
  /\ UNCHANGED <<nodeState, ownerAt, current, update, screen, shellState, formState, typed,
                 delivered, lost, keys, upsets>>

(* Back, on screen or of the platform. *)
CloseThread ==
  /\ surface = "Messages" /\ threadOpen
  /\ Issue(SetActiveConversation(Nobody)) /\ threadOpen' = FALSE
  /\ UNCHANGED <<surface, selectedPeer, formState>>

(* Mutation: another surface is shown and the thread stays open behind it. *)
LeaveOpenThread ==
  /\ surface = "Messages" /\ surface' = "Contacts" /\ threadOpen' = FALSE
  /\ UNCHANGED <<nodeState, ownerAt, current, tapped, update, screen, selectedPeer, formState,
                 witness, spent>>

(* The navigation bar closes the thread it leaves. *)
LeaveMessages ==
  /\ surface = "Messages" /\ surface' = "Contacts" /\ threadOpen' = FALSE
  /\ IF threadOpen THEN Issue(SetActiveConversation(Nobody))
     ELSE UNCHANGED <<nodeState, ownerAt, current, tapped, update, screen, witness, spent>>
  /\ UNCHANGED <<selectedPeer, formState>>

ReturnToMessages ==
  /\ surface = "Contacts" /\ surface' = "Messages"
  /\ UNCHANGED <<nodeState, ownerAt, current, tapped, update, screen, selectedPeer, threadOpen,
                 formState, witness, spent>>

(* oninput of the message field: the keystroke is buffered over the revision
   shown and saved as a draft. *)
TypeText ==
  /\ surface = "Messages" /\ HasConversation /\ keys < MaxKeys
  /\ keys' = keys + 1
  /\ LET text == Earlier + keys'
         over == screen.drafts[Selected].revision
     IN /\ draftBuffers' = [p \in DOMAIN draftBuffers \cup {Selected} |->
                             IF p = Selected THEN [revision |-> over, text |-> text]
                             ELSE draftBuffers[p]]
        /\ typed' = [typed EXCEPT ![Selected] = text]
        /\ Dispatch(MobileAction("SaveDraft", Selected, text, over))
  /\ UNCHANGED <<nodeState, ownerAt, current, update, screen, shellState, sendingMarker,
                 delivered, messageTaps, upsets>>

(* onsubmit: the text on screen, with the revision the snapshot gave it. *)
SendTap ==
  /\ surface = "Messages" /\ SendEnabled
  /\ Issue(MobileAction("SubmitMessage", Selected, ShownText(Selected), screen.drafts[Selected].revision))
  /\ sendingMarker' = {OutboundMarker}
  /\ UNCHANGED <<shellState, draftBuffers>>

(* SEND_IN_FLIGHT_LIMIT has passed since the tap. *)
SendLimitElapses ==
  /\ sendingMarker # {} /\ Upset
  /\ sendingMarker' = {}
  /\ UNCHANGED <<nodeState, ownerAt, current, tapped, update, screen, shellState, draftBuffers,
                 witness, keys, messageTaps>>

ReceiveSnapshot ==
  /\ update # <<>> /\ screen' = Head(update) /\ update' = <<>>
  /\ UNCHANGED <<nodeState, ownerAt, current, tapped, shellState, formState, witness, spent>>

-----------------------------------------------------------------------------
(* The owner and the node. *)

Started(p) == order' = IF Contains(order, p) THEN order ELSE <<p>> \o order

(* Mutation: a draft typed over an older revision is not stored. *)
SaveDraftAtBase(action) ==
  /\ drafts' = IF action.revision = drafts[action.peer].revision
                 THEN [drafts EXCEPT ![action.peer] = Draft(action.text)]
                 ELSE drafts
  /\ UNCHANGED <<order, outgoing, active, delivered>>

(* set_draft: base_revision is not looked at. *)
SaveDraft(action) ==
  /\ drafts' = [drafts EXCEPT ![action.peer] = Draft(action.text)]
  /\ UNCHANGED <<order, outgoing, active, delivered>>

(* send_text clears the draft if it still is the one submitted, and keeps its
   revision or drops it altogether. *)
SubmitMessage(action) ==
  LET p == action.peer
  IN /\ outgoing' = [outgoing EXCEPT ![p] = @ + 1]
     /\ delivered' = delivered \cup {action.text}
     /\ \E kept \in {0, drafts[p].revision} :
          drafts' = IF drafts[p].revision = action.revision
                      THEN [drafts EXCEPT ![p] = [revision |-> kept, text |-> Empty]] ELSE drafts
     /\ UNCHANGED <<order, active>>

(* execute_action *)
ExecuteAction(action) ==
  \/ /\ action.is = "SetActiveConversation" /\ active' = action.peer
     /\ UNCHANGED <<order, drafts, outgoing, delivered>>
  \/ /\ action.is = "StartConversation" /\ Started(action.peer) /\ active' = action.peer
     /\ UNCHANGED <<drafts, outgoing, delivered>>
  \/ action.is = "SaveDraft" /\ SaveDraft(action)
  \/ action.is = "SubmitMessage" /\ SubmitMessage(action)

TakeTapped == ownerAt = "idle" /\ tapped # <<>> /\ tapped' = Tail(tapped)

CarryOut ==
  /\ TakeTapped /\ Head(tapped).generation = current
  /\ ExecuteAction(Head(tapped))
  /\ ownerAt' = "project"
  /\ UNCHANGED <<current, update, screen, shellState, formState, typed, lost, adrift, spent>>

(* The node refuses; a conversation may have been started and not be active. *)
RefuseTapped ==
  /\ TakeTapped /\ Head(tapped).generation = current
  /\ Upset
  /\ Loses(Head(tapped))
  /\ \/ UNCHANGED order
     \/ Head(tapped).is = "StartConversation" /\ Started(Head(tapped).peer)
  /\ ownerAt' = "project"
  /\ UNCHANGED <<drafts, outgoing, active, current, update, screen, shellState, formState,
                 typed, delivered, keys, messageTaps>>

DropStale ==
  /\ TakeTapped /\ Head(tapped).generation # current
  /\ Loses(Head(tapped))
  /\ UNCHANGED <<nodeState, ownerAt, current, update, screen, shellState, formState, typed,
                 delivered, spent>>

(* ApplyEndpoint: another node over the same storage, with no active
   conversation, under the next generation. *)
ReplaceNode ==
  /\ ownerAt = "idle" /\ Upset
  /\ current' = current + 1 /\ active' = Nobody /\ adrift' = TRUE
  /\ ownerAt' = "project"
  /\ UNCHANGED <<order, drafts, outgoing, tapped, update, screen, shellState, formState, typed,
                 delivered, lost, keys, messageTaps>>

PublishSnapshot ==
  /\ ownerAt = "project" /\ ownerAt' = "idle"
  /\ update' = <<Snapshot>>
  /\ UNCHANGED <<nodeState, current, tapped, screen, shellState, formState, witness, spent>>

(* A query of the projection fails: nothing is published. *)
ProjectionFails ==
  /\ ownerAt = "project" /\ ownerAt' = "idle"
  /\ Upset
  /\ UNCHANGED <<nodeState, current, tapped, update, screen, shellState, formState, witness,
                 keys, messageTaps>>

ComposerNext ==
  \/ \E p \in Peers : SelectConversation(p) \/ ChooseContact(p) \/ AddContact(p) \/ NewMessage(p)
  \/ CloseThread \/ LeaveMessages \/ ReturnToMessages \/ TypeText \/ SendTap \/ SendLimitElapses
  \/ ReceiveSnapshot
  \/ CarryOut \/ RefuseTapped \/ DropStale \/ ReplaceNode \/ PublishSnapshot \/ ProjectionFails

ComposerSpec == ComposerInit /\ [][ComposerNext]_composerVars

-----------------------------------------------------------------------------
Quiet == ownerAt = "idle" /\ tapped = <<>> /\ update = <<>>

(* However keystrokes, sends and snapshots interleave: when everything tapped
   has been dealt with, the text typed last in a conversation is its draft in
   the node, and on screen if the snapshot is up to date; or it was sent, or
   its keystroke was lost on the way. *)
TypedIsKept ==
  Quiet => \A p \in Peers :
    \/ typed[p] \in delivered \cup lost
    \/ /\ drafts[p].text = typed[p]
       /\ screen.drafts[p] = drafts[p] => ShownText(p) = typed[p]

(* The conversation the node takes to be open is the one whose thread is open,
   whichever way the operator came and left, unless an action was lost, the
   node was replaced, or a conversation was started from New Message. *)
ThreadIsActive ==
  Quiet /\ ~adrift => active = IF threadOpen THEN selectedPeer ELSE Nobody

(* openspec/changes/composer-sending-state/specs/composer-sending-state.md:7-8:
   while an attempt is in flight the composer "must not accept another submit
   until the backend generation advances". *)
OneSendInFlight ==
  \A p \in Peers :
    Cardinality({i \in DOMAIN tapped : tapped[i].is = "SubmitMessage" /\ tapped[i].peer = p}) <= 1

=============================================================================
