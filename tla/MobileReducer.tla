---------------------------- MODULE MobileReducer ----------------------------
(***************************************************************************)
(* The reducer of the phone's state, MobileStore of styrene-ui-state: the  *)
(* snapshots, events and outcomes of a backend session reduced into what   *)
(* the interface shows, each kept or ignored by its generation and, for    *)
(* peers and drafts, by its age.                                           *)
(*                                                                         *)
(* history is what the backend was, one state after the other; an update   *)
(* tells any of them.  So an update may come late, twice, out of order or  *)
(* not at all, which is the contract the reducer is tested for.            *)
(*                                                                         *)
(* One message, one conversation, and the TCP bearer stand for each list;  *)
(* a value is known by the number of its changes.  "connected" stands for  *)
(* every phase the backend tells; failures and the endpoint are left out.  *)
(***************************************************************************)
EXTENDS Naturals, Sequences, SequencesExt

CONSTANTS
  ReducerPeers,
  MaxBackendChanges,   \* changes of the backend's state, reconnections among them
  MaxGenerations

ASSUME ReducerAssumption == {MaxBackendChanges, MaxGenerations} \subseteq Nat

VARIABLES
  history,   \* states of the backend, the present one last
  store      \* MobileStore

reducerVars == <<history, store>>

NotListed == 0
Reconnecting == 0     \* the TCP bearer after begin_reconnect

Backend == Last(history)

(* from_fixture: the propagation update that goes with a snapshot. *)
FromFixture(n) == [generation |-> n.generation, of |-> n.propagation, ready |-> n.ready]

(* MobileStore::new *)
NewStore(n) ==
  [generation |-> n.generation, phase |-> "connected", peers |-> n.peers, message |-> n.message,
   tcp |-> n.tcp, draft |-> n.draft, ready |-> n.ready, announce |-> NotListed,
   propagation |-> FromFixture(n)]

FirstOf(generation) ==
  [generation |-> generation, peers |-> [p \in ReducerPeers |-> generation - 1], message |-> generation,
   tcp |-> generation, draft |-> [revision |-> generation, written |-> TRUE],
   propagation |-> 1, ready |-> generation = 1, announce |-> NotListed, submitted |-> 0]

(* begin_reconnect: what is shown stays, but for readiness and the TCP bearer. *)
Reconnected(s, generation) ==
  [s EXCEPT !.generation = generation, !.phase = "reconnecting", !.tcp = Reconnecting,
            !.ready = FALSE, !.propagation.generation = generation, !.propagation.ready = FALSE]

(* new, or cold_restore of what another process persisted. *)
ReducerInit ==
  \/ history = <<FirstOf(1)>> /\ store = NewStore(FirstOf(1))
  \/ /\ history = <<FirstOf(1), FirstOf(2)>>
     /\ store = Reconnected(NewStore(FirstOf(1)), 2)

-----------------------------------------------------------------------------
(* The backend. *)

Becomes(n) ==
  /\ Len(history) <= MaxBackendChanges
  /\ history' = Append(history, n) /\ UNCHANGED store
Bump(field) == [Backend EXCEPT ![field] = @ + 1, !.submitted = 0]

BackendMoves ==
  \/ \E field \in {"message", "tcp", "announce"} : Becomes(Bump(field))
  \/ \E p \in ReducerPeers : Becomes([Backend EXCEPT !.peers[p] = @ + 1, !.submitted = 0])
  \/ Becomes([Bump("propagation") EXCEPT !.ready = ~@])
  \/ Becomes([Backend EXCEPT !.draft = [revision |-> @.revision + 1, written |-> TRUE],
                             !.submitted = 0])

(* A message is sent with the draft, which is cleared. *)
BackendSends ==
  /\ Backend.draft.written
  /\ Becomes([Backend EXCEPT !.message = @ + 1, !.draft.written = FALSE,
                             !.submitted = Backend.draft.revision])

BackendReconnects ==
  /\ Backend.generation < MaxGenerations
  /\ Becomes([Backend EXCEPT !.generation = @ + 1, !.tcp = @ + 1, !.ready = FALSE,
                             !.submitted = 0])

-----------------------------------------------------------------------------
(* The reducer. *)

Told == ToSet(history)

Reduces(s) == store' = s /\ UNCHANGED history

(* Also apply_endpoint_update, with another endpoint. *)
BeginReconnect ==
  \E n \in Told :
    n.generation > store.generation /\ Reduces(Reconnected(store, n.generation))

(* apply_snapshot: the request and its answer are of this generation. *)
OfRequest(generation, n) == generation = store.generation /\ n.generation = generation

Replacing(n) == [NewStore(n) EXCEPT !.announce = store.announce]
ApplySnapshot ==
  \E n \in Told, generation \in 1..Backend.generation :
    OfRequest(generation, n) /\ Reduces(Replacing(n))

(* Mutation: an update counts from whichever generation. *)
OfAny(n) == TRUE
OfStore(n) == n.generation = store.generation

(* apply_peer_snapshot: the later observation of each peer that is listed. *)
NewestObserved(n) ==
  [p \in ReducerPeers |->
     IF n.peers[p] # NotListed /\ store.peers[p] > n.peers[p] THEN store.peers[p] ELSE n.peers[p]]
ApplyPeerSnapshot ==
  \E n \in Told : OfStore(n) /\ Reduces([store EXCEPT !.peers = NewestObserved(n)])

ApplyPeerEvent ==
  \E n \in Told, p \in ReducerPeers :
    /\ OfStore(n) /\ n.peers[p] # NotListed /\ n.peers[p] >= store.peers[p]
    /\ Reduces([store EXCEPT !.peers[p] = n.peers[p]])

ApplyAnnounceOutcome ==
  \E n \in Told : OfStore(n) /\ Reduces([store EXCEPT !.announce = n.announce])

(* apply_draft: a draft has no generation. *)
ApplyDraft ==
  \E n \in Told :
    n.draft.revision >= store.draft.revision /\ Reduces([store EXCEPT !.draft = n.draft])

(* apply_message_snapshot, with the conversations and their drafts. *)
ApplyMessageSnapshot ==
  \E n \in Told :
    OfStore(n) /\ Reduces([store EXCEPT !.message = n.message, !.draft = n.draft])

ApplyMessageEvent ==
  \E n \in Told : OfStore(n) /\ Reduces([store EXCEPT !.message = n.message])

(* apply_send_outcome: the draft is cleared if it is still the one submitted. *)
ApplySendOutcome ==
  \E n \in Told :
    /\ OfStore(n) /\ n.submitted # 0
    /\ Reduces([store EXCEPT !.message = n.message,
                  !.draft.written = @ /\ store.draft.revision # n.submitted])

ApplyPropagationUpdate ==
  \E n \in Told :
    OfStore(n) /\ Reduces([store EXCEPT !.ready = n.ready, !.propagation = FromFixture(n)])

ApplyBearerEvent == \E n \in Told : OfStore(n) /\ Reduces([store EXCEPT !.tcp = n.tcp])

ReducerNext ==
  \/ BackendMoves \/ BackendSends \/ BackendReconnects
  \/ BeginReconnect \/ ApplySnapshot
  \/ ApplyPeerSnapshot \/ ApplyPeerEvent \/ ApplyAnnounceOutcome
  \/ ApplyDraft \/ ApplyMessageSnapshot \/ ApplyMessageEvent \/ ApplySendOutcome
  \/ ApplyPropagationUpdate \/ ApplyBearerEvent

ReducerSpec == ReducerInit /\ [][ReducerNext]_reducerVars

-----------------------------------------------------------------------------
ConnectedIsOfOneGeneration ==
  store.phase = "connected" =>
    LET now == {n \in Told : n.generation = store.generation}
    IN /\ \A field \in {"message", "tcp", "ready"} : \E n \in now : store[field] = n[field]
       /\ \A p \in ReducerPeers : \E n \in now : store.peers[p] = n.peers[p]
       /\ store.propagation.ready = store.ready

ObservationsAreKept ==
  /\ store'.generation >= store.generation
  /\ store'.generation = store.generation /\ ~(\E n \in Told : store' = Replacing(n)) =>
       \A p \in ReducerPeers :
         store'.peers[p] = NotListed \/ store'.peers[p] >= store.peers[p]

(* However late, often or out of order updates come: once a generation is shown as
   connected, nothing of an earlier one is left or comes back -- each message, peer,
   bearer and readiness is one the backend told in this generation; only drafts
   outlive it.  The generation never goes back; and in one generation no snapshot
   or event of peers takes back a later observation of a peer that stays listed:
   only a snapshot of everything may. *)
UpdatesAreFenced ==
  [][ConnectedIsOfOneGeneration' /\ ObservationsAreKept]_reducerVars
=============================================================================
