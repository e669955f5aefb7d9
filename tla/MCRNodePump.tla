----------------------------- MODULE MCRNodePump -----------------------------
(* RNodePump with small bounds; the .cfg files give them. *)
EXTENDS RNodePump
=============================================================================
