------------------------------ MODULE MCIosBle ------------------------------
(* IosBle with model values; the .cfg files give the bounds. *)
EXTENDS IosBle
=============================================================================
