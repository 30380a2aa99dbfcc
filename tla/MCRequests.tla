---------------------------- MODULE MCRequests ----------------------------
(* Requests of two users with one request per window.                       *)
EXTENDS Requests

OnePerWindow == [open |-> 1, guarded |-> 1]
=============================================================================
