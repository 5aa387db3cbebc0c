------------------------------ MODULE MCServe ------------------------------
(* Small instances of Serve. *)
EXTENDS Serve
=============================================================================
