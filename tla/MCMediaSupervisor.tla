------------------------- MODULE MCMediaSupervisor -------------------------
(* Small instances of MediaSupervisor. *)
EXTENDS MediaSupervisor
=============================================================================
