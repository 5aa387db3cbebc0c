-------------------------- MODULE MCFrameDelivery --------------------------
(* Small instances of FrameDelivery. *)
EXTENDS FrameDelivery
=============================================================================
