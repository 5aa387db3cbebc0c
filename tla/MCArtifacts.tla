---------------------------- MODULE MCArtifacts ----------------------------
(* Small instances of Artifacts.  The log follows some of the events only. *)
EXTENDS Artifacts
LOCAL INSTANCE TLC
MCEvents == {<<1, "requested">>, <<1, "succeeded">>, <<2, "deleted">>, <<2, "failed">>}
Symmetry == Permutations(Clients)
=============================================================================
