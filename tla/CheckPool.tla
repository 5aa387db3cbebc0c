----------------------------- MODULE CheckPool -----------------------------
(***************************************************************************)
(* What the background supervision of src/sources.rs promises about its    *)
(* checks: a source has one check in flight at most, no more than Permits  *)
(* of them are at work, and a check that joined goes through queued,       *)
(* working and leaving in this order, whoever asked for it and however it  *)
(* ends.                                                                   *)
(***************************************************************************)
EXTENDS Naturals, FiniteSets

CONSTANTS
  Keys,     \* what is checked
  Permits   \* max_concurrent_checks

VARIABLE stage   \* of the check of each key

Init == stage = [k \in Keys |-> "out"]

Moves(k, from, to) == stage[k] = from /\ stage' = [stage EXCEPT ![k] = to]

\* The in-flight set did not have the key.
Join(k) == Moves(k, "out", "queued")

\* A permit of the semaphore is free.
Begin(k) ==
  /\ Cardinality({j \in Keys : stage[j] = "working"}) < Permits
  /\ Moves(k, "queued", "working")

End(k) == Moves(k, "working", "leaving")

Withdraw(k) == Moves(k, "leaving", "out")

Next == \E k \in Keys : Join(k) \/ Begin(k) \/ End(k) \/ Withdraw(k)

Spec == Init /\ [][Next]_stage

=============================================================================
