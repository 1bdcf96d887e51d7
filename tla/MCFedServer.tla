---------------------------- MODULE MCFedServer -----------------------------
(* FedServer on the instances TLC checks. *)
EXTENDS FedServer, TLC

Symmetry == Permutations(Device) \cup Permutations(Worker)
=============================================================================
