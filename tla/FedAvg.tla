------------------------------- MODULE FedAvg -------------------------------
(***************************************************************************)
(* What federated averaging promises, with no server in it: rounds follow  *)
(* one another, a round has a pool of ClientsPerRound members fixed when   *)
(* it starts, every member of the pool is received exactly once, and only  *)
(* then is the average of the whole pool published as the next model.      *)
(* The server (module FedServer) is shown to implement it.                 *)
(***************************************************************************)
EXTENDS Naturals, Sequences, FiniteSets

CONSTANTS Member,           \* who may belong to a pool
          NumRounds,        \* rounds to run
          ClientsPerRound   \* size of a pool

VARIABLES round,     \* number of the last round started
          training,  \* whether that round is still collecting updates
          pool,      \* the members whose updates the round needs
          received,  \* the members already counted
          models     \* models[r] is the set of members averaged in round r

vars == <<round, training, pool, received, models>>

TypeOK ==
  /\ round \in 0 .. NumRounds
  /\ training \in BOOLEAN
  /\ pool \subseteq Member
  /\ received \subseteq pool
  /\ models \in Seq(SUBSET Member)

Init ==
  /\ round = 0
  /\ training = FALSE
  /\ pool = {}
  /\ received = {}
  /\ models = <<>>

Start(P) ==
  /\ ~training
  /\ round < NumRounds
  /\ Cardinality(P) = ClientsPerRound
  /\ round' = round + 1
  /\ training' = TRUE
  /\ pool' = P
  /\ received' = {}
  /\ UNCHANGED models

Receive(m) ==
  /\ training
  /\ m \in pool \ received
  /\ received' = received \cup {m}
  /\ UNCHANGED <<round, training, pool, models>>

Publish ==
  /\ training
  /\ received = pool
  /\ models' = Append(models, pool)
  /\ training' = FALSE
  /\ pool' = {}
  /\ received' = {}
  /\ UNCHANGED round

Next ==
  \/ \E P \in SUBSET Member : Start(P)
  \/ \E m \in Member : Receive(m)
  \/ Publish

Spec == Init /\ [][Next]_vars
=============================================================================
