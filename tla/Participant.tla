----------------------------- MODULE Participant ----------------------------
(***************************************************************************)
(* What a device and the server may count on in each other, with neither   *)
(* program in it: the device gets its id, then its samples, then serves;   *)
(* only a device that serves is sent a model; it owes the server one       *)
(* result for each, of the round it was asked for, and answers or fails    *)
(* to; what it owes dies with it, but not what it has posted.  Both the    *)
(* server's devices (module FedServer) and the device's program (module    *)
(* Fleet) are shown to implement it.                                       *)
(***************************************************************************)
EXTENDS Naturals

CONSTANTS Round

VARIABLES phase,    \* "off", "boot", "loading", "serving" or "stopped"
          id,       \* the device's id, 0 when it has none
          owed,     \* owed[r]: models of round r sent to it and not answered
          posted    \* posted[r]: its results of round r not read yet

vars == <<phase, id, owed, posted>>

Nothing == [r \in Round |-> 0]
\* Some of what is owed will never be answered.
AtMost(f) == {g \in [Round -> Nat] : \A r \in Round : g[r] <= f[r]}

Init == phase = "off" /\ id = 0 /\ owed = Nothing /\ posted = Nothing

Boot ==
  /\ phase = "off" /\ phase' = "boot"
  /\ UNCHANGED <<id, owed, posted>>

\* GET /id is answered, or fails and leaves the device without an id.
Identify ==
  /\ phase = "boot" /\ phase' = "loading"
  /\ id' \in Nat
  /\ UNCHANGED <<owed, posted>>

Listen ==
  /\ phase = "loading" /\ phase' = "serving"
  /\ UNCHANGED <<id, owed, posted>>

\* The server's POST /train.
Ask(r) ==
  /\ phase = "serving"
  /\ owed' = [owed EXCEPT ![r] = @ + 1]
  /\ UNCHANGED <<phase, id, posted>>

\* The device's POST /results.
Answer(r) ==
  /\ phase = "serving" /\ owed[r] > 0
  /\ owed' = [owed EXCEPT ![r] = @ - 1]
  /\ posted' = [posted EXCEPT ![r] = @ + 1]
  /\ UNCHANGED <<phase, id>>

Lose ==
  /\ phase = "serving" /\ owed' \in AtMost(owed)
  /\ UNCHANGED <<phase, id, posted>>

\* The server reads a result.
Collect(r) ==
  /\ posted[r] > 0
  /\ posted' = [posted EXCEPT ![r] = @ - 1]
  /\ UNCHANGED <<phase, id, owed>>

\* The device listens no more, though its emulator lives.
Stop ==
  /\ phase \in {"loading", "serving"} /\ phase' = "stopped"
  /\ owed' \in AtMost(owed)
  /\ UNCHANGED <<id, posted>>

\* The emulator ends.
Crash ==
  /\ phase' = "off" /\ id' = 0 /\ owed' = Nothing
  /\ UNCHANGED posted

Next ==
  \/ Boot \/ Identify \/ Listen \/ Lose \/ Stop \/ Crash
  \/ \E r \in Round : Ask(r) \/ Answer(r) \/ Collect(r)

Spec == Init /\ [][Next]_vars
=============================================================================
