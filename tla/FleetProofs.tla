---------------------------- MODULE FleetProofs -----------------------------
(***************************************************************************)
(* Proofs about the fleet and its parts.  What the launcher and train      *)
(* promise is proved of each alone; the fleet implements them: seen        *)
(* through the launcher's variables its behaviours are the launcher's,     *)
(* through the trainer's they are train's, so what is proved of the parts  *)
(* holds of a device, a launcher and a server that run together.  The      *)
(* device's sockets are counted by who holds them, its requests and        *)
(* results by where they are; seen by its phase and by what it owes, it    *)
(* keeps the contract of module Participant.                               *)
(***************************************************************************)
EXTENDS Fleet, FiniteSetTheorems, SequenceTheorems, TLAPS

-----------------------------------------------------------------------------
(***************************************************************************)
(* What Launcher.tla promises of zfl, for any number of devices and of     *)
(* launches.  An orphan's FIFOs are still there, so that mkfifo keeps the  *)
(* next launch from its address; and start_client, which counts the        *)
(* children it has waited for, has removed the FIFOs of each of them.  A   *)
(* launch for fewer devices leaves what an earlier one left of the others. *)
(***************************************************************************)

Alive == {"running", "exited"}
Reaped == {c \in Client : child[c] = "reaped"}

LauncherType ==
  /\ num_clients \in Client /\ i \in 1 .. num_clients
  /\ child \in [Client -> {"none", "running", "exited", "reaped"}]
  /\ fifos \subseteq Fifo
  /\ orphan \subseteq Client

\* A FIFO is there for as long as an emulator that uses it.
FifosKept ==
  /\ \A c \in orphan : child[c] = "none" /\ <<c, "in">> \in fifos
  /\ \A c \in Client : child[c] \in Alive => <<c, "in">> \in fifos
  /\ \A c \in Client : child[c] = "reaped" => \A e \in OneEach : <<c, e>> \notin fifos

\* How far the launch is, by its children.
Progress ==
  /\ client_pc \in Ended => \A c \in Client : child[c] = "none"
  /\ client_pc \in {"mkfifo", "fork"} =>
       \A c \in Client : IF c < i THEN child[c] \in Alive ELSE child[c] = "none"
  /\ client_pc = "fork" => i \notin orphan /\ <<i, "in">> \in fifos
  /\ client_pc \in {"open", "write"} =>
       \A c \in Client : IF c <= i THEN child[c] \in Alive ELSE child[c] = "none"
  /\ client_pc = "wait" =>
       /\ \A c \in Client : child[c] # "none" <=> c <= num_clients
       /\ Cardinality(Reaped) = i - 1
  /\ client_pc \in Ended \cup {"mkfifo", "fork", "open", "write", "wait"}

LauncherInv == LauncherType /\ FifosKept /\ Progress /\ ReturnsClean

ServerInv == server_pc \in {"idle", "fork"} => server = "none"

-----------------------------------------------------------------------------
\* The devices of a launch can be counted.
LEMMA ClientsFinite ==
  ASSUME NEW n \in Client
  PROVE  /\ IsFiniteSet(1 .. n) /\ Cardinality(1 .. n) = n
         /\ 1 .. n \subseteq Client
<1>1. n \in Nat /\ n >= 1 /\ n <= NumClients
  BY LauncherAssumption DEF Client
<1>2. 1 .. n \subseteq Client
  BY <1>1, LauncherAssumption DEF Client
<1>3. IsFiniteSet(1 .. n) /\ Cardinality(1 .. n) = n
  BY <1>1, FS_Interval
<1> QED  BY <1>2, <1>3

\* What End does to the children, wherever start_client is: it returns clean
\* only if the caller sees to it.
LEMMA EndKeeps ==
  ASSUME LauncherType, FifosKept, NEW how \in Ended, End(how),
         fifos' \subseteq Fifo, fifos \subseteq fifos',
         num_clients' = num_clients
  PROVE  LauncherType' /\ FifosKept' /\ client_pc' = how
           /\ \A c \in Client : child'[c] = "none"
<1>1. 1 \in 1 .. num_clients
  BY LauncherAssumption DEF LauncherType, Client
<1> QED  BY <1>1 DEF LauncherType, FifosKept, End, Alive

\* The invariant holds before anything is launched.
LEMMA LauncherInvInit == LauncherInit => LauncherInv
BY LauncherAssumption
DEF LauncherInit, LauncherInv, LauncherType, FifosKept, Progress, ReturnsClean,
    Client, Alive, Ended

\* A launch begins with no child.
LEMMA LaunchKeeps == LauncherInv /\ Launch => LauncherInv'
<1> SUFFICES ASSUME LauncherInv, Launch PROVE LauncherInv'
  OBVIOUS
<1>1. /\ \A c \in Client : ~(c < 1)
      /\ \A n \in Client : 1 \in 1 .. n
  BY LauncherAssumption DEF Client
<1> QED
  BY <1>1
  DEF Launch, LauncherInv, LauncherType, FifosKept, Progress, ReturnsClean,
      Alive, Ended

\* mkfifo fails on an orphan's address, and otherwise makes a child's FIFOs
\* before there is a child.
LEMMA MakeFifosKeeps ==
  ASSUME NEW ok \in BOOLEAN, LauncherInv, MakeFifos(ok)
  PROVE  LauncherInv'
<1> USE DEF LauncherInv
<1>1. i \in Client /\ num_clients' = num_clients
  BY LauncherAssumption DEF MakeFifos, LauncherType, Client
<1>2. CASE ok
  <2>1. /\ fifos' = fifos \cup ({i} \X OneEach) /\ client_pc' = "fork"
        /\ UNCHANGED <<child, orphan, i>>
        /\ client_pc = "mkfifo" /\ FreePath(i)
    BY <1>2 DEF MakeFifos
  <2>2. <<i, "in">> \in {i} \X OneEach /\ {i} \X OneEach \subseteq Fifo
    BY <1>1 DEF OneEach, Fifo
  <2>3. i \notin orphan
    BY <2>1, <2>2 DEF FifosKept, FreePath, OneEach
  <2>4. LauncherType'
    BY <1>1, <2>1, <2>2 DEF LauncherType
  <2>5. FifosKept'
    <3>1. \A c \in Client : child[c] # "reaped"
      BY <2>1 DEF Progress, Alive
    <3> QED  BY <3>1, <2>1 DEF FifosKept
  <2>6. Progress'
    BY <2>1, <2>2, <2>3 DEF Progress, Ended
  <2> QED  BY <2>1, <2>4, <2>5, <2>6 DEF ReturnsClean
<1>3. CASE ~ok
  <2>1. End("failed") /\ (fifos' = fifos \/ fifos' = fifos \cup {<<i, "in">>})
    BY <1>3 DEF MakeFifos
  <2>2. fifos' \subseteq Fifo /\ fifos \subseteq fifos'
    BY <1>1, <2>1 DEF LauncherType, Fifo, OneEach
  <2>3. LauncherType' /\ FifosKept' /\ client_pc' = "failed"
          /\ \A c \in Client : child'[c] = "none"
    BY <1>1, <2>1, <2>2, EndKeeps DEF Ended
  <2> QED  BY <2>3 DEF Progress, ReturnsClean, Ended
<1> QED  BY <1>2, <1>3

\* A child is forked only onto FIFOs that no orphan uses.
LEMMA ForkKeeps ==
  ASSUME NEW ok \in BOOLEAN, LauncherInv, Fork(ok)
  PROVE  LauncherInv'
<1> USE DEF LauncherInv
<1>1. /\ i \in Client /\ num_clients' = num_clients
      /\ fifos' = fifos /\ client_pc = "fork"
  BY LauncherAssumption DEF Fork, LauncherType, Client
<1>2. CASE ok
  <2>1. PICK s \in Alive : child' = [child EXCEPT ![i] = s]
    BY <1>2 DEF Fork, Alive
  <2>2. client_pc' = "open" /\ orphan' = orphan /\ i' = i
    BY <1>2 DEF Fork
  <2>3. LauncherType'
    BY <1>1, <2>1, <2>2 DEF LauncherType, Alive
  <2>4. FifosKept'
    BY <1>1, <2>1, <2>2 DEF FifosKept, Progress, LauncherType, Alive
  <2>5. \A c \in Client : IF c <= i THEN child'[c] \in Alive ELSE child'[c] = "none"
    BY <1>1, <2>1 DEF Progress, LauncherType, Client
  <2> QED  BY <1>1, <2>2, <2>3, <2>4, <2>5 DEF Progress, ReturnsClean, Ended
<1>3. CASE ~ok
  <2>1. End("failed") /\ fifos' \subseteq Fifo
    BY <1>1, <1>3 DEF Fork, LauncherType
  <2>2. LauncherType' /\ FifosKept' /\ client_pc' = "failed"
          /\ \A c \in Client : child'[c] = "none"
    BY <1>1, <2>1, EndKeeps DEF Ended
  <2> QED  BY <2>2 DEF Progress, ReturnsClean, Ended
<1> QED  BY <1>2, <1>3

\* Behind the last command the wait begins with nothing reaped; a launcher
\* killed on the way leaves orphans whose FIFOs are there.
LEMMA WriteRunKeeps == LauncherInv /\ WriteRun => LauncherInv'
<1> SUFFICES ASSUME LauncherInv, WriteRun PROVE LauncherInv'
  OBVIOUS
<1> USE DEF LauncherInv
<1>1. /\ fifos' = fifos /\ client_pc = "write" /\ NumClients \in Nat \ {0}
      /\ num_clients' = num_clients /\ num_clients \in Client
      /\ i \in 1 .. num_clients
  BY LauncherAssumption DEF WriteRun, LauncherType
<1>2. CASE Running(i) /\ i < num_clients
  <2>1. client_pc' = "mkfifo" /\ i' = i + 1 /\ UNCHANGED <<child, orphan>>
    BY <1>2 DEF WriteRun
  <2>2. i' \in 1 .. num_clients /\ \A c \in Client : c < i' <=> c <= i
    BY <1>1, <1>2, <2>1 DEF Client
  <2> QED
    BY <1>1, <2>1, <2>2 DEF LauncherType, FifosKept, Progress, ReturnsClean, Ended
<1>3. CASE Running(i) /\ ~(i < num_clients)
  <2>1. client_pc' = "wait" /\ i' = 1 /\ UNCHANGED <<child, orphan>>
    BY <1>3 DEF WriteRun
  <2>2. \A c \in Client :
          IF c <= num_clients THEN child[c] \in Alive ELSE child[c] = "none"
    BY <1>1, <1>3 DEF Progress, Client
  <2>3. Reaped' = {} /\ 1 \in 1 .. num_clients
    BY <1>1, <2>1, <2>2 DEF Reaped, Alive, Client
  <2>4. Cardinality(Reaped') = i' - 1
    BY <2>1, <2>3, FS_EmptySet
  <2> QED
    BY <1>1, <2>1, <2>2, <2>3, <2>4
    DEF LauncherType, FifosKept, Progress, ReturnsClean, Ended, Alive
<1>4. CASE ~Running(i)
  <2>1. End("killed") /\ fifos' \subseteq Fifo
    BY <1>1, <1>4 DEF WriteRun, LauncherType
  <2>2. LauncherType' /\ FifosKept' /\ client_pc' = "killed"
          /\ \A c \in Client : child'[c] = "none"
    BY <1>1, <2>1, EndKeeps DEF Ended
  <2> QED  BY <2>2 DEF Progress, ReturnsClean, Ended
<1> QED  BY <1>2, <1>3, <1>4

\* The last wait finds all children but one reaped.
LEMMA WaitKeeps ==
  ASSUME NEW c \in Client, LauncherInv, Wait(c)
  PROVE  LauncherInv'
<1> USE DEF LauncherInv
<1>1. /\ client_pc = "wait" /\ child[c] = "exited" /\ fifos' = fifos \ FifosOf(c)
      /\ i \in 1 .. num_clients /\ Cardinality(Reaped) = i - 1
      /\ fifos' \subseteq Fifo /\ NumClients \in Nat \ {0}
      /\ num_clients \in Client /\ num_clients' = num_clients
  BY LauncherAssumption DEF Wait, Progress, LauncherType
<1> DEFINE Mine == 1 .. num_clients
<1>2. /\ \A d \in Mine : d \in Client /\ d \notin orphan /\ child[d] # "none"
      /\ c \in Mine
  <2>1. \A d \in Client : d \in Mine <=> d <= num_clients
    BY <1>1 DEF Client
  <2>2. Mine \subseteq Client
    BY <1>1, ClientsFinite
  <2>3. \A d \in Client : d \in Mine <=> child[d] # "none"
    BY <1>1, <2>1 DEF Progress
  <2> HIDE DEF Mine
  <2> QED  BY <1>1, <2>2, <2>3 DEF FifosKept
<1>3. IsFiniteSet(Reaped) /\ c \notin Reaped /\ Reaped \subseteq Mine
  <2>1. c \notin Reaped /\ Reaped \subseteq Mine
    BY <1>1 DEF Reaped, Progress, Client
  <2> QED  BY <1>1, <2>1, ClientsFinite, FS_Subset
<1>4. CASE i < num_clients
  <2>1. child' = [child EXCEPT ![c] = "reaped"] /\ i' = i + 1
        /\ UNCHANGED <<client_pc, orphan>>
    BY <1>4 DEF Wait
  <2>2. Reaped' = Reaped \cup {c}
    BY <2>1 DEF Reaped, LauncherType
  <2>3. Cardinality(Reaped') = i' - 1 /\ i' \in 1 .. num_clients
    BY <1>1, <1>3, <1>4, <2>1, <2>2, FS_AddElement DEF Client
  <2>4. LauncherType'
    BY <1>1, <2>1, <2>3 DEF LauncherType
  <2>5. FifosKept'
    BY <1>1, <1>2, <2>1 DEF FifosKept, LauncherType, FifosOf, Alive, Client
  <2>6. Progress' /\ ReturnsClean'
    BY <1>1, <2>1, <2>3 DEF Progress, ReturnsClean, LauncherType, Ended
  <2> QED  BY <2>4, <2>5, <2>6
<1>5. CASE ~(i < num_clients)
  <2>1. End("returned")
    BY <1>5 DEF Wait
  <2>2. Cardinality(Mine \ {c}) = num_clients - 1 /\ IsFiniteSet(Mine \ {c})
    BY <1>1, <1>2, ClientsFinite, FS_RemoveElement
  <2>3. Reaped = Mine \ {c}
    <3>1. i = num_clients
      BY <1>1, <1>5 DEF Client
    <3>2. Reaped \subseteq Mine \ {c} /\ Cardinality(Reaped) = num_clients - 1
      BY <1>1, <1>3, <3>1
    <3> QED  BY <3>2, <2>2, FS_Subset
  <2>4. \A d \in Mine, e \in OneEach : <<d, e>> \notin fifos'
    BY <1>1, <1>2, <2>3 DEF Reaped, FifosKept, FifosOf
  <2>5. \A d \in Client : child[d] # "running"
    <3>1. \A d \in Mine : child[d] # "running"
      BY <1>1, <2>3 DEF Reaped
    <3> QED  BY <1>1, <3>1 DEF Progress, Client
  <2>6. orphan' = orphan /\ \A d \in Client : child'[d] = "none"
    BY <2>1, <2>5 DEF End
  <2>7. LauncherType'
    <3>1. 1 \in 1 .. num_clients
      BY <1>1 DEF Client
    <3> QED  BY <1>1, <2>1, <2>6, <3>1 DEF End, LauncherType
  <2>8. FifosKept'
    <3>1. \A d \in orphan : d # c
      BY <1>2
    <3> QED  BY <1>1, <2>6, <3>1 DEF FifosKept, FifosOf, LauncherType, Alive
  <2> QED
    BY <1>1, <1>2, <2>1, <2>4, <2>6, <2>7, <2>8
    DEF End, Progress, ReturnsClean, Ended
<1> QED  BY <1>4, <1>5

\* So does one killed by a FIFO that is gone.
LEMMA CopierOpensKeeps ==
  ASSUME NEW c \in Client, LauncherInv, CopierOpens(c)
  PROVE  LauncherInv'
<1> USE DEF LauncherInv
<1>1. /\ num_clients' = num_clients
      /\ fifos' = fifos /\ fifos \subseteq Fifo
  BY DEF CopierOpens, LauncherType
<1>2. CASE End("killed")
  <2>1. LauncherType' /\ FifosKept' /\ client_pc' = "killed"
          /\ \A d \in Client : child'[d] = "none"
    BY <1>1, <1>2, EndKeeps DEF Ended
  <2> QED  BY <2>1 DEF Progress, ReturnsClean, Ended
<1>3. CASE UNCHANGED <<client_pc, i, child, orphan>>
  BY <1>1, <1>3
  DEF LauncherType, FifosKept, Progress, ReturnsClean, Reaped
<1> QED  BY <1>2, <1>3 DEF CopierOpens

\* An emulator that exits waits to be reaped, or is an orphan less.
LEMMA ExitKeeps ==
  ASSUME NEW c \in Client, LauncherInv, Exit(c)
  PROVE  LauncherInv'
<1> USE DEF LauncherInv
<1>1. UNCHANGED <<client_pc, num_clients, i, fifos>> /\ orphan' = orphan \ {c}
  BY DEF Exit
<1>2. \A d \in Client : \/ child'[d] = child[d]
                        \/ child[d] = "running" /\ child'[d] = "exited"
  BY DEF Exit, LauncherType
<1>3. LauncherType'
  BY <1>1 DEF Exit, LauncherType
<1>4. FifosKept'
  BY <1>1, <1>2 DEF FifosKept, LauncherType, Alive
<1>5. Reaped' = Reaped
  BY <1>2 DEF Reaped
<1>6. Progress'
  BY <1>1, <1>2, <1>5 DEF Progress, Alive
<1> QED  BY <1>1, <1>3, <1>4, <1>6 DEF ReturnsClean

\* Every step of the launcher keeps its invariant.
LEMMA LauncherInvStep ==
  LauncherInv /\ [LauncherNext]_launcher_vars => LauncherInv'
<1> SUFFICES ASSUME LauncherInv, [LauncherNext]_launcher_vars
             PROVE  LauncherInv'
  OBVIOUS
<1>1. CASE Launch
  BY <1>1, LaunchKeeps
<1>2. CASE WriteRun
  BY <1>2, WriteRunKeeps
<1>3. CASE OpenIn
  BY <1>3
  DEF OpenIn, LauncherInv, LauncherType, FifosKept, Progress, ReturnsClean, Ended
<1>4. ASSUME NEW ok \in BOOLEAN, MakeFifos(ok) \/ Fork(ok) PROVE LauncherInv'
  BY <1>4, MakeFifosKeeps, ForkKeeps
<1>5. ASSUME NEW c \in Client, Wait(c) \/ CopierOpens(c) \/ Exit(c)
      PROVE  LauncherInv'
  BY <1>5, WaitKeeps, CopierOpensKeeps, ExitKeeps
<1>6. CASE UNCHANGED <<client_pc, num_clients, i, fifos, child, orphan>>
  BY <1>6
  DEF LauncherInv, LauncherType, FifosKept, Progress, ReturnsClean, Reaped
<1>7. CASE ServerLauncher \/ ServerEnds \/ UNCHANGED launcher_vars
  BY <1>6, <1>7
  DEF ServerLauncher, ServerEnds, InterfaceUp, StartServer, InterfaceDown,
      client_vars, server_vars, launcher_vars
<1> QED
  BY <1>1, <1>2, <1>3, <1>4, <1>5, <1>7 DEF LauncherNext, ClientLauncher

\* There is no server before it is forked.
LEMMA ServerInvStep ==
  ServerInv /\ [LauncherNext]_launcher_vars => ServerInv'
<1> SUFFICES ASSUME ServerInv, [LauncherNext]_launcher_vars PROVE ServerInv'
  OBVIOUS
<1>1. CASE UNCHANGED server_vars
  BY <1>1 DEF ServerInv, server_vars
<1>2. CASE ClientLauncher \/ \E c \in Client : Exit(c)
  BY <1>1, <1>2
  DEF ClientLauncher, Launch, OpenIn, WriteRun, MakeFifos, Fork, Wait,
      CopierOpens, Exit
<1>3. CASE ServerLauncher \/ ServerEnds
  BY <1>3
  DEF ServerLauncher, ServerEnds, ServerGone, InterfaceUp, StartServer,
      InterfaceDown, ServerInv
<1> QED
  BY <1>1, <1>2, <1>3 DEF LauncherNext, launcher_vars

-----------------------------------------------------------------------------
\* start_client never has two emulators with one device's address, however
\* launches fail, are killed and are repeated.
THEOREM AddressesUnique == LauncherSpec => []OneEmulatorPerAddress
<1>1. LauncherInv => OneEmulatorPerAddress
  BY DEF LauncherInv, FifosKept, OneEmulatorPerAddress
<1> QED  BY <1>1, LauncherInvInit, LauncherInvStep, PTL DEF LauncherSpec

\* A start_client that returns 0 has left no FIFO and no emulator of its own
\* devices behind, whatever earlier launches left.
THEOREM LaunchesEndClean == LauncherSpec => []ReturnsClean
<1>1. LauncherInv => ReturnsClean
  BY DEF LauncherInv
<1> QED  BY <1>1, LauncherInvInit, LauncherInvStep, PTL DEF LauncherSpec

\* zfl server: whatever net-setup.sh does and ends with, the interface does not
\* change while the server runs, nor in the step that starts or ends it.
THEOREM InterfaceLives == LauncherSpec => InterfaceAroundServer
<1>1. LauncherInit => ServerInv
  BY DEF LauncherInit, ServerInv
<1>2. ServerInv /\ [LauncherNext]_launcher_vars
        => [interface' # interface
              => server # "running" /\ server' # "running"]_launcher_vars
  <2> SUFFICES ASSUME ServerInv, LauncherNext, interface' # interface
               PROVE  server # "running" /\ server' # "running"
    OBVIOUS
  <2>1. CASE ClientLauncher \/ \E c \in Client : Exit(c)
    BY <2>1
    DEF ClientLauncher, Launch, OpenIn, WriteRun, MakeFifos, Fork, Wait,
        CopierOpens, Exit, server_vars
  <2>2. CASE ServerLauncher \/ ServerEnds
    BY <2>2
    DEF ServerLauncher, ServerEnds, ServerGone, InterfaceUp, StartServer,
        InterfaceDown, ServerInv
  <2> QED  BY <2>1, <2>2 DEF LauncherNext
<1> QED
  BY <1>1, <1>2, ServerInvStep, PTL DEF LauncherSpec, InterfaceAroundServer

-----------------------------------------------------------------------------
(***************************************************************************)
(* What Training.tla promises of train, for every number of samples, of    *)
(* epochs and every batch size.  The invariant ties the slice and    *)
(* the rows learned from to the number of the batch; the bound on the      *)
(* slice is then a fact about integer division.                            *)
(***************************************************************************)

TrainInv ==
  /\ n_images \in Nat /\ batch \in Nat /\ epoch \in Nat
  /\ step \in {"out", "loop", "learn"}
  /\ step # "out" => learned = batch * BATCH_SIZE
  /\ step = "learn" => from = batch * BATCH_SIZE /\ batch < NUM_BATCHES

\* The whole batches of n samples fit in them, and with one more they do not:
\* NUM_BATCHES of train.h.
LEMMA WholeBatches ==
  ASSUME NEW n \in Nat, NEW b \in Nat \ {0}, NEW k \in Nat
  PROVE  /\ k < n \div b => k * b + b <= n
         /\ k >= n \div b => k * b + b > n
<1>1. n = b * (n \div b) + (n % b) /\ n % b \in 0 .. b - 1 /\ n \div b \in Nat
  BY SMT
<1> DEFINE q == n \div b
<1> q \in Nat
  BY <1>1
<1>2. b * q <= n /\ n < b * q + b
  BY <1>1, SMT
<1> HIDE DEF q
<1>3. CASE k < q
  <2>1. k + 1 <= q
    BY <1>3
  <2>2. b * (k + 1) <= b * q
    BY <2>1, SMT
  <2>3. b * (k + 1) = k * b + b
    BY SMT
  <2> QED  BY <2>2, <2>3, <1>2, <1>3, SMT DEF q
<1>4. CASE k >= q
  <2>1. b * q <= b * k
    BY <1>4, SMT
  <2>2. b * k = k * b
    BY SMT
  <2> QED  BY <2>1, <2>2, <1>2, <1>4, SMT DEF q
<1> QED  BY <1>3, <1>4, SMT

\* The invariant holds before the first epoch.
LEMMA TrainInvInit == TrainInit => TrainInv
BY TrainAssumption DEF TrainInit, TrainInv

\* Every step of train keeps it.
LEMMA TrainInvStep == TrainInv /\ [TrainNext]_train_vars => TrainInv'
<1> SUFFICES ASSUME TrainInv, [TrainNext]_train_vars
             PROVE  TrainInv'
  OBVIOUS
<1> USE TrainAssumption
<1>1. CASE TakeBatch
  BY <1>1 DEF TakeBatch, TrainInv, From, NUM_BATCHES
<1>2. CASE Learn
  <2>1. learned + BATCH_SIZE = (batch + 1) * BATCH_SIZE
    BY <1>2, SMT DEF Learn, TrainInv
  <2> QED  BY <1>2, <2>1 DEF Learn, TrainInv, NUM_BATCHES
<1>3. CASE NextEpoch
  <2>1. 0 = 0 * BATCH_SIZE
    OBVIOUS
  <2> QED  BY <1>3, <2>1 DEF NextEpoch, TrainInv, NUM_BATCHES
<1>4. CASE EndTraining
  BY <1>4 DEF EndTraining, LeaveTrain, TrainInv
<1>5. CASE BeginTraining
  <2>1. 0 = 0 * BATCH_SIZE
    OBVIOUS
  <2> QED  BY <1>5, <2>1 DEF BeginTraining, TrainInv
<1>6. CASE ForgetTraining
  BY <1>6 DEF ForgetTraining, LeaveTrain, TrainInv
<1>7. CASE \E n \in Nat : SetSamples(n)
  BY <1>7 DEF SetSamples, TrainInv
<1>8. CASE UNCHANGED train_vars
  BY <1>8 DEF train_vars, TrainInv, NUM_BATCHES
<1> QED
  BY <1>1, <1>2, <1>3, <1>4, <1>5, <1>6, <1>7, <1>8
  DEF TrainNext, TrainStep

\* So it always holds.
LEMMA TrainInvAlways == TrainSpec => []TrainInv
BY TrainInvInit, TrainInvStep, PTL DEF TrainSpec

\* mat_slice in train: the slice of a batch is inside the samples, and starts
\* where the rows already learned from end.
THEOREM SlicesInside == TrainSpec => []BatchInside
<1>1. TrainInv => BatchInside
  <2> SUFFICES ASSUME TrainInv, step = "learn"
               PROVE  from = learned /\ from + BATCH_SIZE <= n_images
    BY DEF BatchInside
  <2>1. batch < n_images \div BATCH_SIZE /\ from = batch * BATCH_SIZE
        /\ learned = from
    BY DEF TrainInv, NUM_BATCHES
  <2> QED  BY <2>1, WholeBatches, TrainAssumption DEF TrainInv
<1> QED  BY <1>1, TrainInvAlways, PTL

\* train: an epoch goes through every whole batch.
THEOREM EpochsWhole == TrainSpec => EpochWhole
<1>1. TrainInv /\ [TrainNext]_train_vars
        => [step = "loop" /\ epoch' = epoch + 1
              => learned + BATCH_SIZE > n_images]_train_vars
  <2> SUFFICES ASSUME TrainInv, TrainNext, step = "loop", epoch' = epoch + 1
               PROVE  learned + BATCH_SIZE > n_images
    OBVIOUS
  <2>1. epoch \in Nat /\ epoch' # epoch
    BY DEF TrainInv
  <2>2. batch >= n_images \div BATCH_SIZE
    BY <2>1, TrainAssumption
    DEF TrainNext, TrainStep, TakeBatch, Learn, NextEpoch, EndTraining,
        LeaveTrain, BeginTraining, ForgetTraining, TrainInit, SetSamples,
        NUM_BATCHES
  <2> QED  BY <2>2, WholeBatches, TrainAssumption DEF TrainInv
<1> QED  BY <1>1, TrainInvAlways, PTL DEF TrainSpec, EpochWhole

-----------------------------------------------------------------------------
(***************************************************************************)
(* The fleet.                                                              *)
(***************************************************************************)

\* Lengths of files are what init_train_set is given.
GotInv == got.images \in Nat /\ got.labels \in Nat /\ DOMAIN got = DOMAIN Nothing

\* The sockets that were not connected, the listening socket, the connection
\* served, the connection of send_weights.
SocketsInv ==
  /\ boot # "serving" => handler = "none"
  /\ boot # "undefined" =>
       sockets = leaked + Holds(boot = "serving") + Holds(handler # "none")
                   + Holds(serv = "open")
  /\ sockets \in Int /\ leaked \in Int
  /\ serv = "open" => boot = "undefined" \/ handler \in {"header", "body", "close"}
  /\ handler \in {"header", "body"} => serv = "open"

-----------------------------------------------------------------------------
\* Seen through the launcher's variables every step of the fleet is one of the
\* launcher, or none.
LEMMA LauncherSimulated == Next => [LauncherNext]_launcher_vars
<1>1. CASE Launching \/ Serving
  BY <1>1 DEF Launching, Serving, LauncherNext
<1>2. CASE EmulatorExits \/ ServerExits
  BY <1>2 DEF EmulatorExits, ServerExits, LauncherNext
<1>3. CASE Starting
  BY <1>3
  DEF Starting, DeviceRuns, DeviceRegisters, DeviceGetsNoId, DeviceDownloads,
      DeviceBegins
<1>4. CASE Device
  BY <1>4 DEF Device, DeviceAlone, DeviceAnswers, DeviceSends
<1>5. CASE Scheduler \/ Collect
  BY <1>5
  DEF Scheduler, Scan, Ping, EndScan, SendTrain, EndBroadcast, Collect,
      ServerStep
<1> QED  BY <1>1, <1>2, <1>3, <1>4, <1>5 DEF Next

\* Likewise through the trainer's variables.
LEMMA TrainingSimulated == GotInv /\ Next => [TrainNext]_train_vars
<1> SUFFICES ASSUME GotInv, Next PROVE [TrainNext]_train_vars
  OBVIOUS
<1>1. CASE Launching \/ Serving \/ ServerExits
  BY <1>1 DEF Launching, Serving, ServerExits, guest_vars
<1>2. CASE EmulatorExits
  BY <1>2 DEF EmulatorExits, Vanish, TrainNext, guest_vars
<1>3. CASE DeviceBegins
  BY <1>3 DEF DeviceBegins, InitTrainSet, GotInv, TrainNext
<1>4. CASE DeviceRuns \/ DeviceRegisters \/ DeviceGetsNoId \/ DeviceDownloads
  BY <1>4
  DEF DeviceRuns, DeviceRegisters, DeviceGetsNoId, DeviceDownloads, Run, ReqId,
      ReqImages, ReqLabels
<1>5. CASE Device
  BY <1>5
  DEF Device, DeviceAlone, DeviceAnswers, DeviceSends, Accept, Receive, Train,
      CloseServ, Clean, Answer, Connect, SendHeader, SendBody, TrainNext
<1>6. CASE Scheduler \/ Collect
  BY <1>6
  DEF Scheduler, Scan, Ping, EndScan, SendTrain, EndBroadcast, Collect,
      ServerStep
<1> QED  BY <1>1, <1>2, <1>3, <1>4, <1>5, <1>6 DEF Next, Starting

\* What has been downloaded stays a number of samples.
LEMMA GotInvStep == GotInv /\ [Next]_fleet_vars => GotInv'
<1> SUFFICES ASSUME GotInv, [Next]_fleet_vars PROVE GotInv'
  OBVIOUS
<1>1. CASE UNCHANGED got
  BY <1>1 DEF GotInv
<1>2. CASE Launching \/ Serving \/ ServerExits \/ UNCHANGED fleet_vars
  BY <1>1, <1>2
  DEF Launching, Serving, ServerExits, guest_vars, device_vars, run_vars, fleet_vars
<1>3. CASE EmulatorExits \/ DeviceBegins
  BY <1>1, <1>3
  DEF EmulatorExits, Vanish, DeviceBegins, InitTrainSet, Nothing, GotInv,
      guest_vars, device_vars, run_vars
<1>4. CASE DeviceRuns \/ DeviceRegisters \/ DeviceGetsNoId
  BY <1>1, <1>4 DEF DeviceRuns, DeviceRegisters, DeviceGetsNoId, Run, ReqId
<1>5. CASE DeviceDownloads
  <2>1. PICK answered \in BOOLEAN, n \in Count :
          \E connected \in BOOLEAN :
            \/ ReqImages(connected, answered, n)
            \/ ReqLabels(connected, answered, n)
    BY <1>5, Zenon DEF DeviceDownloads
  <2>2. n \in Nat
    BY SplitAssumption DEF Count
  <2> QED  BY <2>1, <2>2 DEF ReqImages, ReqLabels, GotInv, Nothing
<1>6. CASE Device
  BY <1>1, <1>6
  DEF Device, DeviceAlone, DeviceAnswers, DeviceSends, Accept, Receive, Train,
      CloseServ, Clean, Answer, Connect, SendHeader, SendBody, run_vars
<1>7. CASE Scheduler \/ Collect
  BY <1>1, <1>7
  DEF Scheduler, Scan, Ping, EndScan, SendTrain, EndBroadcast, Collect,
      ServerStep, run_vars
<1> QED  BY <1>2, <1>3, <1>4, <1>5, <1>6, <1>7 DEF Next, Starting

\* Every behaviour of the fleet is one of zfl's launcher.
THEOREM FleetLaunches == Spec => LauncherSpec
<1>1. Init => LauncherInit
  BY DEF Init
<1>2. [Next]_fleet_vars => [LauncherNext]_launcher_vars
  BY LauncherSimulated DEF fleet_vars
<1> QED  BY <1>1, <1>2, PTL DEF Spec, LauncherSpec

\* Every behaviour of the fleet is one of the device's training loop, which
\* begins anew with each emulator.
THEOREM FleetTrains == Spec => TrainSpec
<1>1. Init => TrainInit /\ GotInv
  BY DEF Init, DeviceInit, GotInv, Nothing
<1>2. GotInv /\ [Next]_fleet_vars => [TrainNext]_train_vars
  BY TrainingSimulated DEF fleet_vars, guest_vars
<1> QED  BY <1>1, <1>2, GotInvStep, PTL DEF Spec, TrainSpec

\* What is proved of the launcher and of train holds in the fleet.
THEOREM FleetParts ==
  Spec => /\ [](OneEmulatorPerAddress /\ ReturnsClean)
          /\ InterfaceAroundServer
          /\ []BatchInside /\ EpochWhole
BY FleetLaunches, FleetTrains, AddressesUnique, LaunchesEndClean, InterfaceLives,
   SlicesInside, EpochsWhole, PTL

-----------------------------------------------------------------------------
\* Every step opens and closes the sockets it is said to hold.
LEMMA SocketsInvStep == SocketsInv /\ [Next]_fleet_vars => SocketsInv'
<1> SUFFICES ASSUME SocketsInv, [Next]_fleet_vars PROVE SocketsInv'
  OBVIOUS
<1> USE DEF SocketsInv, Holds
<1>1. CASE UNCHANGED <<boot, handler, sockets, leaked, serv>>
  BY <1>1
<1>2. CASE Launching \/ Serving \/ ServerExits \/ UNCHANGED fleet_vars
  BY <1>1, <1>2
  DEF Launching, Serving, ServerExits, guest_vars, device_vars, run_vars,
      socket_vars, handler_vars, send_vars, fleet_vars
<1>3. CASE EmulatorExits
  BY <1>1, <1>3
  DEF EmulatorExits, Vanish, guest_vars, device_vars, run_vars, socket_vars,
      handler_vars, send_vars
<1>4. CASE DeviceBegins
  BY <1>4 DEF DeviceBegins, InitTrainSet, handler_vars, send_vars
<1>5. CASE DeviceRuns \/ DeviceRegisters \/ DeviceGetsNoId \/ DeviceDownloads
  <2>1. /\ boot # "serving" /\ boot' # "serving" /\ boot # "undefined"
        /\ UNCHANGED <<handler, serv>>
        /\ UNCHANGED socket_vars \/ ConnectFails
    BY <1>5, Zenon
    DEF DeviceRuns, DeviceRegisters, DeviceGetsNoId, DeviceDownloads, Run,
        ReqId, ReqImages, ReqLabels, GetRequest, handler_vars, send_vars
  <2> QED  BY <2>1 DEF ConnectFails, socket_vars
<1>6. CASE DeviceAlone
  <2>1. CASE Accept
    BY <2>1 DEF Accept, send_vars
  <2>2. CASE Receive
    BY <2>2 DEF Receive, send_vars, socket_vars, run_vars
  <2>3. CASE Train
    BY <2>3 DEF Train, send_vars, socket_vars, run_vars
  <2>4. CASE CloseServ
    BY <2>4 DEF CloseServ, run_vars
  <2>5. CASE Clean
    BY <2>5 DEF Clean, WithoutClient, send_vars, run_vars
  <2> QED  BY <1>6, <2>1, <2>2, <2>3, <2>4, <2>5 DEF DeviceAlone
<1>7. CASE DeviceAnswers
  BY <1>7 DEF DeviceAnswers, Answer, send_vars, socket_vars, run_vars
<1>8. CASE DeviceSends
  <2>1. ASSUME NEW ok \in BOOLEAN, Connect(ok) PROVE SocketsInv'
    BY <2>1 DEF Connect, NextTry, ConnectFails, run_vars
  <2>2. ASSUME NEW result \in {"ok", "ENOTCONN", "error"}, SendHeader(result)
        PROVE  SocketsInv'
    BY <2>2 DEF SendHeader, NextTry, send_vars, run_vars
  <2>3. ASSUME NEW result \in {"ok", "lost", "error"}, SendBody(result)
        PROVE  SocketsInv'
    BY <2>3 DEF SendBody, Sent, NextTry, send_vars, run_vars
  <2> QED  BY <1>8, <2>1, <2>2, <2>3 DEF DeviceSends
<1>9. CASE Scheduler \/ Collect
  BY <1>1, <1>9
  DEF Scheduler, Scan, Ping, EndScan, SendTrain, EndBroadcast, Collect,
      ServerStep, run_vars, socket_vars, handler_vars, send_vars
<1> QED
  BY <1>2, <1>3, <1>4, <1>5, <1>6, <1>7, <1>8, <1>9 DEF Next, Starting, Device

\* handle_incoming_connection and send_weights: whatever fails and however
\* often it is tried again, a handler closes the connections it got, and a
\* device loses one socket for each connect that fails and no other.
THEOREM HandlersClose == Spec => []SocketsReturned
<1>1. Init => SocketsInv
  BY DEF Init, DeviceInit, SocketsInv, Holds
<1>2. SocketsInv => SocketsReturned
  BY DEF SocketsInv, SocketsReturned, Holds
<1> QED  BY <1>1, <1>2, SocketsInvStep, PTL DEF Spec

-----------------------------------------------------------------------------
\* The samples: how many a device has of the files of its id.
Whole == SamplesOf(ID)
Good(n) == n = Whole \/ faults > 1

\* The server is asked once it has been started, and never starts again.
ServerOnce ==
  /\ server \in {"none", "running", "ended"}
  /\ server_pc \in {"idle", "fork"} => server = "none"
  /\ entries \in Nat /\ faults \in Nat /\ ID \in 0 .. entries
  /\ entries # 0 => server # "none"

\* Nothing reaches a device that does not serve.
Alone ==
  /\ boot \notin {"serving", "undefined"} => backlog = <<>>
  /\ boot # "serving" => handler = "none"
  /\ step # "out" => boot = "serving" /\ handler = "train"

\* The first count is right, or a failure is on record; when both are taken
\* the counts are right, or differ, or data is missing, or two failed.
Counts ==
  /\ boot = "labels" =>
       \/ got.images = Whole /\ ~got.missing
       \/ faults > 0
       \/ got.missing /\ (server = "ended" \/ ID = 0)
  /\ boot = "init" /\ ~Mismatch /\ ~(got.images > 0 /\ got.missing) =>
       Good(got.images) \/ server = "ended"
  /\ boot = "serving" =>
       \/ Good(n_images)
       \/ server = "ended" /\ backlog = <<>> /\ handler = "none"

SamplesInv == GotInv /\ got.missing \in BOOLEAN /\ ServerOnce /\ Alone /\ Counts

\* No step starts the server again.
LEMMA ServerOnceStep == ServerOnce /\ [Next]_fleet_vars => ServerOnce'
<1> SUFFICES ASSUME ServerOnce, [Next]_fleet_vars PROVE ServerOnce'
  OBVIOUS
<1> USE DEF ServerOnce
<1>1. CASE UNCHANGED <<server, server_pc, entries, ID>> /\ faults' \in Nat
  BY <1>1
<1>2. CASE Launching \/ UNCHANGED fleet_vars
  BY <1>1, <1>2
  DEF Launching, ClientLauncher, Launch, OpenIn, WriteRun, MakeFifos, Fork, Wait,
      CopierOpens, End, server_vars, guest_vars, device_vars,
      run_vars, scheduler_vars, launcher_vars, fleet_vars
<1>3. CASE Serving
  BY <1>3
  DEF Serving, ServerLauncher, ServerGone, InterfaceUp,
      StartServer, InterfaceDown, guest_vars, device_vars, run_vars,
      scheduler_vars
<1>4. CASE ServerExits
  BY <1>4
  DEF ServerExits, ServerEnds, guest_vars, device_vars, run_vars, scheduler_vars
<1>5. CASE EmulatorExits
  BY <1>5
  DEF EmulatorExits, Exit, Vanish, server_vars, guest_vars, device_vars,
      run_vars, scheduler_vars
<1>6. CASE DeviceRegisters
  <2>1. /\ server = "running" /\ UNCHANGED <<server, server_pc>>
        /\ entries' = entries + 1 /\ (ID' = entries + 1 \/ ID' = 0)
        /\ faults' = faults \/ faults' = faults + 1
    BY <1>6, Zenon
    DEF DeviceRegisters, ReqId, ServerUp, Works, Fails, launcher_vars,
        server_vars
  <2> QED  BY <2>1
<1>7. CASE DeviceGetsNoId
  BY <1>7
  DEF DeviceGetsNoId, ReqId, Unanswered, Reaches, Works, Fails, launcher_vars,
      server_vars, scheduler_vars
<1>8. CASE DeviceRuns \/ DeviceBegins
  BY <1>1, <1>8
  DEF DeviceRuns, DeviceBegins, Run, InitTrainSet, launcher_vars, server_vars,
      scheduler_vars
<1>9. CASE DeviceDownloads
  <2>1. /\ ID' = ID /\ UNCHANGED <<launcher_vars, scheduler_vars>>
        /\ Works \/ Fails
    BY <1>9, Zenon
    DEF DeviceDownloads, ReqImages, ReqLabels, Unanswered, Reaches
  <2> QED
    BY <1>1, <2>1 DEF Works, Fails, launcher_vars, server_vars, scheduler_vars
<1>10. CASE Device
  BY <1>1, <1>10
  DEF Device, DeviceAlone, DeviceAnswers, DeviceSends, Accept, Receive, Train,
      CloseServ, Clean, Answer, Connect, SendHeader, SendBody, Reaches, Works,
      Fails, run_vars, launcher_vars, server_vars, scheduler_vars
<1>11. CASE Scheduler \/ Collect
  BY <1>1, <1>11
  DEF Scheduler, Scan, Ping, EndScan, SendTrain, EndBroadcast, Collect,
      ServerStep, Reaches, Works, Fails, run_vars, launcher_vars, server_vars
<1> QED
  BY <1>2, <1>3, <1>4, <1>5, <1>6, <1>7, <1>8, <1>9, <1>10,
     <1>11 DEF Next, Starting

\* Nothing reaches the device before it serves, nor after.
LEMMA AloneStep == Alone /\ [Next]_fleet_vars => Alone'
<1> SUFFICES ASSUME Alone, [Next]_fleet_vars PROVE Alone'
  OBVIOUS
<1> USE DEF Alone
<1>1. CASE UNCHANGED <<boot, backlog, handler, step>>
  BY <1>1
<1>2. CASE Launching \/ Serving \/ ServerExits \/ UNCHANGED fleet_vars
  BY <1>1, <1>2
  DEF Launching, Serving, ServerExits, guest_vars, device_vars, run_vars,
      handler_vars, train_vars, fleet_vars
<1>3. CASE EmulatorExits
  BY <1>1, <1>3
  DEF EmulatorExits, Vanish, ForgetTraining, LeaveTrain, guest_vars, device_vars,
      run_vars, handler_vars, train_vars
<1>4. CASE Starting
  BY <1>4
  DEF Starting, DeviceRuns, DeviceRegisters, DeviceGetsNoId, DeviceDownloads,
      DeviceBegins, Run, ReqId, ReqImages, ReqLabels, InitTrainSet, SetSamples,
      handler_vars, train_vars
<1>5. CASE DeviceAlone
  <2>1. CASE Accept
    BY <2>1 DEF Accept, HandlerWaits, train_vars
  <2>2. CASE Receive
    BY <2>2 DEF Receive, BeginTraining, run_vars, train_vars
  <2>3. CASE Train
    BY <2>3
    DEF Train, TrainStep, TakeBatch, Learn, NextEpoch, EndTraining,
        LeaveTrain, run_vars
  <2>4. CASE CloseServ \/ Clean
    BY <2>4 DEF CloseServ, Clean, run_vars, train_vars
  <2> QED  BY <1>5, <2>1, <2>2, <2>3, <2>4 DEF DeviceAlone
<1>6. CASE DeviceAnswers \/ DeviceSends
  BY <1>6
  DEF DeviceAnswers, DeviceSends, Answer, Connect, SendHeader, SendBody, NextTry,
      Sent, run_vars, train_vars
<1>7. CASE Scheduler \/ Collect
  BY <1>7
  DEF Scheduler, Scan, Ping, EndScan, SendTrain, EndBroadcast, Collect,
      ServerStep, Reaches, Listening, AfterFailure, run_vars, handler_vars,
      train_vars
<1> QED
  BY <1>2, <1>3, <1>4, <1>5, <1>6, <1>7 DEF Next, Device

\* What DeviceDownloads has to do with the server and the network.
LEMMA Download ==
  ASSUME ServerOnce, NEW answered \in BOOLEAN, NEW n \in Nat,
         IF ~answered THEN Reaches(FALSE, ServerUp)
         ELSE ServerUp /\ IF n = File THEN Works ELSE n < File /\ Fails
  PROVE  /\ faults' \in Nat /\ faults' >= faults
         /\ \/ answered /\ n = Whole /\ ServerUp
            \/ answered /\ n < Whole /\ ServerUp /\ faults' = faults + 1
            \/ ~answered /\ faults' = faults + 1
            \/ ~answered /\ (server = "ended" \/ ID = 0)
<1>1. File = Whole
  BY DEF File, Whole, Registered, SamplesOf, ServerOnce
<1>2. ServerUp \/ server = "ended" \/ ID = 0
  BY DEF ServerUp, ServerOnce
<1> QED  BY <1>1, <1>2 DEF Reaches, Works, Fails, ServerOnce

\* A download of labels keeps the counts.
LEMMA LabelsKeep ==
  ASSUME SamplesInv, DeviceDownloads, boot = "labels"
  PROVE  Counts' /\ got'.missing \in BOOLEAN
<1>1. PICK answered \in BOOLEAN, n \in Nat :
        /\ IF ~answered THEN Reaches(FALSE, ServerUp)
           ELSE ServerUp /\ IF n = File THEN Works ELSE n < File /\ Fails
        /\ \E connected \in BOOLEAN : ReqLabels(connected, answered, n)
  <2>1. \A n \in Count : n \in Nat
    BY SplitAssumption DEF Count
  <2> QED  BY <2>1, Zenon DEF DeviceDownloads, Unanswered, ReqImages
<1>2. boot' = "init" /\ ID' = ID /\ server' = server
  BY <1>1, Zenon DEF DeviceDownloads, ReqLabels, launcher_vars, server_vars
<1>3. DOMAIN got = {"images", "labels", "missing"} /\ got.images \in Nat
  BY DEF SamplesInv, GotInv, Nothing
<1>4. got'.images = got.images /\ got'.labels = n
  BY <1>1, <1>3, Zenon DEF ReqLabels
<1>5. /\ faults' \in Nat /\ faults' >= faults
      /\ \/ answered /\ n = Whole /\ ServerUp
         \/ answered /\ n < Whole /\ ServerUp /\ faults' = faults + 1
         \/ ~answered /\ faults' = faults + 1
         \/ ~answered /\ (server = "ended" \/ ID = 0)
  BY <1>1, Download DEF SamplesInv
<1>6. got'.missing \in BOOLEAN /\ (got'.missing <=> got.missing \/ ~answered)
  BY <1>1, <1>3, Zenon DEF ReqLabels, SamplesInv
<1>7. ASSUME got.images = n, ~(got.images > 0 /\ got'.missing)
      PROVE  Good(n)' \/ server' = "ended"
  <2>1. \/ got.images = Whole /\ ~got.missing
        \/ faults > 0
        \/ got.missing /\ (server = "ended" \/ ID = 0)
    BY DEF SamplesInv, Counts
  <2>2. got.missing \/ ~answered => n = 0
    BY <1>3, <1>6, <1>7
  <2>3. faults \in Nat /\ SplitSize \in Nat
    BY SplitAssumption DEF SamplesInv, ServerOnce
  <2>4. Whole' = Whole /\ Whole \in Nat /\ (ID = 0 => Whole = 0)
    BY <1>2, <2>3 DEF Whole, SamplesOf
  <2> HIDE DEF Whole
  <2> QED  BY <1>2, <1>5, <1>7, <2>1, <2>2, <2>3, <2>4 DEF ServerUp, Good
<1> QED  BY <1>2, <1>4, <1>6, <1>7, Zenon DEF Counts, Mismatch, Good

\* So does one of images.
LEMMA ImagesKeep ==
  ASSUME SamplesInv, DeviceDownloads, boot # "labels"
  PROVE  Counts' /\ got'.missing \in BOOLEAN
<1>1. PICK answered \in BOOLEAN, n \in Nat :
        /\ IF ~answered THEN Reaches(FALSE, ServerUp)
           ELSE ServerUp /\ IF n = File THEN Works ELSE n < File /\ Fails
        /\ \E connected \in BOOLEAN : ReqImages(connected, answered, n)
  <2>1. \A n \in Count : n \in Nat
    BY SplitAssumption DEF Count
  <2> QED  BY <2>1, Zenon DEF DeviceDownloads, Unanswered, ReqLabels
<1>2. boot' = "labels" /\ ID' = ID /\ server' = server
  BY <1>1, Zenon DEF DeviceDownloads, ReqImages, launcher_vars, server_vars
<1>3. DOMAIN got = {"images", "labels", "missing"}
  BY DEF SamplesInv, GotInv, Nothing
<1>4. /\ got'.images = n
      /\ got'.missing \in BOOLEAN /\ (got'.missing <=> ~answered)
  BY <1>1, <1>3, Zenon DEF ReqImages
<1>5. /\ faults' \in Nat /\ faults' >= faults
      /\ \/ answered /\ n = Whole /\ ServerUp
         \/ answered /\ n < Whole /\ ServerUp /\ faults' = faults + 1
         \/ ~answered /\ faults' = faults + 1
         \/ ~answered /\ (server = "ended" \/ ID = 0)
  BY <1>1, Download DEF SamplesInv
<1>6. faults \in Nat
  BY DEF SamplesInv, ServerOnce
<1>7. \/ got'.images = Whole' /\ ~got'.missing
      \/ faults' > 0
      \/ got'.missing /\ (server' = "ended" \/ ID' = 0)
  BY <1>2, <1>4, <1>5, <1>6 DEF Whole
<1> QED  BY <1>2, <1>4, <1>7 DEF Counts

\* And every other step.
LEMMA CountsStep ==
  SamplesInv /\ [Next]_fleet_vars => Counts' /\ got'.missing \in BOOLEAN
<1> SUFFICES ASSUME SamplesInv, [Next]_fleet_vars
             PROVE  Counts' /\ got'.missing \in BOOLEAN
  OBVIOUS
<1>1. faults \in Nat
  BY Zenon DEF SamplesInv, ServerOnce
<1>2. ServerOnce /\ Alone /\ Counts /\ got.missing \in BOOLEAN
  BY Zenon DEF SamplesInv
<1>3. ASSUME UNCHANGED <<boot, got, n_images, ID>>,
             faults' = faults \/ faults' = faults + 1,
             server' = server \/ server' = "ended" \/ server = "none",
             UNCHANGED <<backlog, handler>> \/ server = "running"
      PROVE  Counts' /\ got'.missing \in BOOLEAN
  <2>1. faults' = faults \/ faults' = faults + 1
    BY <1>3, Zenon
  <2>2. faults' > 1 \/ ~(faults > 1)
    BY <1>1, <2>1
  <2>3. faults' > 0 \/ ~(faults > 0)
    BY <1>1, <2>1
  <2>4. got' = got /\ got'.missing = got.missing /\ got'.images = got.images
          /\ got'.labels = got.labels
    BY <1>3, Zenon
  <2>5. Good(n_images)' \/ ~Good(n_images)
    BY <1>3, <2>2, Zenon DEF Good, Whole, SamplesOf
  <2>6. Good(got.images)' \/ ~Good(got.images)
    BY <1>3, <2>2, <2>4, Zenon DEF Good, Whole, SamplesOf
  <2>7. server = "ended" => server' = "ended" /\ UNCHANGED <<backlog, handler>>
    BY <1>3
  <2>8. (boot = "labels" => \/ got.images = Whole /\ ~got.missing
                            \/ faults > 0
                            \/ got.missing /\ (server = "ended" \/ ID = 0))'
    BY <1>2, <1>3, <2>3, <2>4, <2>7, Zenon DEF Counts, Whole
  <2>9. (boot = "init" /\ ~Mismatch /\ ~(got.images > 0 /\ got.missing) =>
           Good(got.images) \/ server = "ended")'
    BY <1>2, <1>3, <2>4, <2>6, <2>7, Zenon DEF Counts, Mismatch
  <2>10. (boot = "serving" =>
            \/ Good(n_images)
            \/ server = "ended" /\ backlog = <<>> /\ handler = "none")'
    BY <1>2, <1>3, <2>5, <2>7, Zenon DEF Counts
  <2> QED  BY <1>2, <2>4, <2>8, <2>9, <2>10, Zenon DEF Counts
<1>4. CASE UNCHANGED fleet_vars
  BY <1>3, <1>4, Zenon
  DEF launcher_vars, server_vars, guest_vars, device_vars, run_vars,
      handler_vars, train_vars, fleet_vars
<1>5. CASE Launching
  BY <1>2, <1>3, <1>5
  DEF Launching, ClientLauncher, Launch, OpenIn, WriteRun, MakeFifos, Fork, Wait,
      CopierOpens, server_vars, guest_vars, device_vars, run_vars,
      handler_vars, train_vars, launcher_vars, fleet_vars, ServerOnce
<1>6. CASE Serving
  BY <1>2, <1>3, <1>6
  DEF Serving, ServerLauncher, InterfaceUp, StartServer,
      InterfaceDown, guest_vars, device_vars, run_vars, handler_vars, train_vars,
      ServerOnce
<1>7. CASE ServerExits
  BY <1>2, <1>3, <1>7
  DEF ServerExits, ServerEnds, guest_vars, device_vars, run_vars, handler_vars,
      train_vars, ServerOnce
<1>8. CASE EmulatorExits
  <2>1. CASE Vanish
    <3>1. boot' = "off" /\ got'.missing = FALSE
      BY <2>1, Zenon DEF Vanish, Nothing
    <3> QED  BY <3>1, Zenon DEF Counts
  <2>2. CASE UNCHANGED guest_vars
    BY <1>2, <1>3, <1>8, <2>2
    DEF EmulatorExits, Exit, Vanish, server_vars, guest_vars, device_vars,
        run_vars, handler_vars, train_vars, ServerOnce
  <2> QED  BY <1>8, <2>1, <2>2 DEF EmulatorExits
<1>9. CASE DeviceRuns \/ DeviceRegisters \/ DeviceGetsNoId
  <2>1. boot' \in {"id", "images"} /\ got' = got
    BY <1>9, Zenon DEF DeviceRuns, DeviceRegisters, DeviceGetsNoId, Run, ReqId
  <2> QED  BY <1>2, <2>1 DEF Counts
<1>10. CASE DeviceDownloads
  BY <1>10, LabelsKeep, ImagesKeep
<1>11. CASE DeviceBegins
  <2>1. got'.missing = FALSE
    BY <1>11, Zenon DEF DeviceBegins, InitTrainSet, Nothing
  <2>2. /\ boot = "init" /\ backlog' = <<>> /\ handler' = "none"
        /\ UNCHANGED <<ID, server, faults>>
    BY <1>2, <1>11
    DEF DeviceBegins, InitTrainSet, Alone, handler_vars, launcher_vars,
        server_vars
  <2>3. CASE boot' = "serving"
    <3>1. /\ ~Mismatch /\ ~(got.images > 0 /\ got.missing)
          /\ n_images' = got.images
      BY <1>11, <2>3, Zenon DEF DeviceBegins, InitTrainSet, SetSamples
    <3>2. Good(got.images) \/ server = "ended"
      BY <1>2, <2>2, <3>1, Zenon DEF Counts
    <3> QED  BY <2>1, <2>2, <2>3, <3>1, <3>2 DEF Counts, Good, Whole, SamplesOf
  <2>4. CASE boot' \in {"stopped", "undefined"}
    BY <2>1, <2>4 DEF Counts
  <2> QED  BY <1>11, <2>3, <2>4, Zenon DEF DeviceBegins, InitTrainSet
<1>12. CASE Device
  <2>1. handler # "none" \/ backlog # <<>>
    BY <1>12
    DEF Device, DeviceAlone, DeviceAnswers, DeviceSends, Accept, Receive, Train,
        CloseServ, Clean, Answer, Connect, SendHeader, SendBody
  <2>2. /\ UNCHANGED <<got, n_images, ID, server>>
        /\ faults' = faults \/ faults' = faults + 1
        /\ boot' = boot \/ boot' = "undefined"
    BY <1>2, <1>12
    DEF Device, DeviceAlone, DeviceAnswers, DeviceSends, Accept, Receive, Train,
        BeginTraining, TrainStep, TakeBatch, Learn, NextEpoch,
        EndTraining, CloseServ, Clean, Answer, Connect, SendHeader, SendBody,
        Reaches, Works, Fails, run_vars, train_vars, launcher_vars, server_vars,
        ServerOnce
  <2>3. faults' > 1 \/ ~(faults > 1)
    BY <1>2, <2>2 DEF ServerOnce
  <2>4. boot \in {"serving", "undefined"}
    BY <1>2, <2>1 DEF Alone
  <2> QED
    BY <1>2, <2>1, <2>2, <2>3, <2>4 DEF Counts, Good, Whole, SamplesOf
<1>13. CASE Scheduler \/ Collect
  BY <1>2, <1>3, <1>13
  DEF Scheduler, Scan, Ping, EndScan, SendTrain, EndBroadcast, Collect,
      ServerStep, ServerUp, Reaches, Works, Fails, run_vars, train_vars,
      launcher_vars, server_vars, ServerOnce
<1> QED
  BY <1>4, <1>6, <1>7, <1>8, <1>9, <1>10, <1>11, <1>12, <1>13,
     <1>5 DEF Next, Starting

\* main.c:402: the comparison of two counts is enough.  A device trains on all
\* the samples there are for its id, none for no id and for one beyond the
\* splits, unless two failures agree.  The server runs once.
THEOREM SamplesWhole == Spec => []TrainsOnSamples
<1>1. Init => SamplesInv
  BY DEF Init, LauncherInit, DeviceInit, TrainInit, SamplesInv, GotInv, Nothing,
         ServerOnce, Alone, Counts
<1>2. SamplesInv /\ [Next]_fleet_vars => SamplesInv'
  BY GotInvStep, ServerOnceStep, AloneStep, CountsStep DEF SamplesInv
<1>3. SamplesInv => TrainsOnSamples
  BY DEF SamplesInv, Alone, Counts, Good, Whole, TrainsOnSamples
<1> QED  BY <1>1, <1>2, <1>3, PTL DEF Spec

-----------------------------------------------------------------------------
(***************************************************************************)
(* The requests and results on their way between the server and a device:  *)
(* how many there are, and where.                                          *)
(***************************************************************************)

\* What a device is asked, and what it sends.
Request == Nat \cup {Broken}
ResultOf(R) == [round : R, id : Nat]
NewResult == [round |-> request, id |-> ID]

\* The members of a sequence that are in V are finitely many, ...
LEMMA HowManyType ==
  ASSUME NEW S, NEW s \in Seq(S), NEW V
  PROVE  IsFiniteSet(Places(s, V)) /\ HowMany(s, V) \in Nat
<1>1. DOMAIN s = 1 .. Len(s) /\ Len(s) \in Nat
  OBVIOUS
<1>2. Places(s, V) \subseteq 1 .. Len(s)
  BY <1>1 DEF Places
<1>3. IsFiniteSet(1 .. Len(s))
  BY <1>1, FS_Interval
<1>4. IsFiniteSet(Places(s, V))
  BY <1>2, <1>3, FS_Subset
<1> QED  BY <1>4, FS_CardinalityType DEF HowMany

\* ... none of nothing, ...
LEMMA HowManyNone == ASSUME NEW V PROVE HowMany(<<>>, V) = 0
<1>1. Places(<<>>, V) = {}
  BY DEF Places
<1> QED  BY <1>1, FS_EmptySet DEF HowMany

\* ... one more when one is put behind, ...
LEMMA HowManyAppend ==
  ASSUME NEW S, NEW s \in Seq(S), NEW r \in S, NEW V
  PROVE  HowMany(Append(s, r), V) = HowMany(s, V) + Holds(r \in V)
<1> DEFINE n == Len(s) + 1
<1>1. /\ DOMAIN s = 1 .. Len(s) /\ Len(s) \in Nat
      /\ DOMAIN Append(s, r) = 1 .. n
      /\ \A k \in 1 .. Len(s) : Append(s, r)[k] = s[k]
      /\ Append(s, r)[n] = r
  BY AppendProperties
<1>2. IsFiniteSet(Places(s, V)) /\ HowMany(s, V) \in Nat
  BY HowManyType
<1>3. CASE r \in V
  <2>1. Places(Append(s, r), V) = Places(s, V) \cup {n} /\ n \notin Places(s, V)
    BY <1>1, <1>3 DEF Places
  <2> HIDE DEF n
  <2>2. HowMany(Append(s, r), V) = HowMany(s, V) + 1
    BY <1>2, <2>1, FS_AddElement DEF HowMany
  <2> QED  BY <1>3, <2>2 DEF Holds
<1>4. CASE r \notin V
  <2>1. Places(Append(s, r), V) = Places(s, V)
    BY <1>1, <1>4 DEF Places
  <2> QED  BY <1>2, <1>4, <2>1 DEF HowMany, Holds
<1> QED  BY <1>3, <1>4

\* ... and one less when one is taken from the front.
LEMMA HowManyTail ==
  ASSUME NEW S, NEW s \in Seq(S), s # <<>>, NEW V
  PROVE  HowMany(s, V) = HowMany(Tail(s), V) + Holds(Head(s) \in V)
<1> DEFINE Later == {k \in 2 .. Len(s) : s[k] \in V}
<1>1. /\ DOMAIN s = 1 .. Len(s) /\ Len(s) \in Nat \ {0} /\ Head(s) = s[1]
      /\ Tail(s) \in Seq(S) /\ DOMAIN Tail(s) = 1 .. Len(s) - 1
      /\ \A k \in 1 .. Len(s) - 1 : Tail(s)[k] = s[k + 1]
  BY HeadTailProperties
<1>2. ExistsBijection(Places(Tail(s), V), Later)
  <2> DEFINE f == [k \in Places(Tail(s), V) |-> k + 1]
  <2> USE DEF Places
  <2>1. f \in [Places(Tail(s), V) -> Later]
    BY <1>1
  <2>2. \A a, b \in Places(Tail(s), V) : f[a] = f[b] => a = b
    BY <1>1
  <2>3. ASSUME NEW k \in Later PROVE \E a \in Places(Tail(s), V) : f[a] = k
    <3>1. k - 1 \in Places(Tail(s), V)
      BY <1>1
    <3>2. f[k - 1] = k
      BY <1>1, <3>1
    <3> QED  BY <3>1, <3>2
  <2> QED
    BY <2>1, <2>2, <2>3
    DEF ExistsBijection, Bijection, Injection, Surjection, IsInjective
<1>3. IsFiniteSet(Places(Tail(s), V)) /\ HowMany(Tail(s), V) \in Nat
  BY <1>1, HowManyType
<1>4. IsFiniteSet(Later) /\ Cardinality(Later) = HowMany(Tail(s), V)
  <2> HIDE DEF Later
  <2> QED  BY <1>2, <1>3, FS_Bijection DEF HowMany
<1>5. CASE Head(s) \in V
  <2>1. Places(s, V) = Later \cup {1} /\ 1 \notin Later
    BY <1>1, <1>5 DEF Places
  <2> HIDE DEF Later
  <2>2. HowMany(s, V) = HowMany(Tail(s), V) + 1
    BY <1>4, <2>1, FS_AddElement DEF HowMany
  <2> QED  BY <1>5, <2>2 DEF Holds
<1>6. CASE Head(s) \notin V
  <2>1. Places(s, V) = Later
    BY <1>1, <1>6 DEF Places
  <2> HIDE DEF Later
  <2>2. HowMany(s, V) = HowMany(Tail(s), V)
    BY <1>4, <2>1 DEF HowMany
  <2> QED  BY <1>3, <1>6, <2>2 DEF Holds
<1> QED  BY <1>5, <1>6

\* So what is said of HowMany is true of Rounds.
LEMMA RoundsType == \A s \in Seq(Request) : Rounds(s) \in Nat
BY HowManyType DEF Rounds

LEMMA RoundsNone == Rounds(<<>>) = 0
BY HowManyNone DEF Rounds

LEMMA RoundsAppend ==
  ASSUME NEW s \in Seq(Request), NEW r \in Request
  PROVE  Rounds(Append(s, r)) = Rounds(s) + (IF r > 0 THEN 1 ELSE 0)
<1>1. r > 0 <=> r \in Nat \ {0}
  BY DEF Request, Broken
<1>2. Rounds(Append(s, r)) = Rounds(s) + Holds(r \in Nat \ {0})
  BY HowManyAppend DEF Rounds
<1> QED  BY <1>1, <1>2 DEF Holds

LEMMA RoundsTail ==
  ASSUME NEW s \in Seq(Request), s # <<>>
  PROVE  Rounds(s) = Rounds(Tail(s)) + (IF Head(s) > 0 THEN 1 ELSE 0)
<1>1. Head(s) > 0 <=> Head(s) \in Nat \ {0}
  BY DEF Request, Broken
<1>2. Rounds(s) = Rounds(Tail(s)) + Holds(Head(s) \in Nat \ {0})
  BY HowManyTail DEF Rounds
<1> QED  BY <1>1, <1>2 DEF Holds

-----------------------------------------------------------------------------
Busy == Unsent \cup {"answer"}

\* The terms of ToCome.
Sending == IF scheduler = "train" THEN todo ELSE 0
Held == Holds(request > 0 /\ handler \in Unsent)
Engaged == Holds(handler \in Busy)

\* As long as the server knows the device once and nothing has failed,
\* whatever is on its way is due, or is the one /ready that is waited for.
Calm == entries <= 1 /\ faults = 0
OneAtATime ==
  /\ ~clobbered /\ due <= 1
  /\ scheduler \in {"scan", "ping"} => clients_ready + todo <= 1
  /\ Sending + Len(backlog) + Engaged + Len(inbox)
       <= due + Holds(scheduler = "ping")

RequestsType ==
  /\ backlog \in Seq(Request) /\ inbox \in Seq(ResultOf(Nat))
  /\ request \in Request \cup {NoRequest}
  /\ handler = "recv" => request \in Request
  /\ handler \in {"train", "connect", "header", "body"} => request > 0
  /\ todo \in Nat /\ clients_ready \in Nat /\ round_number \in Nat
  /\ due \in Nat
  /\ scheduler = "ping" => todo > 0
  /\ scheduler \in {"scan", "ping"} => due = 0

Counted == RequestsType /\ ToCome <= due /\ (Calm => OneAtATime)
RequestsInv == ServerOnce /\ Counted

\* What has failed has failed: no step makes a fleet calm again.
LEMMA CalmStays == ServerOnce /\ [Next]_fleet_vars => (Calm' => Calm /\ faults' = faults)
<1> SUFFICES ASSUME ServerOnce, [Next]_fleet_vars
             PROVE  /\ entries' = entries \/ entries' = entries + 1
                    /\ faults' = faults \/ faults' = faults + 1
  BY DEF ServerOnce, Calm
<1>1. CASE Launching \/ Serving \/ EmulatorExits \/ ServerExits \/ UNCHANGED fleet_vars
  BY <1>1, Zenon
  DEF Launching, Serving, EmulatorExits, ServerExits, scheduler_vars, fleet_vars
<1>2. CASE DeviceRuns \/ DeviceRegisters \/ DeviceGetsNoId \/ DeviceBegins
  BY <1>2
  DEF DeviceRuns, DeviceRegisters, DeviceGetsNoId, DeviceBegins, Unanswered,
      Reaches, Works, Fails, scheduler_vars
<1>3. CASE DeviceDownloads
  <2>1. entries' = entries /\ (Works \/ Fails)
    BY <1>3, Zenon DEF DeviceDownloads, Unanswered, Reaches, scheduler_vars
  <2> QED  BY <2>1 DEF Works, Fails
<1>4. CASE Device
  BY <1>4
  DEF Device, DeviceAlone, DeviceAnswers, DeviceSends, Reaches, Works, Fails,
      scheduler_vars
<1>5. CASE Scheduler \/ Collect
  BY <1>5
  DEF Scheduler, Scan, Ping, EndScan, SendTrain, EndBroadcast, Collect,
      ServerStep, Reaches, Works, Fails
<1> QED  BY <1>1, <1>2, <1>3, <1>4, <1>5 DEF Next, Starting

\* What the steps below start from.
LEMMA CountedFacts ==
  ASSUME RequestsInv, [Next]_fleet_vars
  PROVE  /\ RequestsType /\ ToCome <= due
         /\ Rounds(backlog) \in Nat /\ Len(backlog) \in Nat /\ Len(inbox) \in Nat
         /\ Calm' => OneAtATime /\ faults' = faults
<1>1. RequestsType /\ ToCome <= due
  BY DEF RequestsInv, Counted
<1>2. Rounds(backlog) \in Nat /\ Len(backlog) \in Nat /\ Len(inbox) \in Nat
  BY <1>1, RoundsType DEF RequestsType
<1>3. Calm' => OneAtATime /\ faults' = faults
  BY CalmStays DEF RequestsInv, Counted
<1> QED  BY <1>1, <1>2, <1>3

\* Steps that touch nothing that is counted keep the count.
LEMMA CountedKept ==
  ASSUME RequestsInv, [Next]_fleet_vars,
         UNCHANGED <<backlog, handler, request, inbox, clobbered, scheduler,
                     todo, clients_ready, round_number, due>>
  PROVE  Counted'
<1>1. RequestsType'
  <2>1. RequestsType
    BY CountedFacts
  <2> QED  BY <2>1 DEF RequestsType
<1>2. ToCome' = ToCome /\ due' = due
  BY Zenon DEF ToCome
<1>3. OneAtATime => OneAtATime'
  BY Zenon DEF OneAtATime, Sending, Engaged
<1> QED  BY <1>1, <1>2, <1>3, CountedFacts, Zenon DEF Counted

\* A connection accepted moves from the backlog to the handler.
LEMMA CountedAccept ==
  ASSUME RequestsInv, [Next]_fleet_vars, Accept, UNCHANGED scheduler_vars
  PROVE  Counted'
<1>1. backlog' = Tail(backlog) /\ backlog # <<>> /\ inbox' = inbox
  BY DEF Accept
<1>2. RequestsType
  BY CountedFacts
<1>3. /\ Rounds(backlog) = Rounds(backlog') + Holds(Head(backlog) > 0)
      /\ Rounds(backlog') \in Nat /\ backlog' \in Seq(Request)
      /\ Head(backlog) \in Request /\ Len(backlog') = Len(backlog) - 1
  BY <1>1, <1>2, RoundsTail, RoundsType, HeadTailProperties DEF RequestsType, Holds
<1>4. /\ scheduler' = scheduler /\ todo' = todo /\ due' = due
      /\ clients_ready' = clients_ready /\ round_number' = round_number
  BY Zenon DEF scheduler_vars
<1>5. \/ /\ handler = "none" /\ handler' = "recv" /\ request' = Head(backlog)
         /\ clobbered' = clobbered
      \/ /\ handler \in Busy /\ handler' = "none" /\ request' = NoRequest
  BY DEF Accept, HandlerWaits, Busy, Unsent
<1>6. RequestsType'
  BY <1>1, <1>2, <1>3, <1>4, <1>5 DEF RequestsType, NoRequest
<1>7. Sending' = Sending /\ Sending \in Nat
  BY <1>2, <1>4 DEF Sending, RequestsType
<1>8. (ToCome <= due)'
  <2>1. /\ Sending + Rounds(backlog) + Held + Len(inbox) <= due
        /\ Len(inbox) \in Nat /\ due \in Nat
    BY CountedFacts DEF ToCome, Sending, Held, Holds, RequestsType
  <2>2. Rounds(backlog') + Held' <= Rounds(backlog) + Held /\ Held \in 0 .. 1
    BY <1>3, <1>5 DEF Held, Holds, Busy, Unsent, NoRequest
  <2>3. Sending' + Rounds(backlog') + Held' + Len(inbox') <= due'
    BY <1>1, <1>3, <1>4, <1>7, <2>1, <2>2 DEF Held, Holds
  <2> QED  BY <2>3 DEF ToCome, Sending, Held, Holds
<1>9. ASSUME Calm' PROVE OneAtATime'
  <2>1. OneAtATime
    BY <1>9, CountedFacts
  <2>2. due <= 1 /\ (scheduler = "ping" => due = 0)
    BY <1>2, <2>1 DEF OneAtATime, RequestsType
  <2>3. Sending + Len(backlog) + Engaged + Len(inbox)
          <= due + Holds(scheduler = "ping")
    BY <2>1 DEF OneAtATime
  <2>4. Len(backlog) \in Nat \ {0} /\ Len(inbox) \in Nat /\ due \in Nat
    BY <1>1, <1>2 DEF RequestsType
  <2>5. handler \notin Busy
    BY <1>7, <2>2, <2>3, <2>4 DEF Engaged, Holds
  <2>6. handler' = "recv" /\ clobbered' = clobbered
    BY <1>5, <2>5
  <2>7. (Sending + Len(backlog) + Engaged + Len(inbox)
           <= due + Holds(scheduler = "ping"))'
    BY <1>1, <1>3, <1>4, <1>7, <2>3, <2>4, <2>5, <2>6
    DEF Engaged, Holds, Busy, Unsent
  <2> QED  BY <1>4, <2>1, <2>6, <2>7 DEF OneAtATime
<1> QED  BY <1>6, <1>8, <1>9 DEF Counted

\* What is left of the handler's work: at most as much as before, and nothing
\* is sent.
LEMMA CountedGoesOn ==
  ASSUME RequestsInv, [Next]_fleet_vars,
         UNCHANGED <<backlog, inbox, clobbered, scheduler_vars>>,
         RequestsType', Held' <= Held, Engaged' <= Engaged
  PROVE  Counted'
<1>1. /\ backlog' = backlog /\ inbox' = inbox /\ clobbered' = clobbered
      /\ scheduler' = scheduler /\ todo' = todo /\ due' = due
      /\ clients_ready' = clients_ready
  BY Zenon DEF scheduler_vars
<1>2. /\ Held \in Nat /\ Held' \in Nat /\ Engaged \in Nat /\ Engaged' \in Nat
      /\ Sending \in Nat /\ Sending' = Sending /\ due \in Nat
      /\ Rounds(backlog) \in Nat /\ Len(backlog) \in Nat /\ Len(inbox) \in Nat
  BY <1>1, CountedFacts DEF Held, Engaged, Sending, Holds, RequestsType
<1>3. (ToCome <= due)'
  <2>1. Sending + Rounds(backlog) + Held + Len(inbox) <= due
    BY CountedFacts DEF ToCome, Sending, Held, Holds
  <2>2. Sending' + Rounds(backlog') + Held' + Len(inbox') <= due'
    BY <1>1, <1>2, <2>1
  <2> QED  BY <2>2 DEF ToCome, Sending, Held, Holds
<1>4. ASSUME Calm' PROVE OneAtATime'
  <2>1. OneAtATime
    BY <1>4, CountedFacts
  <2>2. Sending + Len(backlog) + Engaged + Len(inbox)
          <= due + Holds(scheduler = "ping")
    BY <2>1 DEF OneAtATime
  <2>3. (Sending + Len(backlog) + Engaged + Len(inbox)
           <= due + Holds(scheduler = "ping"))'
    BY <1>1, <1>2, <2>2 DEF Holds
  <2> QED  BY <1>1, <2>1, <2>3 DEF OneAtATime
<1> QED  BY <1>3, <1>4 DEF Counted

\* Until it answers the handler keeps what it holds.
LEMMA CountedHandler ==
  ASSUME RequestsInv, [Next]_fleet_vars, UNCHANGED scheduler_vars,
         Receive \/ Train \/ CloseServ \/ Clean
  PROVE  Counted'
<1> USE DEF Held, Engaged, Holds, Busy, Unsent
<1>1. RequestsType
  BY CountedFacts
<1>2. UNCHANGED <<backlog, inbox, clobbered>>
  BY DEF Receive, Train, CloseServ, Clean, run_vars
<1>3. RequestsType' /\ Held' <= Held /\ Engaged' <= Engaged
  <2>1. /\ scheduler' = scheduler /\ todo' = todo /\ due' = due
        /\ clients_ready' = clients_ready /\ round_number' = round_number
    BY Zenon DEF scheduler_vars
  <2>2. CASE Receive
    BY <1>1, <1>2, <2>1, <2>2
    DEF RequestsType, Receive, Request, Complete, Broken, ReadyRequest, send_vars
  <2>3. CASE Train
    BY <1>1, <1>2, <2>1, <2>3 DEF RequestsType, Train, send_vars
  <2>4. CASE CloseServ \/ Clean
    BY <1>1, <1>2, <2>1, <2>4 DEF RequestsType, CloseServ, Clean
  <2> QED  BY <2>2, <2>3, <2>4
<1> QED  BY <1>2, <1>3, CountedGoesOn

\* A result sent moves from the handler to the server.
LEMMA CountedSends ==
  ASSUME RequestsInv, [Next]_fleet_vars, DeviceSends
  PROVE  Counted'
<1>1. RequestsType /\ UNCHANGED scheduler_vars
  BY CountedFacts DEF DeviceSends
<1>2. /\ scheduler' = scheduler /\ todo' = todo /\ due' = due
      /\ clients_ready' = clients_ready /\ round_number' = round_number
  BY <1>1, Zenon DEF scheduler_vars
<1>3. /\ handler \in {"connect", "header", "body"} /\ request > 0
      /\ handler' \in {"connect", "header", "body", "close"}
      /\ backlog' = backlog /\ request' = request /\ clobbered' = clobbered
  BY <1>1
  DEF DeviceSends, Connect, SendHeader, SendBody, NextTry, Sent, RequestsType
<1>4. \/ inbox' = inbox
      \/ inbox' = Append(inbox, NewResult) /\ handler' = "close"
  BY DEF DeviceSends, Connect, SendHeader, SendBody, Sent, NewResult
<1>5. NewResult \in ResultOf(Nat)
  <2>1. request \in Nat /\ ID \in Nat
    BY <1>1, <1>3
    DEF RequestsType, Request, Broken, NoRequest, RequestsInv, ServerOnce
  <2> QED  BY <2>1 DEF NewResult, ResultOf
<1>6. RequestsType'
  BY <1>1, <1>2, <1>3, <1>4, <1>5 DEF RequestsType
<1>7. CASE inbox' = inbox
  <2>1. Held' <= Held /\ Engaged' <= Engaged
    BY <1>3 DEF Held, Engaged, Holds, Busy, Unsent
  <2> QED  BY <1>1, <1>3, <1>6, <1>7, <2>1, CountedGoesOn
<1>8. CASE inbox' = Append(inbox, NewResult) /\ handler' = "close"
  <2>1. Len(inbox') = Len(inbox) + 1
    BY <1>1, <1>5, <1>8 DEF RequestsType
  <2>2. Held = 1 /\ Held' = 0 /\ Engaged = 1 /\ Engaged' = 0
    BY <1>3, <1>8 DEF Held, Engaged, Holds, Busy, Unsent
  <2>3. /\ Sending' = Sending /\ Sending \in Nat /\ due \in Nat
        /\ Rounds(backlog) \in Nat /\ Len(backlog) \in Nat /\ Len(inbox) \in Nat
    BY <1>1, <1>2, CountedFacts DEF Sending, RequestsType
  <2>4. (ToCome <= due)'
    <3>1. Sending + Rounds(backlog) + Held + Len(inbox) <= due
      BY CountedFacts DEF ToCome, Sending, Held, Holds
    <3>2. Sending' + Rounds(backlog') + Held' + Len(inbox') <= due'
      BY <1>2, <1>3, <2>1, <2>2, <2>3, <3>1
    <3> QED  BY <3>2 DEF ToCome, Sending, Held, Holds
  <2>5. ASSUME Calm' PROVE OneAtATime'
    <3>1. OneAtATime
      BY <2>5, CountedFacts
    <3>2. (Sending + Len(backlog) + Engaged + Len(inbox)
             <= due + Holds(scheduler = "ping"))'
      BY <1>2, <1>3, <2>1, <2>2, <2>3, <3>1 DEF OneAtATime, Holds
    <3> QED  BY <1>2, <1>3, <3>1, <3>2 DEF OneAtATime
  <2> QED  BY <1>6, <2>4, <2>5 DEF Counted
<1> QED  BY <1>4, <1>7, <1>8

\* A step keeps both counts.
LEMMA CountedBy ==
  ASSUME RequestsInv, [Next]_fleet_vars, RequestsType',
         Sending + Rounds(backlog) + Held + Len(inbox) <= due
           => (Sending + Rounds(backlog) + Held + Len(inbox) <= due)',
         Calm' /\ OneAtATime => OneAtATime'
  PROVE  Counted'
<1>1. (ToCome <= due)'
  BY CountedFacts DEF ToCome, Sending, Held, Holds
<1>2. Calm' => OneAtATime'
  BY CountedFacts
<1> QED  BY <1>1, <1>2 DEF Counted

\* A handler that answers lets go of its request.
LEMMA CountedAnswers ==
  ASSUME RequestsInv, [Next]_fleet_vars, DeviceAnswers
  PROVE  Counted'
<1>1. RequestsType
  BY CountedFacts
<1>2. /\ handler = "answer" /\ handler' = "clean"
      /\ UNCHANGED <<backlog, inbox, clobbered, request, due, round_number>>
  BY DEF DeviceAnswers, Answer
<1>3. CASE /\ scheduler = "ping" /\ scheduler' = "scan" /\ todo' = todo - 1
           /\ clients_ready' = clients_ready + 1
  <2>1. RequestsType'
    BY <1>1, <1>2, <1>3 DEF RequestsType
  <2>2. /\ Held' = 0 /\ Held = 0 /\ Engaged = 1 /\ Engaged' = 0
        /\ Sending = 0 /\ Sending' = 0
    BY <1>2, <1>3 DEF Held, Engaged, Sending, Holds, Busy, Unsent
  <2>3. /\ Rounds(backlog) \in Nat /\ Len(backlog) \in Nat /\ Len(inbox) \in Nat
        /\ due \in Nat /\ todo \in Nat /\ clients_ready \in Nat
    BY <1>1, CountedFacts DEF RequestsType
  <2>4. ASSUME OneAtATime PROVE OneAtATime'
    BY <1>2, <1>3, <2>2, <2>3, <2>4 DEF OneAtATime, Holds
  <2> QED  BY <1>2, <2>1, <2>2, <2>4, CountedBy
<1>4. CASE UNCHANGED <<scheduler, todo, clients_ready>>
  <2>1. RequestsType' /\ UNCHANGED scheduler_vars
    BY <1>1, <1>2, <1>4 DEF RequestsType, DeviceAnswers, scheduler_vars
  <2>2. Held' <= Held /\ Engaged' <= Engaged
    BY <1>2 DEF Held, Engaged, Holds, Busy, Unsent
  <2> QED  BY <1>2, <2>1, <2>2, CountedGoesOn
<1> QED  BY <1>3, <1>4 DEF DeviceAnswers

\* A result collected is no longer due.
LEMMA CountedCollect ==
  ASSUME RequestsInv, [Next]_fleet_vars, Collect
  PROVE  Counted'
<1>1. RequestsType
  BY CountedFacts
<1>2. /\ inbox # <<>> /\ inbox' = Tail(inbox) /\ due' \in {due, due - 1}
      /\ due' = due - 1 => due > 0
      /\ UNCHANGED <<backlog, handler, request, clobbered, scheduler, todo,
                     clients_ready, round_number>>
  BY <1>1 DEF Collect, ServerStep, handler_vars, RequestsType
<1>3. inbox' \in Seq(ResultOf(Nat)) /\ Len(inbox') = Len(inbox) - 1
  BY <1>1, <1>2, HeadTailProperties DEF RequestsType
<1>4. RequestsType'
  BY <1>1, <1>2, <1>3 DEF RequestsType
<1>5. Held' = Held /\ Engaged' = Engaged /\ Sending' = Sending
  BY <1>2, Zenon DEF Held, Engaged, Sending
<1>6. /\ Rounds(backlog) \in Nat /\ Len(backlog) \in Nat /\ Len(inbox) \in Nat
      /\ Held \in Nat /\ Engaged \in Nat /\ Sending \in Nat /\ due \in Nat
      /\ Rounds(backlog') = Rounds(backlog) /\ Len(backlog') = Len(backlog)
  BY <1>1, <1>2, CountedFacts DEF Held, Engaged, Sending, Holds, RequestsType
<1>7. Sending + Rounds(backlog) + Held + Len(inbox) <= due
        => (Sending + Rounds(backlog) + Held + Len(inbox) <= due)'
  BY <1>2, <1>3, <1>5, <1>6
<1>8. ASSUME OneAtATime PROVE OneAtATime'
  BY <1>2, <1>3, <1>5, <1>6, <1>8 DEF OneAtATime, Holds
<1> QED  BY <1>4, <1>7, <1>8, CountedBy

\* What every step of the scheduler leaves alone.
LEMMA SchedulerFacts ==
  ASSUME RequestsInv, [Next]_fleet_vars, Scheduler
  PROVE  /\ UNCHANGED <<handler, request, inbox, clobbered, entries>>
         /\ Held' = Held /\ Engaged' = Engaged
         /\ Held \in Nat /\ Engaged \in Nat
<1>1. UNCHANGED <<handler, request, inbox, clobbered, entries>>
  BY DEF Scheduler, Scan, Ping, EndScan, SendTrain, EndBroadcast, ServerStep,
         handler_vars
<1> QED  BY <1>1 DEF Held, Engaged, Holds

\* A request that fails on the way adds no round to the backlog.
LEMMA FailureAdds ==
  ASSUME RequestsInv, [Next]_fleet_vars, Reaches(FALSE, Listening),
         backlog' \in AfterFailure
  PROVE  /\ backlog' \in Seq(Request) /\ Rounds(backlog') = Rounds(backlog)
         /\ Calm' => backlog' = backlog
<1>1. RequestsType /\ faults \in Nat /\ Rounds(backlog) \in Nat
  BY CountedFacts DEF RequestsInv, ServerOnce
<1>2. Broken \in Request /\ ~(Broken > 0)
  BY DEF Broken, Request
<1>3. CASE backlog' = backlog
  BY <1>1, <1>3 DEF RequestsType
<1>4. CASE backlog' = Append(backlog, Broken) /\ Listening
  <2>1. faults' = faults + 1
    BY <1>4 DEF Reaches, Fails
  <2>2. ~Calm'
    BY <1>1, <2>1, CountedFacts
  <2>3. backlog' \in Seq(Request)
    BY <1>1, <1>2, <1>4 DEF RequestsType
  <2>4. Rounds(backlog') = Rounds(backlog) + 0
    BY <1>1, <1>2, <1>4, RoundsAppend DEF RequestsType
  <2> QED  BY <1>1, <2>2, <2>3, <2>4
<1> QED  BY <1>3, <1>4 DEF AfterFailure

\* A round begins with as many results due as requests to be sent, and
\* nothing else on its way.
LEMMA CountedScan ==
  ASSUME RequestsInv, [Next]_fleet_vars, Scan \/ EndScan \/ EndBroadcast
  PROVE  Counted'
<1>1. RequestsType /\ entries \in Nat /\ Scheduler
  BY CountedFacts DEF RequestsInv, ServerOnce, Scheduler
<1>2. /\ UNCHANGED <<handler, request, inbox, clobbered, entries>>
      /\ Held' = Held /\ Engaged' = Engaged /\ Held \in Nat /\ Engaged \in Nat
  BY <1>1, SchedulerFacts
<1>3. backlog' = backlog
  BY DEF Scan, EndScan, EndBroadcast
<1>4. /\ Rounds(backlog) \in Nat /\ Len(backlog) \in Nat /\ Len(inbox) \in Nat
      /\ due \in Nat /\ todo \in Nat /\ clients_ready \in Nat
      /\ round_number \in Nat
  BY <1>1, CountedFacts DEF RequestsType
<1>5. CASE Scan
  <2>1. /\ scheduler = "sleep" /\ scheduler' = "scan" /\ todo' = entries
        /\ clients_ready' = 0 /\ due = 0 /\ due' = due
        /\ round_number' = round_number
    BY <1>5 DEF Scan
  <2>2. RequestsType'
    BY <1>1, <1>2, <1>3, <2>1 DEF RequestsType
  <2>3. Sending' = 0 /\ Sending = 0
    BY <2>1 DEF Sending
  <2>4. ASSUME Calm', OneAtATime PROVE OneAtATime'
    BY <1>1, <1>2, <1>3, <1>4, <2>1, <2>3, <2>4 DEF OneAtATime, Holds, Calm
  <2> QED  BY <1>2, <1>3, <2>1, <2>2, <2>3, <2>4, CountedBy
<1>6. CASE EndScan
  <2>1. /\ scheduler = "scan" /\ due = 0 /\ clients_ready' = clients_ready
        /\ todo = 0
        /\ \/ /\ scheduler' = "train" /\ todo' = clients_ready
              /\ due' = clients_ready /\ round_number' = round_number + 1
           \/ /\ scheduler' = "sleep"
              /\ UNCHANGED <<todo, due, round_number>>
    BY <1>1, <1>6 DEF EndScan, RequestsType
  <2>2. RequestsType'
    BY <1>1, <1>2, <1>3, <1>4, <2>1 DEF RequestsType
  <2>3. Sending = 0 /\ Sending' = due'
    BY <2>1 DEF Sending
  <2>4. ASSUME Calm', OneAtATime PROVE OneAtATime'
    BY <1>2, <1>3, <1>4, <2>1, <2>3, <2>4 DEF OneAtATime, Holds
  <2> QED  BY <1>2, <1>3, <1>4, <2>1, <2>2, <2>3, <2>4, CountedBy
<1>7. CASE EndBroadcast
  <2>1. /\ scheduler = "train" /\ todo = 0 /\ scheduler' \in {"sleep", "over"}
        /\ UNCHANGED <<todo, due, round_number, clients_ready>>
    BY <1>7 DEF EndBroadcast
  <2>2. RequestsType'
    BY <1>1, <1>2, <1>3, <2>1 DEF RequestsType
  <2>3. Sending = 0 /\ Sending' = 0
    BY <2>1 DEF Sending
  <2>4. ASSUME Calm', OneAtATime PROVE OneAtATime'
    BY <1>2, <1>3, <1>4, <2>1, <2>3, <2>4 DEF OneAtATime, Holds
  <2> QED  BY <1>2, <1>3, <2>1, <2>2, <2>3, <2>4, CountedBy
<1> QED  BY <1>5, <1>6, <1>7

\* A /ready is not counted; a /train is one request less to be sent.
LEMMA CountedRequest ==
  ASSUME RequestsInv, [Next]_fleet_vars, Ping \/ SendTrain
  PROVE  Counted'
<1>1. RequestsType /\ Scheduler
  BY CountedFacts DEF Scheduler
<1>2. /\ UNCHANGED <<handler, request, inbox, clobbered>>
      /\ Held' = Held /\ Engaged' = Engaged /\ Held \in Nat /\ Engaged \in Nat
  BY <1>1, SchedulerFacts
<1>3. UNCHANGED <<due, clients_ready, round_number>>
  BY DEF Ping, SendTrain
<1>4. /\ Rounds(backlog) \in Nat /\ Len(backlog) \in Nat /\ Len(inbox) \in Nat
      /\ due \in Nat /\ todo \in Nat /\ clients_ready \in Nat
      /\ round_number \in Nat
  BY <1>1, CountedFacts DEF RequestsType
<1>5. ASSUME NEW r \in Nat, backlog' = Append(backlog, r)
      PROVE  /\ backlog' \in Seq(Request) /\ Len(backlog') = Len(backlog) + 1
             /\ Rounds(backlog') = Rounds(backlog) + Holds(r > 0)
  BY <1>1, <1>5, RoundsAppend DEF RequestsType, Request, Holds
<1>6. CASE Ping
  <2>1. CASE backlog' = Append(backlog, ReadyRequest) /\ scheduler' = "ping"
               /\ todo' = todo
    <3>1. scheduler = "scan" /\ due = 0 /\ todo > 0
      BY <1>1, <1>6 DEF Ping, RequestsType
    <3>2. /\ backlog' \in Seq(Request) /\ Len(backlog') = Len(backlog) + 1
          /\ Rounds(backlog') = Rounds(backlog)
      BY <1>4, <1>5, <2>1 DEF ReadyRequest, Holds
    <3>3. RequestsType'
      BY <1>1, <1>2, <1>3, <2>1, <3>1, <3>2 DEF RequestsType
    <3>4. Sending = 0 /\ Sending' = 0
      BY <2>1, <3>1 DEF Sending
    <3>5. ASSUME OneAtATime PROVE OneAtATime'
      BY <1>2, <1>3, <1>4, <2>1, <3>1, <3>2, <3>4, <3>5 DEF OneAtATime, Holds
    <3> QED  BY <1>2, <1>3, <3>1, <3>2, <3>3, <3>4, <3>5, CountedBy
  <2>2. CASE Reaches(FALSE, Listening) /\ backlog' \in AfterFailure
               /\ todo' = todo - 1 /\ scheduler' = scheduler
    <3>1. scheduler = "scan" /\ due = 0 /\ todo > 0
      BY <1>1, <1>6 DEF Ping, RequestsType
    <3>2. /\ backlog' \in Seq(Request) /\ Rounds(backlog') = Rounds(backlog)
          /\ Calm' => backlog' = backlog
      BY <2>2, FailureAdds
    <3>3. RequestsType'
      BY <1>1, <1>2, <1>3, <1>4, <2>2, <3>1, <3>2 DEF RequestsType
    <3>4. Sending = 0 /\ Sending' = 0
      BY <2>2, <3>1 DEF Sending
    <3>5. ASSUME Calm', OneAtATime PROVE OneAtATime'
      BY <1>2, <1>3, <1>4, <2>2, <3>1, <3>2, <3>4, <3>5 DEF OneAtATime, Holds
    <3> QED  BY <1>2, <1>3, <3>1, <3>2, <3>3, <3>4, <3>5, CountedBy
  <2> QED  BY <1>6, <2>1, <2>2 DEF Ping
<1>7. CASE SendTrain
  <2>1. scheduler = "train" /\ scheduler' = scheduler /\ todo > 0
    BY <1>7 DEF SendTrain
  <2>2. CASE backlog' = Append(backlog, round_number) /\ todo' = todo - 1
    <3>1. /\ backlog' \in Seq(Request) /\ Len(backlog') = Len(backlog) + 1
          /\ Rounds(backlog') <= Rounds(backlog) + 1 /\ Rounds(backlog') \in Nat
      BY <1>4, <1>5, <2>2 DEF Holds
    <3>2. RequestsType'
      BY <1>1, <1>2, <1>3, <1>4, <2>1, <2>2, <3>1 DEF RequestsType
    <3>3. Sending = todo /\ Sending' = todo - 1
      BY <2>1, <2>2 DEF Sending
    <3>4. ASSUME OneAtATime PROVE OneAtATime'
      BY <1>2, <1>3, <1>4, <2>1, <3>1, <3>3, <3>4 DEF OneAtATime, Holds
    <3>5. Sending + Rounds(backlog) + Held + Len(inbox) <= due
            => (Sending + Rounds(backlog) + Held + Len(inbox) <= due)'
      BY <1>2, <1>3, <1>4, <3>1, <3>3
    <3> QED  BY <3>2, <3>4, <3>5, CountedBy
  <2>3. CASE Reaches(FALSE, Listening) /\ backlog' \in AfterFailure
               /\ todo' \in {todo, todo - 1}
    <3>1. /\ backlog' \in Seq(Request) /\ Rounds(backlog') = Rounds(backlog)
          /\ Calm' => backlog' = backlog
      BY <2>3, FailureAdds
    <3>2. RequestsType'
      BY <1>1, <1>2, <1>3, <1>4, <2>1, <2>3, <3>1 DEF RequestsType
    <3>3. Sending = todo /\ Sending' = todo' /\ todo' <= todo /\ todo' \in Nat
      BY <1>4, <2>1, <2>3 DEF Sending
    <3>4. ASSUME Calm', OneAtATime PROVE OneAtATime'
      BY <1>2, <1>3, <1>4, <2>1, <3>1, <3>3, <3>4 DEF OneAtATime, Holds
    <3> QED  BY <1>2, <1>3, <1>4, <2>1, <3>1, <3>2, <3>3, <3>4, CountedBy
  <2> QED  BY <1>7, <2>2, <2>3 DEF SendTrain
<1> QED  BY <1>6, <1>7

\* A device that vanishes takes its requests along.
LEMMA CountedVanish ==
  ASSUME RequestsInv, [Next]_fleet_vars, Vanish, UNCHANGED scheduler_vars
  PROVE  Counted'
<1>1. RequestsType
  BY CountedFacts
<1>2. /\ backlog' = <<>> /\ handler' = "none" /\ request' = NoRequest
      /\ inbox' = inbox /\ clobbered' = clobbered
      /\ scheduler' = scheduler /\ todo' = todo /\ due' = due
      /\ clients_ready' = clients_ready /\ round_number' = round_number
  BY Zenon DEF Vanish, scheduler_vars
<1>3. RequestsType'
  BY <1>1, <1>2 DEF RequestsType
<1>4. /\ Rounds(backlog') = 0 /\ Len(backlog') = 0
      /\ Held' = 0 /\ Engaged' = 0 /\ Sending' = Sending
  BY <1>2, RoundsNone DEF Held, Engaged, Sending, Holds, Busy, Unsent
<1>5. /\ Rounds(backlog) \in Nat /\ Len(backlog) \in Nat /\ Len(inbox) \in Nat
      /\ Held \in Nat /\ Engaged \in Nat /\ Sending \in Nat /\ due \in Nat
  BY <1>1, CountedFacts DEF Held, Engaged, Sending, Holds, RequestsType
<1>6. ASSUME OneAtATime PROVE OneAtATime'
  BY <1>2, <1>4, <1>5, <1>6 DEF OneAtATime, Holds
<1> QED  BY <1>2, <1>3, <1>4, <1>5, <1>6, CountedBy

\* Every step keeps the count.
LEMMA RequestsStep == RequestsInv /\ [Next]_fleet_vars => RequestsInv'
<1> SUFFICES ASSUME RequestsInv, [Next]_fleet_vars PROVE Counted'
  BY ServerOnceStep DEF RequestsInv
<1>1. CASE Launching \/ Serving \/ ServerExits \/ UNCHANGED fleet_vars
  BY <1>1, CountedKept, Zenon
  DEF Launching, Serving, ServerExits, guest_vars, device_vars, handler_vars,
      scheduler_vars, fleet_vars
<1>2. CASE EmulatorExits
  <2>1. UNCHANGED scheduler_vars /\ (Vanish \/ UNCHANGED guest_vars)
    BY <1>2 DEF EmulatorExits
  <2>2. CASE UNCHANGED guest_vars
    BY <2>1, <2>2, CountedKept, Zenon
    DEF guest_vars, device_vars, handler_vars, scheduler_vars
  <2> QED  BY <2>1, <2>2, CountedVanish
<1>3. CASE Starting
  <2>1. /\ UNCHANGED <<backlog, handler_vars, clobbered, inbox>>
        /\ UNCHANGED <<scheduler, todo, clients_ready, round_number, due>>
    BY <1>3, Zenon
    DEF Starting, DeviceRuns, DeviceRegisters, DeviceGetsNoId, DeviceDownloads,
        DeviceBegins, Run, ReqId, ReqImages, ReqLabels, InitTrainSet,
        scheduler_vars
  <2> QED  BY <2>1, CountedKept, Zenon DEF handler_vars
<1>4. CASE DeviceAlone
  <2>1. UNCHANGED scheduler_vars
    BY <1>4 DEF DeviceAlone
  <2> QED  BY <1>4, <2>1, CountedAccept, CountedHandler DEF DeviceAlone
<1> QED
  BY <1>1, <1>2, <1>3, <1>4, CountedAnswers, CountedSends, CountedCollect,
     CountedScan, CountedRequest DEF Next, Device, Scheduler

\* At the beginning nothing is due and nothing on its way.
LEMMA RequestsInit == Init => RequestsInv
<1> SUFFICES ASSUME Init PROVE RequestsInv
  OBVIOUS
<1>1. ServerOnce
  BY DEF Init, LauncherInit, DeviceInit, ServerOnce
<1>2. /\ backlog = <<>> /\ inbox = <<>> /\ handler = "none"
      /\ request = NoRequest /\ scheduler = "sleep" /\ todo = 0
      /\ clients_ready = 0 /\ round_number = 0 /\ due = 0 /\ clobbered = FALSE
  BY DEF Init, DeviceInit
<1>3. RequestsType
  BY <1>2 DEF RequestsType
<1>4. Rounds(backlog) = 0
  BY <1>2, RoundsNone
<1>5. ToCome <= due
  BY <1>2, <1>4 DEF ToCome, Unsent, Holds
<1>6. OneAtATime
  BY <1>2 DEF OneAtATime, Sending, Engaged, Holds, Busy, Unsent
<1> QED  BY <1>1, <1>3, <1>5, <1>6 DEF RequestsInv, Counted

\* start_round, send_weights, handle_results: whatever is lost, tried again or
\* restarted, a round never has more results on their way than it waits for.
THEOREM NoneTwice == Spec => []NoSurplusResult
<1>1. RequestsInv => NoSurplusResult
  BY DEF RequestsInv, Counted, NoSurplusResult
<1> QED  BY <1>1, RequestsInit, RequestsStep, PTL DEF Spec

\* main.c:259: while the server knows the device once and no call has failed,
\* a connection never finds the thread of another on the one thread object.
THEOREM ThreadsApart == Spec => []OneHandler
<1>1. ServerOnce /\ ~Calm => entries > 1 \/ faults > 0
  BY DEF ServerOnce, Calm
<1>2. RequestsInv => OneHandler
  BY <1>1, Zenon DEF RequestsInv, Counted, OneAtATime, OneHandler
<1> QED  BY <1>2, RequestsInit, RequestsStep, PTL DEF Spec

-----------------------------------------------------------------------------
(***************************************************************************)
(* The device's program keeps the contract of module Participant, which    *)
(* the server relies on in each of its devices.                            *)
(***************************************************************************)

\* Every request and result is of a round the server has started.
Wanted == Round \cup {ReadyRequest, Broken}
InRounds ==
  /\ round_number \in 0 .. NumRounds
  /\ scheduler \in {"scan", "ping"} => round_number < NumRounds
  /\ scheduler = "train" => round_number \in Round
  /\ backlog \in Seq(Wanted) /\ inbox \in Seq(ResultOf(Round))
  /\ request \in Wanted \cup {NoRequest}

ContractInv == RequestsInv /\ Alone /\ InRounds

\* No one asks or answers for a round that is not.
LEMMA InRoundsStep == RequestsInv /\ InRounds /\ [Next]_fleet_vars => InRounds'
<1> SUFFICES ASSUME RequestsInv, InRounds, [Next]_fleet_vars PROVE InRounds'
  OBVIOUS
<1> USE DEF InRounds
<1>1. /\ NumRounds \in Nat
      /\ Round \subseteq Wanted /\ ReadyRequest \in Wanted /\ Broken \in Wanted
  BY FleetAssumption DEF Wanted
<1>2. CASE UNCHANGED <<round_number, scheduler, backlog, inbox, request>>
  BY <1>2
<1>3. CASE Launching \/ Serving \/ ServerExits \/ UNCHANGED fleet_vars
  BY <1>2, <1>3
  DEF Launching, Serving, ServerExits, guest_vars, device_vars, handler_vars,
      scheduler_vars, fleet_vars
<1>4. CASE EmulatorExits
  <2>1. UNCHANGED <<round_number, scheduler>> /\ (Vanish \/ UNCHANGED guest_vars)
    BY <1>4 DEF EmulatorExits, scheduler_vars
  <2>2. CASE Vanish
    BY <2>1, <2>2 DEF Vanish
  <2> QED
    BY <1>2, <2>1, <2>2 DEF guest_vars, device_vars, handler_vars
<1>5. CASE Starting
  BY <1>2, <1>5
  DEF Starting, DeviceRuns, DeviceRegisters, DeviceGetsNoId, DeviceDownloads,
      DeviceBegins, Run, ReqId, ReqImages, ReqLabels, InitTrainSet,
      handler_vars, scheduler_vars
<1>6. CASE DeviceAlone
  <2>1. UNCHANGED <<round_number, scheduler>>
    BY <1>6 DEF DeviceAlone, scheduler_vars
  <2>2. CASE Accept
    <3>1. /\ Head(backlog) \in Wanted /\ Tail(backlog) \in Seq(Wanted)
      BY <2>2 DEF Accept
    <3> QED  BY <2>1, <2>2, <3>1 DEF Accept
  <2>3. CASE Receive \/ Train \/ CloseServ \/ Clean
    BY <2>1, <2>3 DEF Receive, Train, CloseServ, Clean
  <2> QED  BY <1>6, <2>2, <2>3 DEF DeviceAlone
<1>7. CASE DeviceAnswers
  BY <1>7 DEF DeviceAnswers, Answer
<1>8. CASE DeviceSends
  <2>1. UNCHANGED <<round_number, scheduler, backlog, request>>
    BY <1>8 DEF DeviceSends, Connect, SendHeader, SendBody, scheduler_vars
  <2>2. handler = "body" => NewResult \in ResultOf(Round)
    <3>1. handler = "body" => request \in Round
      BY DEF RequestsInv, Counted, RequestsType, Wanted, ReadyRequest, Broken,
             NoRequest
    <3>2. ID \in Nat
      BY DEF RequestsInv, ServerOnce
    <3> QED  BY <3>1, <3>2 DEF NewResult, ResultOf
  <2>3. \/ inbox' = inbox
        \/ handler = "body" /\ inbox' = Append(inbox, NewResult)
    BY <1>8 DEF DeviceSends, Connect, SendHeader, SendBody, NewResult
  <2> QED  BY <2>1, <2>2, <2>3
<1>9. CASE Scan \/ Ping
  <2>1. UNCHANGED <<round_number, inbox, request>>
    BY <1>9 DEF Scan, Ping, ServerStep, handler_vars
  <2>2. backlog' \in Seq(Wanted)
    <3>1. \/ backlog' = backlog \/ backlog' = Append(backlog, ReadyRequest)
          \/ backlog' = Append(backlog, Broken)
      BY <1>9 DEF Scan, Ping, AfterFailure
    <3>2. \A r \in Wanted : Append(backlog, r) \in Seq(Wanted)
      OBVIOUS
    <3> QED  BY <1>1, <3>1, <3>2
  <2> QED  BY <1>1, <1>9, <2>1, <2>2 DEF Scan, Ping, Round
<1>10. CASE EndScan \/ EndBroadcast
  BY <1>1, <1>10 DEF EndScan, EndBroadcast, ServerStep, handler_vars, Round
<1>11. CASE SendTrain
  <2>1. UNCHANGED <<round_number, scheduler, inbox, request>>
    BY <1>11 DEF SendTrain, ServerStep, handler_vars
  <2>2. backlog' \in Seq(Wanted)
    <3>1. \/ backlog' = backlog \/ backlog' = Append(backlog, Broken)
          \/ scheduler = "train" /\ backlog' = Append(backlog, round_number)
      BY <1>11 DEF SendTrain, AfterFailure
    <3>2. \A r \in Wanted : Append(backlog, r) \in Seq(Wanted)
      OBVIOUS
    <3> QED  BY <1>1, <3>1, <3>2
  <2> QED  BY <2>1, <2>2
<1>12. CASE Collect
  BY <1>12 DEF Collect, ServerStep, handler_vars
<1> QED
  BY <1>3, <1>4, <1>5, <1>6, <1>7, <1>8, <1>9, <1>10, <1>11, <1>12
     DEF Next, Device, Scheduler

-----------------------------------------------------------------------------
\* A step the contract does not see.
Unseen == UNCHANGED <<Phase, ID, Owed, Posted>>

LEMMA UnseenAllowed == Unseen => [Contract!Next]_(Contract!vars)
BY DEF Unseen, Contract!vars

LEMMA NotSeen ==
  ASSUME UNCHANGED <<boot, ID, backlog, inbox>>,
         \A r \in Round : InHand(r)' = InHand(r)
  PROVE  Unseen
<1>1. Phase' = Phase
  BY DEF Phase
<1>2. Owed' = Owed /\ Posted' = Posted
  BY DEF Owed, Posted
<1> QED  BY <1>1, <1>2 DEF Unseen

\* The types of what is counted.
LEMMA Numbers ==
  ASSUME InRounds
  PROVE  /\ Owed \in [Round -> Nat] /\ Posted \in [Round -> Nat]
         /\ \A r \in Round : HowMany(backlog, {r}) \in Nat
<1>1. ASSUME NEW r \in Round
      PROVE  HowMany(backlog, {r}) \in Nat /\ HowMany(inbox, Results(r)) \in Nat
  BY HowManyType DEF InRounds
<1>2. ASSUME NEW r \in Round PROVE InHand(r) \in {0, 1}
  BY DEF InHand, Holds
<1>3. Owed \in [Round -> Nat]
  <2>1. ASSUME NEW r \in Round PROVE HowMany(backlog, {r}) + InHand(r) \in Nat
    BY <1>1, <1>2
  <2> QED  BY <2>1 DEF Owed
<1>4. Posted \in [Round -> Nat]
  BY <1>1 DEF Posted
<1> QED  BY <1>1, <1>3, <1>4

\* One more of round r, or, read backwards, one less.
LEMMA OneMore ==
  ASSUME NEW f \in [Round -> Nat], NEW g, g = [q \in Round |-> g[q]],
         NEW r \in Round, \A q \in Round : g[q] = f[q] + Holds(q = r)
  PROVE  /\ g = [f EXCEPT ![r] = @ + 1]
         /\ f = [g EXCEPT ![r] = @ - 1] /\ g[r] > 0
<1>1. g[r] = f[r] + 1
  BY DEF Holds
<1>2. ASSUME NEW q \in Round, q # r PROVE g[q] = f[q]
  <2>1. Holds(q = r) = 0
    BY <1>2 DEF Holds
  <2> QED  BY <2>1
<1>3. g = [f EXCEPT ![r] = @ + 1]
  BY <1>1, <1>2
<1>4. f[r] = g[r] - 1 /\ g[r] > 0
  BY <1>1
<1>5. f = [g EXCEPT ![r] = @ - 1]
  BY <1>2, <1>4
<1> QED  BY <1>3, <1>4, <1>5

\* What the handler has given up is owed no more.
LEMMA GivenUp ==
  ASSUME InRounds, InRounds', backlog' = backlog, handler' \notin Unsent
  PROVE  Owed' \in Contract!AtMost(Owed)
<1>1. ASSUME NEW r \in Round PROVE Owed'[r] <= Owed[r]
  <2>1. HowMany(backlog, {r}) \in Nat
    BY Numbers
  <2>2. InHand(r)' = 0 /\ InHand(r) \in {0, 1}
    BY DEF InHand, Holds
  <2>3. Owed[r] = HowMany(backlog, {r}) + InHand(r)
    BY DEF Owed
  <2>4. Owed'[r] = HowMany(backlog, {r}) + InHand(r)'
    BY DEF Owed
  <2> QED  BY <2>1, <2>2, <2>3, <2>4
<1>2. Owed' \in [Round -> Nat]
  <2>1. \A r \in Round : HowMany(backlog, {r}) \in Nat
    BY Numbers
  <2>2. \A r \in Round : HowMany(backlog, {r}) + InHand(r)' \in Nat
    BY <2>1 DEF InHand, Holds
  <2> QED  BY <2>2 DEF Owed
<1> QED  BY <1>1, <1>2 DEF Contract!AtMost

\* Starting: the phases up to the first accept, or none.
LEMMA ContractStarts ==
  ASSUME ContractInv, ContractInv', Starting
  PROVE  [Contract!Next]_(Contract!vars)
<1>1. UNCHANGED <<backlog, handler, request, inbox>>
  BY DEF Starting, DeviceRuns, DeviceRegisters, DeviceGetsNoId,
         DeviceDownloads, DeviceBegins, Run, ReqId, ReqImages, ReqLabels,
         InitTrainSet, handler_vars
<1>2. Owed' = Owed /\ Posted' = Posted
  BY <1>1 DEF Owed, Posted, InHand
<1>3. Owed \in Contract!AtMost(Owed)
  BY Numbers DEF ContractInv, Contract!AtMost
<1>4. CASE DeviceRuns
  <2>1. Contract!Boot
    BY <1>2, <1>4 DEF DeviceRuns, Run, Contract!Boot, Phase
  <2> QED  BY <2>1 DEF Contract!Next
<1>5. CASE DeviceRegisters \/ DeviceGetsNoId
  <2>1. boot = "id" /\ boot' = "images"
    BY <1>5 DEF DeviceRegisters, DeviceGetsNoId, ReqId
  <2>2. ID' \in Nat
    BY DEF ContractInv, RequestsInv, ServerOnce
  <2>3. Contract!Identify
    BY <1>2, <2>1, <2>2 DEF Contract!Identify, Phase
  <2> QED  BY <2>3 DEF Contract!Next
<1>6. CASE DeviceDownloads
  <2>1. /\ boot \in {"images", "labels"} /\ boot' \in {"labels", "init"}
        /\ ID' = ID
    BY <1>6 DEF DeviceDownloads, ReqImages, ReqLabels
  <2> QED  BY <1>2, <2>1 DEF Contract!vars, Phase
<1>7. CASE DeviceBegins
  <2>1. boot = "init" /\ ID' = ID
    BY <1>7 DEF DeviceBegins, InitTrainSet
  <2>2. CASE boot' = "serving"
    <3>1. Contract!Listen
      BY <1>2, <2>1, <2>2 DEF Contract!Listen, Phase
    <3> QED  BY <3>1 DEF Contract!Next
  <2>3. CASE boot' \in {"stopped", "undefined"}
    <3>1. Contract!Stop
      BY <1>2, <1>3, <2>1, <2>3 DEF Contract!Stop, Phase
    <3> QED  BY <3>1 DEF Contract!Next
  <2> QED  BY <1>7, <2>2, <2>3 DEF DeviceBegins, InitTrainSet
<1> QED  BY <1>4, <1>5, <1>6, <1>7 DEF Starting

\* A connection taken from the backlog is in the hands of the handler, or,
\* with another there, everything is lost.
LEMMA ContractAccepts ==
  ASSUME ContractInv, ContractInv', Accept
  PROVE  [Contract!Next]_(Contract!vars)
<1>1. /\ backlog \in Seq(Wanted) /\ backlog # <<>> /\ backlog' = Tail(backlog)
      /\ boot = "serving" /\ UNCHANGED <<ID, inbox>>
  BY DEF Accept, ContractInv, InRounds
<1>2. Posted' = Posted
  BY <1>1 DEF Posted
<1>3. ASSUME NEW r \in Round
      PROVE  /\ HowMany(backlog, {r})
                  = HowMany(backlog', {r}) + Holds(Head(backlog) = r)
             /\ HowMany(backlog', {r}) \in Nat
  <2>1. Tail(backlog) \in Seq(Wanted)
    BY <1>1
  <2>2. HowMany(backlog, {r})
          = HowMany(Tail(backlog), {r}) + Holds(Head(backlog) \in {r})
    BY <1>1, HowManyTail
  <2>3. HowMany(Tail(backlog), {r}) \in Nat
    BY <2>1, HowManyType
  <2> QED  BY <1>1, <2>2, <2>3 DEF Holds
<1>4. CASE handler = "none"
  <2>1. handler' = "recv" /\ request' = Head(backlog) /\ boot' = boot
    BY <1>4 DEF Accept
  <2>2. ASSUME NEW r \in Round
        PROVE  HowMany(backlog, {r}) + InHand(r)
                 = HowMany(backlog', {r}) + InHand(r)'
    BY <1>3, <1>4, <2>1 DEF InHand, Holds, Unsent
  <2>3. Owed' = Owed
    BY <2>2 DEF Owed
  <2>4. Phase' = Phase
    BY <2>1 DEF Phase
  <2> QED  BY <1>1, <1>2, <2>3, <2>4 DEF Contract!vars
<1>5. CASE handler # "none"
  <2>1. handler' = "none" /\ boot' = "undefined"
    BY <1>5 DEF Accept
  <2>2. ASSUME NEW r \in Round
        PROVE  Owed'[r] <= Owed[r]
    <3>1. Owed'[r] = HowMany(backlog', {r}) + InHand(r)'
      BY DEF Owed
    <3>2. Owed[r] = HowMany(backlog, {r}) + InHand(r)
      BY DEF Owed
    <3> QED  BY <1>3, <2>1, <3>1, <3>2 DEF InHand, Holds, Unsent
  <2>3. Owed' \in [Round -> Nat]
    <3>1. \A r \in Round : HowMany(backlog', {r}) + InHand(r)' \in Nat
      BY <1>3 DEF InHand, Holds
    <3> QED  BY <3>1 DEF Owed
  <2>4. Contract!Stop
    BY <1>1, <1>2, <2>1, <2>2, <2>3 DEF Contract!Stop, Contract!AtMost, Phase
  <2> QED  BY <2>4 DEF Contract!Next
<1> QED  BY <1>4, <1>5

\* What the handler does before it posts its result, and after, changes
\* nothing, unless it gives up.
LEMMA ContractHandles ==
  ASSUME ContractInv, ContractInv',
         Receive \/ Answer \/ Train \/ CloseServ \/ Clean
  PROVE  [Contract!Next]_(Contract!vars)
<1>1. UNCHANGED <<boot, ID, backlog, inbox>>
  BY DEF Receive, Answer, Train, CloseServ, Clean, run_vars
<1>2. ASSUME NEW r \in Round PROVE InHand(r)' = InHand(r)
  <2>1. r # ReadyRequest /\ r # Broken /\ r # NoRequest
    BY DEF Round, ReadyRequest, Broken, NoRequest
  <2> QED
    BY <2>1
    DEF Receive, Answer, Train, CloseServ, Clean, InHand, Unsent
<1>3. Unseen
  BY <1>1, <1>2, NotSeen
<1> QED  BY <1>3, UnseenAllowed

\* send_weights: a result is posted, and then owed no more; giving up is a
\* loss; another try is nothing.
LEMMA ContractSends ==
  ASSUME ContractInv, ContractInv', DeviceSends
  PROVE  [Contract!Next]_(Contract!vars)
<1>1. /\ UNCHANGED <<boot, ID, backlog, request>>
      /\ handler \in {"connect", "header", "body"}
      /\ \/ UNCHANGED inbox /\ handler' \in {"connect", "header", "body", "close"}
         \/ handler = "body" /\ handler' = "close"
            /\ inbox' = Append(inbox, NewResult)
  BY DEF DeviceSends, Connect, SendHeader, SendBody, NextTry, Sent, NewResult,
         run_vars
<1>2. boot = "serving" /\ Phase = "serving" /\ Phase' = "serving"
  BY <1>1 DEF ContractInv, Alone, Phase
<1>3. CASE UNCHANGED inbox /\ handler' # "close"
  <2>1. \A r \in Round : InHand(r)' = InHand(r)
    BY <1>1, <1>3 DEF InHand, Unsent
  <2> QED  BY <1>1, <1>3, <2>1, NotSeen, UnseenAllowed
<1>4. CASE UNCHANGED inbox /\ handler' = "close"
  <2>1. Owed' \in Contract!AtMost(Owed)
    BY <1>1, <1>4, GivenUp DEF ContractInv, Unsent
  <2>2. Contract!Lose
    BY <1>1, <1>2, <1>4, <2>1 DEF Contract!Lose, Posted
  <2> QED  BY <2>2 DEF Contract!Next
<1>5. CASE handler = "body" /\ handler' = "close"
           /\ inbox' = Append(inbox, NewResult)
  <2>1. request \in Round /\ ID \in Nat
    <3>1. request \in Round
      BY <1>5 DEF ContractInv, InRounds, RequestsInv, Counted, RequestsType,
                  Wanted, ReadyRequest, Broken, NoRequest
    <3>2. ID \in Nat
      BY DEF ContractInv, RequestsInv, ServerOnce
    <3> QED  BY <3>1, <3>2
  <2>2. ASSUME NEW r \in Round
        PROVE  HowMany(inbox', Results(r))
                 = HowMany(inbox, Results(r)) + Holds(r = request)
    <3>1. /\ NewResult \in ResultOf(Round)
          /\ NewResult \in Results(r) <=> r = request
      BY <2>1 DEF NewResult, ResultOf, Results
    <3>2. HowMany(Append(inbox, NewResult), Results(r))
            = HowMany(inbox, Results(r)) + Holds(NewResult \in Results(r))
      BY <3>1, HowManyAppend DEF ContractInv, InRounds
    <3> QED  BY <1>5, <3>1, <3>2 DEF Holds
  <2>3. Posted' = [Posted EXCEPT ![request] = @ + 1]
    <3>1. Posted \in [Round -> Nat] /\ Posted' = [q \in Round |-> Posted'[q]]
      BY Numbers DEF ContractInv, Posted
    <3>2. \A r \in Round : Posted'[r] = Posted[r] + Holds(r = request)
      BY <2>2 DEF Posted
    <3> QED  BY <2>1, <3>1, <3>2, OneMore
  <2>4. Owed' = [Owed EXCEPT ![request] = @ - 1] /\ Owed[request] > 0
    <3>1. \A r \in Round : HowMany(backlog, {r}) \in Nat
      BY Numbers DEF ContractInv
    <3>2. \A r \in Round : InHand(r) = Holds(r = request) /\ InHand(r)' = 0
      BY <1>1, <1>5 DEF InHand, Unsent, Holds
    <3>3. \A r \in Round : /\ Owed[r] = HowMany(backlog, {r}) + InHand(r)
                           /\ Owed'[r] = HowMany(backlog, {r}) + InHand(r)'
      BY <1>1 DEF Owed
    <3>4. ASSUME NEW r \in Round PROVE Owed'[r] = HowMany(backlog, {r})
      <4>1. Owed'[r] = HowMany(backlog, {r}) + 0
        BY <3>2, <3>3
      <4> QED  BY <3>1, <4>1
    <3>5. \A r \in Round : Owed[r] = Owed'[r] + Holds(r = request)
      BY <3>2, <3>3, <3>4
    <3>6. Owed' \in [Round -> Nat] /\ Owed = [q \in Round |-> Owed[q]]
      BY <3>1, <3>4 DEF Owed
    <3> QED  BY <2>1, <3>5, <3>6, OneMore
  <2>5. Contract!Answer(request)
    BY <1>1, <1>2, <2>3, <2>4 DEF Contract!Answer
  <2> QED  BY <2>1, <2>5 DEF Contract!Next
<1> QED  BY <1>1, <1>3, <1>4, <1>5

\* start_round: a model sent is owed a result, if it arrives whole; a request
\* for readiness, or one that breaks off, is not.
LEMMA ContractAsks ==
  ASSUME ContractInv, ContractInv', Scheduler
  PROVE  [Contract!Next]_(Contract!vars)
<1>1. UNCHANGED <<boot, ID, handler, request, inbox>>
  BY DEF Scheduler, Scan, Ping, EndScan, SendTrain, EndBroadcast, ServerStep,
         run_vars, handler_vars
<1>2. Phase' = Phase /\ Posted' = Posted
  BY <1>1 DEF Phase, Posted
<1>3. \A r \in Round : InHand(r)' = InHand(r)
  BY <1>1 DEF InHand
<1>4. \/ backlog' = backlog
      \/ \E x \in {ReadyRequest, Broken} : backlog' = Append(backlog, x)
      \/ /\ boot = "serving" /\ round_number \in Round
         /\ backlog' = Append(backlog, round_number)
  BY DEF Scheduler, Scan, Ping, EndScan, SendTrain, EndBroadcast, ServerStep,
         AfterFailure, Reaches, Listening, ContractInv, InRounds
<1>5. ASSUME NEW x \in Wanted, backlog' = Append(backlog, x), NEW r \in Round
      PROVE  HowMany(backlog', {r}) = HowMany(backlog, {r}) + Holds(r = x)
  <2>1. HowMany(Append(backlog, x), {r}) = HowMany(backlog, {r}) + Holds(x \in {r})
    BY HowManyAppend DEF ContractInv, InRounds
  <2> QED  BY <1>5, <2>1 DEF Holds
<1>6. CASE backlog' = backlog
  BY <1>1, <1>3, <1>6, NotSeen, UnseenAllowed
<1>7. \A r \in Round : HowMany(backlog, {r}) \in Nat
  BY Numbers DEF ContractInv
<1>8. ASSUME NEW x \in {ReadyRequest, Broken}, backlog' = Append(backlog, x)
      PROVE  [Contract!Next]_(Contract!vars)
  <2>1. x \in Wanted /\ x \notin Round
    BY DEF Wanted, Round, ReadyRequest, Broken
  <2>2. \A r \in Round : HowMany(backlog', {r}) = HowMany(backlog, {r})
    <3> SUFFICES ASSUME NEW r \in Round
                 PROVE  HowMany(backlog', {r}) = HowMany(backlog, {r})
      OBVIOUS
    <3>1. HowMany(backlog', {r}) = HowMany(backlog, {r}) + Holds(r = x)
      BY <1>5, <1>8, <2>1
    <3>2. Holds(r = x) = 0
      BY <2>1 DEF Holds
    <3> QED  BY <1>7, <3>1, <3>2
  <2>3. Owed' = Owed
    BY <1>3, <2>2 DEF Owed
  <2> QED  BY <1>1, <1>2, <2>3 DEF Contract!vars
<1>9. CASE /\ boot = "serving" /\ round_number \in Round
           /\ backlog' = Append(backlog, round_number)
  <2>1. \A r \in Round :
          HowMany(backlog', {r}) = HowMany(backlog, {r}) + Holds(r = round_number)
    BY <1>5, <1>9 DEF Wanted
  <2>2. \A r \in Round : Owed'[r] = Owed[r] + Holds(r = round_number)
    <3> SUFFICES ASSUME NEW r \in Round
                 PROVE  Owed'[r] = Owed[r] + Holds(r = round_number)
      OBVIOUS
    <3>1. /\ Owed'[r] = HowMany(backlog', {r}) + InHand(r)'
          /\ Owed[r] = HowMany(backlog, {r}) + InHand(r)
      BY DEF Owed
    <3>2. InHand(r) \in Nat /\ Holds(r = round_number) \in Nat
      BY DEF InHand, Holds
    <3> QED  BY <1>3, <1>7, <2>1, <3>1, <3>2
  <2>3. Owed' = [Owed EXCEPT ![round_number] = @ + 1]
    <3>1. Owed \in [Round -> Nat] /\ Owed' = [q \in Round |-> Owed'[q]]
      BY Numbers DEF ContractInv, Owed
    <3> QED  BY <1>9, <2>2, <3>1, OneMore
  <2>4. Contract!Ask(round_number)
    BY <1>1, <1>2, <1>9, <2>3 DEF Contract!Ask, Phase
  <2> QED  BY <1>9, <2>4 DEF Contract!Next
<1> QED  BY <1>4, <1>6, <1>8, <1>9

\* handle_results: a result is read, of whichever round.
LEMMA ContractCollects ==
  ASSUME ContractInv, Collect
  PROVE  [Contract!Next]_(Contract!vars)
<1>1. /\ UNCHANGED <<boot, ID, handler, request, backlog>>
      /\ inbox # <<>> /\ inbox' = Tail(inbox)
  BY DEF Collect, ServerStep, run_vars, handler_vars
<1>2. Phase' = Phase /\ Owed' = Owed
  BY <1>1 DEF Phase, Owed, InHand
<1>3. /\ Head(inbox) \in ResultOf(Round)
      /\ inbox \in Seq(ResultOf(Round)) /\ Tail(inbox) \in Seq(ResultOf(Round))
  BY <1>1 DEF ContractInv, InRounds
<1>4. PICK h \in Round : h = Head(inbox).round
  BY <1>3 DEF ResultOf
<1>5. ASSUME NEW r \in Round
      PROVE  /\ HowMany(inbox, Results(r))
                  = HowMany(inbox', Results(r)) + Holds(r = h)
             /\ HowMany(inbox', Results(r)) \in Nat
  <2>1. HowMany(inbox, Results(r))
          = HowMany(Tail(inbox), Results(r)) + Holds(Head(inbox) \in Results(r))
    BY <1>1, <1>3, HowManyTail
  <2>2. HowMany(Tail(inbox), Results(r)) \in Nat
    BY <1>3, HowManyType
  <2>3. Head(inbox) \in Results(r) <=> r = h
    BY <1>3, <1>4 DEF ResultOf, Results
  <2> QED  BY <1>1, <2>1, <2>2, <2>3 DEF Holds
<1>6. Posted' = [Posted EXCEPT ![h] = @ - 1] /\ Posted[h] > 0
  <2>1. Posted' \in [Round -> Nat] /\ Posted = [q \in Round |-> Posted[q]]
    BY <1>5 DEF Posted
  <2>2. \A r \in Round : Posted[r] = Posted'[r] + Holds(r = h)
    BY <1>5 DEF Posted
  <2> QED  BY <2>1, <2>2, OneMore
<1>7. Contract!Collect(h)
  BY <1>1, <1>2, <1>6 DEF Contract!Collect
<1> QED  BY <1>4, <1>7 DEF Contract!Next

\* Each step of the fleet is one the contract allows, or does not see.
LEMMA ContractStep ==
  ASSUME ContractInv, ContractInv', [Next]_fleet_vars
  PROVE  [Contract!Next]_(Contract!vars)
<1>1. CASE UNCHANGED guest_vars
  <2>1. /\ UNCHANGED <<boot, ID, backlog, inbox>>
        /\ \A r \in Round : InHand(r)' = InHand(r)
    BY <1>1 DEF guest_vars, device_vars, run_vars, handler_vars, InHand
  <2> QED  BY <2>1, NotSeen, UnseenAllowed
<1>2. CASE Launching \/ Serving \/ ServerExits \/ UNCHANGED fleet_vars
  BY <1>1, <1>2 DEF Launching, Serving, ServerExits, fleet_vars
<1>3. CASE Vanish
  <2>1. /\ boot' = "off" /\ ID' = 0 /\ inbox' = inbox /\ backlog' = <<>>
        /\ handler' = "none"
    BY <1>3 DEF Vanish
  <2>2. \A r \in Round : InHand(r)' = 0 /\ HowMany(backlog', {r}) = 0
    BY <2>1, HowManyNone DEF InHand, Holds, Unsent
  <2>3. Owed' = Contract!Nothing /\ Posted' = Posted
    BY <2>1, <2>2 DEF Owed, Posted, Contract!Nothing
  <2>4. Contract!Crash
    BY <2>1, <2>3 DEF Contract!Crash, Phase
  <2> QED  BY <2>4 DEF Contract!Next
<1>4. CASE EmulatorExits
  BY <1>1, <1>3, <1>4 DEF EmulatorExits
<1>5. CASE Device
  BY <1>5, ContractAccepts, ContractHandles, ContractSends
     DEF Device, DeviceAlone, DeviceAnswers
<1> QED
  BY <1>2, <1>4, <1>5, ContractStarts, ContractAsks, ContractCollects DEF Next

\* A device's program, with the launcher, the server and the network around
\* it, keeps the contract the server's model assumes of its devices.
THEOREM DeviceAsPromised == Spec => DeviceKeepsContract
<1>1. Init => Contract!Init /\ ContractInv
  <2> SUFFICES ASSUME Init PROVE Contract!Init /\ ContractInv
    OBVIOUS
  <2>1. /\ boot = "off" /\ ID = 0 /\ backlog = <<>> /\ inbox = <<>>
        /\ handler = "none" /\ request = NoRequest /\ step = "out"
        /\ scheduler = "sleep" /\ round_number = 0 /\ NumRounds \in Nat
    BY FleetAssumption DEF Init, DeviceInit, TrainInit
  <2>2. \A r \in Round :
          /\ InHand(r) = 0 /\ HowMany(backlog, {r}) = 0
          /\ HowMany(inbox, Results(r)) = 0
    BY <2>1, HowManyNone DEF InHand, Holds, Unsent
  <2>3. Contract!Init
    <3>1. Owed = Contract!Nothing
      BY <2>2 DEF Contract!Nothing, Owed
    <3>2. Posted = Contract!Nothing
      BY <2>2, Zenon DEF Contract!Nothing, Posted
    <3> QED  BY <2>1, <3>1, <3>2 DEF Contract!Init, Phase
  <2>4. Alone /\ InRounds
    BY <2>1 DEF Alone, InRounds
  <2> QED  BY <2>3, <2>4, RequestsInit DEF ContractInv
<1>2. ContractInv /\ [Next]_fleet_vars => ContractInv'
  BY RequestsStep, AloneStep, InRoundsStep DEF ContractInv
<1>3. ContractInv /\ ContractInv' /\ [Next]_fleet_vars
        => [Contract!Next]_(Contract!vars)
  BY ContractStep
<1> QED
  BY <1>1, <1>2, <1>3, PTL DEF Spec, DeviceKeepsContract, Contract!Spec
=============================================================================
