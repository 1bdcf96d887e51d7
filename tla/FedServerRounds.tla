-------------------------- MODULE FedServerRounds ---------------------------
(***************************************************************************)
(* The layer of the invariant that counts updates, and the theorems it is  *)
(* for.  An update is on its way from the moment the scheduler sends a     *)
(* model out (SendTrain) until a handler adds it up (Accumulate).  Each    *)
(* entry of a round has one update, which is in at most one place; so when *)
(* as many are summed as there are entries, none is left on its way, and   *)
(* the model can be rewritten and the next round started.                  *)
(* What follows from it: the server implements FedAvg, and each of its     *)
(* devices keeps the contract of Participant.                              *)
(***************************************************************************)
EXTENDS FedServerProofs

Handling(w) == wpc[w] \in Results
Closing(w) == wpc[w] \in {"average", "evaluate", "finish"}

\* The update of an entry that was sent the model of this very round.
Fresh(u) ==
  /\ u \in Update /\ u.round = round_number /\ u.base + 1 = round_number
  /\ u.entry \in ready
  /\ pc = "train" => u.entry < cursor

AllFresh ==
  /\ \A u \in trains : Fresh(u)
  /\ \A p \in posts : Fresh(p.update)
  /\ \A w \in Worker : Handling(w) => Fresh(req[w].update)
  /\ responded > 0 => \A u \in Summed(weights) : Fresh(u)

\* No update is in two places.  The handler that closes a round has added
\* its own already.
Once ==
  /\ \A p \in posts : p.update \notin trains
  /\ \A p, q \in posts : p.update = q.update => p = q
  /\ \A w \in Worker : Handling(w) =>
       /\ req[w].update \notin trains
       /\ \A p \in posts : p.update # req[w].update
       /\ \A v \in Worker \ {w} :
            Handling(v) => req[v].update # req[w].update

NotYetCounted ==
  responded > 0 =>
    /\ Summed(weights) \cap trains = {}
    /\ \A p \in posts : p.update \notin Summed(weights)
    /\ \A w \in Worker :
         Handling(w) /\ ~Closing(w) => req[w].update \notin Summed(weights)

\* responded counts what the buffers sum.
Tally ==
  responded > 0 =>
    /\ IsFiniteSet(Summed(weights))
    /\ Cardinality(Summed(weights)) = responded
    /\ \A u \in Summed(weights) : weights[u] = 1

\* averaging is set while a handler closes the round, after its last update.
Averaging ==
  /\ averaging <=> \E w \in Worker : Closing(w)
  /\ averaging => started /\ responded = participants
  /\ started /\ ~averaging => responded < participants

NothingOnItsWay ==
  trains = {} /\ posts = {} /\ \A w \in Worker : ~Handling(w)

\* Between rounds, and before the broadcast of one, nothing is on its way.
Quiet ==
  /\ ~started => /\ NothingOnItsWay /\ responded = 0
                 /\ pc # "lock_train"
                 /\ pc = "train" => \A i \in ready : i < cursor
  /\ pc = "lock_train" => NothingOnItsWay /\ responded = 0

\* The version of the scheduler's model, and the number of those evaluated.
Versions ==
  /\ ~started => nn.version = round_number /\ Len(accuracies) = round_number
  /\ started /\ (\A w \in Worker : wpc[w] \notin {"evaluate", "finish"}) =>
       nn.version + 1 = round_number
  /\ started /\ (\A w \in Worker : wpc[w] # "finish") =>
       Len(accuracies) + 1 = round_number
  /\ \A w \in Worker :
       /\ wpc[w] \in {"evaluate", "finish"} =>
            nn = [version |-> round_number, sum |-> weights,
                  n |-> participants]
       /\ wpc[w] = "finish" => Len(accuracies) = round_number

Rounds ==
  AllFresh /\ Once /\ NotYetCounted /\ Tally /\ Averaging /\ Quiet /\ Versions
  /\ FedAvgExact

-----------------------------------------------------------------------------
(* Steps that no part of Rounds can notice. *)

\* The round and its sums stay; updates are dropped at most; a handler keeps
\* its result or drops it, and does not move while it closes a round.
Neutral ==
  /\ UNCHANGED <<started, averaging, round_number, participants, responded,
                 weights, nn, accuracies>>
  /\ trains' \subseteq trains /\ posts' \subseteq posts
  /\ \A w \in Worker : Handling(w)' => Handling(w) /\ req'[w] = req[w]
  /\ \A w \in Worker : Closing(w) \/ Closing(w)' => wpc'[w] = wpc[w]
  /\ ready' # ready => ~started /\ pc' # "train"
  /\ pc' = "lock_train" => pc = "lock_train"
  /\ pc' = "train" => pc = "train" /\ cursor <= cursor'

\* Of the scheduler, only StartRound, BeginBroadcast and the sends matter.
LEMMA NeutralScheduler ==
  ASSUME Shape, Control, Scheduler,
         ~StartRound, ~BeginBroadcast, ~SendTrain
  PROVE  Neutral
<1>1. UNCHANGED <<started, averaging, round_number, participants, responded,
                  weights, nn, accuracies, trains, posts, wpc, req>>
  BY ReportStep
     DEF Scheduler, CheckRounds, WakeAndCheckStarted, BeginScan, Ping,
         PingRefused, Pong, PingBroken, NextClient, EndScan, Decide,
         LockStart, SkipNotReady, TrainFails, EndBroadcast, data_vars,
         round_vars, result_vars, net_vars, worker_vars
<1>2. ready' # ready => ~started /\ pc' # "train"
  <2>1. CASE PingRefused \/ Pong \/ PingBroken
    BY <2>1 DEF PingRefused, Pong, PingBroken, NextClient, Control,
         StartOnlyOnce, BeforeStart
  <2>2. CASE ~(PingRefused \/ Pong \/ PingBroken)
    <3>1. ready' = ready
      BY <2>2, ReportStep
         DEF Scheduler, CheckRounds, WakeAndCheckStarted, BeginScan, Ping,
             EndScan, Decide, LockStart, SkipNotReady, TrainFails,
             EndBroadcast, data_vars, client_vars
    <3> QED
      BY <3>1
  <2> QED
    BY <2>1, <2>2
<1>3. /\ pc' = "lock_train" => pc = "lock_train"
      /\ pc' = "train" => pc = "train" /\ cursor <= cursor'
  BY ReportStep
     DEF Scheduler, CheckRounds, WakeAndCheckStarted, BeginScan, Ping,
         PingRefused, Pong, PingBroken, NextClient, EndScan, Decide,
         LockStart, SkipNotReady, TrainFails, EndBroadcast, Shape,
         SchedulerShape
<1> QED
  BY <1>1, <1>2, <1>3 DEF Neutral, Handling, Closing

\* Of the listener, only the acceptance of a result matters.
LEMMA NeutralListener ==
  ASSUME Shape, Listener, ~(\E w \in Worker, p \in posts : AcceptResult(w, p))
  PROVE  Neutral
<1> USE DEF Neutral, Handling, Closing, Results, Shape, SchedulerShape,
            WorkerShape, data_vars, client_vars, round_vars, result_vars,
            net_vars, worker_vars, scheduler_vars
<1>1. CASE ListenerCheck
  BY <1>1 DEF ListenerCheck
<1>2. ASSUME NEW w \in Worker, NEW d \in Device, AcceptId(w, d)
      PROVE  Neutral
  BY <1>2 DEF AcceptId, Accept
<1>3. ASSUME NEW w \in Worker, AcceptShutdown(w)
      PROVE  Neutral
  BY <1>3 DEF AcceptShutdown, Accept
<1> QED
  BY <1>1, <1>2, <1>3 DEF Listener

\* Of a handler, only the steps with result_mutex matter.
LEMMA NeutralHandler ==
  ASSUME Shape, NEW w \in Worker, Handler(w),
         ~Accumulate(w), ~Average(w), ~Evaluate(w), ~Finish(w)
  PROVE  Neutral
<1>1. UNCHANGED <<started, averaging, round_number, participants, responded,
                  weights, nn, accuracies, trains, posts, ready, pc, cursor>>
  BY DEF Handler, SendId, ReplyId, ExtractId, RecvContent, UpdateStats,
         PutStats, CheckRound, LockResult, SetShutdown, data_vars,
         client_vars, round_vars, result_vars, net_vars, scheduler_vars
<1>2. \A v \in Worker \ {w} : wpc'[v] = wpc[v] /\ req'[v] = req[v]
  BY DEF Handler, SendId, ReplyId, ExtractId, RecvContent, UpdateStats,
         PutStats, CheckRound, LockResult, SetShutdown, Goto, Done, Shape,
         WorkerShape
<1>3. ~Closing(w) /\ ~Closing(w)'
  BY DEF Handler, SendId, ReplyId, ExtractId, RecvContent, UpdateStats,
         PutStats, CheckRound, LockResult, SetShutdown, Goto, Done, Shape,
         WorkerShape, Closing
<1>4. Handling(w)' => Handling(w) /\ req'[w] = req[w]
  BY DEF Handler, SendId, ReplyId, ExtractId, RecvContent, UpdateStats,
         PutStats, CheckRound, LockResult, SetShutdown, Goto, Done, Shape,
         WorkerShape, Handling, Results
<1> QED
  BY <1>1, <1>2, <1>3, <1>4 DEF Neutral, Handling, Closing, Shape,
     SchedulerShape

\* Of the devices, only Train matters; losing a message disturbs nothing.
LEMMA NeutralDevice ==
  ASSUME Shape, NEW d \in Device,
         Boot(d) \/ Listen(d) \/ LoseId(d) \/ LoseTrain(d) \/ Crash(d)
  PROVE  Neutral
BY DEF Neutral, Handling, Closing, Boot, Listen, LoseId, LoseTrain, Crash,
       data_vars, client_vars, round_vars, result_vars,
       net_vars, worker_vars, scheduler_vars, Shape, SchedulerShape

\* What can happen to a round.
LEMMA StepKinds ==
  ASSUME Shape, Control, [Next]_vars
  PROVE  \/ Neutral
         \/ StartRound \/ BeginBroadcast \/ SendTrain
         \/ \E d \in Device : Train(d)
         \/ \E w \in Worker, p \in posts : AcceptResult(w, p)
         \/ \E w \in Worker :
              Accumulate(w) \/ Average(w) \/ Evaluate(w) \/ Finish(w)
<1>1. CASE UNCHANGED vars
  BY <1>1 DEF Neutral, Handling, Closing, vars, data_vars, client_vars,
     round_vars, result_vars, net_vars, worker_vars, scheduler_vars, Shape,
     SchedulerShape
<1>2. CASE OperatorShutdown
  BY <1>2 DEF Neutral, Handling, Closing, OperatorShutdown, data_vars,
     client_vars, round_vars, result_vars, worker_vars, scheduler_vars,
     Shape, SchedulerShape
<1> QED
  BY <1>1, <1>2, NeutralScheduler, NeutralListener, NeutralHandler,
     NeutralDevice DEF Next, Running, Exited, DeviceStep, Fault

-----------------------------------------------------------------------------
(* When everything is summed, nothing is on its way. *)

Inv == Shape /\ SchedulerLocks /\ ResultLock /\ Control /\ Rounds

\* At most one round is started and not yet published.
LEMMA RoundsPublished ==
  Inv => /\ Len(accuracies) \in Nat /\ Len(stats) \in Nat
         /\ round_number \in Nat /\ responded \in Nat
         /\ round_number <= Len(accuracies) + 1
BY DEF Inv, Shape, ModelShape, FileShape, RoundShape, Rounds, Versions

\* A round has one update of each entry.
LEMMA SameEntry ==
  ASSUME NEW u, NEW v, Fresh(u), Fresh(v), u.entry = v.entry
  PROVE  u = v
<1>1. u \in Update /\ v \in Update /\ u.round = v.round /\ u.base = v.base
  BY BoundAssumption DEF Fresh, Update, Round
<1> QED
  BY <1>1 DEF Update

\* At most one handler closes a round, and no other is adding to it.
LEMMA OneCloser ==
  ASSUME ResultLock, NEW w \in Worker, NEW v \in Worker,
         Closing(w), wpc[v] \in Locked
  PROVE  v = w
BY DEF ResultLock, Closing, Locked

\* When as many updates are summed as take part, every ready entry is in.
LEMMA AllSummed ==
  ASSUME Inv, NEW w \in Worker, Closing(w)
  PROVE  /\ started /\ responded = participants /\ responded > 0
         /\ IsFiniteSet(Summed(weights))
         /\ Cardinality(Summed(weights)) = ClientsPerRound
         /\ {u.entry : u \in Summed(weights)} = ready
<1> DEFINE S == Summed(weights)
           f == [u \in S |-> u.entry]
<1>1. /\ started /\ responded = participants
      /\ participants = ClientsPerRound /\ Cardinality(ready) = ClientsPerRound
  BY DEF Inv, Rounds, Averaging, Control, RoundIsFull
<1>2. responded > 0
  BY <1>1, BoundAssumption
<1>3. IsFiniteSet(S) /\ Cardinality(S) = ClientsPerRound
  BY <1>1, <1>2 DEF Inv, Rounds, Tally
<1>4. \A u \in S : Fresh(u)
  BY <1>2 DEF Inv, Rounds, AllFresh
<1>5. f \in Injection(S, ready)
  <2>1. f \in [S -> ready]
    BY <1>4 DEF Fresh
  <2>2. \A u, v \in S : f[u] = f[v] => u = v
    BY <1>4, SameEntry
  <2> QED
    BY <2>1, <2>2 DEF Injection, IsInjective
<1>6. f \in Surjection(S, ready)
  BY <1>1, <1>3, <1>5, ReadyFinite, FS_Injection DEF Inv
<1>7. {u.entry : u \in S} = ready
  <2>1. \A e \in ready : \E u \in S : f[u] = e
    BY <1>6 DEF Surjection
  <2>2. \A u \in S : u.entry \in ready
    BY <1>4 DEF Fresh
  <2> QED
    BY <2>1, <2>2
<1> QED
  BY <1>1, <1>2, <1>3, <1>7

\* What the mutexes alone would not give: the handler that rewrites the
\* model and ends the round is the last there is.
LEMMA NothingLeft ==
  ASSUME Inv, NEW w \in Worker, Closing(w)
  PROVE  /\ trains = {} /\ posts = {}
         /\ \A v \in Worker \ {w} : ~Handling(v)
         /\ pc # "lock_train"
         /\ pc = "train" => \A i \in ready : i < cursor
<1>1. /\ started /\ responded > 0
      /\ {u.entry : u \in Summed(weights)} = ready
  BY AllSummed
<1>2. ASSUME NEW u, Fresh(u) PROVE u \in Summed(weights)
  <2>1. PICK v \in Summed(weights) : v.entry = u.entry
    BY <1>1, <1>2 DEF Fresh
  <2>2. Fresh(v)
    BY <1>1 DEF Inv, Rounds, AllFresh
  <2> QED
    BY <1>2, <2>1, <2>2, SameEntry
<1>3. trains = {}
  BY <1>1, <1>2 DEF Inv, Rounds, AllFresh, NotYetCounted
<1>4. posts = {}
  BY <1>1, <1>2 DEF Inv, Rounds, AllFresh, NotYetCounted
<1>5. ASSUME NEW v \in Worker \ {w}, Handling(v) PROVE FALSE
  <2>1. req[v].update \in Summed(weights)
    BY <1>2, <1>5 DEF Inv, Rounds, AllFresh
  <2>2. Closing(v)
    BY <1>1, <1>5, <2>1 DEF Inv, Rounds, NotYetCounted
  <2> QED
    BY <1>5, <2>2, OneCloser DEF Inv, Closing, Locked
<1>6. pc # "lock_train"
  BY <1>1 DEF Inv, Rounds, Quiet
<1>7. pc = "train" => \A i \in ready : i < cursor
  <2>1. \A u \in Summed(weights) : Fresh(u)
    BY <1>1 DEF Inv, Rounds, AllFresh
  <2> QED
    BY <1>1, <2>1 DEF Fresh
<1> QED
  BY <1>3, <1>4, <1>5, <1>6, <1>7

-----------------------------------------------------------------------------
(* Every step keeps Rounds. *)

\* A step that touches none of the rounds' state keeps what is said of them.
LEMMA NeutralKeeps == ASSUME Inv, Shape', Neutral PROVE Rounds'
<1> USE DEF Inv, Rounds, Neutral
<1>0. started => ready' = ready
  OBVIOUS
<1>1. ASSUME NEW u, Fresh(u), started PROVE Fresh(u)'
  <2>1. u.entry \in Nat /\ cursor \in Nat /\ cursor' \in Nat
    BY <1>1, BoundAssumption DEF Fresh, Update, Entry, Shape, SchedulerShape
  <2> QED
    BY <1>0, <1>1, <2>1 DEF Fresh
<1>2. ~started => NothingOnItsWay' /\ responded' = 0
  BY DEF Quiet, NothingOnItsWay
<1>3. AllFresh'
  <2>1. CASE started
    BY <1>1, <2>1 DEF AllFresh
  <2>2. CASE ~started
    BY <1>2, <2>2 DEF AllFresh, NothingOnItsWay
  <2> QED
    BY <2>1, <2>2
<1>4. Once'
  BY DEF Once
<1>5. NotYetCounted'
  BY DEF NotYetCounted, Closing
<1>6. Tally'
  BY DEF Tally
<1>7. Averaging'
  <2>1. \A w \in Worker : Closing(w)' <=> Closing(w)
    BY DEF Closing
  <2> QED
    BY <2>1 DEF Averaging
<1>8. Quiet'
  BY <1>0, <1>2 DEF Quiet, NothingOnItsWay, Shape, SchedulerShape, ClientShape
<1>9. Versions'
  BY DEF Versions, Closing
<1>10. FedAvgExact'
  BY DEF FedAvgExact
<1> QED
  BY <1>3, <1>4, <1>5, <1>6, <1>7, <1>8, <1>9, <1>10

\* A round starts with nothing in flight from the one before.
LEMMA StartRoundKeeps ==
  ASSUME Inv, Shape', Control', StartRound PROVE Rounds'
<1>1. /\ started' /\ round_number' = round_number + 1
      /\ participants' = clients_ready /\ pc' = "lock_train"
      /\ UNCHANGED <<averaging, responded, weights, nn, accuracies, trains,
                     posts, wpc, req>>
  BY DEF StartRound, result_vars, net_vars, worker_vars
<1>2. /\ ~started /\ clients_ready = ClientsPerRound
      /\ round_number \in Nat
  BY DEF Inv, Control, StartOnlyOnce, FlagsCounted, BeforeStart, StartRound,
         Shape, RoundShape
<1>3. /\ NothingOnItsWay /\ responded = 0 /\ ~averaging
      /\ nn.version = round_number /\ Len(accuracies) = round_number
  BY <1>2 DEF Inv, Rounds, Quiet, Versions, Averaging
<1>4. NothingOnItsWay' /\ responded' = 0
  BY <1>1, <1>3 DEF NothingOnItsWay, Handling
<1>5. \A w \in Worker : ~Closing(w)'
  BY <1>4 DEF NothingOnItsWay, Handling, Closing, Results
<1>6. AllFresh' /\ Once' /\ NotYetCounted' /\ Tally'
  BY <1>4 DEF NothingOnItsWay, AllFresh, Once, NotYetCounted, Tally
<1>7. Averaging'
  BY <1>1, <1>2, <1>3, <1>5, BoundAssumption DEF Averaging
<1>8. Quiet'
  BY <1>1, <1>4 DEF Quiet
<1>9. Versions'
  BY <1>1, <1>2, <1>3, <1>5 DEF Versions, Closing
<1>10. FedAvgExact'
  BY <1>1 DEF FedAvgExact, Inv, Rounds
<1> QED
  BY <1>6, <1>7, <1>8, <1>9, <1>10 DEF Rounds

\* The broadcast begins with nothing sent.
LEMMA BeginBroadcastKeeps == ASSUME Inv, BeginBroadcast PROVE Rounds'
<1>1. /\ pc = "lock_train" /\ pc' = "train"
      /\ UNCHANGED <<started, averaging, round_number, participants, responded,
                     weights, nn, accuracies, trains, posts, ready, wpc, req>>
  BY DEF BeginBroadcast, data_vars, client_vars, round_vars, result_vars,
         net_vars, worker_vars
<1>2. NothingOnItsWay /\ responded = 0 /\ started
  BY <1>1 DEF Inv, Rounds, Quiet
<1>3. NothingOnItsWay' /\ responded' = 0
  BY <1>1, <1>2 DEF NothingOnItsWay, Handling
<1>4. AllFresh' /\ Once' /\ NotYetCounted' /\ Tally'
  BY <1>3 DEF NothingOnItsWay, AllFresh, Once, NotYetCounted, Tally
<1>5. Averaging' /\ Versions' /\ FedAvgExact'
  BY <1>1 DEF Averaging, Versions, FedAvgExact, Closing, Inv, Rounds
<1>6. Quiet'
  BY <1>1, <1>2 DEF Quiet
<1> QED
  BY <1>4, <1>5, <1>6 DEF Rounds

\* An entry that has yet to be sent the model has no update on its way or
\* summed, so the round is not being closed and the model is its own.
LEMMA SendTrainKeeps == ASSUME Inv, SendTrain PROVE Rounds'
<1>0. PICK u : u = [entry |-> cursor, round |-> round_number,
                    base |-> nn.version]
  OBVIOUS
<1>1. /\ pc = "train" /\ pc' = "train" /\ cursor \in ready
      /\ cursor' = cursor + 1 /\ trains' = trains \cup {u}
      /\ UNCHANGED <<started, averaging, round_number, participants, responded,
                     weights, nn, accuracies, posts, ready, wpc, req>>
  BY <1>0 DEF SendTrain, data_vars, client_vars, round_vars, result_vars,
              worker_vars
<1>2. /\ cursor \in Entry /\ round_number \in Nat /\ nn.version \in Nat
      /\ round_number <= NumRounds
  BY <1>1, BoundAssumption
     DEF Inv, Shape, ClientShape, RoundShape, ModelShape, Model, Entry,
         Control, StartOnlyOnce
<1>3. started /\ \A w \in Worker : ~Closing(w)
  <2>1. ~(cursor < cursor)
    BY <1>2 DEF Entry
  <2>2. \A w \in Worker : ~Closing(w)
    BY <1>1, <2>1, NothingLeft
  <2>3. started
    BY <1>1, <2>1 DEF Inv, Rounds, Quiet
  <2> QED
    BY <2>2, <2>3
<1>4. nn.version + 1 = round_number
  BY <1>3 DEF Inv, Rounds, Versions, Closing
<1>5. u \in Update
  BY <1>0, <1>2, <1>4, BoundAssumption DEF Update, Round
<1>6. ASSUME NEW v, Fresh(v) PROVE Fresh(v)' /\ v # u
  <2>1. v.entry \in Nat /\ cursor \in Nat /\ v.entry < cursor
    BY <1>1, <1>2, <1>6, BoundAssumption DEF Fresh, Update, Entry
  <2>2. Fresh(v)'
    BY <1>1, <1>6, <2>1 DEF Fresh
  <2>3. v.entry # u.entry
    BY <1>0, <2>1
  <2> QED
    BY <2>2, <2>3
<1>7. Fresh(u)'
  BY <1>0, <1>1, <1>2, <1>4, <1>5 DEF Fresh, Entry
<1>8. AllFresh'
  BY <1>1, <1>6, <1>7 DEF AllFresh, Inv, Rounds, Handling
<1>9. Once'
  BY <1>1, <1>6 DEF Once, AllFresh, Inv, Rounds, Handling
<1>10. NotYetCounted'
  BY <1>1, <1>6 DEF NotYetCounted, AllFresh, Inv, Rounds, Handling, Closing
<1>11. Tally' /\ Averaging' /\ Versions' /\ FedAvgExact'
  BY <1>1
     DEF Tally, Averaging, Versions, FedAvgExact, Closing, Inv, Rounds
<1>12. Quiet'
  BY <1>1, <1>3 DEF Quiet
<1> QED
  BY <1>8, <1>9, <1>10, <1>11, <1>12 DEF Rounds

\* A device turns an update it was asked for into a result.
LEMMA TrainKeeps ==
  ASSUME Inv, Shape', NEW d \in Device, Train(d) PROVE Rounds'
<1>1. PICK u \in trains : /\ trains' = trains \ {u}
                         /\ posts' = posts \cup {[id |-> device_id[d],
                                                 update |-> u]}
  BY DEF Train, Answered
<1>2. UNCHANGED <<started, averaging, round_number, participants, responded,
                  weights, nn, accuracies, ready, wpc, req, pc, cursor>>
  BY DEF Train, data_vars, client_vars, round_vars, result_vars, worker_vars,
         scheduler_vars
<1>3. Fresh(u) /\ started /\ pc # "lock_train"
  BY <1>1 DEF Inv, Rounds, AllFresh, Quiet, NothingOnItsWay
<1>4. \A v : Fresh(v)' <=> Fresh(v)
  BY <1>2 DEF Fresh
<1>5. AllFresh'
  BY <1>1, <1>2, <1>3, <1>4 DEF AllFresh, Inv, Rounds, Handling
<1>6. Once'
  BY <1>1, <1>2 DEF Once, Inv, Rounds, Handling
<1>7. NotYetCounted'
  BY <1>1, <1>2 DEF NotYetCounted, Inv, Rounds, Handling, Closing
<1>8. Tally' /\ Averaging' /\ Versions' /\ FedAvgExact'
  BY <1>2
     DEF Tally, Averaging, Versions, FedAvgExact, Closing, Inv, Rounds
<1>9. Quiet'
  BY <1>2, <1>3 DEF Quiet
<1> QED
  BY <1>5, <1>6, <1>7, <1>8, <1>9 DEF Rounds

\* A handler is started for a result.
LEMMA AcceptKeeps ==
  ASSUME Inv, NEW w \in Worker, NEW p \in posts, AcceptResult(w, p)
  PROVE  Rounds'
<1>1. /\ posts' = posts \ {p} /\ trains' = trains
      /\ ~Handling(w) /\ wpc'[w] = "extract_id" /\ req'[w] = p
      /\ \A v \in Worker \ {w} : wpc'[v] = wpc[v] /\ req'[v] = req[v]
  BY DEF AcceptResult, Accept, Handling, Results, Inv, Shape, WorkerShape
<1>2. UNCHANGED <<started, averaging, round_number, participants, responded,
                  weights, nn, accuracies, ready, pc, cursor>>
  BY DEF AcceptResult, Accept, data_vars, client_vars, round_vars,
         result_vars, scheduler_vars
<1>3. started /\ pc # "lock_train"
  BY DEF Inv, Rounds, Quiet, NothingOnItsWay
<1>4. \A v : Fresh(v)' <=> Fresh(v)
  BY <1>2 DEF Fresh
<1>5. \A v \in Worker : /\ Closing(v)' <=> Closing(v)
                        /\ Closing(v) => wpc'[v] = wpc[v]
  BY <1>1 DEF Closing, Handling, Results
<1>6. AllFresh'
  BY <1>1, <1>2, <1>4 DEF AllFresh, Inv, Rounds, Handling
<1>7. Once'
  BY <1>1, <1>2 DEF Once, Inv, Rounds, Handling
<1>8. NotYetCounted'
  BY <1>1, <1>2, <1>5 DEF NotYetCounted, Inv, Rounds, Handling
<1>9. Tally' /\ Averaging' /\ FedAvgExact'
  BY <1>2, <1>5 DEF Tally, Averaging, FedAvgExact, Inv, Rounds
<1>10. Versions'
  BY <1>1, <1>2, <1>3, <1>5 DEF Versions, Closing, Inv, Rounds
<1>11. Quiet'
  BY <1>2, <1>3 DEF Quiet
<1> QED
  BY <1>6, <1>7, <1>8, <1>9, <1>10, <1>11 DEF Rounds

\* The updates of the round that are counted.
Counted == IF responded = 0 THEN {} ELSE Summed(weights)

\* A handler that adds an update does so in a round that is not being
\* closed, and its update is not one of those counted.
LEMMA NewUpdate ==
  ASSUME Inv, NEW w \in Worker, Accumulate(w)
  PROVE  LET u == req[w].update IN
         /\ Fresh(u) /\ u \notin Counted
         /\ \A v \in Worker : ~Closing(v)
         /\ started /\ responded < participants /\ pc # "lock_train"
<1>1. wpc[w] = "accumulate" /\ Handling(w) /\ ~Closing(w)
  BY DEF Accumulate, Handling, Closing, Results
<1>2. \A v \in Worker : ~Closing(v)
  BY <1>1, OneCloser DEF Inv, Locked, Closing
<1>3. Fresh(req[w].update) /\ started /\ responded < participants
      /\ pc # "lock_train"
  BY <1>1, <1>2 DEF Inv, Rounds, AllFresh, Quiet, NothingOnItsWay, Averaging
<1>4. req[w].update \notin Counted
  BY <1>1 DEF Inv, Rounds, NotYetCounted, Counted, Shape, RoundShape
<1> QED
  BY <1>2, <1>3, <1>4

\* How the sum, and the set it counts, grow by one fresh update.
LEMMA CountedAfter ==
  ASSUME Inv, NEW w \in Worker, Accumulate(w)
  PROVE  LET u == req[w].update IN
         /\ Summed(weights') = Counted \cup {u}
         /\ \A v \in Counted \cup {u} : weights'[v] = 1
<1> DEFINE u == req[w].update
<1>1. u \in Update /\ u \notin Counted
  BY NewUpdate DEF Fresh
<1>2. weights' = [SumSoFar EXCEPT ![u] = @ + 1]
  BY DEF Accumulate
<1> HIDE DEF u
<1>3. /\ SumSoFar \in [Update -> Nat]
      /\ Counted = {v \in Update : SumSoFar[v] > 0}
      /\ \A v \in Counted : SumSoFar[v] = 1
  BY DEF SumSoFar, NoUpdates, Summed, Counted, Inv, Shape, ModelShape,
         RoundShape, Rounds, Tally
<1>4. SumSoFar[u] = 0
  BY <1>1, <1>3
<1>5. \A v \in Update : weights'[v] = IF v = u THEN 1 ELSE SumSoFar[v]
  BY <1>2, <1>3, <1>4
<1>6. /\ Summed(weights') = Counted \cup {u}
      /\ \A v \in Counted \cup {u} : weights'[v] = 1
  BY <1>1, <1>3, <1>5 DEF Summed
<1> QED
  BY <1>6 DEF u

\* A handler adds an update to the sums.
LEMMA AccumulateKeeps ==
  ASSUME Inv, Shape', NEW w \in Worker, Accumulate(w) PROVE Rounds'
<1>1. PICK u : u = req[w].update
  OBVIOUS
<1>2. /\ Handling(w) /\ ~Closing(w) /\ responded' = responded + 1
      /\ UNCHANGED <<started, round_number, participants, nn, accuracies,
                     ready, pc, cursor, trains, posts>>
  BY DEF Accumulate, Handling, Closing, Results, client_vars, net_vars,
         scheduler_vars
<1>3. /\ averaging' = (responded + 1 = participants)
      /\ averaging' => wpc'[w] = "average" /\ req'[w] = req[w]
      /\ ~averaging' => wpc'[w] = "idle"
      /\ \A v \in Worker \ {w} : wpc'[v] = wpc[v] /\ req'[v] = req[v]
  BY DEF Accumulate, AllResponded, Goto, Done, Inv, Shape, WorkerShape
<1>4. \A v \in Worker : ~Closing(v)
  BY NewUpdate
<1>5. /\ Fresh(u) /\ started /\ responded < participants
      /\ responded \in Nat /\ participants \in Nat /\ pc # "lock_train"
  BY <1>1, NewUpdate DEF Inv, Shape, RoundShape
<1>6. \A v : Fresh(v)' <=> Fresh(v)
  BY <1>2 DEF Fresh
<1>7. /\ u \notin Counted /\ \A v \in Counted : weights[v] = 1 /\ Fresh(v)
      /\ IsFiniteSet(Counted) /\ Cardinality(Counted) = responded
  BY <1>1, <1>5, NewUpdate, FS_EmptySet
     DEF Counted, Inv, Rounds, Tally, AllFresh
<1>8. /\ Summed(weights') = Counted \cup {u}
      /\ \A v \in Counted \cup {u} : weights'[v] = 1
  BY <1>1, CountedAfter
<1>9. AllFresh'
  <2>1. \A v \in Summed(weights') : Fresh(v)'
    BY <1>5, <1>6, <1>7, <1>8
  <2> QED
    BY <1>2, <1>3, <1>6, <2>1 DEF AllFresh, Inv, Rounds, Handling, Results
<1>10. Once'
  BY <1>2, <1>3 DEF Once, Inv, Rounds, Handling, Results
<1>11. NotYetCounted'
  <2>1. /\ u \notin trains /\ \A p \in posts : p.update # u
        /\ \A v \in Worker \ {w} : Handling(v) => req[v].update # u
    BY <1>1, <1>2 DEF Once, Inv, Rounds
  <2>2. /\ Counted \cap trains = {} /\ \A p \in posts : p.update \notin Counted
        /\ \A v \in Worker : Handling(v) => req[v].update \notin Counted
    BY <1>4, <1>5 DEF NotYetCounted, Counted, Inv, Rounds
  <2>3. Summed(weights)' = Counted \cup {u}
    BY <1>8 DEF Summed
  <2> QED
    BY <1>2, <1>3, <2>1, <2>2, <2>3
       DEF NotYetCounted, Handling, Closing, Results
<1>12. Tally'
  <2>1. /\ IsFiniteSet(Counted \cup {u})
        /\ Cardinality(Counted \cup {u}) = responded + 1
    BY <1>7, FS_AddElement
  <2>2. Summed(weights)' = Counted \cup {u}
    BY <1>8 DEF Summed
  <2> QED
    BY <1>2, <1>8, <2>1, <2>2 DEF Tally
<1>13. Averaging'
  <2>1. averaging' <=> responded' = participants'
    BY <1>2, <1>3
  <2>2. averaging' <=> \E v \in Worker : Closing(v)'
    BY <1>3, <1>4 DEF Closing
  <2>3. started' /\ responded' <= participants'
    BY <1>2, <1>5
  <2> QED
    BY <1>2, <1>5, <2>1, <2>2, <2>3 DEF Averaging
<1>14. Quiet'
  BY <1>2, <1>5 DEF Quiet
<1>15. Versions'
  BY <1>2, <1>3, <1>4, <1>5 DEF Versions, Closing, Inv, Rounds
<1>16. FedAvgExact'
  BY <1>2 DEF FedAvgExact, Inv, Rounds
<1> QED
  BY <1>9, <1>10, <1>11, <1>12, <1>13, <1>14, <1>15, <1>16 DEF Rounds

\* The sums become the model of the round.
LEMMA AverageKeeps == ASSUME Inv, NEW w \in Worker, Average(w) PROVE Rounds'
<1>1. /\ wpc[w] = "average" /\ wpc'[w] = "evaluate" /\ Closing(w)
      /\ \A v \in Worker \ {w} : wpc'[v] = wpc[v]
      /\ nn' = [version |-> nn.version + 1, sum |-> weights,
                n |-> participants]
      /\ UNCHANGED <<started, averaging, round_number, participants, responded,
                     weights, accuracies, ready, pc, cursor, trains, posts,
                     req>>
  BY DEF Average, Goto, Closing, client_vars, round_vars, net_vars,
         scheduler_vars, Inv, Shape, WorkerShape
<1>2. \A v \in Worker \ {w} : ~Closing(v)
  BY <1>1, OneCloser DEF Inv, Closing, Locked
<1>3. started /\ pc # "lock_train"
  BY <1>1, AllSummed, NothingLeft
<1>4. nn.version + 1 = round_number /\ Len(accuracies) + 1 = round_number
  BY <1>1, <1>2, <1>3 DEF Inv, Rounds, Versions, Closing
<1>5. \A v \in Worker : /\ Handling(v)' <=> Handling(v)
                        /\ Closing(v)' <=> Closing(v)
  BY <1>1 DEF Handling, Closing, Results
<1>6. \A v : Fresh(v)' <=> Fresh(v)
  BY <1>1 DEF Fresh
<1>7. AllFresh' /\ Once' /\ NotYetCounted'
  BY <1>1, <1>5, <1>6 DEF AllFresh, Once, NotYetCounted, Inv, Rounds
<1>8. Tally' /\ Averaging' /\ FedAvgExact'
  BY <1>1, <1>5 DEF Tally, Averaging, FedAvgExact, Inv, Rounds
<1>9. Quiet'
  BY <1>1, <1>3 DEF Quiet
<1>10. Versions'
  BY <1>1, <1>2, <1>3, <1>4 DEF Versions, Closing
<1> QED
  BY <1>7, <1>8, <1>9, <1>10 DEF Rounds

\* The model is published: the average of the updates of its round.
LEMMA EvaluateKeeps == ASSUME Inv, NEW w \in Worker, Evaluate(w) PROVE Rounds'
<1>1. /\ wpc[w] = "evaluate" /\ wpc'[w] = "finish" /\ Closing(w)
      /\ \A v \in Worker \ {w} : wpc'[v] = wpc[v]
      /\ accuracies' = Append(accuracies, nn)
      /\ UNCHANGED <<started, averaging, round_number, participants, responded,
                     weights, nn, ready, pc, cursor, trains, posts, req>>
  BY DEF Evaluate, Goto, Closing, client_vars, round_vars, net_vars,
         scheduler_vars, Inv, Shape, WorkerShape
<1>2. \A v \in Worker \ {w} : ~Closing(v)
  BY <1>1, OneCloser DEF Inv, Closing, Locked
<1>3. /\ started /\ pc # "lock_train" /\ responded > 0
      /\ Cardinality(Summed(weights)) = ClientsPerRound
      /\ participants = ClientsPerRound
  BY <1>1, AllSummed, NothingLeft DEF Inv, Control, RoundIsFull
<1>4. /\ Len(accuracies) + 1 = round_number
      /\ nn = [version |-> round_number, sum |-> weights, n |-> participants]
  BY <1>1, <1>2, <1>3 DEF Inv, Rounds, Versions, Closing
<1>5. /\ accuracies \in Seq(Model) /\ nn \in Model
      /\ Len(accuracies') = round_number
  BY <1>1, <1>4 DEF Inv, Shape, ModelShape
<1>6. \A v \in Worker : /\ Handling(v)' <=> Handling(v)
                        /\ Closing(v)' <=> Closing(v)
  BY <1>1 DEF Handling, Closing, Results
<1>7. \A v : Fresh(v)' <=> Fresh(v)
  BY <1>1 DEF Fresh
<1>8. AllFresh' /\ Once' /\ NotYetCounted'
  BY <1>1, <1>6, <1>7 DEF AllFresh, Once, NotYetCounted, Inv, Rounds
<1>9. Tally' /\ Averaging'
  BY <1>1, <1>6 DEF Tally, Averaging, Inv, Rounds
<1>10. Quiet'
  BY <1>1, <1>3 DEF Quiet
<1>11. Versions'
  BY <1>1, <1>2, <1>3, <1>4, <1>5 DEF Versions, Closing
<1>12. FedAvgExact'
  <2>1. ASSUME NEW r \in DOMAIN accuracies', r # round_number
        PROVE  r \in DOMAIN accuracies /\ accuracies'[r] = accuracies[r]
    BY <1>1, <1>4, <1>5, <2>1
  <2>2. accuracies'[round_number] = nn
    BY <1>1, <1>4, <1>5
  <2>3. \A u \in Summed(weights) :
          weights[u] = 1 /\ u.round = round_number /\ u.base = round_number - 1
    BY <1>3, BoundAssumption
       DEF Inv, Rounds, Tally, AllFresh, Fresh, Update, Round
  <2> QED
    BY <1>3, <1>4, <2>1, <2>2, <2>3 DEF FedAvgExact, Inv, Rounds
<1> QED
  BY <1>8, <1>9, <1>10, <1>11, <1>12 DEF Rounds

\* The round is over.
LEMMA FinishKeeps == ASSUME Inv, NEW w \in Worker, Finish(w) PROVE Rounds'
<1>1. /\ wpc[w] = "finish" /\ wpc'[w] = "idle" /\ Closing(w)
      /\ \A v \in Worker \ {w} : wpc'[v] = wpc[v]
      /\ ~started' /\ ~averaging' /\ responded' = 0
      /\ UNCHANGED <<round_number, participants, weights, nn, accuracies,
                     ready, pc, cursor, trains, posts>>
  BY DEF Finish, Done, Closing, client_vars, net_vars, scheduler_vars, Inv,
         Shape, WorkerShape
<1>2. /\ trains = {} /\ posts = {} /\ \A v \in Worker \ {w} : ~Handling(v)
      /\ pc # "lock_train"
      /\ pc = "train" => \A i \in ready : i < cursor
  BY <1>1, NothingLeft
<1>3. nn.version = round_number /\ Len(accuracies) = round_number
  BY <1>1 DEF Inv, Rounds, Versions
<1>4. NothingOnItsWay'
  BY <1>1, <1>2 DEF NothingOnItsWay, Handling, Results
<1>5. AllFresh' /\ Once' /\ NotYetCounted' /\ Tally'
  BY <1>1, <1>4 DEF NothingOnItsWay, AllFresh, Once, NotYetCounted, Tally
<1>6. \A v \in Worker : ~Closing(v)'
  BY <1>4 DEF NothingOnItsWay, Handling, Closing, Results
<1>7. Averaging'
  BY <1>1, <1>6 DEF Averaging
<1>8. Quiet'
  BY <1>1, <1>2, <1>4 DEF Quiet
<1>9. Versions'
  <2>1. \A v \in Worker : wpc'[v] \notin {"evaluate", "finish"}
    BY <1>6 DEF Closing
  <2>2. nn'.version = round_number' /\ Len(accuracies') = round_number'
    BY <1>1, <1>3
  <2> QED
    BY <1>1, <2>1, <2>2 DEF Versions
<1>10. FedAvgExact'
  BY <1>1 DEF FedAvgExact, Inv, Rounds
<1> QED
  BY <1>5, <1>7, <1>8, <1>9, <1>10 DEF Rounds

-----------------------------------------------------------------------------
(* The theorems. *)

\* The rounds are in order when the server starts.
LEMMA InitRounds == Init => Rounds
<1> SUFFICES ASSUME Init PROVE Rounds
  OBVIOUS
<1>1. NothingOnItsWay /\ responded = 0 /\ ~started /\ ~averaging
      /\ pc = "check"
  BY DEF Init, NothingOnItsWay, Handling, Results
<1>2. AllFresh /\ Once /\ NotYetCounted /\ Tally
  BY <1>1 DEF NothingOnItsWay, AllFresh, Once, NotYetCounted, Tally
<1>3. Averaging
  BY <1>1 DEF Averaging, NothingOnItsWay, Handling, Closing, Results
<1>4. Quiet
  BY <1>1 DEF Quiet
<1>5. Versions
  BY DEF Init, Versions
<1>6. FedAvgExact
  BY DEF Init, FedAvgExact
<1> QED
  BY <1>2, <1>3, <1>4, <1>5, <1>6 DEF Rounds

\* The whole invariant.
LEMMA AlwaysInv == Spec => []Inv
<1>1. Init => SchedulerLocks /\ ResultLock
  BY WorkerAssumption DEF Init, SchedulerLocks, ResultLock, Locked
<1>2. Shape /\ SchedulerLocks /\ ResultLock /\ [Next]_vars
        => SchedulerLocks' /\ ResultLock'
  BY SchedulerLocksNext, ResultLockNext
<1>3. Inv /\ Shape' /\ Control' /\ [Next]_vars => Rounds'
  BY StepKinds, NeutralKeeps, StartRoundKeeps, BeginBroadcastKeeps,
     SendTrainKeeps, TrainKeeps, AcceptKeeps, AccumulateKeeps, AverageKeeps,
     EvaluateKeeps, FinishKeeps DEF Inv
<1> QED
  BY <1>1, <1>2, <1>3, InitRounds, AlwaysShape, AlwaysControl, PTL
     DEF Spec, Inv

\* Every variable keeps its type; in particular no update names a round or a
\* version of the model outside the run.
THEOREM AlwaysTypeOK == Spec => []TypeOK
<1>1. ASSUME Inv PROVE TypeOK
  <2>1. /\ trains \subseteq Update
        /\ \A p \in posts : p.update \in Update
        /\ \A w \in Worker : wpc[w] \in Results => req[w].update \in Update
    BY <1>1 DEF Inv, Rounds, AllFresh, Fresh, Handling
  <2>2. posts \subseteq Result
    BY <1>1, <2>1 DEF Inv, Shape, DeviceShape, AnyResult, Result
  <2>3. \A w \in Worker : wpc[w] \in Results => req[w] \in Result
    BY <1>1, <2>1 DEF Inv, Shape, WorkerShape, AnyResult, Result
  <2>4. req \in [Worker -> Result \cup Registration \cup {NoRequest}]
    BY <1>1, <2>3 DEF Inv, Shape, WorkerShape
  <2> QED
    BY <1>1, <2>1, <2>2, <2>3, <2>4
       DEF TypeOK, Inv, Control, StartOnlyOnce, Shape, ClientShape,
           RoundShape, ModelShape, FileShape, MutexShape, SchedulerShape,
           WorkerShape, DeviceShape, Waiting
<1> QED
  BY <1>1, AlwaysInv, PTL

\* Every published model is the federated average of its round: of
\* ClientsPerRound updates of that round, each counted once.
THEOREM AlwaysFedAvgExact == Spec => []FedAvgExact
<1>1. Inv => FedAvgExact
  BY DEF Inv, Rounds
<1> QED
  BY <1>1, AlwaysInv, PTL

\* A handler that has found its result to be of the current round uses it in
\* that round, although it lets go of round_mutex in between.
THEOREM AlwaysNoLateUpdate == Spec => []NoLateUpdate
<1>1. ASSUME Inv, NEW w \in Worker, wpc[w] \in Checked
      PROVE  /\ started /\ req[w].update.round = round_number
             /\ pc \notin {"decide", "lock_start", "starting"}
  <2>1. Handling(w)
    BY <1>1 DEF Handling, Checked, Results
  <2>2. started
    BY <1>1, <2>1 DEF Inv, Rounds, Quiet, NothingOnItsWay
  <2>3. Fresh(req[w].update)
    BY <1>1, <2>1 DEF Inv, Rounds, AllFresh
  <2> QED
    BY <1>1, <2>2, <2>3 DEF Fresh, Inv, Control, StartOnlyOnce, BeforeStart
<1>2. Inv => NoLateUpdate
  BY <1>1 DEF NoLateUpdate
<1> QED
  BY <1>2, AlwaysInv, PTL

\* The model is not rewritten while it is being sent out.
THEOREM AlwaysNoTornBroadcast == Spec => []NoTornBroadcast
<1>1. Inv => NoTornBroadcast
  BY NothingLeft DEF NoTornBroadcast, Closing
<1> QED
  BY <1>1, AlwaysInv, PTL

\* No round is left before its model is published.
THEOREM AlwaysNoRoundAbandoned == Spec => NoRoundAbandoned
<1>1. ASSUME Inv, [Next]_vars, round_number' # round_number
      PROVE  round_number' = round_number + 1 /\ Len(accuracies) = round_number
  <2>1. StartRound
    BY <1>1, RoundWriters DEF round_vars, Accumulate, Finish
  <2>2. ~started
    BY <1>1, <2>1 DEF StartRound, Inv, Control, StartOnlyOnce, BeforeStart
  <2> QED
    BY <1>1, <2>1, <2>2 DEF StartRound, Inv, Rounds, Versions
<1> QED
  BY <1>1, AlwaysInv, PTL DEF Spec, NoRoundAbandoned

\* When the model changes, no update made from the old one is on its way.
THEOREM AlwaysNoStaleInFlight == Spec => NoStaleInFlight
<1>1. ASSUME Inv, [Next]_vars, nn' # nn
      PROVE  /\ trains = {} /\ posts = {}
             /\ \A w, v \in Worker :
                  wpc[w] \in Results /\ wpc[v] \in Results => w = v
  <2>1. PICK w \in Worker : Average(w)
    BY <1>1, ModelWriters DEF Accumulate, Evaluate
  <2>2. Closing(w)
    BY <2>1 DEF Average, Closing
  <2> QED
    BY <1>1, <2>2, NothingLeft DEF Handling
<1> QED
  BY <1>1, AlwaysInv, PTL DEF Spec, NoStaleInFlight

-----------------------------------------------------------------------------
(***************************************************************************)
(* The server implements federated averaging (module FedAvg): the start of *)
(* a round is StartRound, an update is received when a handler accumulates *)
(* it, and the average is published when it is evaluated.  Every other     *)
(* step of the scheduler, the handlers, the devices and the network leaves *)
(* the abstract state alone.                                               *)
(***************************************************************************)

\* The abstract state, under names of its own.
pool == IF Training THEN ready ELSE {}
received == IF Training /\ responded > 0
            THEN {u.entry : u \in Summed(weights)} ELSE {}
models == [r \in DOMAIN accuracies |->
             {u.entry : u \in Summed(accuracies[r].sum)}]

\* The instance of FedAvg brings its own copy of the module FiniteSets.
LEMMA SameCardinality == \A S : FA!Cardinality(S) = Cardinality(S)
BY DEF FA!Cardinality, Cardinality

\* The server starts where federated averaging does.
LEMMA AbstractInit == Init => FA!Init
<1> SUFFICES ASSUME Init PROVE FA!Init
  OBVIOUS
<1>1. ~Training /\ round_number = 0 /\ accuracies = <<>>
  BY DEF Init, Training
<1>2. models = <<>>
  BY <1>1 DEF models
<1> QED
  BY <1>1, <1>2 DEF FA!Init, models

\* A step that leaves the round, its flags and what is summed as they are.
Unnoticed ==
  UNCHANGED <<round_number, Training, pool, received, models>>

\* A step that leaves the mapped state alone is a stutter.
LEMMA UnnoticedStutters == Unnoticed => UNCHANGED FA!vars
BY DEF Unnoticed, FA!vars, pool, received, models

\* StartRound opens the abstract round with the ready entries as its pool.
LEMMA AbstractStart == Inv /\ StartRound => FA!Next
<1> SUFFICES ASSUME Inv, StartRound PROVE FA!Next
  OBVIOUS
<1>1. /\ ~started /\ clients_ready = ClientsPerRound
      /\ clients_ready = Cardinality(ready) /\ round_number < NumRounds
      /\ round_number \in Nat
  BY DEF Inv, Control, StartOnlyOnce, FlagsCounted, BeforeStart, StartRound,
         Shape, RoundShape
<1>2. responded = 0 /\ Len(accuracies) = round_number
  BY <1>1 DEF Inv, Rounds, Quiet, Versions
<1>3. /\ started' /\ round_number' = round_number + 1
      /\ UNCHANGED <<ready, responded, weights, accuracies>>
  BY DEF StartRound, client_vars, result_vars
<1>4. ~Training /\ Training'
  BY <1>1, <1>2, <1>3 DEF Training
<1>5. PICK P \in SUBSET Entry : P = ready
  BY BoundAssumption DEF Inv, Shape, ClientShape, Entry
<1>6. FA!Start(P)
  <2>1. ~Training /\ round_number < NumRounds
        /\ Cardinality(P) = ClientsPerRound
    BY <1>1, <1>4, <1>5
  <2>2. Training' = TRUE
    BY <1>4 DEF Training
  <2>3. pool' = P /\ received' = {}
    BY <1>2, <1>3, <1>4, <1>5 DEF pool, received
  <2>4. models' = models
    BY <1>3 DEF models, Summed
  <2> QED
    BY <1>3, <2>1, <2>2, <2>3, <2>4, SameCardinality
       DEF FA!Start, pool, received, models
<1> QED
  BY <1>5, <1>6 DEF FA!Next

\* A round that collects updates is not being closed.
LEMMA AbstractReceive ==
  ASSUME Inv, NEW w \in Worker, Accumulate(w) PROVE FA!Next
<1>1. PICK u : u = req[w].update
  OBVIOUS
<1>2. /\ Fresh(u) /\ u \notin Counted /\ started
      /\ \A v \in Worker : ~Closing(v)
  BY <1>1, NewUpdate
<1>3. /\ responded' = responded + 1 /\ responded \in Nat
      /\ UNCHANGED <<started, round_number, ready, accuracies>>
  BY DEF Accumulate, client_vars, Inv, Shape, RoundShape
<1>4. Training /\ Training'
  BY <1>2, <1>3 DEF Training, Inv, Rounds, Versions, Closing, Shape,
     ModelShape, RoundShape
<1>5. received = {v.entry : v \in Counted}
  BY <1>3, <1>4 DEF received, Counted
<1>6. received' = received \cup {u.entry}
  <2>1. Summed(weights)' = Counted \cup {u}
    BY <1>1, CountedAfter DEF Summed
  <2>2. received' = {v.entry : v \in Summed(weights)'}
    BY <1>3, <1>4 DEF received
  <2> QED
    BY <1>5, <2>1, <2>2
<1>7. u.entry \notin received
  <2>1. \A v \in Counted : Fresh(v)
    BY <1>3 DEF Counted, Inv, Rounds, AllFresh
  <2> QED
    BY <1>2, <1>5, <2>1, SameEntry
<1>8. u.entry \in Entry /\ u.entry \in ready
  BY <1>2 DEF Fresh, Update
<1>9. FA!Receive(u.entry)
  BY <1>3, <1>4, <1>6, <1>7, <1>8 DEF FA!Receive, received
<1> QED
  BY <1>8, <1>9 DEF FA!Next

\* The entries of the published models, unfolded from the mapping.
LEMMA EntriesOfModels ==
  ASSUME NEW a \in Seq(Model)
  PROVE  LET m == [r \in DOMAIN a |-> {u.entry : u \in Summed(a[r].sum)}]
         IN  m \in Seq(SUBSET Entry) /\ Len(m) = Len(a)
<1> DEFINE m == [r \in DOMAIN a |-> {u.entry : u \in Summed(a[r].sum)}]
<1>1. Len(a) \in Nat /\ DOMAIN a = 1 .. Len(a)
  OBVIOUS
<1>2. m \in [1 .. Len(a) -> SUBSET Entry]
  BY <1>1 DEF Summed, Update
<1> HIDE DEF m
<1>3. m \in Seq(SUBSET Entry) /\ Len(m) = Len(a)
  BY <1>1, <1>2, FunctionInSeq
<1> QED
  BY <1>3 DEF m

\* Evaluate publishes the abstract model of the whole pool.
LEMMA AbstractPublish ==
  ASSUME Inv, NEW w \in Worker, Evaluate(w) PROVE FA!Next
<1>1. /\ Closing(w) /\ wpc[w] = "evaluate"
      /\ accuracies' = Append(accuracies, nn)
      /\ UNCHANGED <<started, round_number, ready, responded, weights>>
  BY DEF Evaluate, Closing, client_vars, round_vars
<1>2. /\ started /\ responded > 0
      /\ {u.entry : u \in Summed(weights)} = ready
  BY <1>1, AllSummed
<1>3. \A v \in Worker \ {w} : ~Closing(v)
  BY <1>1, OneCloser DEF Inv, Closing, Locked
<1>4. Len(accuracies) + 1 = round_number /\ nn.sum = weights
  BY <1>1, <1>2, <1>3 DEF Inv, Rounds, Versions, Closing
<1>5. accuracies \in Seq(Model) /\ nn \in Model
  BY DEF Inv, Shape, ModelShape
<1>6. Training /\ ~Training'
  BY <1>1, <1>2, <1>4, <1>5 DEF Training
<1>7. pool = ready /\ received = ready
  BY <1>2, <1>6 DEF pool, received
<1>8. models' = Append(models, ready)
  <2>1. /\ models \in Seq(SUBSET Entry) /\ Len(models) = Len(accuracies)
        /\ models' \in Seq(SUBSET Entry) /\ Len(models') = Len(accuracies')
    <3>1. PICK a \in Seq(Model) : a = accuracies'
      BY <1>1, <1>5
    <3>2. models' = [r \in DOMAIN a |-> {u.entry : u \in Summed(a[r].sum)}]
      BY <3>1 DEF models, Summed
    <3> QED
      BY <1>5, <3>1, <3>2, EntriesOfModels DEF models
  <2>2. /\ ready \in SUBSET Entry /\ Len(accuracies') = Len(accuracies) + 1
        /\ Append(models, ready) \in Seq(SUBSET Entry)
        /\ Len(Append(models, ready)) = Len(accuracies) + 1
    BY <1>1, <1>5, <2>1, BoundAssumption DEF Inv, Shape, ClientShape, Entry
  <2>3. ASSUME NEW r \in 1 .. Len(accuracies) + 1
        PROVE  models'[r] = Append(models, ready)[r]
    <3>1. CASE r = Len(accuracies) + 1
      <4>1. accuracies'[r] = nn
        BY <1>1, <1>5, <3>1
      <4>2. models'[r] = {u.entry : u \in Summed(nn.sum)}
        BY <1>1, <1>5, <2>2, <4>1 DEF models, Summed
      <4>3. Append(models, ready)[r] = ready
        BY <2>1, <3>1
      <4> QED
        BY <1>2, <1>4, <4>2, <4>3
    <3>2. CASE r \in 1 .. Len(accuracies)
      <4>1. accuracies'[r] = accuracies[r]
        BY <1>1, <1>5, <3>2
      <4>2. models'[r] = models[r]
        BY <1>1, <1>5, <2>2, <3>2, <4>1 DEF models, Summed
      <4> QED
        BY <2>1, <3>2, <4>2
    <3>3. r = Len(accuracies) + 1 \/ r \in 1 .. Len(accuracies)
      BY <1>5
    <3> QED
      BY <3>1, <3>2, <3>3
  <2> QED
    BY <2>1, <2>2, <2>3, SeqEqual
<1>9. FA!Publish
  <2>1. pool' = {} /\ received' = {} /\ Training' = FALSE
    BY <1>6 DEF pool, received, Training
  <2>2. round_number' = round_number
    BY <1>1
  <2> QED
    BY <1>6, <1>7, <1>8, <2>1, <2>2
       DEF FA!Publish, pool, received, models
<1> QED
  BY <1>9 DEF FA!Next

\* What a step does to the abstract state.
LEMMA AbstractStep ==
  ASSUME Inv, Inv', [Next]_vars PROVE FA!Next \/ UNCHANGED FA!vars
<1>1. CASE Neutral
  <2>1. /\ UNCHANGED <<started, round_number, responded, weights, accuracies>>
        /\ started => ready' = ready
    BY <1>1 DEF Neutral
  <2>2. Training' = Training /\ models' = models
    BY <2>1 DEF Training, models, Summed
  <2>3. pool' = pool
    BY <2>1, <2>2 DEF pool, Training
  <2>4. received' = received
    BY <2>1, <2>2 DEF received, Summed
  <2> QED
    BY <2>1, <2>2, <2>3, <2>4, UnnoticedStutters DEF Unnoticed
<1>2. CASE BeginBroadcast \/ SendTrain \/ (\E d \in Device : Train(d))
           \/ (\E w \in Worker, p \in posts : AcceptResult(w, p))
           \/ (\E w \in Worker : Average(w))
  <2>1. UNCHANGED <<started, round_number, responded, weights, accuracies,
                    ready>>
    BY <1>2 DEF BeginBroadcast, SendTrain, Train, AcceptResult, Accept,
         Average, data_vars, client_vars, round_vars, result_vars
  <2>2. Training' = Training /\ models' = models
    BY <2>1 DEF Training, models, Summed
  <2>3. pool' = pool
    BY <2>1, <2>2 DEF pool
  <2>4. received' = received
    BY <2>1, <2>2 DEF received, Summed
  <2> QED
    BY <2>1, <2>2, <2>3, <2>4, UnnoticedStutters DEF Unnoticed
<1>3. ASSUME NEW w \in Worker, Finish(w) PROVE UNCHANGED FA!vars
  <2>1. /\ UNCHANGED <<round_number, weights, accuracies>>
        /\ started' = FALSE
    BY <1>3 DEF Finish
  <2>2. Len(accuracies) = round_number
    BY <1>3 DEF Finish, Inv, Rounds, Versions
  <2>3. Training = FALSE /\ Training' = FALSE
    BY <2>1, <2>2, RoundsPublished DEF Training
  <2>4. models' = models
    BY <2>1 DEF models, Summed
  <2>5. pool' = pool /\ received' = received
    BY <2>3 DEF pool, received
  <2> QED
    BY <2>1, <2>3, <2>4, <2>5, UnnoticedStutters DEF Unnoticed
<1> QED
  BY <1>1, <1>2, <1>3, StepKinds, AbstractStart, AbstractReceive,
     AbstractPublish DEF Inv

\* The server of main.c, whatever its threads' timing, its clients and its
\* network do, performs federated averaging.
THEOREM Implementation == Spec => ImplementsFedAvg
<1>1. Inv /\ Inv' /\ [Next]_vars => [FA!Next]_(FA!vars)
  BY AbstractStep
<1> QED
  BY AbstractInit, <1>1, AlwaysInv, PTL DEF Spec, ImplementsFedAvg, FA!Spec

-----------------------------------------------------------------------------
(***************************************************************************)
(* The devices of the server's model keep the contract of module           *)
(* Participant, each of them, although one device may have many entries.   *)
(***************************************************************************)

Sent(d, r) == {u \in trains : u.round = r /\ clients[u.entry] = d}
Back(d, r) == {p \in posts : p.update.round = r /\ clients[p.update.entry] = d}

\* A device that asks for its id has none, and is not asked for anything
\* before it serves.
Devices ==
  /\ IsFiniteSet(trains) /\ IsFiniteSet(posts)
  /\ \A d \in Device : id_conn[d] # "none" => phase[d] = "boot"
  /\ \A d \in Device : phase[d] \in {"off", "boot"} => device_id[d] = NoId
  /\ \A u \in trains : phase[clients[u.entry]] = "serving"

\* An entry is never given to another device.
EntriesKept ==
  /\ \A e \in 1 .. Len(clients) : clients'[e] = clients[e]
  /\ \A u \in trains : u.entry \in 1 .. Len(clients)
  /\ \A p \in posts : p.update.entry \in 1 .. Len(clients)

\* Steps that neither a device nor its messages can notice.
Elsewhere ==
  /\ UNCHANGED <<phase, device_id, trains, posts>>
  /\ \A d \in Device : id_conn[d] = "none" => id_conn'[d] = "none"

\* Which steps a device notices.
LEMMA DeviceWriters ==
  ASSUME Shape, [Next]_vars
  PROVE  \/ SendTrain
         \/ \E w \in Worker : ReplyId(w) \/ \E p \in posts : AcceptResult(w, p)
         \/ \E d \in Device : \/ Boot(d) \/ Listen(d) \/ Train(d)
                              \/ LoseId(d) \/ LoseTrain(d) \/ Crash(d)
         \/ Elsewhere
<1> USE DEF Elsewhere, device_vars, net_vars
<1>1. CASE Scheduler
  BY <1>1, ReportStep
     DEF Scheduler, CheckRounds, WakeAndCheckStarted, BeginScan, Ping,
         PingRefused, Pong, PingBroken, NextClient, EndScan, Decide,
         LockStart, StartRound, BeginBroadcast, SkipNotReady, TrainFails,
         EndBroadcast
<1>2. CASE ListenerCheck
  BY <1>2 DEF ListenerCheck
<1>3. ASSUME NEW w \in Worker, AcceptShutdown(w) PROVE Elsewhere
  BY <1>3 DEF AcceptShutdown
<1>4. ASSUME NEW w \in Worker, NEW d \in Device, AcceptId(w, d) PROVE Elsewhere
  BY <1>4 DEF AcceptId, Shape, DeviceShape
<1>5. ASSUME NEW w \in Worker, Handler(w), ~ReplyId(w) PROVE Elsewhere
  BY <1>5
     DEF Handler, SendId, ExtractId, RecvContent, UpdateStats, PutStats,
         CheckRound, LockResult, Accumulate, Average, Evaluate, Finish,
         SetShutdown
<1>6. CASE OperatorShutdown
  BY <1>6 DEF OperatorShutdown
<1>7. CASE UNCHANGED vars
  BY <1>7 DEF vars
<1> QED
  BY <1>1, <1>2, <1>3, <1>4, <1>5, <1>6, <1>7
     DEF Next, Running, Exited, Listener, DeviceStep, Fault

\* send_id only appends, and what is on its way is of entries of the list.
LEMMA EntriesStay == ASSUME Inv, [Next]_vars PROVE EntriesKept
<1>1. /\ ready \subseteq 1 .. Len(clients) /\ clients \in Seq(Device)
      /\ \A u \in trains : u.entry \in ready
      /\ \A p \in posts : p.update.entry \in ready
  BY DEF Inv, Shape, ClientShape, Rounds, AllFresh, Fresh
<1>2. clients' = clients \/ \E x : clients' = Append(clients, x)
  <2>1. CASE BeginScan \/ PingRefused \/ Pong \/ PingBroken
    BY <2>1 DEF BeginScan, PingRefused, Pong, PingBroken, NextClient
  <2>2. ASSUME NEW w \in Worker, SendId(w)
        PROVE  \E x : clients' = Append(clients, x)
    BY <2>2 DEF SendId
  <2> QED  BY <2>1, <2>2, ClientWriters DEF client_vars
<1>3. \A e \in 1 .. Len(clients) : clients'[e] = clients[e]
  BY <1>1, <1>2
<1> QED  BY <1>1, <1>3 DEF EntriesKept

\* At first no device is there.
LEMMA DevicesInit == Init => Devices
BY FS_EmptySet DEF Init, Devices, NoId

\* Every step keeps what is said of the devices.
LEMMA DevicesNext ==
  ASSUME Inv, Devices, [Next]_vars PROVE Devices'
<1>1. \A u \in trains :
        clients[u.entry] \in Device /\ clients'[u.entry] = clients[u.entry]
  BY EntriesStay DEF EntriesKept, Inv, Shape, ClientShape
<1>2. /\ phase \in [Device -> {"off", "boot", "loading", "serving"}]
      /\ device_id \in [Device -> 0 .. MaxClients]
      /\ id_conn \in [Device -> {"none", "backlog"} \cup Worker]
  BY DEF Inv, Shape, DeviceShape
<1>3. CASE Elsewhere
  BY <1>1, <1>2, <1>3 DEF Elsewhere, Devices
<1>4. CASE SendTrain
  <2>1. PICK u :
          u = [entry |-> cursor, round |-> round_number, base |-> nn.version]
    OBVIOUS
  <2>2. /\ trains' = trains \cup {u} /\ u.entry = cursor /\ Reachable(cursor)
        /\ UNCHANGED <<posts, phase, device_id, id_conn, clients>>
    BY <1>4, <2>1 DEF SendTrain, data_vars, client_vars, device_vars
  <2>3. IsFiniteSet(trains')
    BY <2>2, FS_AddElement DEF Devices
  <2> QED  BY <2>2, <2>3 DEF Devices, Reachable
<1>5. ASSUME NEW w \in Worker, NEW p \in posts, AcceptResult(w, p)
      PROVE  Devices'
  <2>1. /\ posts' = posts \ {p}
        /\ UNCHANGED <<trains, phase, device_id, id_conn, clients>>
    BY <1>5 DEF AcceptResult, Accept, data_vars, client_vars, device_vars
  <2>2. IsFiniteSet(posts')
    BY <2>1, FS_RemoveElement DEF Devices
  <2> QED  BY <2>1, <2>2 DEF Devices
<1>6. ASSUME NEW w \in Worker, ReplyId(w) PROVE Devices'
  <2>1. req[w].peer \in Device /\ w # "none"
    BY <1>6, WorkerAssumption
       DEF ReplyId, Inv, Shape, WorkerShape, Registration
  <2>2. UNCHANGED <<trains, posts, clients>>
    BY <1>6 DEF ReplyId, net_vars, data_vars, client_vars
  <2>3. CASE id_conn[req[w].peer] = w
    <3>1. phase[req[w].peer] = "boot"
      BY <2>1, <2>3 DEF Devices
    <3>2. /\ phase' = [phase EXCEPT ![req[w].peer] = "loading"]
          /\ id_conn' = [id_conn EXCEPT ![req[w].peer] = "none"]
          /\ \A d \in Device \ {req[w].peer} : device_id'[d] = device_id[d]
      BY <1>2, <1>6, <2>3 DEF ReplyId
    <3> QED  BY <1>1, <1>2, <2>1, <2>2, <3>1, <3>2 DEF Devices
  <2>4. CASE id_conn[req[w].peer] # w
    <3>1. UNCHANGED <<phase, device_id, id_conn>>
      BY <1>6, <2>4 DEF ReplyId, device_vars
    <3> QED  BY <2>2, <3>1 DEF Devices
  <2> QED  BY <2>3, <2>4
<1>7. ASSUME NEW d \in Device, Boot(d) \/ Listen(d) \/ LoseId(d)
      PROVE  Devices'
  <2>1. UNCHANGED <<trains, posts, clients>>
    BY <1>7 DEF Boot, Listen, LoseId, net_vars, data_vars, client_vars
  <2>2. CASE Boot(d)
    BY <1>1, <1>2, <2>1, <2>2 DEF Boot, Devices, NoId
  <2>3. CASE Listen(d)
    BY <1>1, <1>2, <2>1, <2>3 DEF Listen, Devices
  <2>4. CASE LoseId(d)
    BY <1>1, <1>2, <2>1, <2>4 DEF LoseId, Devices
  <2> QED  BY <1>7, <2>2, <2>3, <2>4
<1>8. ASSUME NEW d \in Device, Train(d) PROVE Devices'
  <2>1. PICK u, p :
          /\ trains' = trains \ {u} /\ posts' = posts \cup {p}
          /\ UNCHANGED <<phase, device_id, id_conn, clients>>
    BY <1>8 DEF Train, Answered, device_vars, data_vars, client_vars
  <2>2. IsFiniteSet(trains') /\ IsFiniteSet(posts')
    BY <2>1, FS_AddElement, FS_RemoveElement DEF Devices
  <2> QED  BY <2>1, <2>2 DEF Devices
<1>9. ASSUME NEW d \in Device, LoseTrain(d) \/ Crash(d) PROVE Devices'
  <2>1. trains' \subseteq trains /\ UNCHANGED <<posts, clients>>
    BY <1>9 DEF LoseTrain, Crash, net_vars, data_vars, client_vars
  <2>2. IsFiniteSet(trains')
    BY <2>1, FS_Subset DEF Devices
  <2>3. CASE LoseTrain(d)
    <3>1. UNCHANGED <<phase, device_id, id_conn>>
      BY <2>3 DEF LoseTrain, device_vars
    <3> QED  BY <2>1, <2>2, <3>1 DEF Devices
  <2>4. CASE Crash(d)
    BY <1>1, <1>2, <2>1, <2>2, <2>4 DEF Crash, Devices, NoId
  <2> QED  BY <1>9, <2>3, <2>4
<1> QED
  BY <1>3, <1>4, <1>5, <1>6, <1>7, <1>8, <1>9, DeviceWriters DEF Inv

\* owed and posted, by the sets they count.
LEMMA Tallies ==
  ASSUME Devices, NEW d \in Device, NEW r \in Round
  PROVE  /\ IsFiniteSet(Sent(d, r)) /\ IsFiniteSet(Back(d, r))
         /\ Owed(d)[r] = Cardinality(Sent(d, r)) /\ Owed(d)[r] \in Nat
         /\ Posted(d)[r] = Cardinality(Back(d, r)) /\ Posted(d)[r] \in Nat
<1>1. Sent(d, r) \subseteq trains /\ Back(d, r) \subseteq posts
  BY DEF Sent, Back
<1>2. IsFiniteSet(Sent(d, r)) /\ IsFiniteSet(Back(d, r))
  BY <1>1, FS_Subset DEF Devices
<1>3. /\ Owed(d)[r] = Cardinality(Sent(d, r))
      /\ Posted(d)[r] = Cardinality(Back(d, r))
  BY DEF Owed, Posted, Sent, Back
<1> QED  BY <1>2, <1>3, FS_CardinalityType

\* A device's messages change only where messages do.
LEMMA TalliesKept ==
  ASSUME EntriesKept, NEW d \in Device
  PROVE  /\ (\A r \in Round : Sent(d, r)' = Sent(d, r)) => Owed(d)' = Owed(d)
         /\ (\A r \in Round : Back(d, r)' = Back(d, r)) =>
              Posted(d)' = Posted(d)
         /\ trains' = trains => Owed(d)' = Owed(d)
         /\ posts' = posts => Posted(d)' = Posted(d)
<1>1. (\A r \in Round : Sent(d, r)' = Sent(d, r)) => Owed(d)' = Owed(d)
  BY DEF Owed, Sent
<1>2. (\A r \in Round : Back(d, r)' = Back(d, r)) => Posted(d)' = Posted(d)
  BY DEF Posted, Back
<1>3. trains' = trains => \A r \in Round : Sent(d, r)' = Sent(d, r)
  BY DEF Sent, EntriesKept
<1>4. posts' = posts => \A r \in Round : Back(d, r)' = Back(d, r)
  BY DEF Back, EntriesKept
<1> QED  BY <1>1, <1>2, <1>3, <1>4

\* What a device is no longer to answer is less than what it was.
LEMMA TalliesLess ==
  ASSUME Devices, Devices', EntriesKept, NEW d \in Device,
         trains' \subseteq trains
  PROVE  Owed(d)' \in Contract(d)!AtMost(Owed(d))
<1>1. ASSUME NEW r \in Round
      PROVE  Owed(d)'[r] \in Nat /\ Owed(d)'[r] <= Owed(d)[r]
  <2>1. Sent(d, r)' \subseteq Sent(d, r)
    BY DEF Sent, EntriesKept
  <2>2. Cardinality(Sent(d, r)') <= Cardinality(Sent(d, r))
    BY <2>1, Tallies, FS_Subset
  <2>3. Owed(d)'[r] = Cardinality(Sent(d, r)')
    BY DEF Owed, Sent
  <2>4. Cardinality(Sent(d, r)') \in Nat
    BY <2>1, Tallies, FS_Subset, FS_CardinalityType
  <2> QED  BY <2>2, <2>3, <2>4, Tallies
<1>2. Owed(d)' \in [Round -> Nat]
  BY <1>1 DEF Owed
<1> QED  BY <1>1, <1>2 DEF Contract!AtMost

Counts(S) == [q \in Round |-> Cardinality(S[q])]
\* The families S and T differ in the element x of one set only.
Grows(S, T, r, x) ==
  /\ r \in Round /\ \A q \in Round : IsFiniteSet(S[q])
  /\ \A q \in Round \ {r} : T[q] = S[q]
  /\ x \notin S[r] /\ T[r] = S[r] \cup {x}

\* One set in a family gets one element more, or, read backwards, loses one.
LEMMA OneMoreCounted ==
  ASSUME NEW S, NEW T, NEW r, NEW x, Grows(S, T, r, x)
  PROVE  /\ Counts(T) = [Counts(S) EXCEPT ![r] = @ + 1]
         /\ Counts(S) = [Counts(T) EXCEPT ![r] = @ - 1]
         /\ Counts(T)[r] > 0
<1>1. Cardinality(T[r]) = Cardinality(S[r]) + 1 /\ Cardinality(S[r]) \in Nat
  BY FS_AddElement, FS_CardinalityType DEF Grows
<1>2. r \in Round /\ \A q \in Round \ {r} : T[q] = S[q]
  BY DEF Grows
<1>3. Cardinality(S[r]) = Cardinality(T[r]) - 1 /\ Cardinality(T[r]) > 0
  BY <1>1
<1>4. Counts(T)[r] > 0
  BY <1>2, <1>3 DEF Counts
<1>5. Counts(T) = [Counts(S) EXCEPT ![r] = @ + 1]
  BY <1>1, <1>2 DEF Counts
<1>6. Counts(S) = [Counts(T) EXCEPT ![r] = @ - 1]
  BY <1>2, <1>3 DEF Counts
<1> QED  BY <1>4, <1>5, <1>6

\* connect_client succeeds only with a device that serves, which then owes a
\* result of the round; the others owe what they did.
LEMMA ContractAsk ==
  ASSUME Inv, Inv', Devices, EntriesKept, NEW d \in Device, SendTrain
  PROVE  [Contract(d)!Next]_(Contract(d)!vars)
<1>1. PICK u :
        u = [entry |-> cursor, round |-> round_number, base |-> nn.version]
  OBVIOUS
<1>2. /\ trains' = trains \cup {u} /\ u \notin trains /\ Reachable(cursor)
      /\ UNCHANGED <<posts, phase, device_id, clients, round_number>>
      /\ u.entry = cursor /\ u.round = round_number
  <2>1. u \notin trains
    BY <1>1 DEF SendTrain, Inv, Rounds, AllFresh, Fresh, Shape, SchedulerShape
  <2> QED
    BY <1>1, <2>1
    DEF SendTrain, data_vars, client_vars, round_vars, device_vars
<1>3. u.round \in Round
  BY <1>2 DEF Inv, Rounds, AllFresh, Fresh, Update
<1>4. Posted(d)' = Posted(d)
  BY <1>2, TalliesKept
<1>5. CASE clients[cursor] = d
  <2>1. PICK S, T : /\ S = [q \in Round |-> Sent(d, q)]
                    /\ T = [q \in Round |-> Sent(d, q)']
    OBVIOUS
  <2>2. Owed(d) = Counts(S) /\ Owed(d)' = Counts(T)
    BY <2>1 DEF Counts, Owed, Sent
  <2>3. Grows(S, T, u.round, u)
    BY <1>2, <1>3, <1>5, <2>1, Tallies DEF Grows, Sent
  <2>4. Owed(d)' = [Owed(d) EXCEPT ![u.round] = @ + 1]
    BY <2>2, <2>3, OneMoreCounted
  <2>5. Contract(d)!Ask(u.round)
    BY <1>2, <1>4, <1>5, <2>4 DEF Contract!Ask, Reachable
  <2> QED  BY <1>3, <2>5 DEF Contract!Next
<1>6. CASE clients[cursor] # d
  <2>1. \A r \in Round : Sent(d, r)' = Sent(d, r)
    BY <1>2, <1>6 DEF Sent
  <2>2. Owed(d)' = Owed(d)
    BY <2>1, TalliesKept
  <2> QED  BY <1>2, <1>4, <2>2 DEF Contract!vars
<1> QED  BY <1>5, <1>6

\* Train: the device answers what it was asked, once; its result was nowhere.
LEMMA ContractAnswer ==
  ASSUME Inv, Devices, EntriesKept, NEW d \in Device, NEW e \in Device,
         Train(e)
  PROVE  [Contract(d)!Next]_(Contract(d)!vars)
<1>1. PICK u \in trains :
        /\ clients[u.entry] = e /\ trains' = trains \ {u}
        /\ posts' = posts \cup {[id |-> device_id[e], update |-> u]}
  BY DEF Train, Answered
<1>2. PICK p : p = [id |-> device_id[e], update |-> u]
  OBVIOUS
<1>3. /\ phase[e] = "serving" /\ posts' = posts \cup {p} /\ p.update = u
      /\ UNCHANGED <<phase, device_id, clients>>
      /\ p \notin posts /\ u.round \in Round
  <2>1. p \notin posts
    BY <1>1, <1>2 DEF Inv, Rounds, Once
  <2>2. u.round \in Round
    BY <1>1 DEF Inv, Rounds, AllFresh, Fresh, Update
  <2> QED
    BY <1>1, <1>2, <2>1, <2>2 DEF Train, data_vars, client_vars, device_vars
<1>4. CASE d = e
  <2>1. PICK S, T, B, C : /\ S = [q \in Round |-> Sent(d, q)]
                          /\ T = [q \in Round |-> Sent(d, q)']
                          /\ B = [q \in Round |-> Back(d, q)]
                          /\ C = [q \in Round |-> Back(d, q)']
    OBVIOUS
  <2>2. /\ Owed(d) = Counts(S) /\ Owed(d)' = Counts(T)
        /\ Posted(d) = Counts(B) /\ Posted(d)' = Counts(C)
    BY <2>1 DEF Counts, Owed, Sent, Posted, Back
  <2>3. \A q \in Round : IsFiniteSet(T[q])
    <3>1. \A q \in Round : Sent(d, q)' \subseteq Sent(d, q)
      BY <1>1, <1>3 DEF Sent
    <3> QED  BY <2>1, <3>1, Tallies, FS_Subset
  <2>4. Grows(T, S, u.round, u)
    BY <1>1, <1>3, <1>4, <2>1, <2>3 DEF Grows, Sent
  <2>5. Grows(B, C, u.round, p)
    BY <1>1, <1>3, <1>4, <2>1, Tallies DEF Grows, Back
  <2>6. /\ Owed(d)' = [Owed(d) EXCEPT ![u.round] = @ - 1]
        /\ Owed(d)[u.round] > 0
        /\ Posted(d)' = [Posted(d) EXCEPT ![u.round] = @ + 1]
    BY <2>2, <2>4, <2>5, OneMoreCounted
  <2>7. Contract(d)!Answer(u.round)
    BY <1>3, <1>4, <2>6 DEF Contract!Answer
  <2> QED  BY <1>3, <2>7 DEF Contract!Next
<1>5. CASE d # e
  <2>1. \A r \in Round : Sent(d, r)' = Sent(d, r) /\ Back(d, r)' = Back(d, r)
    BY <1>1, <1>3, <1>5 DEF Sent, Back
  <2>2. Owed(d)' = Owed(d) /\ Posted(d)' = Posted(d)
    BY <2>1, TalliesKept
  <2> QED  BY <1>3, <2>2 DEF Contract!vars
<1> QED  BY <1>4, <1>5

\* A result accepted is read, by whichever handler.
LEMMA ContractCollect ==
  ASSUME Inv, Devices, EntriesKept, NEW d \in Device,
         NEW w \in Worker, NEW p \in posts, AcceptResult(w, p)
  PROVE  [Contract(d)!Next]_(Contract(d)!vars)
<1>1. /\ posts' = posts \ {p}
      /\ UNCHANGED <<trains, phase, device_id, clients>>
  BY DEF AcceptResult, Accept, data_vars, client_vars, device_vars
<1>2. p.update.round \in Round
  BY DEF Inv, Rounds, AllFresh, Fresh, Update
<1>3. Owed(d)' = Owed(d)
  BY <1>1, TalliesKept
<1>4. CASE clients[p.update.entry] = d
  <2>1. PICK B, C : /\ B = [q \in Round |-> Back(d, q)]
                    /\ C = [q \in Round |-> Back(d, q)']
    OBVIOUS
  <2>2. Posted(d) = Counts(B) /\ Posted(d)' = Counts(C)
    BY <2>1 DEF Counts, Posted, Back
  <2>3. \A q \in Round : IsFiniteSet(C[q])
    <3>1. \A q \in Round : Back(d, q)' \subseteq Back(d, q)
      BY <1>1 DEF Back
    <3> QED  BY <2>1, <3>1, Tallies, FS_Subset
  <2>4. Grows(C, B, p.update.round, p)
    BY <1>1, <1>2, <1>4, <2>1, <2>3 DEF Grows, Back
  <2>5. /\ Posted(d)' = [Posted(d) EXCEPT ![p.update.round] = @ - 1]
        /\ Posted(d)[p.update.round] > 0
    BY <2>2, <2>4, OneMoreCounted
  <2>6. Contract(d)!Collect(p.update.round)
    BY <1>1, <1>3, <2>5 DEF Contract!Collect
  <2> QED  BY <1>2, <2>6 DEF Contract!Next
<1>5. CASE clients[p.update.entry] # d
  <2>1. \A r \in Round : Back(d, r)' = Back(d, r)
    BY <1>1, <1>5 DEF Back
  <2>2. Posted(d)' = Posted(d)
    BY <2>1, TalliesKept
  <2> QED  BY <1>1, <1>3, <2>2 DEF Contract!vars
<1> QED  BY <1>4, <1>5

\* The answer to GET /id, lost or not, reaches only the device that waits.
LEMMA ContractIdentify ==
  ASSUME Inv, Inv', Devices, EntriesKept, NEW d \in Device,
         NEW w \in Worker, ReplyId(w)
  PROVE  [Contract(d)!Next]_(Contract(d)!vars)
<1>1. /\ req[w].peer \in Device /\ w # "none"
      /\ phase \in [Device -> {"off", "boot", "loading", "serving"}]
      /\ device_id \in [Device -> 0 .. MaxClients]
  BY WorkerAssumption
     DEF ReplyId, Inv, Shape, WorkerShape, Registration, DeviceShape
<1>2. Owed(d)' = Owed(d) /\ Posted(d)' = Posted(d)
  BY TalliesKept DEF ReplyId, net_vars
<1>3. CASE id_conn[req[w].peer] = w /\ req[w].peer = d
  <2>1. phase[d] = "boot"
    BY <1>1, <1>3 DEF Devices
  <2>2. phase[d]' = "loading"
    BY <1>1, <1>3 DEF ReplyId
  <2>3. device_id[d]' \in Nat
    <3>1. device_id' \in [Device -> 0 .. MaxClients]
      BY DEF Inv, Shape, DeviceShape
    <3> QED  BY <3>1
  <2>4. Contract(d)!Identify
    BY <1>2, <2>1, <2>2, <2>3 DEF Contract!Identify
  <2> QED  BY <2>4 DEF Contract!Next
<1>4. CASE ~(id_conn[req[w].peer] = w /\ req[w].peer = d)
  <2>1. phase[d]' = phase[d] /\ device_id[d]' = device_id[d]
    BY <1>1, <1>4 DEF ReplyId, device_vars
  <2> QED  BY <1>2, <2>1 DEF Contract!vars
<1> QED  BY <1>3, <1>4

\* A device starts, gets no answer or begins to listen; the others do not.
LEMMA ContractStart ==
  ASSUME Inv, Devices, EntriesKept, NEW d \in Device,
         NEW e \in Device, Boot(e) \/ Listen(e) \/ LoseId(e)
  PROVE  [Contract(d)!Next]_(Contract(d)!vars)
<1>1. /\ phase \in [Device -> {"off", "boot", "loading", "serving"}]
      /\ device_id \in [Device -> 0 .. MaxClients]
  BY DEF Inv, Shape, DeviceShape
<1>2. Owed(d)' = Owed(d) /\ Posted(d)' = Posted(d)
  BY TalliesKept DEF Boot, Listen, LoseId, net_vars
<1>3. CASE d # e
  <2>1. phase[d]' = phase[d] /\ device_id[d]' = device_id[d]
    BY <1>1, <1>3 DEF Boot, Listen, LoseId
  <2> QED  BY <1>2, <2>1 DEF Contract!vars
<1>4. CASE d = e /\ Boot(e)
  <2>1. Contract(d)!Boot
    BY <1>1, <1>2, <1>4 DEF Boot, Devices, Contract!Boot
  <2> QED  BY <2>1 DEF Contract!Next
<1>5. CASE d = e /\ Listen(e)
  <2>1. Contract(d)!Listen
    BY <1>1, <1>2, <1>5 DEF Listen, Contract!Listen
  <2> QED  BY <2>1 DEF Contract!Next
<1>6. CASE d = e /\ LoseId(e)
  <2>1. Contract(d)!Identify
    BY <1>1, <1>2, <1>6 DEF LoseId, Contract!Identify
  <2> QED  BY <2>1 DEF Contract!Next
<1> QED  BY <1>3, <1>4, <1>5, <1>6

\* What cannot be delivered was owed by a device that serves.
LEMMA ContractLose ==
  ASSUME Inv, Devices, Devices', EntriesKept, NEW d \in Device,
         NEW e \in Device, LoseTrain(e)
  PROVE  [Contract(d)!Next]_(Contract(d)!vars)
<1>1. PICK u \in trains : clients[u.entry] = e /\ trains' = trains \ {u}
  BY DEF LoseTrain
<1>2. /\ UNCHANGED <<posts, phase, device_id, clients>>
      /\ phase[e] = "serving" /\ Posted(d)' = Posted(d)
  BY <1>1, TalliesKept
     DEF LoseTrain, Devices, device_vars, data_vars, client_vars
<1>3. CASE d = e
  <2>1. Owed(d)' \in Contract(d)!AtMost(Owed(d))
    BY <1>1, TalliesLess
  <2>2. Contract(d)!Lose
    BY <1>2, <1>3, <2>1 DEF Contract!Lose
  <2> QED  BY <2>2 DEF Contract!Next
<1>4. CASE d # e
  <2>1. \A r \in Round : Sent(d, r)' = Sent(d, r)
    BY <1>1, <1>2, <1>4 DEF Sent
  <2>2. Owed(d)' = Owed(d)
    BY <2>1, TalliesKept
  <2> QED  BY <1>2, <2>2 DEF Contract!vars
<1> QED  BY <1>3, <1>4

\* A crash takes what the device owes with it, through whichever entry.
LEMMA ContractCrash ==
  ASSUME Inv, Devices, EntriesKept, NEW d \in Device,
         NEW e \in Device, Crash(e)
  PROVE  [Contract(d)!Next]_(Contract(d)!vars)
<1>1. /\ phase \in [Device -> {"off", "boot", "loading", "serving"}]
      /\ device_id \in [Device -> 0 .. MaxClients]
  BY DEF Inv, Shape, DeviceShape
<1>2. /\ trains' = {u \in trains : clients[u.entry] # e}
      /\ UNCHANGED <<posts, clients>> /\ Posted(d)' = Posted(d)
  BY TalliesKept DEF Crash, data_vars, client_vars
<1>3. CASE d = e
  <2>1. \A r \in Round : Sent(d, r)' = {}
    BY <1>2, <1>3 DEF Sent
  <2>2. Owed(d)' = Contract(d)!Nothing
    BY <2>1, FS_EmptySet DEF Owed, Sent, Contract!Nothing
  <2>3. Contract(d)!Crash
    BY <1>1, <1>2, <1>3, <2>2 DEF Crash, NoId, Contract!Crash
  <2> QED  BY <2>3 DEF Contract!Next
<1>4. CASE d # e
  <2>1. \A r \in Round : Sent(d, r)' = Sent(d, r)
    BY <1>2, <1>4 DEF Sent
  <2>2. phase[d]' = phase[d] /\ device_id[d]' = device_id[d]
    BY <1>1, <1>4 DEF Crash
  <2> QED  BY <1>2, <2>1, <2>2, TalliesKept DEF Contract!vars
<1> QED  BY <1>3, <1>4

\* Every step of the server's model, for each of its devices.
LEMMA ContractStep ==
  ASSUME Inv, Inv', Devices, Devices', [Next]_vars, NEW d \in Device
  PROVE  [Contract(d)!Next]_(Contract(d)!vars)
<1>1. EntriesKept
  BY EntriesStay
<1>2. CASE Elsewhere
  <2>1. Owed(d)' = Owed(d) /\ Posted(d)' = Posted(d)
    BY <1>1, <1>2, TalliesKept DEF Elsewhere
  <2> QED  BY <1>2, <2>1 DEF Elsewhere, Contract!vars
<1>3. CASE SendTrain
  BY <1>1, <1>3, ContractAsk
<1>4. ASSUME NEW w \in Worker, ReplyId(w)
      PROVE  [Contract(d)!Next]_(Contract(d)!vars)
  BY <1>1, <1>4, ContractIdentify
<1>5. ASSUME NEW w \in Worker, NEW p \in posts, AcceptResult(w, p)
      PROVE  [Contract(d)!Next]_(Contract(d)!vars)
  BY <1>1, <1>5, ContractCollect
<1>6. ASSUME NEW e \in Device, Train(e)
      PROVE  [Contract(d)!Next]_(Contract(d)!vars)
  BY <1>1, <1>6, ContractAnswer
<1>7. ASSUME NEW e \in Device, Boot(e) \/ Listen(e) \/ LoseId(e)
      PROVE  [Contract(d)!Next]_(Contract(d)!vars)
  BY <1>1, <1>7, ContractStart
<1>8. ASSUME NEW e \in Device, LoseTrain(e)
      PROVE  [Contract(d)!Next]_(Contract(d)!vars)
  BY <1>1, <1>8, ContractLose
<1>9. ASSUME NEW e \in Device, Crash(e)
      PROVE  [Contract(d)!Next]_(Contract(d)!vars)
  BY <1>1, <1>9, ContractCrash
<1> QED
  BY <1>2, <1>3, <1>4, <1>5, <1>6, <1>7, <1>8, <1>9, DeviceWriters DEF Inv

\* At first each device is what the contract says.
LEMMA ContractInit ==
  ASSUME Init, NEW d \in Device PROVE Contract(d)!Init
<1>1. \A r \in Round : Sent(d, r) = {} /\ Back(d, r) = {}
  BY DEF Init, Sent, Back
<1>2. Owed(d) = Contract(d)!Nothing /\ Posted(d) = Contract(d)!Nothing
  BY <1>1, FS_EmptySet DEF Owed, Posted, Sent, Back, Contract!Nothing
<1> QED  BY <1>2 DEF Init, NoId, Contract!Init

\* The server may count on each of its devices, and each of them on the
\* server, for what module Participant says, with any number of devices,
\* crashes and registrations.
THEOREM DevicesAsPromised == Spec => DevicesKeepContract
<1> DEFINE Steps == \A d \in Device : [Contract(d)!Next]_(Contract(d)!vars)
           Start == \A d \in Device : Contract(d)!Init
<1>1. Init => Devices
  BY DevicesInit
<1>2. Inv /\ Devices /\ [Next]_vars => Devices'
  BY DevicesNext
<1>3. Inv /\ Inv' /\ Devices /\ Devices' /\ [Next]_vars => Steps
  BY ContractStep
<1>4. Init => Start
  BY ContractInit
<1>5. DevicesKeepContract <=> Start /\ [][Steps]_vars
  BY DEF DevicesKeepContract
<1> HIDE DEF Steps, Start
<1> QED  BY <1>1, <1>2, <1>3, <1>4, <1>5, AlwaysInv, PTL DEF Spec
=============================================================================
