--------------------------- MODULE FedServerStats ---------------------------
(***************************************************************************)
(* The statistics.  update_stats writes a result into its round's row      *)
(* before handle_results has looked at the round number, so that nothing   *)
(* in update_stats itself keeps a row to the results that are averaged.    *)
(* It is the protocol that does: a result once noted is always summed, so  *)
(* a row has as many figures as the average of its round has updates.      *)
(* When no device restarts, a result also carries the id of the entry its  *)
(* device was registered as, and the row names just those clients.         *)
(* Last comes stats.json, which write_stats prints from all this while the  *)
(* handlers of the last round go on.                                       *)
(***************************************************************************)
EXTENDS FedServerRounds

-----------------------------------------------------------------------------
(* There is a row for each round that needs one. *)

\* A handler whose result is in the statistics.
Noted(w) ==
  wpc[w] \in {"check_round", "lock_result", "accumulate", "average",
             "evaluate", "finish"}

\* A handler for whose result there is a row.
Filed(w) == wpc[w] = "put_stats" \/ Noted(w)

\* There is a row for each published round and none for a round to come; the
\* current round has one once a result of it is filed or counted.
Rows ==
  /\ Len(accuracies) <= Len(stats) /\ Len(stats) <= round_number
  /\ (\E w \in Worker : Filed(w)) \/ responded > 0 =>
       Len(stats) = round_number

\* Only the first section of update_stats finds a row for a result.
LEMMA FiledBefore ==
  ASSUME Shape, [Next]_vars, NEW v \in Worker, Filed(v)', ~UpdateStats(v)
  PROVE  Filed(v)
<1> USE DEF Filed, Noted, Shape, WorkerShape, worker_vars
<1>1. CASE Scheduler
  BY <1>1, ReportStep
     DEF Scheduler, CheckRounds, WakeAndCheckStarted, BeginScan, Ping,
         PingRefused, Pong, PingBroken, NextClient, EndScan, Decide,
         LockStart, StartRound, BeginBroadcast, SkipNotReady, SendTrain,
         TrainFails, EndBroadcast
<1>2. CASE Listener
  BY <1>2 DEF Listener, ListenerCheck, AcceptId, AcceptResult,
       AcceptShutdown, Accept
<1>3. ASSUME NEW w \in Worker, Handler(w) PROVE Filed(v)
  BY <1>3
     DEF Handler, SendId, ReplyId, ExtractId, RecvContent, UpdateStats,
         PutStats, CheckRound, LockResult, Accumulate, Average, Evaluate,
         Finish, SetShutdown, Goto, Done
<1>4. ASSUME NEW d \in Device, DeviceStep(d) PROVE Filed(v)
  BY <1>4 DEF DeviceStep, Boot, Listen, Train
<1>5. CASE Fault
  BY <1>5 DEF Fault, OperatorShutdown, LoseId, LoseTrain, Crash
<1>6. CASE UNCHANGED vars
  BY <1>6 DEF vars
<1> QED
  BY <1>1, <1>2, <1>3, <1>4, <1>5, <1>6 DEF Next, Running, Exited

\* The row that is written is there, or is the one added.
LEMMA RowAdded ==
  ASSUME Inv, Rows, NEW w \in Worker, UpdateStats(w)
  PROVE  /\ Len(stats') = round_number
         /\ \A r \in DOMAIN stats : stats'[r] = stats[r]
         /\ Len(stats) < round_number => stats'[round_number] = <<>>
         /\ \A r \in DOMAIN stats' :
              \/ r \in DOMAIN stats
              \/ Len(stats) < round_number /\ r = round_number
<1>1. Handling(w)
  BY DEF UpdateStats, Handling, Results
<1>2. RoundNamed(w) = round_number
  BY <1>1 DEF RoundNamed, Inv, Rounds, AllFresh, Fresh
<1>3. stats \in Seq(Seq(Nat)) /\ DOMAIN stats = 1 .. Len(stats)
  BY LenProperties DEF Inv, Shape, FileShape
<1>4. /\ Len(stats) <= round_number /\ round_number <= Len(stats) + 1
      /\ Len(stats) \in Nat /\ round_number \in Nat
  BY <1>3, RoundsPublished, LenProperties DEF Rows
<1>5. CASE Len(stats) < round_number
  <2>1. stats' = Append(stats, <<>>) /\ round_number = Len(stats) + 1
    BY <1>2, <1>5, <1>4 DEF UpdateStats
  <2>2. /\ Len(stats') = Len(stats) + 1 /\ stats'[Len(stats) + 1] = <<>>
        /\ \A r \in 1 .. Len(stats) : stats'[r] = stats[r]
        /\ DOMAIN stats' = 1 .. Len(stats) + 1
    BY <1>3, <2>1
  <2> QED
    BY <1>3, <1>5, <1>4, <2>1, <2>2
<1>6. CASE ~(Len(stats) < round_number)
  <2>1. stats' = stats
    BY <1>2, <1>6 DEF UpdateStats
  <2>2. Len(stats) = round_number
    BY <1>6, <1>4
  <2> QED
    BY <1>3, <2>1, <2>2
<1> QED
  BY <1>5, <1>6

\* Each step keeps a row for each round somebody has answered.
LEMMA RowsNext == Inv /\ Rows /\ [Next]_vars => Rows'
<1> SUFFICES ASSUME Inv, Rows, [Next]_vars PROVE Rows'
  OBVIOUS
<1> USE RoundsPublished
<1>1. ASSUME NEW w \in Worker, UpdateStats(w) PROVE Rows'
  <2>1. UNCHANGED <<accuracies, round_number, responded>>
    BY <1>1 DEF UpdateStats, round_vars, result_vars
  <2> QED
    BY <1>1, <2>1, RowAdded DEF Rows
<1>2. ASSUME NEW w \in Worker, Evaluate(w) PROVE Rows'
  <2>1. /\ UNCHANGED <<stats, round_number, responded>>
        /\ Len(accuracies') = Len(accuracies) + 1
    BY <1>2 DEF Evaluate, round_vars, Inv, Shape, ModelShape
  <2>2. Filed(w) /\ Closing(w)
    BY <1>2 DEF Evaluate, Filed, Noted, Closing
  <2>3. Len(stats) = round_number /\ Len(accuracies) + 1 = round_number
    BY <1>2, <2>2, AllSummed, OneCloser
       DEF Evaluate, Rows, Inv, Rounds, Versions, Locked, Closing
  <2> QED
    BY <2>1, <2>3 DEF Rows
<1>3. CASE StartRound
  <2>1. /\ UNCHANGED <<stats, accuracies, responded, wpc>>
        /\ round_number' = round_number + 1
    BY <1>3 DEF StartRound, result_vars, worker_vars
  <2>2. ~started
    BY <1>3 DEF StartRound, Inv, Control, StartOnlyOnce, BeforeStart
  <2>3. responded = 0 /\ \A w \in Worker : ~Filed(w)
    BY <2>2 DEF Inv, Rounds, Quiet, NothingOnItsWay, Handling, Filed, Noted,
                Results
  <2> QED
    BY <2>1, <2>3 DEF Rows, Filed, Noted
<1>4. ASSUME NEW w \in Worker, Accumulate(w) PROVE Rows'
  <2>1. UNCHANGED <<stats, accuracies, round_number>>
    BY <1>4 DEF Accumulate
  <2>2. Filed(w)
    BY <1>4 DEF Accumulate, Filed, Noted
  <2> QED
    BY <2>1, <2>2 DEF Rows
<1>5. ASSUME ~StartRound,
             \A w \in Worker :
               ~(UpdateStats(w) \/ Evaluate(w) \/ Accumulate(w))
      PROVE  Rows'
  <2>1. UNCHANGED <<accuracies, round_number>>
    BY <1>5, ModelWriters, RoundWriters DEF Average, Finish, round_vars
  <2>2. responded' = responded \/ responded' = 0
    BY <1>5, RoundWriters DEF Finish
  <2>3. \A w \in Worker : Filed(w)' => Filed(w)
    BY <1>5, FiledBefore DEF Inv
  <2>4. Len(stats') = Len(stats)
    <3>1. ASSUME NEW w \in Worker, PutStats(w) PROVE Len(stats') = Len(stats)
      BY <3>1 DEF PutStats, Inv, Shape, FileShape
    <3> QED
      BY <1>5, <3>1, FileWriters, ReportStep
  <2> QED
    BY <2>1, <2>2, <2>3, <2>4 DEF Rows
<1> QED
  BY <1>1, <1>2, <1>3, <1>4, <1>5

\* update_stats, which adds one row at most, never needs two, and never
\* writes past the end of the statistics.
THEOREM AlwaysStatsInRange == Spec => []StatsInRange
<1>1. Init => Rows
  BY DEF Init, Rows, Filed, Noted
<1>2. ASSUME Inv, Rows PROVE StatsInRange
  <2>1. ASSUME NEW w \in Worker, wpc[w] \in {"update_stats", "put_stats"}
        PROVE  req[w].update.round = round_number
    BY <1>2, <2>1 DEF Inv, Rounds, AllFresh, Fresh, Handling, Results
  <2> QED
    BY <1>2, <2>1, RoundsPublished DEF Rows, Filed, StatsInRange
<1> QED
  BY <1>1, <1>2, RowsNext, AlwaysInv, PTL DEF Spec

-----------------------------------------------------------------------------
(* What a row holds. *)

\* A handler whose result is in the statistics but not yet in the sums.
Adding(w) == Noted(w) /\ ~Closing(w)

\* The updates of the running round that are in the statistics, and those
\* of row r: of a published round, what was averaged.
NotedUpdates == Counted \cup {req[w].update : w \in {v \in Worker : Adding(v)}}
RowUpdates(r) ==
  IF r <= Len(accuracies) THEN Summed(accuracies[r].sum) ELSE NotedUpdates

\* A row has a figure for each update, and names their entries.
Names(row) == {row[j] : j \in DOMAIN row}
Holds(row, updates) ==
  /\ IsFiniteSet(updates) /\ Len(row) = Cardinality(updates)
  /\ ~Faulty => Names(row) = {u.entry : u \in updates}
RowsExact == \A r \in DOMAIN stats : Holds(stats[r], RowUpdates(r))

\* A result is posted under the id of the entry it was trained for.
Named ==
  /\ \A p \in posts : p.id = p.update.entry
  /\ \A w \in Worker : Handling(w) => req[w].id = req[w].update.entry

\* A handler that has noted a result goes on to add it up: the round it
\* names is the running one, and that is not being closed.
LEMMA NotedIsAdded ==
  ASSUME Inv, [Next]_vars, NEW v \in Worker, ~PutStats(v), ~Accumulate(v)
  PROVE  /\ Adding(v)' <=> Adding(v)
         /\ Adding(v) => req'[v] = req[v]
<1> USE DEF Adding, Noted, Closing, worker_vars
<1>1. /\ wpc \in [Worker -> Results \cup Waiting]
      /\ req = [w \in Worker |-> req[w]]
  BY DEF Inv, Shape, WorkerShape
<1>2. CASE Scheduler
  BY <1>2, ReportStep
     DEF Scheduler, CheckRounds, WakeAndCheckStarted, BeginScan, Ping,
         PingRefused, Pong, PingBroken, NextClient, EndScan, Decide,
         LockStart, StartRound, BeginBroadcast, SkipNotReady, SendTrain,
         TrainFails, EndBroadcast
<1>3. CASE Listener
  BY <1>1, <1>3 DEF Listener, ListenerCheck, AcceptId, AcceptResult,
       AcceptShutdown, Accept
<1>4. ASSUME NEW w \in Worker, Handler(w), w # v
      PROVE  wpc'[v] = wpc[v] /\ req'[v] = req[v]
  BY <1>1, <1>4 DEF Handler, SendId, ReplyId, ExtractId, RecvContent,
       UpdateStats, PutStats, CheckRound, LockResult, Accumulate, Average,
       Evaluate, Finish, SetShutdown, Goto, Done
<1>5. CASE CheckRound(v)
  <2>1. Handling(v)
    BY <1>5 DEF CheckRound, Handling, Results
  <2>2. RoundNamed(v) = round_number
    BY <2>1 DEF RoundNamed, Inv, Rounds, AllFresh, Fresh
  <2> QED
    BY <1>1, <1>5, <2>2 DEF CheckRound, Goto
<1>6. CASE LockResult(v)
  <2>1. wpc[v] = "lock_result" /\ Handling(v)
    BY <1>6 DEF LockResult, Handling, Results
  <2>2. ~averaging
    BY <2>1, NothingLeft DEF Inv, Rounds, Averaging
  <2> QED
    BY <1>1, <1>6, <2>2 DEF LockResult, Goto
<1>7. CASE SendId(v) \/ ReplyId(v) \/ SetShutdown(v)
  BY <1>1, <1>7 DEF SendId, ReplyId, SetShutdown, Done
<1>8. CASE ExtractId(v) \/ RecvContent(v) \/ UpdateStats(v)
  BY <1>1, <1>8 DEF ExtractId, RecvContent, UpdateStats, Goto, Done
<1>9. CASE Average(v) \/ Evaluate(v) \/ Finish(v)
  BY <1>1, <1>9 DEF Average, Evaluate, Finish, Goto, Done
<1>10. ASSUME NEW d \in Device, DeviceStep(d)
      PROVE  wpc' = wpc /\ req' = req
  BY <1>10 DEF DeviceStep, Boot, Listen, Train
<1>11. CASE Fault
  BY <1>11 DEF Fault, OperatorShutdown, LoseId, LoseTrain, Crash
<1>12. CASE UNCHANGED vars
  BY <1>12 DEF vars
<1> QED
  BY <1>2, <1>3, <1>4, <1>5, <1>6, <1>7, <1>8, <1>9, <1>10, <1>11, <1>12
     DEF Next, Running, Exited, Handler

\* Two handlers never add the update of one entry, nor one that is counted.
LEMMA NewlyNoted ==
  ASSUME Inv, NEW w \in Worker, wpc[w] = "put_stats"
  PROVE  /\ Fresh(req[w].update) /\ req[w].update \notin NotedUpdates
         /\ \A v \in Worker : ~Closing(v)
         /\ Len(accuracies) + 1 = round_number
<1>1. Handling(w) /\ ~Closing(w) /\ ~Noted(w)
  BY DEF Handling, Closing, Noted, Results
<1>2. \A v \in Worker : ~Closing(v)
  BY <1>1, NothingLeft
<1>3. started
  BY <1>1 DEF Inv, Rounds, Quiet, NothingOnItsWay
<1>4. Len(accuracies) + 1 = round_number
  BY <1>2, <1>3 DEF Inv, Rounds, Versions, Closing
<1>5. req[w].update \notin Counted
  BY <1>1 DEF Inv, Rounds, NotYetCounted, Counted, Shape, RoundShape
<1>6. ASSUME NEW v \in Worker, Adding(v) PROVE req[v].update # req[w].update
  BY <1>1, <1>6 DEF Inv, Rounds, Once, Adding, Noted, Handling, Results
<1> QED
  BY <1>1, <1>2, <1>4, <1>5, <1>6 DEF NotedUpdates, Inv, Rounds, AllFresh

\* Nothing but PutStats changes what a row should hold: an update that is
\* noted is later counted, and one that is counted is later averaged.
LEMMA SameUpdates ==
  ASSUME Inv, Rows, [Next]_vars, \A w \in Worker : ~PutStats(w),
         NEW r \in DOMAIN stats
  PROVE  RowUpdates(r)' = RowUpdates(r)
<1>1. /\ r \in Nat \ {0} /\ r <= round_number
      /\ r > Len(accuracies) => r = round_number /\ r = Len(accuracies) + 1
      /\ accuracies \in Seq(Model)
  BY RoundsPublished DEF Rows, Inv, Shape, FileShape, ModelShape
<1>2. ASSUME NEW w \in Worker, Evaluate(w)
      PROVE  RowUpdates(r)' = RowUpdates(r)
  <2>1. accuracies' = Append(accuracies, nn) /\ Closing(w)
    BY <1>2 DEF Evaluate, Closing
  <2>2. CASE r <= Len(accuracies)
    <3>1. r <= Len(accuracies') /\ accuracies'[r] = accuracies[r]
      BY <1>1, <2>1, <2>2
    <3> QED
      BY <2>2, <3>1 DEF RowUpdates, Summed
  <2>3. CASE r > Len(accuracies)
    <3>1. r <= Len(accuracies') /\ accuracies'[r] = nn /\ nn.sum = weights
      BY <1>1, <1>2, <2>1, <2>3 DEF Evaluate, Inv, Rounds, Versions
    <3>2. Counted = Summed(weights)
      BY <2>1, AllSummed DEF Counted
    <3>3. ASSUME NEW v \in Worker PROVE ~Adding(v)
      BY <2>1, NothingLeft DEF Adding, Noted, Handling, Results
    <3>4. NotedUpdates = Summed(weights)
      BY <3>2, <3>3 DEF NotedUpdates
    <3> QED
      BY <1>1, <2>3, <3>1, <3>4, RoundsPublished DEF RowUpdates, Summed
  <2> QED
    BY <1>1, <2>2, <2>3, RoundsPublished
<1>3. ASSUME \A w \in Worker : ~Evaluate(w)
      PROVE  accuracies' = accuracies
  BY <1>3, ModelWriters DEF Accumulate, Average
<1>4. ASSUME NEW w \in Worker, Accumulate(w)
      PROVE  NotedUpdates' = NotedUpdates
  <2>1. /\ Adding(w) /\ ~Adding(w)' /\ responded' = responded + 1
    BY <1>4 DEF Accumulate, Adding, Noted, Closing, Goto, Done, Inv, Shape,
         WorkerShape
  <2>2. Counted' = Counted \cup {req[w].update}
    BY <1>4, <2>1, CountedAfter, RoundsPublished DEF Counted, Summed
  <2>3. ASSUME NEW v \in Worker, v # w
        PROVE  (Adding(v)' <=> Adding(v)) /\ (Adding(v) => req'[v] = req[v])
    <3>1. ~Accumulate(v)
      BY <1>4, <2>3 DEF Inv, ResultLock, Locked, Accumulate
    <3> QED
      BY <2>3, <3>1, NotedIsAdded
  <2> QED
    BY <2>1, <2>2, <2>3 DEF NotedUpdates
<1>5. ASSUME \A w \in Worker : ~Accumulate(w), r > Len(accuracies)
      PROVE  NotedUpdates' = NotedUpdates
  <2>1. \A w \in Worker : ~Finish(w)
    BY <1>1, <1>5, RoundsPublished DEF Finish, Inv, Rounds, Versions
  <2>2. responded' = responded /\ weights' = weights
    BY <1>5, <2>1, RoundWriters, ModelWriters
       DEF StartRound, result_vars, Average, Evaluate
  <2>3. \A v \in Worker : /\ Adding(v)' <=> Adding(v)
                          /\ Adding(v) => req'[v] = req[v]
    BY <1>5, NotedIsAdded
  <2> QED
    BY <2>2, <2>3 DEF NotedUpdates, Counted, Summed
<1>6. ASSUME \A w \in Worker : ~Evaluate(w)
      PROVE  RowUpdates(r)' = RowUpdates(r)
  <2>1. CASE r <= Len(accuracies)
    BY <1>3, <1>6, <2>1 DEF RowUpdates, Summed
  <2>2. CASE r > Len(accuracies)
    <3>1. ~(r <= Len(accuracies))
      BY <1>1, <2>2, RoundsPublished
    <3>2. NotedUpdates' = NotedUpdates
      BY <1>4, <1>5, <2>2
    <3> QED
      BY <1>3, <1>6, <3>1, <3>2 DEF RowUpdates
  <2> QED
    BY <1>1, <2>1, <2>2, RoundsPublished
<1> QED
  BY <1>2, <1>6

\* A row that holds some updates goes on to hold one more.
LEMMA HoldsOneMore ==
  ASSUME NEW row \in Seq(Nat), NEW updates, Holds(row, updates),
         NEW u, u \notin updates, NEW id \in Nat, ~Faulty => id = u.entry
  PROVE  Holds(Append(row, id), updates \cup {u})
<1>1. /\ Len(Append(row, id)) = Len(row) + 1
      /\ \A j \in 1 .. Len(row) : Append(row, id)[j] = row[j]
      /\ Append(row, id)[Len(row) + 1] = id
      /\ DOMAIN Append(row, id) = 1 .. Len(row) + 1
      /\ DOMAIN row = 1 .. Len(row)
  OBVIOUS
<1>2. Names(Append(row, id)) = Names(row) \cup {id}
  BY <1>1 DEF Names
<1>3. /\ IsFiniteSet(updates \cup {u})
      /\ Cardinality(updates \cup {u}) = Cardinality(updates) + 1
  BY FS_AddElement DEF Holds
<1>4. {v.entry : v \in updates \cup {u}}
        = {v.entry : v \in updates} \cup {u.entry}
  OBVIOUS
<1> QED
  BY <1>1, <1>2, <1>3, <1>4 DEF Holds

\* update_stats puts the figures of its result in the row of the running
\* round, and leaves every other row alone.
LEMMA OneRowWritten ==
  ASSUME Inv, Rows, NEW w \in Worker, PutStats(w)
  PROVE  /\ round_number \in DOMAIN stats /\ DOMAIN stats' = DOMAIN stats
         /\ stats'[round_number] = Append(stats[round_number], req[w].id)
         /\ \A r \in DOMAIN stats : r # round_number => stats'[r] = stats[r]
<1>1. RoundNamed(w) = round_number /\ round_number \in Nat \ {0}
  BY NewlyNoted, BoundAssumption
     DEF PutStats, RoundNamed, Fresh, Update, Round
<1>2. stats \in Seq(Seq(Nat)) /\ Len(stats) = round_number
  BY DEF PutStats, Filed, Rows, Inv, Shape, FileShape
<1> QED
  BY <1>1, <1>2 DEF PutStats

\* Each step keeps the rows exact.
LEMMA RowsExactNext ==
  Inv /\ Rows /\ RowsExact /\ (~Faulty => Named) /\ [Next]_vars => RowsExact'
<1> SUFFICES ASSUME Inv, Rows, RowsExact, ~Faulty => Named, [Next]_vars
             PROVE  RowsExact'
  OBVIOUS
<1>1. CASE \A w \in Worker : ~UpdateStats(w) /\ ~PutStats(w)
  <2>1. stats' = stats
    BY <1>1, FileWriters, ReportStep
  <2>2. \A r \in DOMAIN stats : RowUpdates(r)' = RowUpdates(r)
    BY <1>1, SameUpdates
  <2> QED
    BY <2>1, <2>2 DEF RowsExact
<1>2. ASSUME NEW w \in Worker, UpdateStats(w) PROVE RowsExact'
  <2>1. \A v \in Worker : ~PutStats(v) /\ ~Accumulate(v)
    BY <1>2 DEF UpdateStats, PutStats, Accumulate, Goto, Done, Inv, Shape,
         WorkerShape
  <2>2. ASSUME NEW r \in DOMAIN stats
        PROVE  stats'[r] = stats[r] /\ RowUpdates(r)' = RowUpdates(r)
    BY <1>2, <2>1, RowAdded, SameUpdates
  <2>3. ASSUME Len(stats) < round_number
        PROVE  Holds(stats[round_number], RowUpdates(round_number))'
    <3>1. /\ ~(round_number <= Len(accuracies))
          /\ UNCHANGED <<accuracies, responded, weights, round_number>>
      BY <1>2, <2>3, RoundsPublished
         DEF Rows, UpdateStats, round_vars, result_vars
    <3>2. Counted = {} /\ \A v \in Worker : ~Adding(v)
      BY <2>3, RoundsPublished DEF Rows, Counted, Adding, Filed
    <3>3. \A v \in Worker : ~Adding(v)'
      BY <2>1, <3>2, NotedIsAdded
    <3>4. NotedUpdates' = {}
      BY <3>1, <3>2, <3>3 DEF NotedUpdates, Counted, Summed
    <3>5. RowUpdates(round_number)' = {} /\ stats'[round_number] = <<>>
      BY <1>2, <2>3, <3>1, <3>4, RowAdded DEF RowUpdates
    <3> QED
      BY <3>1, <3>5, FS_EmptySet DEF Holds, Names
  <2>4. ASSUME NEW r \in DOMAIN stats' PROVE Holds(stats[r], RowUpdates(r))'
    <3>1. CASE r \in DOMAIN stats
      BY <2>2, <3>1 DEF RowsExact
    <3>2. CASE Len(stats) < round_number /\ r = round_number
      <4>1. round_number' = round_number
        BY <1>2 DEF UpdateStats, round_vars
      <4> QED
        BY <2>3, <3>2, <4>1
    <3> QED
      BY <1>2, <3>1, <3>2, RowAdded
  <2> QED
    BY <2>4 DEF RowsExact
<1>3. ASSUME NEW w \in Worker, PutStats(w) PROVE RowsExact'
  <2> DEFINE R == round_number
             u == req[w].update
  <2>1. /\ u \notin NotedUpdates /\ Len(accuracies) + 1 = R
        /\ UNCHANGED <<accuracies, responded, weights, req, round_number>>
        /\ wpc[w] = "put_stats" /\ wpc'[w] = "check_round"
        /\ Handling(w)
    BY <1>3, NewlyNoted
       DEF PutStats, result_vars, round_vars, Goto, Inv, Shape,
           WorkerShape, Handling, Results
  <2>2. \A v \in Worker : Adding(v)' <=> Adding(v) \/ v = w
    <3>1. Adding(w)'
      BY <2>1 DEF Adding, Noted, Closing
    <3>2. ASSUME NEW v \in Worker, v # w PROVE Adding(v)' <=> Adding(v)
      BY <1>3, <3>2
         DEF PutStats, Goto, Adding, Noted, Closing, Inv, Shape, WorkerShape
    <3> QED
      BY <3>1, <3>2
  <2>3. NotedUpdates' = NotedUpdates \cup {u}
    BY <2>1, <2>2 DEF NotedUpdates, Counted, Summed
  <2>4. /\ R \in DOMAIN stats /\ DOMAIN stats' = DOMAIN stats
        /\ stats'[R] = Append(stats[R], req[w].id)
        /\ \A r \in DOMAIN stats : r # R => stats'[r] = stats[r]
    BY <1>3, OneRowWritten
  <2>5. req[w].id \in Nat /\ (~Faulty => req[w].id = u.entry)
    BY <2>1, BoundAssumption
       DEF Named, Inv, Shape, WorkerShape, AnyResult, Handling
  <2>6. stats[R] \in Seq(Nat) /\ Holds(stats[R], NotedUpdates)
    BY <2>1, <2>4, RoundsPublished
       DEF RowsExact, RowUpdates, Inv, Shape, FileShape
  <2>7. Holds(Append(stats[R], req[w].id), NotedUpdates \cup {u})
    BY <2>1, <2>5, <2>6, HoldsOneMore
  <2>8. RowUpdates(R)' = NotedUpdates \cup {u}
    BY <2>1, <2>3, RoundsPublished DEF RowUpdates
  <2>9. ASSUME NEW r \in DOMAIN stats, r # R
        PROVE  RowUpdates(r)' = RowUpdates(r)
    <3>1. r <= Len(accuracies)
      BY <2>1, <2>9, RoundsPublished DEF Rows, Inv, Shape, FileShape
    <3> QED
      BY <2>1, <3>1 DEF RowUpdates, Summed
  <2> HIDE DEF u
  <2>10. ASSUME NEW r \in DOMAIN stats PROVE Holds(stats[r], RowUpdates(r))'
    <3>1. CASE r = R
      BY <2>1, <2>4, <2>7, <2>8, <3>1
    <3>2. CASE r # R
      BY <2>4, <2>9, <3>2 DEF RowsExact
    <3> QED
      BY <3>1, <3>2
  <2> QED
    BY <2>4, <2>10 DEF RowsExact
<1> QED
  BY <1>1, <1>2, <1>3

-----------------------------------------------------------------------------
(* Who is who, as long as no device restarts and no reply is lost. *)

Known(d) == \E e \in DOMAIN clients : clients[e] = d

\* No device is registered twice.
OneEntryEach ==
  \A e, f \in DOMAIN clients : clients[e] = clients[f] => e = f

\* A device is registered between its request for an id and the reply.
DevicesKnown ==
  \A d \in Device :
    /\ phase[d] = "off" \/ id_conn[d] = "backlog" => ~Known(d)
    /\ id_conn[d] # "none" => phase[d] = "boot"
    /\ phase[d] \in {"loading", "serving"} =>
         device_id[d] \in DOMAIN clients /\ clients[device_id[d]] = d

\* The handler of a request for an id is the only one of its device.
HandlersKnow ==
  \A w \in Worker :
    /\ wpc[w] \in {"send_id", "reply_id"} => id_conn[req[w].peer] = w
    /\ wpc[w] = "send_id" => ~Known(req[w].peer)
    /\ wpc[w] = "reply_id" =>
         req[w].id \in DOMAIN clients /\ clients[req[w].id] = req[w].peer

Identity == OneEntryEach /\ DevicesKnown /\ HandlersKnow

\* No registration is begun, and none goes on.
SameIds ==
  /\ UNCHANGED <<clients, phase, device_id, id_conn>>
  /\ \A w \in Worker : wpc'[w] \in {"send_id", "reply_id"} =>
       wpc'[w] = wpc[w] /\ req'[w] = req[w]

\* The steps of a registration; without faults nothing else takes part in it.
LEMMA IdWriters ==
  ASSUME Shape, ~Faulty, [Next]_vars
  PROVE  \/ \E w \in Worker :
              SendId(w) \/ ReplyId(w) \/ \E d \in Device : AcceptId(w, d)
         \/ \E d \in Device : Boot(d) \/ Listen(d)
         \/ SameIds
<1> USE DEF SameIds, Shape, WorkerShape, data_vars, client_vars, worker_vars,
            device_vars
<1>1. CASE Scheduler
  BY <1>1, ReportStep
     DEF Scheduler, CheckRounds, WakeAndCheckStarted, BeginScan, Ping,
         PingRefused, Pong, PingBroken, NextClient, EndScan, Decide,
         LockStart, StartRound, BeginBroadcast, SkipNotReady, SendTrain,
         TrainFails, EndBroadcast
<1>2. CASE ListenerCheck
  BY <1>2 DEF ListenerCheck
<1>3. ASSUME NEW w \in Worker,
             AcceptShutdown(w) \/ \E p \in posts : AcceptResult(w, p)
      PROVE  SameIds
  BY <1>3 DEF AcceptResult, AcceptShutdown, Accept
<1>4. ASSUME NEW w \in Worker, Handler(w), ~SendId(w), ~ReplyId(w)
      PROVE  SameIds
  BY <1>4 DEF Handler, ExtractId, RecvContent, UpdateStats, PutStats,
       CheckRound, LockResult, Accumulate, Average, Evaluate, Finish,
       SetShutdown, Goto, Done
<1>5. ASSUME NEW d \in Device, Train(d) PROVE SameIds
  BY <1>5 DEF Train
<1>6. CASE Fault
  BY <1>6 DEF Fault, OperatorShutdown, LoseId, LoseTrain, Crash
<1>7. CASE UNCHANGED vars
  BY <1>7 DEF vars
<1> QED
  BY <1>1, <1>2, <1>3, <1>4, <1>5, <1>6, <1>7
     DEF Next, Running, Exited, Listener, DeviceStep

\* Each step of a run without faults keeps the devices known for what they
\* are: a registration has one handler from its acceptance to its reply.
LEMMA IdentityNext ==
  ASSUME Shape, Identity, ~Faulty, [Next]_vars PROVE Identity'
<1>1. /\ clients \in Seq(Device) /\ Len(clients) \in Nat
      /\ DOMAIN clients = 1 .. Len(clients)
      /\ phase \in [Device -> {"off", "boot", "loading", "serving"}]
      /\ device_id \in [Device -> 0 .. MaxClients]
      /\ id_conn \in [Device -> {"none", "backlog"} \cup Worker]
      /\ wpc \in [Worker -> Results \cup Waiting]
      /\ req \in [Worker -> AnyResult \cup Registration \cup {NoRequest}]
      /\ "none" \notin Worker /\ "backlog" \notin Worker
  BY WorkerAssumption
     DEF Shape, ClientShape, DeviceShape, WorkerShape
<1>2. ASSUME NEW w \in Worker, SendId(w) PROVE Identity'
  <2>1. PICK d \in Device : d = req[w].peer
    BY <1>2 DEF SendId, Shape, WorkerShape, Registration
  <2>2. /\ id_conn[d] = w /\ ~Known(d) /\ phase[d] = "boot"
        /\ wpc[w] = "send_id"
    BY <1>1, <1>2, <2>1
       DEF SendId, Identity, HandlersKnow, DevicesKnown
  <2>3. /\ clients' = Append(clients, d)
        /\ wpc' = [wpc EXCEPT ![w] = "reply_id"]
        /\ req' = [req EXCEPT ![w] = [peer |-> d, id |-> Len(clients) + 1]]
        /\ UNCHANGED <<phase, device_id, id_conn>>
    BY <1>2, <2>1 DEF SendId, device_vars
  <2>4. /\ DOMAIN clients' = DOMAIN clients \cup {Len(clients) + 1}
        /\ Len(clients) + 1 \notin DOMAIN clients
        /\ clients'[Len(clients) + 1] = d
        /\ \A e \in DOMAIN clients : clients'[e] = clients[e]
    BY <1>1, <2>3
  <2>5. \A c : Known(c)' <=> Known(c) \/ c = d
    BY <2>4 DEF Known
  <2>6. OneEntryEach'
    BY <2>2, <2>4 DEF OneEntryEach, Identity, Known
  <2>7. DevicesKnown'
    BY <1>1, <2>2, <2>3, <2>4, <2>5 DEF DevicesKnown, Identity
  <2>8. HandlersKnow'
    <3>1. ASSUME NEW v \in Worker, v # w
          PROVE  wpc'[v] = wpc[v] /\ req'[v] = req[v]
      BY <1>1, <2>3, <3>1
    <3>2. ASSUME NEW v \in Worker, v # w, wpc[v] = "send_id"
          PROVE  req[v].peer # d
      BY <2>2, <3>2 DEF HandlersKnow, Identity
    <3>3. /\ wpc'[w] = "reply_id" /\ req'[w].peer = d
          /\ req'[w].id = Len(clients) + 1
      BY <1>1, <2>3
    <3> QED
      BY <2>2, <2>3, <2>4, <2>5, <3>1, <3>2, <3>3
         DEF HandlersKnow, Identity
  <2> QED
    BY <2>6, <2>7, <2>8 DEF Identity
<1>3. ASSUME NEW w \in Worker, ReplyId(w) PROVE Identity'
  <2>1. PICK d \in Device : d = req[w].peer
    BY <1>3 DEF ReplyId, Shape, WorkerShape, Registration
  <2>2. /\ id_conn[d] = w /\ req[w].id \in DOMAIN clients
        /\ clients[req[w].id] = d
    BY <1>3, <2>1 DEF ReplyId, Identity, HandlersKnow
  <2>3. /\ phase' = [phase EXCEPT ![d] = "loading"]
        /\ id_conn' = [id_conn EXCEPT ![d] = "none"]
        /\ device_id' = [device_id EXCEPT ![d] = req[w].id]
        /\ wpc' = [wpc EXCEPT ![w] = "idle"]
        /\ req' = [req EXCEPT ![w] = NoRequest]
        /\ clients' = clients
    BY <1>3, <2>1, <2>2 DEF ReplyId, Done, data_vars, client_vars
  <2>4. \A c : Known(c)' <=> Known(c)
    BY <2>3 DEF Known
  <2>5. OneEntryEach'
    BY <2>3 DEF OneEntryEach, Identity
  <2>6. DevicesKnown'
    BY <1>1, <2>2, <2>3, <2>4 DEF DevicesKnown, Identity
  <2>7. HandlersKnow'
    <3>1. ASSUME NEW v \in Worker, v # w
          PROVE  wpc'[v] = wpc[v] /\ req'[v] = req[v]
      BY <1>1, <2>3, <3>1
    <3>2. ASSUME NEW v \in Worker, v # w, wpc[v] \in {"send_id", "reply_id"}
          PROVE  req[v].peer # d /\ req[v].peer \in Device
      BY <2>2, <3>2 DEF HandlersKnow, Identity, Shape, WorkerShape,
                        Registration
    <3>3. wpc'[w] = "idle"
      BY <1>1, <2>3
    <3> QED
      BY <1>1, <2>3, <2>4, <3>1, <3>2, <3>3 DEF HandlersKnow, Identity
  <2> QED
    BY <2>5, <2>6, <2>7 DEF Identity
<1>4. ASSUME NEW w \in Worker, NEW d \in Device, AcceptId(w, d)
      PROVE  Identity'
  <2>1. /\ id_conn[d] = "backlog"
        /\ wpc' = [wpc EXCEPT ![w] = "send_id"]
        /\ req' = [req EXCEPT ![w] = [peer |-> d, id |-> NoId]]
        /\ id_conn' = [id_conn EXCEPT ![d] = w]
        /\ UNCHANGED <<clients, phase, device_id>>
    BY <1>4 DEF AcceptId, Accept, data_vars, client_vars
  <2>2. ~Known(d) /\ phase[d] = "boot"
    BY <2>1 DEF Identity, DevicesKnown
  <2>3. \A c : Known(c)' <=> Known(c)
    BY <2>1 DEF Known
  <2>4. OneEntryEach'
    BY <2>1 DEF OneEntryEach, Identity
  <2>5. DevicesKnown'
    BY <1>1, <2>1, <2>2, <2>3 DEF DevicesKnown, Identity
  <2>6. HandlersKnow'
    <3>1. ASSUME NEW v \in Worker, v # w
          PROVE  wpc'[v] = wpc[v] /\ req'[v] = req[v]
      BY <1>1, <2>1, <3>1
    <3>2. ASSUME NEW v \in Worker, v # w, wpc[v] \in {"send_id", "reply_id"}
          PROVE  req[v].peer # d /\ req[v].peer \in Device
      BY <1>1, <2>1, <3>2 DEF HandlersKnow, Identity, Shape, WorkerShape,
                              Registration
    <3>3. wpc'[w] = "send_id" /\ req'[w].peer = d
      BY <1>1, <2>1
    <3> QED
      BY <1>1, <2>1, <2>2, <2>3, <3>1, <3>2, <3>3 DEF HandlersKnow, Identity
  <2> QED
    BY <2>4, <2>5, <2>6 DEF Identity
<1>5. ASSUME NEW d \in Device, Boot(d) PROVE Identity'
  <2>1. /\ phase[d] = "off"
        /\ phase' = [phase EXCEPT ![d] = "boot"]
        /\ id_conn' = [id_conn EXCEPT ![d] = "backlog"]
        /\ device_id' = [device_id EXCEPT ![d] = NoId]
        /\ UNCHANGED <<clients, wpc, req>>
    BY <1>5 DEF Boot, data_vars, client_vars, worker_vars
  <2>2. \A c : Known(c)' <=> Known(c)
    BY <2>1 DEF Known
  <2>3. ~Known(d) /\ id_conn[d] = "none"
    BY <2>1 DEF Identity, DevicesKnown
  <2>4. \A w \in Worker : wpc[w] \in {"send_id", "reply_id"} =>
          req[w].peer # d /\ req[w].peer \in Device
    BY <1>1, <2>3 DEF HandlersKnow, Identity, Shape, WorkerShape,
                      Registration
  <2>5. OneEntryEach'
    BY <2>1 DEF OneEntryEach, Identity
  <2>6. DevicesKnown'
    BY <1>1, <2>1, <2>2, <2>3 DEF DevicesKnown, Identity
  <2>7. HandlersKnow'
    BY <1>1, <2>1, <2>2, <2>4 DEF HandlersKnow, Identity
  <2> QED
    BY <2>5, <2>6, <2>7 DEF Identity
<1>6. ASSUME NEW d \in Device, Listen(d) PROVE Identity'
  <2>1. /\ phase[d] = "loading"
        /\ phase' = [phase EXCEPT ![d] = "serving"]
        /\ UNCHANGED <<clients, device_id, id_conn, wpc, req>>
    BY <1>6 DEF Listen, data_vars, client_vars, worker_vars
  <2>2. \A c : Known(c)' <=> Known(c)
    BY <2>1 DEF Known
  <2>3. OneEntryEach' /\ HandlersKnow'
    BY <2>1, <2>2 DEF OneEntryEach, HandlersKnow, Identity
  <2>4. DevicesKnown'
    BY <1>1, <2>1, <2>2 DEF DevicesKnown, Identity
  <2> QED
    BY <2>3, <2>4 DEF Identity
<1>7. CASE SameIds
  <2>1. \A c : Known(c)' <=> Known(c)
    BY <1>7 DEF SameIds, Known
  <2> QED
    BY <1>7, <2>1
       DEF SameIds, Identity, OneEntryEach, DevicesKnown, HandlersKnow
<1> QED
  BY <1>2, <1>3, <1>4, <1>5, <1>6, <1>7, IdWriters

\* A device posts under the id of its one entry, and nobody changes a result
\* on its way.
LEMMA NamedNext ==
  ASSUME Inv, Identity, Named, [Next]_vars PROVE Named'
<1>1. ASSUME NEW d \in Device, Train(d) PROVE Named'
  <2>1. PICK u \in trains :
          /\ clients[u.entry] = d
          /\ posts' = posts \cup {[id |-> device_id[d], update |-> u]}
    BY <1>1 DEF Train, Answered
  <2>2. phase[d] = "serving" /\ UNCHANGED <<wpc, req>>
    BY <1>1 DEF Train, worker_vars
  <2>3. u.entry \in DOMAIN clients
    <3>1. u.entry \in ready
      BY <2>1 DEF Inv, Rounds, AllFresh, Fresh
    <3>2. ready \subseteq DOMAIN clients
      BY DEF Inv, Shape, ClientShape
    <3> QED
      BY <3>1, <3>2
  <2>4. device_id[d] = u.entry
    BY <2>1, <2>2, <2>3 DEF Identity, DevicesKnown, OneEntryEach
  <2> QED
    BY <2>1, <2>2, <2>4 DEF Named, Handling
<1>2. ASSUME NEW w \in Worker, NEW p \in posts, AcceptResult(w, p)
      PROVE  Named'
  BY <1>2 DEF AcceptResult, Accept, Named, Handling, Results, Inv, Shape,
              WorkerShape
<1>3. CASE Neutral
  BY <1>3 DEF Neutral, Named
<1>4. CASE StartRound \/ BeginBroadcast \/ SendTrain
  BY <1>4 DEF StartRound, BeginBroadcast, SendTrain, Named, Handling,
              net_vars, worker_vars
<1>5. ASSUME NEW w \in Worker,
             Accumulate(w) \/ Average(w) \/ Evaluate(w) \/ Finish(w)
      PROVE  Named'
  <2>1. posts' = posts
    BY <1>5 DEF Accumulate, Average, Evaluate, Finish, net_vars
  <2>2. ASSUME NEW v \in Worker, Handling(v)'
        PROVE  Handling(v) /\ req'[v] = req[v]
    BY <1>5, <2>2 DEF Accumulate, Average, Evaluate, Finish, Goto, Done,
         Handling, Results, Inv, Shape, WorkerShape
  <2> QED
    BY <2>1, <2>2 DEF Named
<1> QED
  BY <1>1, <1>2, <1>3, <1>4, <1>5, StepKinds DEF Inv

-----------------------------------------------------------------------------
(* The theorems. *)

\* What is written down of every round, with and without faults.
Figures == Rows /\ RowsExact /\ (~Faulty => Identity /\ Named)

\* The invariant of the statistics holds with and without faults.
LEMMA AlwaysFigures == Spec => []Figures
<1>1. ASSUME Init PROVE Figures
  <2>1. Rows /\ RowsExact
    BY <1>1 DEF Init, Rows, Filed, Noted, RowsExact
  <2>2. Identity
    BY <1>1
       DEF Init, Identity, OneEntryEach, DevicesKnown, HandlersKnow, Known
  <2>3. Named
    BY <1>1 DEF Init, Named, Handling, Results
  <2> QED
    BY <2>1, <2>2, <2>3 DEF Figures
<1>2. Inv /\ Figures /\ [Next]_vars => Figures'
  BY RowsNext, RowsExactNext, IdentityNext, NamedNext DEF Figures, Inv
<1> QED
  BY <1>1, <1>2, AlwaysInv, PTL DEF Spec

\* Without faults the statistics of each round name each of its clients once,
\* although a row is written before the round number is looked at.
THEOREM AlwaysStatsOncePerClient ==
  ASSUME ~Faulty PROVE Spec => []StatsOncePerClient
<1>1. ASSUME Inv, Figures, NEW r \in DOMAIN stats
      PROVE  LET ids == {stats[r][j] : j \in DOMAIN stats[r]} IN
             /\ Cardinality(ids) = Len(stats[r])
             /\ r <= Len(accuracies) =>
                  ids = {u.entry : u \in Summed(accuracies[r].sum)}
  <2> DEFINE S == RowUpdates(r)
             ids == Names(stats[r])
             f == [u \in S |-> u.entry]
  <2>1. /\ IsFiniteSet(S) /\ Len(stats[r]) = Cardinality(S)
        /\ ids = {u.entry : u \in S}
    BY <1>1 DEF Figures, RowsExact, Holds
  <2>2. ASSUME NEW u \in S, NEW v \in S, u.entry = v.entry PROVE u = v
    <3>1. CASE r <= Len(accuracies)
      <4>1. r \in DOMAIN accuracies
        BY <1>1, <3>1, RoundsPublished
           DEF Inv, Shape, FileShape, ModelShape
      <4>2. \A x \in Summed(accuracies[r].sum) :
              x \in Update /\ x.round = r /\ x.base = r - 1
        BY <1>1, <4>1 DEF Summed, Inv, Rounds, FedAvgExact
      <4>3. S = Summed(accuracies[r].sum)
        BY <3>1 DEF RowUpdates
      <4>4. u \in Update /\ v \in Update /\ u.round = v.round
            /\ u.base = v.base
        BY <4>2, <4>3
      <4> QED
        BY <2>2, <4>4 DEF Update
    <3>2. CASE ~(r <= Len(accuracies))
      <4>1. u \in NotedUpdates /\ v \in NotedUpdates
        BY <3>2 DEF RowUpdates
      <4>2. \A x \in NotedUpdates : Fresh(x)
        BY <1>1, RoundsPublished
           DEF NotedUpdates, Counted, Adding, Noted, Handling, Results, Inv,
               Rounds, AllFresh
      <4> QED
        BY <2>2, <4>1, <4>2, SameEntry
    <3> QED
      BY <3>1, <3>2
  <2>3. f \in Bijection(S, ids)
    <3>1. f \in [S -> ids] /\ \A e \in ids : \E u \in S : f[u] = e
      BY <2>1
    <3> QED
      BY <2>2, <3>1 DEF Bijection, Injection, Surjection, IsInjective
  <2>4. r <= Len(accuracies) => S = Summed(accuracies[r].sum)
    BY DEF RowUpdates
  <2>5. ids = {stats[r][j] : j \in DOMAIN stats[r]}
    BY DEF Names
  <2> HIDE DEF S, ids, f
  <2>6. Cardinality(ids) = Cardinality(S)
    BY <2>1, <2>3, FS_Bijection DEF ExistsBijection
  <2>7. r <= Len(accuracies) =>
          ids = {u.entry : u \in Summed(accuracies[r].sum)}
    BY <2>1, <2>4
  <2> QED
    BY <2>1, <2>5, <2>6, <2>7
<1>2. Inv /\ Figures => StatsOncePerClient
  BY <1>1 DEF StatsOncePerClient
<1> QED
  BY <1>2, AlwaysInv, AlwaysFigures, PTL

-----------------------------------------------------------------------------
(* The text of stats.json.  Every result still on its way belongs to the     *)
(* last round, so what write_stats reads of the rounds before it, without    *)
(* stats_mutex, no longer changes; only the last row and the number of rows  *)
(* may be caught on the move.                                                *)

\* write_stats runs when all the rounds are started, from an empty text.
Late ==
  /\ pc \in Report \cup Ended => round_number = NumRounds
  /\ pc \notin Report \cup Ended => file = <<>>

\* The row being printed, as long as it is not the last round's.
Current(at, r, row, figures) ==
  /\ row.accuracy = r
  /\ at = "row" => row.entries = <<>>
  /\ at # "row" => row.taken = ClientsPerRound
  /\ Len(row.entries) <= ClientsPerRound
  /\ at = "end_row" => Len(row.entries) = ClientsPerRound
  /\ at = "comma" => Len(row.entries) >= 1
  /\ \A j \in 1 .. Len(row.entries) :
       /\ row.entries[j].figures = figures
       /\ (at = "comma" /\ j = Len(row.entries))
          \/ (row.entries[j].comma <=> j < ClientsPerRound)

Printed ==
  /\ Len(file) <= NumRounds
  /\ \A r \in 1 .. Len(file) :
       /\ r < NumRounds
       /\ r # Len(file) \/ pc \in {"report", "exited"}
       => Complete(r, file[r], FirstFigures(stats[r]))
  /\ pc \in Report \ {"report"} /\ Len(file) < NumRounds =>
       Current(pc, Len(file), Row, FirstFigures(stats[Len(file)]))
  /\ pc = "exited" => NumRounds <= Len(file) + 1
  /\ pc = "undefined" =>
       Len(file) = NumRounds \/ NumRounds = 1 \/ Moves(NumRounds - 1)

\* What write_stats can find of the rounds before the last.
LEMMA WhileReporting ==
  ASSUME Inv, Figures, Late, pc \in Report
  PROVE  /\ NumRounds \in Nat /\ Len(stats) \in Nat /\ Len(file) \in Nat
         /\ Len(accuracies) \in Nat /\ NumRounds <= Len(accuracies) + 1
         /\ Len(stats) <= NumRounds /\ NumRounds <= Len(stats) + 1
         /\ \A r \in 1 .. NumRounds - 1 : Len(stats[r]) = ClientsPerRound
         /\ \A r \in 1 .. NumRounds - 1 : ~AddingTo(r)
         /\ AddingRow => NumRounds = Len(stats) + 1
         /\ \A n \in RowsRead :
              n \in Nat /\ n <= NumRounds /\ NumRounds <= n + 1
         /\ (\E w \in Worker : wpc[w] = "evaluate") =>
              NumRounds = Len(accuracies) + 1
<1>1. round_number = NumRounds
  BY DEF Late
<1>2. /\ NumRounds \in Nat /\ Len(stats) \in Nat /\ Len(file) \in Nat
      /\ Len(accuracies) \in Nat /\ NumRounds <= Len(accuracies) + 1
      /\ Len(stats) <= NumRounds /\ Len(accuracies) <= Len(stats)
      /\ accuracies \in Seq(Model) /\ stats \in Seq(Seq(Nat))
  BY <1>1, RoundsPublished
     DEF Figures, Rows, Inv, Shape, FileShape, ModelShape
<1>3. ASSUME NEW r \in 1 .. NumRounds - 1
      PROVE  Len(stats[r]) = ClientsPerRound
  <2>1. r \in DOMAIN stats /\ r <= Len(accuracies) /\ r \in DOMAIN accuracies
    BY <1>2
  <2> QED
    BY <2>1
       DEF Figures, RowsExact, Holds, RowUpdates, Inv, Rounds, FedAvgExact
<1>4. ASSUME NEW w \in Worker, wpc[w] \in {"update_stats", "put_stats"}
      PROVE  RoundNamed(w) = NumRounds
  BY <1>1, <1>4
     DEF RoundNamed, Inv, Rounds, AllFresh, Fresh, Handling, Results
<1>5. AddingRow => NumRounds = Len(stats) + 1
  BY <1>2, <1>4 DEF AddingRow
<1>6. ASSUME NEW n \in RowsRead
      PROVE  n \in Nat /\ n <= NumRounds /\ NumRounds <= n + 1
  BY <1>2, <1>5, <1>6 DEF RowsRead, Length
<1>7. ASSUME NEW w \in Worker, wpc[w] = "evaluate"
      PROVE  NumRounds = Len(accuracies) + 1
  <2>1. Closing(w)
    BY <1>7 DEF Closing
  <2> QED
    BY <1>1, <1>2, <1>7, <2>1, AllSummed, OneCloser
       DEF Inv, Rounds, Versions, Locked, Closing
<1>8. ASSUME NEW r \in 1 .. NumRounds - 1 PROVE ~AddingTo(r)
  BY <1>2, <1>4 DEF AddingTo
<1> QED
  BY <1>2, <1>3, <1>5, <1>6, <1>7, <1>8

\* The rows of the rounds before the last stay as they are.
LEMMA RowsStay ==
  ASSUME Inv, Figures, Late, pc \in Report \cup Ended, [Next]_vars,
         NEW r \in 1 .. NumRounds - 1
  PROVE  r \in DOMAIN stats /\ stats'[r] = stats[r]
<1>1. r \in DOMAIN stats /\ r # round_number
  BY RoundsPublished DEF Late, Figures, Rows, Inv, Shape, FileShape
<1>2. ASSUME NEW w \in Worker, UpdateStats(w) PROVE stats'[r] = stats[r]
  BY <1>1, <1>2, RowAdded DEF Figures
<1>3. ASSUME NEW w \in Worker, PutStats(w) PROVE stats'[r] = stats[r]
  BY <1>1, <1>3, OneRowWritten DEF Figures
<1> QED
  BY <1>1, <1>2, <1>3, FileWriters, ReportStep

\* The text after a step of write_stats, told by its last row.
LEMMA RowsSame ==
  ASSUME Printed, stats' = stats, Len(file) \in Nat, Len(file') = Len(file),
         pc' \in Report \ {"report"},
         \A r \in 1 .. Len(file) : r < NumRounds /\ r # Len(file) =>
           Complete(r, file'[r], FirstFigures(stats[r])),
         Len(file) < NumRounds =>
           Current(pc', Len(file), file'[Len(file)],
                   FirstFigures(stats[Len(file)]))
  PROVE  Printed'
<1>1. pc' \notin {"report", "exited", "undefined"}
  BY DEF Report
<1>2. Row' = file'[Len(file)]
  BY DEF Row
<1>3. Len(file') <= NumRounds
  BY DEF Printed
<1>4. \A r \in 1 .. Len(file') :
        /\ r < NumRounds
        /\ r # Len(file') \/ pc' \in {"report", "exited"}
        => Complete(r, file'[r], FirstFigures(stats'[r]))
  BY <1>1
<1>5. Len(file') < NumRounds =>
        Current(pc', Len(file'), Row', FirstFigures(stats'[Len(file')]))
  BY <1>2
<1> QED
  BY <1>1, <1>3, <1>4, <1>5 DEF Printed

\* A row with one field replaced has the other fields it had.
LEMMA FieldsKept ==
  ASSUME NEW A, NEW T, NEW E, NEW C,
         NEW row \in [accuracy : A, taken : T, entries : E, comma : C]
  PROVE  /\ \A n : /\ [row EXCEPT !.taken = n].accuracy = row.accuracy
                   /\ [row EXCEPT !.taken = n].taken = n
                   /\ [row EXCEPT !.taken = n].entries = row.entries
         /\ \A e : /\ [row EXCEPT !.entries = e].accuracy = row.accuracy
                   /\ [row EXCEPT !.entries = e].taken = row.taken
                   /\ [row EXCEPT !.entries = e].entries = e
         /\ \A c : /\ [row EXCEPT !.comma = c].accuracy = row.accuracy
                   /\ [row EXCEPT !.comma = c].entries = row.entries
                   /\ [row EXCEPT !.comma = c].comma = c
  OBVIOUS
LEMMA CommaSet ==
  ASSUME NEW F, NEW C, NEW e \in [figures : F, comma : C], NEW c
  PROVE  /\ [e EXCEPT !.comma = c].figures = e.figures
         /\ [e EXCEPT !.comma = c].comma = c
  OBVIOUS

LEMMA UntouchedPlace ==
  ASSUME NEW f, NEW i, NEW j \in DOMAIN f, NEW e, j # i
  PROVE  [f EXCEPT ![i] = e][j] = f[j]
  OBVIOUS

\* While a row is printed the rows above it stay complete.
LEMMA RowsAbove ==
  ASSUME Inv, Inv', Printed, pc \in Report, stats' = stats,
         NEW row, Len(file) >= 1, file' = [file EXCEPT ![Len(file)] = row]
  PROVE  /\ Len(file') = Len(file) /\ file'[Len(file)] = row
         /\ Row \in FileRow /\ Row = file[Len(file)]
         /\ \A r \in 1 .. Len(file) : r < NumRounds /\ r # Len(file) =>
              Complete(r, file'[r], FirstFigures(stats[r]))
<1>1. file \in Seq(FileRow) /\ file' \in Seq(FileRow)
  BY DEF Inv, Shape, FileShape
<1>2. Len(file) \in Nat /\ DOMAIN file = 1 .. Len(file)
  BY <1>1, LenProperties
<1>3. Len(file') = Len(file)
  BY <1>1, ReplacedLen
<1>4. file'[Len(file)] = row /\ Row \in FileRow /\ Row = file[Len(file)]
  BY <1>1, <1>2, ElementOfSeq DEF Row
<1>5. ASSUME NEW r \in 1 .. Len(file), r < NumRounds, r # Len(file)
      PROVE  Complete(r, file'[r], FirstFigures(stats[r]))
  <2>1. Complete(r, file[r], FirstFigures(stats[r]))
    BY <1>5 DEF Printed
  <2>2. r \in DOMAIN file
    BY <1>2
  <2>3. file'[r] = file[r]
    BY <1>5, <2>2, UntouchedPlace
  <2> QED
    BY <2>1, <2>3
<1> QED
  BY <1>3, <1>4, <1>5

\* Each step of write_stats on the way prints the row as it should be.
LEMMA PrintedTake ==
  ASSUME Inv, Inv', Figures, Late, Printed, TakeRow PROVE Printed'
<1> DEFINE L == Len(file)
<1>1. pc = "row" /\ pc' = "entry" /\ L <= Len(stats) /\ stats' = stats
  BY DEF TakeRow, Reporting
<1>2. L >= 1 /\ pc \in Report
  BY <1>1 DEF Inv, Shape, FileShape, Placed, Report
<1>3. PICK n \in Length(Len(stats[L]), AddingTo(L), 0) :
             file' = [file EXCEPT ![L] = [Row EXCEPT !.taken = n]]
  BY DEF TakeRow, Row
<1>4. /\ Len(file') = L /\ file'[L] = [Row EXCEPT !.taken = n]
      /\ Row \in FileRow /\ Row = file[L]
      /\ \A r \in 1 .. L : r < NumRounds /\ r # L =>
           Complete(r, file'[r], FirstFigures(stats[r]))
  BY <1>1, <1>2, <1>3, RowsAbove
<1>5. /\ file'[L].accuracy = file[L].accuracy /\ file'[L].taken = n
      /\ file'[L].entries = file[L].entries
  BY <1>4, FieldsKept DEF FileRow
<1>6. ASSUME L < NumRounds PROVE n = ClientsPerRound
  <2>1. Len(stats[L]) = ClientsPerRound /\ ~AddingTo(L)
    BY <1>2, <1>6, WhileReporting
  <2> QED
    BY <1>3, <2>1, BoundAssumption DEF Length
<1>7. ASSUME L < NumRounds
      PROVE  Current(pc', L, file'[L], FirstFigures(stats[L]))
  <2>1. file[L].entries = <<>> /\ file[L].accuracy = L
    BY <1>1, <1>2, <1>4, <1>7 DEF Printed, Current
  <2>2. /\ file'[L].entries = <<>> /\ Len(file'[L].entries) = 0
        /\ file'[L].accuracy = L /\ file'[L].taken = ClientsPerRound
        /\ 1 .. Len(file'[L].entries) = {}
    BY <1>5, <1>6, <1>7, <2>1
  <2> QED
    BY <1>1, <2>2, BoundAssumption DEF Current
<1>8. Len(file) \in Nat /\ pc' \in Report \ {"report"}
  BY <1>1, WhileReporting, <1>2 DEF Report
<1> HIDE DEF L
<1> QED
  BY <1>1, <1>4, <1>7, <1>8, RowsSame DEF L

LEMMA PrintedEntry ==
  ASSUME Inv, Inv', Figures, Late, Printed, PrintEntry PROVE Printed'
<1> DEFINE L == Len(file)
           e == [figures |-> FirstFigures(stats[L]), comma |-> FALSE]
           es == Append(Row.entries, e)
<1>1. pc = "entry" /\ pc' = "comma" /\ stats' = stats
  BY DEF PrintEntry, Reporting
<1>2. L >= 1 /\ pc \in Report /\ L \in Nat
  BY <1>1, WhileReporting DEF Inv, Shape, FileShape, Placed, Report
<1>3. file' = [file EXCEPT ![L] = [Row EXCEPT !.entries = es]]
  BY DEF PrintEntry, Row
<1>4. /\ Len(file') = L /\ file'[L] = [Row EXCEPT !.entries = es]
      /\ Row \in FileRow /\ Row = file[L]
      /\ \A r \in 1 .. L : r < NumRounds /\ r # L =>
           Complete(r, file'[r], FirstFigures(stats[r]))
  <2> HIDE DEF es
  <2> QED
    BY <1>1, <1>2, <1>3, RowsAbove
<1>5. /\ file'[L].accuracy = file[L].accuracy
      /\ file'[L].taken = file[L].taken /\ file'[L].entries = es
  <2> HIDE DEF es
  <2> QED
    BY <1>4, FieldsKept DEF FileRow
<1>6. ASSUME L < NumRounds PROVE Len(Row.entries) < ClientsPerRound
  <2>1. Len(stats[L]) = ClientsPerRound /\ ~AddingTo(L)
    BY <1>2, <1>6, WhileReporting
  <2>2. Row.taken = ClientsPerRound
    BY <1>1, <1>2, <1>6 DEF Printed, Current
  <2> QED
    BY <2>1, <2>2, BoundAssumption DEF PrintEntry, EntriesRead, Length
<1>7. ASSUME L < NumRounds
      PROVE  Current(pc', L, file'[L], FirstFigures(stats[L]))
  <2> DEFINE old == Row.entries
             first == FirstFigures(stats[L])
  <2>1. Current("entry", L, Row, first)
    BY <1>1, <1>2, <1>7 DEF Printed
  <2>2. old \in Seq(FileEntry)
    BY <1>4 DEF FileRow
  <2>3. /\ Len(es) = Len(old) + 1 /\ Len(old) \in Nat /\ es[Len(old) + 1] = e
        /\ \A j \in 1 .. Len(old) : es[j] = old[j]
    <3> HIDE DEF old, e
    <3> QED
      BY <2>2 DEF old
  <2>4. e.figures = first
    OBVIOUS
  <2>5. \A j \in 1 .. Len(old) : old[j].figures = first
                             /\ (old[j].comma <=> j < ClientsPerRound)
    BY <2>1 DEF Current
  <2>6. Len(old) < ClientsPerRound
    BY <1>6, <1>7
  <2> HIDE DEF old, first, e, es
  <2>7. Len(es) <= ClientsPerRound /\ Len(es) >= 1
    BY <2>3, <2>6, BoundAssumption
  <2>8. ASSUME NEW j \in 1 .. Len(es)
        PROVE  /\ es[j].figures = first
               /\ (j = Len(es)) \/ (es[j].comma <=> j < ClientsPerRound)
    <3>1. CASE j \in 1 .. Len(old)
      BY <2>3, <2>5, <3>1
    <3>2. CASE j \notin 1 .. Len(old)
      <4>1. j = Len(es)
        BY <2>3, <3>2
      <4> QED
        BY <2>3, <2>4, <4>1
    <3> QED
      BY <3>1, <3>2
  <2>9. file'[L].accuracy = L /\ file'[L].taken = ClientsPerRound
    BY <1>4, <1>5, <2>1 DEF Current
  <2> QED
    BY <1>1, <1>5, <2>7, <2>8, <2>9 DEF Current, first
<1>8. pc' \in Report \ {"report"}
  BY <1>1 DEF Report
<1> HIDE DEF L, e, es
<1> QED
  BY <1>1, <1>2, <1>4, <1>7, <1>8, RowsSame DEF L

LEMMA PrintedComma ==
  ASSUME Inv, Inv', Figures, Late, Printed, EntryComma PROVE Printed'
<1> DEFINE L == Len(file)
           at == Len(Row.entries)
<1>1. pc = "comma" /\ pc' = "entry" /\ stats' = stats
  BY DEF EntryComma, Reporting
<1>2. L >= 1 /\ pc \in Report /\ L \in Nat
  BY <1>1, WhileReporting DEF Inv, Shape, FileShape, Placed, Report
<1>3. PICK n \in EntriesRead :
        file' = [file EXCEPT ![Len(file)].entries[Len(Row.entries)].comma =
                   NotTheLast(Len(Row.entries), n)]
  BY DEF EntryComma
<1> DEFINE e == [Row.entries[at] EXCEPT !.comma = NotTheLast(at, n)]
           es == [Row.entries EXCEPT ![at] = e]
<1>4. file' = [file EXCEPT ![L] = [Row EXCEPT !.entries = es]]
  BY <1>3 DEF Row
<1>5. /\ Len(file') = L /\ file'[L] = [Row EXCEPT !.entries = es]
      /\ Row \in FileRow /\ Row = file[L]
      /\ \A r \in 1 .. L : r < NumRounds /\ r # L =>
           Complete(r, file'[r], FirstFigures(stats[r]))
  <2> HIDE DEF es
  <2> QED
    BY <1>1, <1>2, <1>4, RowsAbove
<1>6. /\ file'[L].accuracy = file[L].accuracy
      /\ file'[L].taken = file[L].taken /\ file'[L].entries = es
  <2> HIDE DEF es
  <2> QED
    BY <1>5, FieldsKept DEF FileRow
<1>7. ASSUME L < NumRounds PROVE n = ClientsPerRound
  <2>1. Len(stats[L]) = ClientsPerRound /\ ~AddingTo(L)
    BY <1>2, <1>7, WhileReporting
  <2>2. Row.taken = ClientsPerRound
    BY <1>1, <1>2, <1>7 DEF Printed, Current
  <2> QED
    BY <1>3, <2>1, <2>2, BoundAssumption DEF EntriesRead, Length
<1>8. ASSUME L < NumRounds
      PROVE  Current(pc', L, file'[L], FirstFigures(stats[L]))
  <2> DEFINE old == Row.entries
             first == FirstFigures(stats[L])
  <2>1. Current("comma", L, Row, first)
    BY <1>1, <1>2, <1>8 DEF Printed
  <2>2. old \in Seq(FileEntry) /\ at \in 1 .. at /\ at \in Nat
    <3>1. old \in Seq(FileEntry)
      BY <1>5 DEF FileRow
    <3>2. at >= 1
      BY <2>1 DEF Current
    <3> QED
      BY <3>1, <3>2
  <2>3. DOMAIN old = 1 .. at
    BY <2>2, LenProperties
  <2>4. old[at] \in FileEntry
    BY <2>2, ElementOfSeq
  <2>5. e.figures = old[at].figures /\ e.comma = NotTheLast(at, n)
    BY <2>4, CommaSet DEF FileEntry
  <2>6. /\ es[at] = e
        /\ \A j \in 1 .. at : j # at => es[j] = old[j]
    <3> HIDE DEF e
    <3> QED
      BY <2>2, <2>3
  <2>7. Len(es) = at
    <3>1. e \in FileEntry
      BY <2>4, EntryWith DEF NotTheLast
    <3>2. es \in Seq(FileEntry)
      <4> HIDE DEF e, at
      <4> QED
        BY <2>2, <3>1, ReplacedInSeq
    <3> HIDE DEF e
    <3> QED
      BY <2>2, <3>2, ReplacedLen
  <2>8. \A j \in 1 .. at :
           /\ old[j].figures = first
           /\ j = at \/ (old[j].comma <=> j < ClientsPerRound)
    BY <2>1 DEF Current
  <2>9. at <= ClientsPerRound
    BY <2>1 DEF Current
  <2>10. e.comma <=> at < ClientsPerRound
    <3> HIDE DEF at, e
    <3>1. at # n <=> at < ClientsPerRound
      BY <1>7, <1>8, <2>2, <2>9, BoundAssumption
    <3>2. NotTheLast(at, n) <=> at < ClientsPerRound
      BY <3>1 DEF NotTheLast
    <3> QED
      BY <2>5, <3>2, Zenon
  <2> HIDE DEF old, first, e, es, at
  <2>11. ASSUME NEW j \in 1 .. at
         PROVE  /\ es[j].figures = first
                /\ es[j].comma <=> j < ClientsPerRound
    <3>1. CASE j = at
      BY <2>2, <2>5, <2>6, <2>8, <2>10, <3>1
    <3>2. CASE j # at
      BY <2>6, <2>8, <3>2
    <3> QED
      BY <3>1, <3>2
  <2>12. file'[L].accuracy = L /\ file'[L].taken = ClientsPerRound
    BY <1>5, <1>6, <2>1 DEF Current
  <2> QED
    BY <1>1, <1>6, <2>7, <2>9, <2>11, <2>12 DEF Current, first
<1>9. pc' \in Report \ {"report"}
  BY <1>1 DEF Report
<1> HIDE DEF L, e, es, at
<1> QED
  BY <1>1, <1>2, <1>5, <1>8, <1>9, RowsSame DEF L

\* At the end of a row its comma is set, and the row is complete.
LEMMA PrintedRow ==
  ASSUME Inv, Inv', Figures, Late, Printed, RowComma PROVE Printed'
<1> DEFINE L == Len(file)
<1>1. pc = "end_row" /\ pc' = "report" /\ stats' = stats
  BY DEF RowComma, Reporting
<1>2. L >= 1 /\ pc \in Report /\ L \in Nat
  BY <1>1, WhileReporting DEF Inv, Shape, FileShape, Placed, Report
<1>3. PICK n \in RowsRead :
        file' = [file EXCEPT ![L] = [Row EXCEPT !.comma = NotTheLast(L, n)]]
  BY DEF RowComma, Row
<1>4. /\ Len(file') = L
      /\ file'[L] = [Row EXCEPT !.comma = NotTheLast(L, n)]
      /\ Row \in FileRow /\ Row = file[L]
      /\ \A r \in 1 .. L : r < NumRounds /\ r # L =>
           Complete(r, file'[r], FirstFigures(stats[r]))
  BY <1>1, <1>2, <1>3, RowsAbove
<1>5. /\ file'[L].accuracy = file[L].accuracy
      /\ file'[L].entries = file[L].entries
      /\ file'[L].comma = NotTheLast(L, n)
  BY <1>4, FieldsKept DEF FileRow
<1>6. L < NumRounds - 1 => NotTheLast(L, n)
  <2>1. n \in Nat /\ NumRounds <= n + 1 /\ NumRounds \in Nat
    BY <1>2, <1>3, WhileReporting
  <2> QED
    BY <1>2, <2>1 DEF NotTheLast
<1>7. ASSUME L < NumRounds
      PROVE  Complete(L, file'[L], FirstFigures(stats[L]))
  <2> DEFINE first == FirstFigures(stats[L])
             es == file[L].entries
  <2>1. Current("end_row", L, file[L], first)
    BY <1>1, <1>2, <1>4, <1>7 DEF Printed
  <2>2. /\ file'[L].accuracy = L /\ Len(es) = ClientsPerRound
        /\ \A j \in 1 .. ClientsPerRound :
             /\ es[j].figures = first
             /\ es[j].comma <=> j < ClientsPerRound
    BY <1>5, <2>1 DEF Current
  <2>3. L < NumRounds - 1 => file'[L].comma
    BY <1>5, <1>6, Zenon
  <2>4. file'[L].entries = es
    BY <1>5
  <2> HIDE DEF first, es
  <2> QED
    BY <2>2, <2>3, <2>4, Zenon DEF Complete, first
<1>8. ASSUME NEW r \in 1 .. Len(file'), r < NumRounds
      PROVE  Complete(r, file'[r], FirstFigures(stats'[r]))
  BY <1>1, <1>4, <1>7, <1>8
<1>9. Len(file') <= NumRounds
  BY <1>4 DEF Printed
<1> HIDE DEF L
<1> QED
  BY <1>1, <1>8, <1>9 DEF Printed, Report

\* A new row is headed by the accuracy of its round.
LEMMA PrintedHead ==
  ASSUME Inv, Inv', Figures, Late, Printed, PrintHead PROVE Printed'
<1> DEFINE L == Len(file)
           head == [accuracy |-> IF L < Len(accuracies) THEN L + 1
                                                        ELSE NoAccuracy,
                    taken |-> 0, entries |-> <<>>, comma |-> FALSE]
<1>1. /\ pc = "report" /\ pc' = "row" /\ stats' = stats /\ pc \in Report
      /\ file' = Append(file, head)
  BY DEF PrintHead, Reporting, Report
<1>2. PICK n \in RowsRead : L < n
  BY DEF PrintHead
<1>3. /\ L \in Nat /\ n \in Nat /\ n <= NumRounds /\ NumRounds \in Nat
      /\ Len(accuracies) \in Nat /\ NumRounds <= Len(accuracies) + 1
  BY <1>1, <1>2, WhileReporting
<1>4. /\ Len(file') = L + 1 /\ file'[L + 1] = head
      /\ \A r \in 1 .. L : file'[r] = file[r]
  <2>1. file \in Seq(FileRow)
    BY DEF Inv, Shape, FileShape
  <2> HIDE DEF head
  <2> QED
    BY <1>1, <2>1
<1>5. L + 1 <= NumRounds
  BY <1>2, <1>3
<1>6. ASSUME NEW r \in 1 .. L, r < NumRounds
      PROVE  Complete(r, file'[r], FirstFigures(stats[r]))
  BY <1>1, <1>4, <1>6 DEF Printed
<1>7. ASSUME L + 1 < NumRounds
      PROVE  Current("row", L + 1, head, FirstFigures(stats[L + 1]))
  <2>1. head.accuracy = L + 1
    BY <1>3, <1>7
  <2>2. head.entries = <<>> /\ Len(head.entries) = 0
        /\ 1 .. Len(head.entries) = {}
    OBVIOUS
  <2> HIDE DEF head
  <2> QED
    BY <2>1, <2>2, BoundAssumption DEF Current
<1>8. Row' = head
  BY <1>4 DEF Row
<1>9. ASSUME NEW r \in 1 .. Len(file'), r < NumRounds, r # Len(file')
      PROVE  Complete(r, file'[r], FirstFigures(stats'[r]))
  <2>1. r \in 1 .. L
    BY <1>3, <1>4, <1>9
  <2> QED
    BY <1>1, <1>6, <1>9, <2>1
<1>10. Len(file') < NumRounds =>
         Current(pc', Len(file'), Row', FirstFigures(stats'[Len(file')]))
  BY <1>1, <1>4, <1>7, <1>8
<1> HIDE DEF L, head
<1> QED
  BY <1>1, <1>4, <1>5, <1>9, <1>10 DEF Printed

\* The entries of a row end when there is one for each client.
LEMMA PrintedEnd ==
  ASSUME Inv, Inv', Figures, Late, Printed, EndEntries PROVE Printed'
<1> DEFINE L == Len(file)
<1>1. /\ pc = "entry" /\ pc' = "end_row" /\ stats' = stats /\ file' = file
      /\ pc \in Report
  BY DEF EndEntries, Reporting, Report
<1>2. L >= 1 /\ L \in Nat
  BY <1>1, WhileReporting DEF Inv, Shape, FileShape, Placed
<1>3. ASSUME L < NumRounds PROVE Len(Row.entries) >= ClientsPerRound
  <2>1. Len(stats[L]) = ClientsPerRound /\ ~AddingTo(L)
    BY <1>1, <1>2, <1>3, WhileReporting
  <2>2. Row.taken = ClientsPerRound
    BY <1>1, <1>3 DEF Printed, Current, Report
  <2> QED
    BY <2>1, <2>2, BoundAssumption DEF EndEntries, EntriesRead, Length
<1>4. ASSUME L < NumRounds
      PROVE  Current(pc', L, Row, FirstFigures(stats[L]))
  <2>1. Current("entry", L, Row, FirstFigures(stats[L]))
    BY <1>1, <1>4 DEF Printed, Report
  <2>2. Len(Row.entries) = ClientsPerRound
    <3>1. Row \in FileRow
      BY <1>2, LenProperties, ElementOfSeq DEF Row, Inv, Shape, FileShape
    <3>2. Len(Row.entries) \in Nat
      BY <3>1, LenProperties DEF FileRow
    <3> QED
      BY <1>3, <1>4, <2>1, <3>2, BoundAssumption DEF Current
  <2> QED
    BY <1>1, <2>1, <2>2 DEF Current
<1> HIDE DEF L
<1>5. Row' = Row
  BY <1>1 DEF Row
<1> QED
  BY <1>1, <1>4, <1>5 DEF Printed, Report, L

\* The text is written out when there is nothing to print, and then tells of
\* every round but the last.
LEMMA PrintedFile ==
  ASSUME Inv, Figures, Late, Printed, WriteFile PROVE Printed'
<1>1. /\ pc = "report" /\ pc' = "exited" /\ stats' = stats /\ file' = file
      /\ pc \in Report
  BY DEF WriteFile, Reporting, Report
<1>2. NumRounds <= Len(file) + 1
  <2>1. PICK n \in RowsRead : Len(file) >= n
    BY DEF WriteFile
  <2>2. n \in Nat /\ NumRounds <= n + 1 /\ Len(file) \in Nat
        /\ NumRounds \in Nat
    BY <1>1, <2>1, WhileReporting
  <2> QED
    BY <2>1, <2>2
<1> QED
  BY <1>1, <1>2 DEF Printed, Report

\* A read goes astray only in the last round's row, or when that row or the
\* last accuracy makes an array move.
LEMMA PrintedAstray ==
  ASSUME Inv, Figures, Late, Printed, ReadAstray PROVE Printed'
<1> DEFINE L == Len(file)
<1>1. /\ pc \in Report /\ pc' = "undefined" /\ stats' = stats /\ file' = file
      /\ ReadsAstray
  BY DEF ReadAstray, ReadsAstray, Reporting, Report
<1>2. /\ NumRounds \in Nat /\ L \in Nat /\ Len(stats) \in Nat
      /\ Len(accuracies) \in Nat /\ NumRounds <= Len(accuracies) + 1
      /\ NumRounds <= Len(stats) + 1 /\ L <= NumRounds
  BY <1>1, WhileReporting DEF Printed
<1> DEFINE Excused == L = NumRounds \/ NumRounds = 1 \/ Moves(NumRounds - 1)
<1>3. ASSUME NEW n \in RowsRead, L < n, accuracies = <<>> PROVE Excused
  <2>1. Len(accuracies) = 0 /\ n \in Nat /\ n <= NumRounds
    BY <1>1, <1>3, WhileReporting
  <2>2. NumRounds = 1
    BY <1>2, <1>3, <2>1
  <2> QED
    BY <2>2
<1>4. ASSUME NEW w \in Worker, wpc[w] = "evaluate", Moves(Len(accuracies))
      PROVE  Excused
  <2>1. NumRounds = Len(accuracies) + 1
    BY <1>1, <1>4, WhileReporting
  <2>2. Len(accuracies) = NumRounds - 1
    BY <1>2, <2>1
  <2> QED
    BY <1>4, <2>2
<1>5. ASSUME AddingRow, Moves(Len(stats)) PROVE Excused
  <2>1. NumRounds = Len(stats) + 1
    BY <1>1, <1>5, WhileReporting
  <2>2. Len(stats) = NumRounds - 1
    BY <1>2, <2>1
  <2> QED
    BY <1>5, <2>2
<1>6. ASSUME pc = "row", L > Len(stats) PROVE Excused
  <2>1. L = NumRounds
    BY <1>2, <1>6
  <2> QED
    BY <2>1
<1>7. ASSUME pc \in {"entry", "comma"},
             NEW n \in EntriesRead, NEW k \in Row.taken .. n - 1
      PROVE  Excused
  <2>1. SUFFICES ASSUME L < NumRounds PROVE FALSE
    BY <1>2
  <2>2. L >= 1
    BY <1>7 DEF Inv, Shape, FileShape, Placed
  <2>3. Len(stats[L]) = ClientsPerRound /\ ~AddingTo(L)
    BY <1>1, <1>2, <2>1, <2>2, WhileReporting
  <2>4. Row.taken = ClientsPerRound
    BY <1>7, <2>1 DEF Printed, Current, Report
  <2>5. n = ClientsPerRound
    BY <1>7, <2>3, <2>4, BoundAssumption DEF EntriesRead, Length
  <2> QED
    BY <1>7, <2>4, <2>5, BoundAssumption
<1> HIDE DEF L, Excused
<1>8. Excused
  BY <1>1, <1>3, <1>4, <1>5, <1>6, <1>7 DEF ReadsAstray, L
<1> QED
  BY <1>1, <1>8 DEF Printed, Report, Excused, L

\* Until write_stats runs there is no text, and it runs in the last round.
LEMMA LateNext ==
  ASSUME Inv, Late, [Next]_vars, ~WriteStats
  PROVE  /\ Late' /\ file' = file
         /\ \/ pc \in Report \cup Ended /\ pc' = pc
            \/ pc' = "report" /\ file = <<>>
            \/ pc' \notin Report \cup Ended /\ file = <<>>
<1>1. file' = file
  BY FileWriters DEF UpdateStats, PutStats
<1>2. CASE CheckRounds
  <2>1. /\ pc = "check" /\ round_number' = round_number
        /\ pc' = "sleep" \/ (pc' = "report" /\ round_number >= NumRounds)
    BY <1>2 DEF CheckRounds, AllRoundsStarted, data_vars, round_vars
  <2>2. file = <<>>
    BY <2>1 DEF Late, Report, Ended
  <2>3. round_number >= NumRounds => round_number = NumRounds
    <3>1. round_number <= NumRounds /\ round_number \in Nat
      BY DEF Inv, Control, StartOnlyOnce, Shape, RoundShape
    <3> QED
      BY <3>1, BoundAssumption
  <2> QED
    BY <1>1, <2>1, <2>2, <2>3 DEF Late, Report, Ended
<1>3. CASE ~CheckRounds /\ pc' = pc /\ pc \in Report \cup Ended
  <2>1. round_number' = round_number
    <3>1. ~StartRound
      BY <1>3 DEF StartRound, Report, Ended
    <3> QED
      BY <3>1, RoundWriters DEF round_vars, Accumulate, Finish
  <2> QED
    BY <1>1, <1>3, <2>1 DEF Late
<1>4. CASE pc \notin Report \cup Ended /\ pc' \notin Report \cup Ended
  BY <1>1, <1>4 DEF Late
<1> QED
  BY <1>2, <1>3, <1>4, ReportsAlone

\* What is to be shown of the text after a step.
LEMMA PrintedAfter ==
  ASSUME Len(file') <= NumRounds,
         \A r \in 1 .. Len(file') :
           /\ r < NumRounds
           /\ r # Len(file') \/ pc' \in {"report", "exited"}
           => Complete(r, file'[r], FirstFigures(stats'[r])),
         pc' \in Report \ {"report"} /\ Len(file') < NumRounds =>
           Current(pc', Len(file'), Row', FirstFigures(stats'[Len(file')])),
         pc' = "exited" => NumRounds <= Len(file') + 1,
         pc' = "undefined" =>
           \/ Len(file') = NumRounds
           \/ NumRounds = 1 \/ Moves(NumRounds - 1)
  PROVE  Printed'
BY DEF Printed

\* Each step keeps what is printed as it should be.
LEMMA PrintedNext ==
  ASSUME Inv, Inv', Figures, Late, Printed, [Next]_vars
  PROVE  Late' /\ Printed'
<1>1. CASE WriteStats
  <2>1. Late'
    BY <1>1, ReportStep DEF Late, Report, Ended, round_vars
  <2> QED
    BY <1>1, <2>1, PrintedTake, PrintedEntry, PrintedComma, PrintedRow,
       PrintedHead, PrintedEnd, PrintedFile, PrintedAstray DEF WriteStats
<1>2. CASE ~WriteStats
  <2>1. Late' /\ file' = file
    BY <1>2, LateNext
  <2>2. CASE pc \in Report \cup Ended /\ pc' = pc
    <3>1. ASSUME NEW r \in 1 .. NumRounds - 1 PROVE stats'[r] = stats[r]
      BY <2>2, <3>1, RowsStay
    <3>2. Len(file) \in Nat /\ NumRounds \in Nat
      BY LenProperties, BoundAssumption DEF Inv, Shape, FileShape
    <3>3. ASSUME NEW r \in 1 .. Len(file), r < NumRounds
          PROVE  stats'[r] = stats[r]
      BY <3>1, <3>2, <3>3
    <3>4. ASSUME pc \in Report \ {"report"}, Len(file) < NumRounds
          PROVE  stats'[Len(file)] = stats[Len(file)]
      <4>1. Len(file) >= 1
        BY <3>4 DEF Inv, Shape, FileShape, Placed, Report
      <4> QED
        BY <3>2, <3>3, <3>4, <4>1
    <3>5. Row' = Row
      BY <2>1 DEF Row
    <3>6. ASSUME NEW r \in 1 .. Len(file'), r < NumRounds,
                 r # Len(file') \/ pc' \in {"report", "exited"}
          PROVE  Complete(r, file'[r], FirstFigures(stats'[r]))
      BY <2>1, <2>2, <3>3, <3>6 DEF Printed
    <3>7. ASSUME pc' \in Report \ {"report"}, Len(file') < NumRounds
          PROVE  Current(pc', Len(file'), Row',
                         FirstFigures(stats'[Len(file')]))
      BY <2>1, <2>2, <3>4, <3>5, <3>7 DEF Printed
    <3>8. /\ Len(file') <= NumRounds
          /\ pc' = "exited" => NumRounds <= Len(file') + 1
          /\ pc' = "undefined" =>
               \/ Len(file') = NumRounds
               \/ NumRounds = 1 \/ Moves(NumRounds - 1)
      BY <2>1, <2>2 DEF Printed
    <3>9. \A r \in 1 .. Len(file') :
            /\ r < NumRounds
            /\ r # Len(file') \/ pc' \in {"report", "exited"}
            => Complete(r, file'[r], FirstFigures(stats'[r]))
      BY <3>6
    <3> QED
      BY <2>1, <3>7, <3>8, <3>9, PrintedAfter
  <2>3. CASE /\ file = <<>>
             /\ pc' = "report" \/ pc' \notin Report \cup Ended
    <3>1. file' = <<>> /\ Len(file') = 0 /\ 1 .. Len(file') = {}
      BY <2>1, <2>3
    <3>2. /\ pc' \notin Report \ {"report"}
          /\ pc' \notin {"exited", "undefined"}
      BY <2>3 DEF Report, Ended
    <3>3. Len(file') <= NumRounds
      BY <3>1, BoundAssumption
    <3>4. \A r \in 1 .. Len(file') :
            /\ r < NumRounds
            /\ r # Len(file') \/ pc' \in {"report", "exited"}
            => Complete(r, file'[r], FirstFigures(stats'[r]))
      BY <3>1
    <3> QED
      BY <2>1, <3>2, <3>3, <3>4, PrintedAfter
  <2> QED
    BY <1>2, <2>1, <2>2, <2>3, LateNext
<1> QED
  BY <1>1, <1>2

\* write_stats reads lengths and arrays that handlers add to and move, without
\* the mutex they hold.  Even so, and even when devices crash and connections
\* break, stats.json tells of every round but the last, each row complete; and
\* what it reads through a block that is gone, or a row that is not there, it
\* reads in the last row, or when the last round makes an array move.
THEOREM AlwaysFileComplete == Spec => []FileComplete
<1>1. Init => Late /\ Printed
  <2>1. ASSUME Init
        PROVE  file = <<>> /\ Len(file) = 0 /\ 1 .. Len(file) = {}
    BY <2>1 DEF Init
  <2> QED
    BY <2>1, BoundAssumption DEF Init, Late, Printed, Report, Ended
<1>2. ASSUME Inv, Printed PROVE FileComplete
  <2>1. Len(file) \in Nat /\ NumRounds \in Nat
    BY <1>2, LenProperties, BoundAssumption DEF Inv, Shape, FileShape
  <2>2. ASSUME NEW r \in 1 .. NumRounds - 1, r < Len(file) \/ pc = "exited"
        PROVE  /\ r <= Len(file)
               /\ Complete(r, file[r], FirstFigures(stats[r]))
    <3>1. pc = "exited" => NumRounds <= Len(file) + 1
      BY <1>2 DEF Printed
    <3>2. r \in 1 .. Len(file) /\ r < NumRounds
      BY <2>1, <2>2, <3>1
    <3>3. r # Len(file) \/ pc = "exited"
      BY <2>1, <2>2, <3>2
    <3>4. Complete(r, file[r], FirstFigures(stats[r]))
      BY <1>2, <3>2, <3>3 DEF Printed
    <3>5. r <= Len(file)
      BY <2>1, <3>2
    <3> QED
      BY <3>4, <3>5
  <2>3. Len(file) <= NumRounds
    BY <1>2 DEF Printed
  <2> QED
    BY <1>2, <2>2, <2>3 DEF FileComplete, Printed
<1>3. Inv /\ Inv' /\ Figures /\ Late /\ Printed /\ [Next]_vars
        => Late' /\ Printed'
  BY PrintedNext
<1> QED
  BY <1>1, <1>2, <1>3, AlwaysInv, AlwaysFigures, PTL DEF Spec

==============================================================================
