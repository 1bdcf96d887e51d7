-------------------------- MODULE FedServerProofs ---------------------------
(***************************************************************************)
(* Proofs about the server, for every number of devices, handler threads,  *)
(* clients and rounds, with and without faults.  The inductive invariant   *)
(* is proved in layers, each using the ones below it:                      *)
(*   Shape      types that no counting is needed for;                      *)
(*   Exclusion  who holds which mutex;                                     *)
(*   Control    what the scheduler's place says of the round.              *)
(* Module FedServerRounds goes on with the layer that counts updates.      *)
(***************************************************************************)
EXTENDS FedServer, TLAPS, FiniteSetTheorems, SequenceTheorems

-----------------------------------------------------------------------------
(* Shape: TypeOK, but for the bounds of an update's fields. *)

AnyUpdate == [entry : Nat, round : Nat, base : Nat]
AnyResult == [id : 0 .. MaxClients, update : AnyUpdate]

Waiting == {"idle", "send_id", "reply_id", "set_shutdown"}

ClientShape ==
  /\ clients \in Seq(Device) /\ Len(clients) <= MaxClients
  /\ ready \subseteq 1 .. Len(clients)
  /\ clients_ready \in Nat
RoundShape ==
  /\ started \in BOOLEAN /\ averaging \in BOOLEAN
  /\ round_number \in Nat /\ participants \in Nat /\ responded \in Nat
ModelShape ==
  /\ weights \in [Update -> Nat]
  /\ nn \in Model
  /\ accuracies \in Seq(Model)
Placed ==
  /\ pc \in {"row", "entry", "comma", "end_row"} => Len(file) >= 1
  /\ pc \in {"entry", "comma", "end_row"} => Len(file) <= Len(stats)
FileShape ==
  /\ stats \in Seq(Seq(Nat))
  /\ file \in Seq(FileRow)
  /\ Placed
MutexShape ==
  /\ round_mutex \in {"free", "scheduler"}
  /\ client_mutex \in {"free", "scheduler"}
  /\ result_mutex \in {"free"} \cup Worker
SchedulerShape ==
  /\ pc \in {"check", "sleep", "lock_ping", "ping", "decide", "lock_start",
             "starting", "lock_train", "train"} \cup Report \cup Ended
  /\ cursor \in Nat \ {0} /\ attempt \in 1 .. Retries
  /\ ping \in {"none", "open", "silent"}
  /\ ping # "none" => pc = "ping" /\ cursor <= Len(clients)
WorkerShape ==
  /\ listener \in {"check", "accept", "dead"}
  /\ should_shutdown \in BOOLEAN
  /\ wpc \in [Worker -> Results \cup Waiting]
  /\ req \in [Worker -> AnyResult \cup Registration \cup {NoRequest}]
  /\ \A w \in Worker :
       /\ wpc[w] \in {"send_id", "reply_id"} => req[w] \in Registration
       /\ wpc[w] \in Results => req[w] \in AnyResult
       /\ wpc[w] \in Waiting => req[w] \in Registration \cup {NoRequest}
DeviceShape ==
  /\ phase \in [Device -> {"off", "boot", "loading", "serving"}]
  /\ device_id \in [Device -> 0 .. MaxClients]
  /\ id_conn \in [Device -> {"none", "backlog"} \cup Worker]
  /\ trains \subseteq AnyUpdate
  /\ posts \subseteq AnyResult
  /\ shutdown_request \in BOOLEAN

Shape ==
  /\ ClientShape /\ RoundShape /\ ModelShape /\ FileShape /\ MutexShape
  /\ SchedulerShape /\ WorkerShape /\ DeviceShape

\* A step of write_stats writes the text and the scheduler's place only.
LEMMA ReportStep ==
  WriteStats =>
    /\ pc \in {"report", "row", "entry", "comma", "end_row"}
    /\ pc' \in {"report", "row", "entry", "comma", "end_row", "exited",
               "undefined"}
    /\ UNCHANGED <<client_vars, round_vars, result_vars, stats, mutex_vars,
                   cursor, attempt, ping, listener_vars, worker_vars,
                   device_vars, net_vars>>
BY DEF WriteStats, PrintHead, TakeRow, PrintEntry, EntryComma, EndEntries,
       RowComma, WriteFile, ReadAstray, ReadsAstray, Reporting

\* Which steps write a group of variables: every other one leaves it alone.
LEMMA ClientWriters ==
  [Next]_vars => \/ BeginScan \/ PingRefused \/ Pong \/ PingBroken
                 \/ \E w \in Worker : SendId(w)
                 \/ UNCHANGED client_vars
<1>1. Scheduler => \/ BeginScan \/ PingRefused \/ Pong \/ PingBroken
                   \/ UNCHANGED client_vars
  BY ReportStep
     DEF Scheduler, CheckRounds, WakeAndCheckStarted, Ping, EndScan, Decide,
         LockStart, StartRound, BeginBroadcast, SkipNotReady, SendTrain,
         TrainFails, EndBroadcast, data_vars
<1>2. Listener => UNCHANGED client_vars
  BY DEF Listener, ListenerCheck, AcceptId, AcceptResult, AcceptShutdown,
         Accept, data_vars
<1>3. ASSUME NEW w \in Worker, Handler(w)
      PROVE  SendId(w) \/ UNCHANGED client_vars
  BY <1>3 DEF Handler, ReplyId, ExtractId, RecvContent, UpdateStats, PutStats,
       CheckRound, LockResult, Accumulate, Average, Evaluate, Finish,
       SetShutdown, data_vars
<1>4. ASSUME NEW d \in Device, DeviceStep(d) PROVE UNCHANGED client_vars
  BY <1>4 DEF DeviceStep, Boot, Listen, Train, data_vars
<1>5. Fault => UNCHANGED client_vars
  BY DEF Fault, OperatorShutdown, LoseId, LoseTrain, Crash, data_vars
<1> QED
  BY <1>1, <1>2, <1>3, <1>4, <1>5 DEF Next, Running, Exited, vars, data_vars

\* Only StartRound, Accumulate and Finish write the state of the round.
LEMMA RoundWriters ==
  [Next]_vars => \/ StartRound
                 \/ \E w \in Worker : Accumulate(w) \/ Finish(w)
                 \/ UNCHANGED <<round_vars, responded>>
<1>1. Scheduler => StartRound \/ UNCHANGED <<round_vars, responded>>
  BY ReportStep
     DEF Scheduler, CheckRounds, WakeAndCheckStarted, BeginScan, Ping,
         PingRefused, Pong, PingBroken, NextClient, EndScan, Decide,
         LockStart, BeginBroadcast, SkipNotReady, SendTrain, TrainFails,
         EndBroadcast, data_vars, result_vars
<1>2. Listener => UNCHANGED <<round_vars, responded>>
  BY DEF Listener, ListenerCheck, AcceptId, AcceptResult, AcceptShutdown,
         Accept, data_vars, result_vars
<1>3. ASSUME NEW w \in Worker, Handler(w)
      PROVE  Accumulate(w) \/ Finish(w) \/ UNCHANGED <<round_vars, responded>>
  BY <1>3
     DEF Handler, SendId, ReplyId, ExtractId, RecvContent, UpdateStats,
         PutStats, CheckRound, LockResult, Average, Evaluate, SetShutdown,
         data_vars, result_vars
<1>4. ASSUME NEW d \in Device, DeviceStep(d)
      PROVE  UNCHANGED <<round_vars, responded>>
  BY <1>4 DEF DeviceStep, Boot, Listen, Train, data_vars, result_vars
<1>5. Fault => UNCHANGED <<round_vars, responded>>
  BY DEF Fault, OperatorShutdown, LoseId, LoseTrain, Crash, data_vars,
         result_vars
<1> QED
  BY <1>1, <1>2, <1>3, <1>4, <1>5
     DEF Next, Running, Exited, vars, data_vars, result_vars

\* Only the steps of a counted result write the sums and the model.
LEMMA ModelWriters ==
  [Next]_vars =>
    \/ \E w \in Worker : Accumulate(w) \/ Average(w) \/ Evaluate(w)
    \/ UNCHANGED <<weights, nn, accuracies>>
<1>1. Scheduler => UNCHANGED result_vars
  BY ReportStep
     DEF Scheduler, CheckRounds, WakeAndCheckStarted, BeginScan, Ping,
         PingRefused, Pong, PingBroken, NextClient, EndScan, Decide,
         LockStart, StartRound, BeginBroadcast, SkipNotReady, SendTrain,
         TrainFails, EndBroadcast, data_vars
<1>2. Listener => UNCHANGED result_vars
  BY DEF Listener, ListenerCheck, AcceptId, AcceptResult, AcceptShutdown,
         Accept, data_vars
<1>3. ASSUME NEW w \in Worker, Handler(w)
      PROVE  \/ Accumulate(w) \/ Average(w) \/ Evaluate(w)
             \/ UNCHANGED <<weights, nn, accuracies>>
  BY <1>3
     DEF Handler, SendId, ReplyId, ExtractId, RecvContent, UpdateStats,
         PutStats, CheckRound, LockResult, Finish, SetShutdown, data_vars,
         result_vars
<1>4. ASSUME NEW d \in Device, DeviceStep(d) PROVE UNCHANGED result_vars
  BY <1>4 DEF DeviceStep, Boot, Listen, Train, data_vars
<1>5. Fault => UNCHANGED result_vars
  BY DEF Fault, OperatorShutdown, LoseId, LoseTrain, Crash, data_vars
<1> QED
  BY <1>1, <1>2, <1>3, <1>4, <1>5
     DEF Next, Running, Exited, vars, data_vars, result_vars

\* Only update_stats writes the rows, and only WriteStats the text.
LEMMA FileWriters ==
  [Next]_vars => \/ WriteStats
                 \/ \E w \in Worker : UpdateStats(w) \/ PutStats(w)
                 \/ UNCHANGED <<stats, file>>
<1>1. Scheduler => WriteStats \/ UNCHANGED <<stats, file>>
  BY DEF Scheduler, CheckRounds, WakeAndCheckStarted, BeginScan, Ping,
         PingRefused, Pong, PingBroken, NextClient, EndScan, Decide,
         LockStart, StartRound, BeginBroadcast, SkipNotReady, SendTrain,
         TrainFails, EndBroadcast, data_vars
<1>2. Listener => UNCHANGED <<stats, file>>
  BY DEF Listener, ListenerCheck, AcceptId, AcceptResult, AcceptShutdown,
         Accept, data_vars
<1>3. ASSUME NEW w \in Worker, Handler(w)
      PROVE  \/ UpdateStats(w) \/ PutStats(w)
             \/ UNCHANGED <<stats, file>>
  BY <1>3 DEF Handler, SendId, ReplyId, ExtractId, RecvContent, CheckRound,
       LockResult, Accumulate, Average, Evaluate, Finish, SetShutdown,
       data_vars
<1>4. ASSUME NEW d \in Device, DeviceStep(d) PROVE UNCHANGED <<stats, file>>
  BY <1>4 DEF DeviceStep, Boot, Listen, Train, data_vars
<1>5. Fault => UNCHANGED <<stats, file>>
  BY DEF Fault, OperatorShutdown, LoseId, LoseTrain, Crash, data_vars
<1> QED
  BY <1>1, <1>2, <1>3, <1>4, <1>5 DEF Next, Running, Exited, vars, data_vars

-----------------------------------------------------------------------------
(* Each part of Shape is kept by every step. *)

\* A function on 1 .. n is a sequence.
LEMMA FunctionInSeq ==
  ASSUME NEW S, NEW n \in Nat, NEW f \in [1 .. n -> S]
  PROVE  f \in Seq(S)
BY SeqDef

\* A sequence with one element replaced is a sequence, and an EXCEPT at a
\* place it has not changes nothing.
LEMMA ReplacedInSeq ==
  ASSUME NEW S, NEW s \in Seq(S), NEW i, NEW e, i \in DOMAIN s => e \in S
  PROVE  [s EXCEPT ![i] = e] \in Seq(S)
<1>1. PICK n \in Nat : s \in [1 .. n -> S]
  BY SeqDef
<1>2. [s EXCEPT ![i] = e] \in [1 .. n -> S]
  BY <1>1
<1> QED
  BY <1>2, SeqDef

\* So is a function to numbers counted up at one place.
LEMMA CountedUp ==
  ASSUME NEW S, NEW f \in [S -> Nat], NEW u
  PROVE  [f EXCEPT ![u] = @ + 1] \in [S -> Nat]
<1>1. ASSUME NEW v \in S PROVE [f EXCEPT ![u] = @ + 1][v] \in Nat
  BY <1>1
<1> QED
  BY <1>1

\* Each step keeps the client list and its ready flags well formed.
LEMMA ClientShapeNext == Shape /\ [Next]_vars => ClientShape'
<1> SUFFICES ASSUME Shape, [Next]_vars PROVE ClientShape'
  OBVIOUS
<1> USE DEF Shape, ClientShape
<1>1. CASE BeginScan
  BY <1>1 DEF BeginScan
<1>2. CASE PingRefused
  BY <1>2 DEF PingRefused, FoundUnready, NextClient
<1>3. CASE Pong
  BY <1>3 DEF Pong, FoundReady, NextClient, SchedulerShape
<1>4. CASE PingBroken
  BY <1>4 DEF PingBroken, FoundUnready, NextClient
<1>5. ASSUME NEW w \in Worker, SendId(w) PROVE ClientShape'
  <2>1. req[w].peer \in Device
    BY <1>5 DEF SendId, WorkerShape, Registration
  <2>2. /\ clients' \in Seq(Device)
        /\ Len(clients') = Len(clients) + 1
    BY <1>5, <2>1 DEF SendId
  <2> QED
    BY <1>5, <2>2, BoundAssumption DEF SendId
<1>6. CASE UNCHANGED client_vars
  BY <1>6 DEF client_vars
<1> QED
  BY <1>1, <1>2, <1>3, <1>4, <1>5, <1>6, ClientWriters

\* Each step keeps the round counters in their ranges.
LEMMA RoundShapeNext == Shape /\ [Next]_vars => RoundShape'
<1> SUFFICES ASSUME Shape, [Next]_vars PROVE RoundShape'
  OBVIOUS
<1> USE DEF Shape, RoundShape
<1>1. CASE StartRound
  <2>1. started' \in BOOLEAN
    BY <1>1, Zenon DEF StartRound
  <2> QED
    BY <1>1, <2>1 DEF StartRound, ClientShape, result_vars
<1>2. ASSUME NEW w \in Worker, Accumulate(w) PROVE RoundShape'
  <2>1. averaging' \in BOOLEAN
    BY <1>2, Zenon DEF Accumulate, AllResponded
  <2> QED
    BY <1>2, <2>1 DEF Accumulate
<1>3. ASSUME NEW w \in Worker, Finish(w) PROVE RoundShape'
  <2>1. started' \in BOOLEAN /\ averaging' \in BOOLEAN
    BY <1>3, Zenon DEF Finish
  <2> QED
    BY <1>3, <2>1 DEF Finish
<1>4. CASE UNCHANGED <<round_vars, responded>>
  BY <1>4 DEF round_vars
<1> QED
  BY <1>1, <1>2, <1>3, <1>4, RoundWriters

\* Each step keeps the sums and the published models well formed.
LEMMA ModelShapeNext == Shape /\ [Next]_vars => ModelShape'
<1> SUFFICES ASSUME Shape, [Next]_vars PROVE ModelShape'
  OBVIOUS
<1> USE DEF Shape, ModelShape
<1>1. ASSUME NEW w \in Worker, Accumulate(w) PROVE ModelShape'
  <2>1. SumSoFar \in [Update -> Nat]
    BY DEF SumSoFar, NoUpdates
  <2>2. weights' \in [Update -> Nat]
    BY <1>1, <2>1, CountedUp DEF Accumulate
  <2> QED
    BY <1>1, <2>2 DEF Accumulate
<1>2. ASSUME NEW w \in Worker, Average(w) PROVE ModelShape'
  BY <1>2 DEF Average, Model, RoundShape
<1>3. ASSUME NEW w \in Worker, Evaluate(w) PROVE ModelShape'
  BY <1>3 DEF Evaluate
<1>4. CASE UNCHANGED <<weights, nn, accuracies>>
  BY <1>4
<1> QED
  BY <1>1, <1>2, <1>3, <1>4, ModelWriters

\* One field of a row or of an entry may be replaced.
LEMMA FieldReplaced ==
  ASSUME NEW A, NEW T, NEW E, NEW C,
         NEW row \in [accuracy : A, taken : T, entries : E, comma : C]
  PROVE  /\ \A n \in T :
              [row EXCEPT !.taken = n]
                \in [accuracy : A, taken : T, entries : E, comma : C]
         /\ \A e \in E :
              [row EXCEPT !.entries = e]
                \in [accuracy : A, taken : T, entries : E, comma : C]
         /\ \A c \in C :
              [row EXCEPT !.comma = c]
                \in [accuracy : A, taken : T, entries : E, comma : C]
  OBVIOUS
LEMMA CommaReplaced ==
  ASSUME NEW F, NEW C, NEW e \in [figures : F, comma : C], NEW c \in C
  PROVE  [e EXCEPT !.comma = c] \in [figures : F, comma : C]
  OBVIOUS
LEMMA RowWith ==
  ASSUME NEW row \in FileRow
  PROVE  /\ \A n \in Nat : [row EXCEPT !.taken = n] \in FileRow
         /\ \A e \in Seq(FileEntry) : [row EXCEPT !.entries = e] \in FileRow
         /\ \A c \in BOOLEAN : [row EXCEPT !.comma = c] \in FileRow
BY FieldReplaced DEF FileRow
LEMMA EntryWith ==
  ASSUME NEW e \in FileEntry, NEW c \in BOOLEAN
  PROVE  [e EXCEPT !.comma = c] \in FileEntry
BY CommaReplaced DEF FileEntry

\* The row being printed may be replaced by another.
LEMMA RowReplaced ==
  ASSUME FileShape, Len(file) >= 1, NEW row \in FileRow,
         file' = [file EXCEPT ![Len(file)] = row]
  PROVE  /\ file' \in Seq(FileRow) /\ Len(file') = Len(file)
         /\ file'[Len(file)] = row
         /\ \A r \in 1 .. Len(file) - 1 : file'[r] = file[r]
<1>1. file \in Seq(FileRow) /\ Len(file) \in 1 .. Len(file)
  BY DEF FileShape
<1> QED
  BY <1>1, ExceptSeq

\* Each step of write_stats keeps the text well formed.
LEMMA TextShapeNext == Shape /\ WriteStats => file' \in Seq(FileRow) /\ Placed'
<1> SUFFICES ASSUME Shape, WriteStats PROVE file' \in Seq(FileRow) /\ Placed'
  OBVIOUS
<1> USE DEF Shape, FileShape, Placed, Reporting
<1>1. file \in Seq(FileRow) /\ Len(file) \in Nat /\ Len(stats) \in Nat
  BY LenProperties
<1>2. ASSUME Len(file) >= 1 PROVE Row \in FileRow
  BY <1>1, <1>2, ElementOfSeq DEF Row
<1>3. ASSUME Len(file) \in 1 .. Len(stats) PROVE stats[Len(file)] \in Seq(Nat)
  BY <1>1, <1>3
<1>4. CASE PrintHead
  <2>1. [accuracy |-> IF Len(file) < Len(accuracies) THEN Len(file) + 1
                                                     ELSE NoAccuracy,
         taken |-> 0, entries |-> <<>>, comma |-> FALSE] \in FileRow
    BY <1>1 DEF FileRow, NoAccuracy
  <2> QED
    BY <1>1, <1>4, <2>1 DEF PrintHead
<1>5. CASE TakeRow
  <2>1. PICK n \in Length(Len(stats[Len(file)]), AddingTo(Len(file)), 0) :
               file' = [file EXCEPT ![Len(file)].taken = n]
    BY <1>5 DEF TakeRow
  <2>2. Len(file) \in 1 .. Len(stats)
    BY <1>1, <1>5 DEF TakeRow
  <2>3. n \in Nat
    BY <1>3, <2>1, <2>2 DEF Length
  <2>4. [Row EXCEPT !.taken = n] \in FileRow
    BY <1>2, <2>2, <2>3, RowWith
  <2>5. file' = [file EXCEPT ![Len(file)] = [Row EXCEPT !.taken = n]]
    BY <2>1 DEF Row
  <2> QED
    BY <1>5, <2>2, <2>4, <2>5, RowReplaced DEF TakeRow
<1>6. CASE PrintEntry
  <2> DEFINE e == [figures |-> FirstFigures(stats[Len(file)]),
                   comma |-> FALSE]
             es == Append(Row.entries, e)
  <2>1. file' = [file EXCEPT ![Len(file)] = [Row EXCEPT !.entries = es]]
    BY <1>6 DEF PrintEntry, Row
  <2>2. Len(file) \in 1 .. Len(stats)
    BY <1>1, <1>6 DEF PrintEntry
  <2>3. e \in FileEntry
    BY <1>3, <2>2 DEF FirstFigures, NoFigures, FileEntry
  <2>4. [Row EXCEPT !.entries = es] \in FileRow
    <3>1. Row \in FileRow /\ Row.entries \in Seq(FileEntry)
      BY <1>2, <2>2 DEF FileRow
    <3>2. es \in Seq(FileEntry)
      BY <2>3, <3>1
    <3> HIDE DEF es
    <3> QED
      BY <3>1, <3>2, RowWith
  <2> QED
    BY <1>6, <2>1, <2>2, <2>4, RowReplaced DEF PrintEntry
<1>7. CASE EntryComma
  <2>1. PICK n \in EntriesRead :
          file' = [file EXCEPT ![Len(file)].entries[Len(Row.entries)].comma =
                     NotTheLast(Len(Row.entries), n)]
    BY <1>7 DEF EntryComma
  <2> DEFINE at == Len(Row.entries)
             e == [Row.entries[at] EXCEPT !.comma = NotTheLast(at, n)]
             es == [Row.entries EXCEPT ![at] = e]
  <2>2. file' = [file EXCEPT ![Len(file)] = [Row EXCEPT !.entries = es]]
    BY <2>1 DEF Row
  <2>3. Len(file) \in 1 .. Len(stats)
    BY <1>1, <1>7 DEF EntryComma
  <2>4. es \in Seq(FileEntry)
    <3>1. Row.entries \in Seq(FileEntry)
      BY <1>2, <2>3 DEF FileRow
    <3>2. NotTheLast(at, n) \in BOOLEAN
      BY DEF NotTheLast
    <3>3. at \in DOMAIN Row.entries => e \in FileEntry
      BY <3>1, <3>2, ElementOfSeq, EntryWith
    <3> HIDE DEF e, at
    <3> QED
      BY <3>1, <3>3, ReplacedInSeq
  <2>5. [Row EXCEPT !.entries = es] \in FileRow
    <3>1. Row \in FileRow /\ es \in Seq(FileEntry)
      BY <1>2, <2>3, <2>4
    <3> HIDE DEF es
    <3> QED
      BY <3>1, RowWith
  <2> QED
    BY <1>7, <2>2, <2>3, <2>5, RowReplaced DEF EntryComma
<1>8. CASE RowComma
  <2>1. PICK n \in RowsRead :
          file' = [file EXCEPT ![Len(file)].comma = NotTheLast(Len(file), n)]
    BY <1>8 DEF RowComma
  <2>2. NotTheLast(Len(file), n) \in BOOLEAN /\ Len(file) >= 1
    BY <1>8 DEF NotTheLast, RowComma
  <2>3. [Row EXCEPT !.comma = NotTheLast(Len(file), n)] \in FileRow
    BY <1>2, <2>2, RowWith
  <2>4. file' = [file EXCEPT ![Len(file)] =
                   [Row EXCEPT !.comma = NotTheLast(Len(file), n)]]
    BY <2>1 DEF Row
  <2> QED
    BY <1>8, <2>2, <2>3, <2>4, RowReplaced DEF RowComma
<1>9. CASE EndEntries \/ WriteFile \/ ReadAstray
  BY <1>1, <1>9 DEF EndEntries, WriteFile, ReadAstray
<1> QED
  BY <1>4, <1>5, <1>6, <1>7, <1>8, <1>9 DEF WriteStats

\* The scheduler moves on in write_stats only by a step of it.
LEMMA ReportsAlone ==
  [Next]_vars => \/ WriteStats \/ CheckRounds \/ pc' = pc
                 \/ {pc, pc'} \cap (Report \cup Ended) = {}
<1> USE DEF Report, Ended
<1>1. Scheduler => \/ WriteStats \/ CheckRounds \/ pc' = pc
                   \/ {pc, pc'} \cap (Report \cup Ended) = {}
  BY DEF Scheduler, WakeAndCheckStarted, BeginScan, Ping, PingRefused, Pong,
         PingBroken, NextClient, EndScan, Decide, LockStart, StartRound,
         BeginBroadcast, SkipNotReady, SendTrain, TrainFails, EndBroadcast
<1>2. Listener => pc' = pc
  BY DEF Listener, ListenerCheck, AcceptId, AcceptResult, AcceptShutdown,
         Accept, scheduler_vars
<1>3. ASSUME NEW w \in Worker, Handler(w) PROVE pc' = pc
  BY <1>3 DEF Handler, SendId, ReplyId, ExtractId, RecvContent, UpdateStats,
       PutStats, CheckRound, LockResult, Accumulate, Average, Evaluate,
       Finish, SetShutdown, scheduler_vars
<1>4. ASSUME NEW d \in Device, DeviceStep(d) PROVE pc' = pc
  BY <1>4 DEF DeviceStep, Boot, Listen, Train, scheduler_vars
<1>5. Fault => pc' = pc
  BY DEF Fault, OperatorShutdown, LoseId, LoseTrain, Crash, scheduler_vars
<1> QED
  BY <1>1, <1>2, <1>3, <1>4, <1>5
     DEF Next, Running, Exited, vars, scheduler_vars

\* A sequence with one element replaced is as long as it was.
LEMMA ReplacedLen ==
  ASSUME NEW S, NEW s \in Seq(S), NEW i, NEW e,
         [s EXCEPT ![i] = e] \in Seq(S)
  PROVE  Len([s EXCEPT ![i] = e]) = Len(s)
<1> DEFINE t == [s EXCEPT ![i] = e]
<1>1. DOMAIN t = DOMAIN s
  OBVIOUS
<1>2. DOMAIN s = 1 .. Len(s) /\ Len(s) \in Nat
  BY LenProperties
<1>3. DOMAIN t = 1 .. Len(t) /\ Len(t) \in Nat
  BY LenProperties
<1> HIDE DEF t
<1>4. 1 .. Len(t) = 1 .. Len(s)
  BY <1>1, <1>2, <1>3
<1> QED
  BY <1>2, <1>3, <1>4 DEF t

\* Each step keeps the statistics and the text well formed.
LEMMA FileShapeNext == Shape /\ [Next]_vars => FileShape'
<1> SUFFICES ASSUME Shape, [Next]_vars PROVE FileShape'
  OBVIOUS
<1> USE DEF Shape, FileShape
<1>1. CASE WriteStats
  BY <1>1, ReportStep, TextShapeNext
<1>2. ASSUME NEW w \in Worker, UpdateStats(w) PROVE FileShape'
  BY <1>2 DEF UpdateStats, Placed, scheduler_vars
<1>3. ASSUME NEW w \in Worker, PutStats(w) PROVE FileShape'
  <2> DEFINE r == RoundNamed(w)
  <2>1. req[w].id \in Nat
    BY <1>3, BoundAssumption DEF PutStats, WorkerShape, AnyResult, Results
  <2>2. r \in DOMAIN stats => Append(stats[r], req[w].id) \in Seq(Nat)
    BY <2>1
  <2>3. stats' = [stats EXCEPT ![r] = Append(stats[r], req[w].id)]
    BY <1>3 DEF PutStats
  <2> HIDE DEF r
  <2>4. stats' \in Seq(Seq(Nat))
    BY <2>2, <2>3, ReplacedInSeq
  <2>5. Len(stats') = Len(stats)
    BY <2>3, <2>4, ReplacedLen
  <2>6. Placed'
    BY <1>3, <2>5 DEF PutStats, Placed, scheduler_vars
  <2> QED
    BY <1>3, <2>4, <2>6 DEF PutStats
<1>4. CASE ~WriteStats /\ UNCHANGED <<stats, file>>
  <2>1. pc' = pc \/ pc' \notin {"row", "entry", "comma", "end_row"}
    BY <1>4, ReportsAlone DEF CheckRounds, Report
  <2> QED
    BY <1>4, <2>1 DEF Placed
<1> QED
  BY <1>1, <1>2, <1>3, <1>4, FileWriters

\* Each step leaves a mutex free or with one of the threads that take it.
LEMMA MutexShapeNext == Shape /\ [Next]_vars => MutexShape'
<1> SUFFICES ASSUME Shape, [Next]_vars PROVE MutexShape'
  OBVIOUS
<1> USE DEF Shape, MutexShape, mutex_vars
<1>1. CASE Scheduler
  BY <1>1, ReportStep
     DEF Scheduler, CheckRounds, WakeAndCheckStarted, BeginScan, Ping,
         PingRefused, Pong, PingBroken, NextClient, EndScan, AfterScan,
         Decide, LockStart, StartRound, BeginBroadcast, SkipNotReady,
         SendTrain, TrainFails, EndBroadcast
<1>2. CASE Listener
  BY <1>2 DEF Listener, ListenerCheck, AcceptId, AcceptResult,
       AcceptShutdown, Accept
<1>3. ASSUME NEW w \in Worker, Handler(w) PROVE MutexShape'
  BY <1>3
     DEF Handler, SendId, ReplyId, ExtractId, RecvContent, UpdateStats,
         PutStats, CheckRound, LockResult, Accumulate, Average, Evaluate,
         Finish, SetShutdown
<1>4. ASSUME NEW d \in Device, DeviceStep(d) PROVE MutexShape'
  BY <1>4 DEF DeviceStep, Boot, Listen, Train
<1>5. CASE Fault
  BY <1>5 DEF Fault, OperatorShutdown, LoseId, LoseTrain, Crash
<1>6. CASE UNCHANGED vars
  BY <1>6 DEF vars
<1> QED
  BY <1>1, <1>2, <1>3, <1>4, <1>5, <1>6 DEF Next, Running, Exited

\* Each step keeps the scheduler at a known place, its cursor in range.
LEMMA SchedulerShapeNext == Shape /\ [Next]_vars => SchedulerShape'
<1> SUFFICES ASSUME Shape, [Next]_vars PROVE SchedulerShape'
  OBVIOUS
<1> USE DEF Shape, SchedulerShape, ClientShape, Report, Ended
<1>1. CASE CheckRounds \/ WakeAndCheckStarted \/ BeginScan \/ EndScan \/ Decide
  BY <1>1 DEF CheckRounds, WakeAndCheckStarted, BeginScan, EndScan, Decide,
       data_vars, client_vars
<1>2. CASE Ping \/ PingRefused \/ Pong \/ PingBroken
  BY <1>2 DEF Ping, PingRefused, Pong, PingBroken, NextClient, data_vars,
       client_vars
<1>3. CASE LockStart \/ StartRound \/ BeginBroadcast \/ EndBroadcast
           \/ WriteStats
  BY <1>3, ReportStep DEF LockStart, StartRound, BeginBroadcast, EndBroadcast,
       Retries, data_vars, client_vars
<1>4. CASE SkipNotReady \/ SendTrain \/ TrainFails
  BY <1>4 DEF SkipNotReady, SendTrain, TrainFails, Retries, data_vars,
       client_vars
<1>5. CASE Listener
  BY <1>5 DEF Listener, ListenerCheck, AcceptId, AcceptResult,
       AcceptShutdown, Accept, scheduler_vars, data_vars, client_vars
<1>6. ASSUME NEW w \in Worker, Handler(w) PROVE SchedulerShape'
  <2>1. CASE SendId(w)
    <3>1. req[w].peer \in Device
      BY <2>1 DEF SendId, WorkerShape, Registration
    <3>2. Len(clients') = Len(clients) + 1
      BY <2>1, <3>1 DEF SendId
    <3> QED
      BY <2>1, <3>2 DEF SendId, scheduler_vars
  <2>2. CASE ~SendId(w)
    BY <1>6, <2>2
       DEF Handler, ReplyId, ExtractId, RecvContent, UpdateStats, PutStats,
           CheckRound, LockResult, Accumulate, Average, Evaluate, Finish,
           SetShutdown, scheduler_vars, data_vars, client_vars
  <2> QED
    BY <2>1, <2>2
<1>7. ASSUME NEW d \in Device, DeviceStep(d) PROVE SchedulerShape'
  BY <1>7 DEF DeviceStep, Boot, Listen, Train, scheduler_vars, data_vars,
       client_vars
<1>8. CASE Fault
  BY <1>8
     DEF Fault, OperatorShutdown, LoseId, LoseTrain, Crash, scheduler_vars,
       data_vars, client_vars
<1>9. CASE UNCHANGED vars
  BY <1>9 DEF vars, scheduler_vars, data_vars, client_vars
<1> QED
  BY <1>1, <1>2, <1>3, <1>4, <1>5, <1>6, <1>7, <1>8, <1>9
     DEF Next, Running, Exited, Scheduler

\* Each step leaves a worker a request of the kind its place calls for.
LEMMA WorkerShapeNext == Shape /\ [Next]_vars => WorkerShape'
<1> SUFFICES ASSUME Shape, [Next]_vars PROVE WorkerShape'
  OBVIOUS
<1> USE DEF Shape, WorkerShape, Results, Waiting
<1>1. CASE Scheduler
  BY <1>1, ReportStep
     DEF Scheduler, CheckRounds, WakeAndCheckStarted, BeginScan, Ping,
         PingRefused, Pong, PingBroken, NextClient, EndScan, Decide,
         LockStart, StartRound, BeginBroadcast, SkipNotReady, SendTrain,
         TrainFails, EndBroadcast, listener_vars, worker_vars
<1>2. CASE ListenerCheck
  BY <1>2 DEF ListenerCheck, worker_vars
<1>3. ASSUME NEW w \in Worker, NEW d \in Device, AcceptId(w, d)
      PROVE  WorkerShape'
  <2>1. [peer |-> d, id |-> NoId] \in Registration
    BY BoundAssumption DEF Registration, NoId
  <2> QED
    BY <1>3, <2>1 DEF AcceptId, Accept
<1>4. ASSUME NEW w \in Worker, NEW p \in posts, AcceptResult(w, p)
      PROVE  WorkerShape'
  BY <1>4 DEF AcceptResult, Accept, DeviceShape
<1>5. ASSUME NEW w \in Worker, AcceptShutdown(w) PROVE WorkerShape'
  BY <1>5 DEF AcceptShutdown, Accept
<1>6. ASSUME NEW w \in Worker, SendId(w) PROVE WorkerShape'
  <2>1. /\ req[w].peer \in Device
        /\ Len(clients) + 1 \in 0 .. MaxClients
    BY <1>6, BoundAssumption DEF SendId, Registration, ClientShape
  <2>2. [peer |-> req[w].peer, id |-> Len(clients) + 1] \in Registration
    BY <2>1 DEF Registration
  <2> QED
    BY <1>6, <2>2 DEF SendId, listener_vars
<1>7. ASSUME NEW w \in Worker, Handler(w), ~SendId(w) PROVE WorkerShape'
  <2>1. \/ /\ wpc' = [wpc EXCEPT ![w] = "idle"]
           /\ req' = [req EXCEPT ![w] = NoRequest]
        \/ /\ wpc[w] \in Results /\ req' = req
           /\ \E at \in Results : wpc' = [wpc EXCEPT ![w] = at]
    BY <1>7
       DEF Handler, ReplyId, ExtractId, RecvContent, UpdateStats, PutStats,
           CheckRound, LockResult, Accumulate, Average, Evaluate, Finish,
           SetShutdown, Goto, Done
  <2>2. listener' = listener /\ should_shutdown' \in BOOLEAN
    BY <1>7
       DEF Handler, ReplyId, ExtractId, RecvContent, UpdateStats, PutStats,
           CheckRound, LockResult, Accumulate, Average, Evaluate, Finish,
           SetShutdown, listener_vars
  <2> QED
    BY <2>1, <2>2
<1>8. ASSUME NEW d \in Device, DeviceStep(d) PROVE WorkerShape'
  BY <1>8 DEF DeviceStep, Boot, Listen, Train, listener_vars, worker_vars
<1>9. CASE Fault
  BY <1>9 DEF Fault, OperatorShutdown, LoseId, LoseTrain, Crash, listener_vars,
       worker_vars
<1>10. CASE UNCHANGED vars
  BY <1>10 DEF vars, listener_vars, worker_vars
<1> QED
  BY <1>1, <1>2, <1>3, <1>4, <1>5, <1>6, <1>7, <1>8, <1>9, <1>10
     DEF Next, Running, Exited, Listener

\* Each step keeps the devices and the messages well formed.
LEMMA DeviceShapeNext == Shape /\ [Next]_vars => DeviceShape'
<1> SUFFICES ASSUME Shape, [Next]_vars PROVE DeviceShape'
  OBVIOUS
<1> USE DEF Shape, DeviceShape, device_vars, net_vars
<1>1. CASE Scheduler /\ ~SendTrain
  BY <1>1, ReportStep
     DEF Scheduler, CheckRounds, WakeAndCheckStarted, BeginScan, Ping,
         PingRefused, Pong, PingBroken, NextClient, EndScan, Decide,
         LockStart, StartRound, BeginBroadcast, SkipNotReady, TrainFails,
         EndBroadcast
<1>2. CASE SendTrain
  <2>1. nn.version \in Nat
    BY DEF ModelShape, Model
  <2>2. [entry |-> cursor, round |-> round_number, base |-> nn.version]
          \in AnyUpdate
    BY <2>1 DEF AnyUpdate, RoundShape, SchedulerShape
  <2> QED
    BY <1>2, <2>2 DEF SendTrain
<1>3. CASE Listener
  <2>1. CASE \E w \in Worker : AcceptShutdown(w)
    <3>1. shutdown_request' = FALSE
      BY <2>1 DEF AcceptShutdown
    <3>2. shutdown_request' \in BOOLEAN
      BY <3>1, Zenon
    <3> QED
      BY <2>1, <3>2 DEF AcceptShutdown
  <2>2. CASE \E w \in Worker : \/ \E d \in Device : AcceptId(w, d)
                               \/ \E p \in posts : AcceptResult(w, p)
    BY <2>2 DEF AcceptId, AcceptResult
  <2>3. CASE ListenerCheck
    BY <2>3 DEF ListenerCheck
  <2> QED
    BY <1>3, <2>1, <2>2, <2>3 DEF Listener
<1>4. ASSUME NEW w \in Worker, Handler(w), ~ReplyId(w) PROVE DeviceShape'
  BY <1>4 DEF Handler, SendId, ExtractId, RecvContent, UpdateStats, PutStats,
       CheckRound, LockResult, Accumulate, Average, Evaluate, Finish,
       SetShutdown
<1>5. ASSUME NEW w \in Worker, ReplyId(w) PROVE DeviceShape'
  <2>1. req[w].peer \in Device /\ req[w].id \in 0 .. MaxClients
    BY <1>5 DEF ReplyId, WorkerShape, Registration
  <2> QED
    BY <1>5, <2>1 DEF ReplyId
<1>6. ASSUME NEW d \in Device, Boot(d) \/ Listen(d) PROVE DeviceShape'
  <2>1. NoId \in 0 .. MaxClients
    BY BoundAssumption DEF NoId
  <2>2. CASE Boot(d)
    BY <2>1, <2>2 DEF Boot
  <2>3. CASE Listen(d)
    BY <2>3 DEF Listen
  <2> QED
    BY <1>6, <2>2, <2>3
<1>7. ASSUME NEW d \in Device, Train(d) PROVE DeviceShape'
  BY <1>7 DEF Train, AnyResult
<1>8. CASE OperatorShutdown
  <2>1. shutdown_request' \in BOOLEAN
    BY <1>8, Zenon DEF OperatorShutdown
  <2> QED
    BY <1>8, <2>1 DEF OperatorShutdown
<1>9. ASSUME NEW d \in Device, LoseId(d) \/ LoseTrain(d) \/ Crash(d)
      PROVE  DeviceShape'
  BY <1>9, BoundAssumption DEF LoseId, LoseTrain, Crash, NoId
<1>10. CASE UNCHANGED vars
  BY <1>10 DEF vars
<1> QED
  BY <1>1, <1>2, <1>3, <1>4, <1>5, <1>6, <1>7, <1>8, <1>9, <1>10
     DEF Next, Running, Exited, DeviceStep, Fault

\* The shapes hold when the server starts.
LEMMA InitShape == Init => Shape
<1> SUFFICES ASSUME Init PROVE Shape
  OBVIOUS
<1> USE BoundAssumption DEF Init
<1>1. ClientShape
  BY DEF ClientShape
<1>2. RoundShape
  <2>1. started \in BOOLEAN /\ averaging \in BOOLEAN
    BY Zenon
  <2> QED
    BY <2>1 DEF RoundShape
<1>3. ModelShape
  BY DEF ModelShape, Model, NoUpdates
<1>4. FileShape
  BY DEF FileShape, Placed
<1>5. MutexShape
  BY DEF MutexShape
<1>6. SchedulerShape
  BY DEF SchedulerShape, Retries
<1>7. WorkerShape
  <2>1. should_shutdown \in BOOLEAN
    BY Zenon
  <2> QED
    BY <2>1 DEF WorkerShape, Results, Waiting
<1>8. DeviceShape
  <2>1. shutdown_request \in BOOLEAN
    BY Zenon
  <2> QED
    BY <2>1 DEF DeviceShape, NoId
<1> QED
  BY <1>1, <1>2, <1>3, <1>4, <1>5, <1>6, <1>7, <1>8 DEF Shape

\* The shapes of all the variables are invariant.
THEOREM AlwaysShape == Spec => []Shape
<1>1. Shape /\ [Next]_vars => Shape'
  BY ClientShapeNext, RoundShapeNext, ModelShapeNext, FileShapeNext,
     MutexShapeNext, SchedulerShapeNext, WorkerShapeNext, DeviceShapeNext
     DEF Shape
<1> QED
  BY InitShape, <1>1, PTL DEF Spec

-----------------------------------------------------------------------------
(* Mutual exclusion. *)

\* The scheduler's two mutexes, held exactly where its code is between the
\* lock and the unlock.
SchedulerLocks ==
  /\ client_mutex = "scheduler" <=> pc \in {"ping", "train"}
  /\ round_mutex = "scheduler" <=> pc = "starting"

\* The mutex of the results, and its owner.
ResultLock == \A w \in Worker : wpc[w] \in Locked <=> result_mutex = w

\* The scheduler holds client_mutex and round_mutex just where its code does.
LEMMA SchedulerLocksNext ==
  Shape /\ SchedulerLocks /\ [Next]_vars => SchedulerLocks'
<1> SUFFICES ASSUME Shape, SchedulerLocks, [Next]_vars PROVE SchedulerLocks'
  OBVIOUS
<1> USE DEF Shape, SchedulerLocks, MutexShape, SchedulerShape, mutex_vars,
            scheduler_vars
<1>1. CASE Scheduler
  BY <1>1, ReportStep
     DEF Scheduler, CheckRounds, WakeAndCheckStarted, BeginScan, Ping,
         PingRefused, Pong, PingBroken, NextClient, EndScan, AfterScan,
         Decide, LockStart, StartRound, BeginBroadcast, SkipNotReady,
         SendTrain, TrainFails, EndBroadcast
<1>2. CASE Listener
  BY <1>2 DEF Listener, ListenerCheck, AcceptId, AcceptResult,
       AcceptShutdown, Accept
<1>3. ASSUME NEW w \in Worker, Handler(w) PROVE SchedulerLocks'
  BY <1>3
     DEF Handler, SendId, ReplyId, ExtractId, RecvContent, UpdateStats,
         PutStats, CheckRound, LockResult, Accumulate, Average, Evaluate,
         Finish, SetShutdown
<1>4. ASSUME NEW d \in Device, DeviceStep(d) PROVE SchedulerLocks'
  BY <1>4 DEF DeviceStep, Boot, Listen, Train
<1>5. CASE Fault
  BY <1>5 DEF Fault, OperatorShutdown, LoseId, LoseTrain, Crash
<1>6. CASE UNCHANGED vars
  BY <1>6 DEF vars
<1> QED
  BY <1>1, <1>2, <1>3, <1>4, <1>5, <1>6 DEF Next, Running, Exited

\* Worker's names are no value of a free mutex, so that a handler that finds
\* the mutex free knows that no handler is in the section.
LEMMA ResultLockNext == Shape /\ ResultLock /\ [Next]_vars => ResultLock'
<1> SUFFICES ASSUME Shape, ResultLock, [Next]_vars PROVE ResultLock'
  OBVIOUS
<1> USE WorkerAssumption
    DEF Shape, ResultLock, Locked, MutexShape, WorkerShape, mutex_vars
<1>1. CASE Scheduler
  BY <1>1, ReportStep
     DEF Scheduler, CheckRounds, WakeAndCheckStarted, BeginScan, Ping,
         PingRefused, Pong, PingBroken, NextClient, EndScan, AfterScan,
         Decide, LockStart, StartRound, BeginBroadcast, SkipNotReady,
         SendTrain, TrainFails, EndBroadcast, worker_vars
<1>2. CASE Listener
  BY <1>2 DEF Listener, ListenerCheck, AcceptId, AcceptResult,
       AcceptShutdown, Accept, worker_vars
<1>3. ASSUME NEW w \in Worker,
             \/ SendId(w) \/ ReplyId(w) \/ ExtractId(w) \/ RecvContent(w)
             \/ UpdateStats(w) \/ PutStats(w) \/ CheckRound(w)
             \/ SetShutdown(w)
      PROVE  ResultLock'
  BY <1>3 DEF SendId, ReplyId, ExtractId, RecvContent, UpdateStats, PutStats,
       CheckRound, SetShutdown, Goto, Done
<1>4. ASSUME NEW w \in Worker, LockResult(w) PROVE ResultLock'
  BY <1>4 DEF LockResult, ResultMutexFree, Goto, Done
<1>5. ASSUME NEW w \in Worker, Accumulate(w) PROVE ResultLock'
  BY <1>5 DEF Accumulate, Goto, Done
<1>6. ASSUME NEW w \in Worker, Average(w) \/ Evaluate(w) PROVE ResultLock'
  BY <1>6 DEF Average, Evaluate, Goto
<1>7. ASSUME NEW w \in Worker, Finish(w) PROVE ResultLock'
  BY <1>7 DEF Finish, Done
<1>8. ASSUME NEW d \in Device, DeviceStep(d) PROVE ResultLock'
  BY <1>8 DEF DeviceStep, Boot, Listen, Train, worker_vars
<1>9. CASE Fault
  BY <1>9 DEF Fault, OperatorShutdown, LoseId, LoseTrain, Crash, worker_vars
<1>10. CASE UNCHANGED vars
  BY <1>10 DEF vars, worker_vars
<1> QED
  BY <1>1, <1>2, <1>3, <1>4, <1>5, <1>6, <1>7, <1>8, <1>9, <1>10
     DEF Next, Running, Exited, Handler

\* The three mutexes exclude what they are there to exclude.
THEOREM AlwaysExclusion == Spec => []Exclusion
<1>1. Init => SchedulerLocks /\ ResultLock
  BY WorkerAssumption DEF Init, SchedulerLocks, ResultLock, Locked
<1>2. Shape /\ SchedulerLocks /\ ResultLock /\ [Next]_vars
        => SchedulerLocks' /\ ResultLock'
  BY SchedulerLocksNext, ResultLockNext
<1>3. SchedulerLocks /\ ResultLock => Exclusion
  BY DEF SchedulerLocks, ResultLock, Exclusion
<1> QED
  BY <1>1, <1>2, <1>3, AlwaysShape, PTL DEF Spec

-----------------------------------------------------------------------------
(* What the scheduler's place says of the round. *)

\* Between the test of started and the start of a round nobody starts one.
BeforeStart == {"lock_ping", "ping", "decide", "lock_start", "starting"}
StartOnlyOnce ==
  /\ round_number <= NumRounds
  /\ pc \in BeforeStart \cup {"sleep"} => round_number < NumRounds
  /\ pc \in BeforeStart => ~started

\* clients_ready counts the flags: those behind the cursor during the scan,
\* all of them after it.
Behind == {i \in ready : i < cursor}
FlagsCounted ==
  /\ pc = "ping" => clients_ready = Cardinality(Behind)
  /\ pc \in {"decide", "lock_start", "starting"} =>
       clients_ready = Cardinality(ready)
  /\ pc \in {"lock_start", "starting"} => clients_ready = ClientsPerRound

\* A round runs with as many entries ready as it waits for.
RoundIsFull ==
  started => participants = ClientsPerRound
             /\ Cardinality(ready) = ClientsPerRound

Control == StartOnlyOnce /\ FlagsCounted /\ RoundIsFull

\* The entries marked ready are finitely many, so they can be counted.
LEMMA ReadyFinite == Shape => IsFiniteSet(ready) /\ Cardinality(ready) \in Nat
<1> SUFFICES ASSUME Shape
             PROVE  IsFiniteSet(ready) /\ Cardinality(ready) \in Nat
  OBVIOUS
<1>1. Len(clients) \in Nat /\ ready \in SUBSET (1 .. Len(clients))
  BY DEF Shape, ClientShape
<1>2. IsFiniteSet(1 .. Len(clients))
  BY <1>1, FS_Interval
<1> QED
  BY <1>1, <1>2, FS_Subset, FS_CardinalityType

\* The scheduler goes beyond its check only while no round is running.
LEMMA StartOnlyOnceNext ==
  Shape /\ StartOnlyOnce /\ [Next]_vars => StartOnlyOnce'
<1> SUFFICES ASSUME Shape, StartOnlyOnce, [Next]_vars PROVE StartOnlyOnce'
  OBVIOUS
<1> USE BoundAssumption
    DEF Shape, StartOnlyOnce, BeforeStart, RoundShape, SchedulerShape,
        data_vars, round_vars, scheduler_vars
<1>1. CASE CheckRounds \/ WakeAndCheckStarted \/ BeginScan
  BY <1>1 DEF CheckRounds, WakeAndCheckStarted, BeginScan, AllRoundsStarted,
       RoundRunning
<1>2. CASE Ping \/ PingRefused \/ Pong \/ PingBroken \/ EndScan
  BY <1>2 DEF Ping, PingRefused, Pong, PingBroken, NextClient, EndScan
<1>3. CASE Decide \/ LockStart
  BY <1>3 DEF Decide, LockStart
<1>10. CASE StartRound
  BY <1>10 DEF StartRound
<1>4. CASE \/ BeginBroadcast \/ SkipNotReady \/ SendTrain \/ TrainFails
           \/ EndBroadcast \/ WriteStats
  BY <1>4, ReportStep DEF BeginBroadcast, SkipNotReady, SendTrain, TrainFails,
       EndBroadcast
<1>5. CASE Listener
  BY <1>5 DEF Listener, ListenerCheck, AcceptId, AcceptResult,
       AcceptShutdown, Accept
<1>6. ASSUME NEW w \in Worker, Handler(w) PROVE StartOnlyOnce'
  <2>1. pc' = pc /\ round_number' = round_number
    BY <1>6 DEF Handler, SendId, ReplyId, ExtractId, RecvContent, UpdateStats,
         PutStats, CheckRound, LockResult, Accumulate, Average, Evaluate,
         Finish, SetShutdown
  <2>2. started' = started \/ ~started'
    BY <1>6 DEF Handler, SendId, ReplyId, ExtractId, RecvContent, UpdateStats,
         PutStats, CheckRound, LockResult, Accumulate, Average, Evaluate,
         Finish, SetShutdown
  <2> QED
    BY <2>1, <2>2
<1>7. ASSUME NEW d \in Device, DeviceStep(d) PROVE StartOnlyOnce'
  BY <1>7 DEF DeviceStep, Boot, Listen, Train
<1>8. CASE Fault
  BY <1>8 DEF Fault, OperatorShutdown, LoseId, LoseTrain, Crash
<1>9. CASE UNCHANGED vars
  BY <1>9 DEF vars
<1> QED
  BY <1>1, <1>2, <1>3, <1>4, <1>5, <1>6, <1>7, <1>8, <1>9,
     <1>10
     DEF Next, Running, Exited, Scheduler

\* clients_ready counts the entries that the scan has marked.
LEMMA FlagsCountedNext ==
  Shape /\ FlagsCounted /\ [Next]_vars => FlagsCounted'
<1> SUFFICES ASSUME Shape, FlagsCounted, [Next]_vars PROVE FlagsCounted'
  OBVIOUS
<1>0. /\ cursor \in Nat \ {0} /\ Len(clients) \in Nat
      /\ \A i \in ready : i \in Nat \ {0} /\ i <= Len(clients)
  BY DEF Shape, ClientShape, SchedulerShape
<1> USE DEF FlagsCounted
<1>1. CASE BeginScan
  <2>1. ready' = ready /\ cursor' = 1
    BY <1>1 DEF BeginScan
  <2>2. Behind' = {}
    BY <1>0, <2>1 DEF Behind
  <2> QED
    BY <1>1, <2>2, FS_EmptySet DEF BeginScan
<1>2. CASE PingRefused \/ PingBroken
  <2>1. pc = "ping" /\ pc' = "ping" /\ clients_ready' = clients_ready
    BY <1>2 DEF PingRefused, PingBroken, FoundUnready, NextClient
  <2>2. ready' = ready \ {cursor} /\ cursor' = cursor + 1
    BY <1>2 DEF PingRefused, PingBroken, FoundUnready, NextClient
  <2>3. Behind' = Behind
    BY <1>0, <2>2 DEF Behind
  <2> QED
    BY <2>1, <2>3
<1>3. CASE Pong
  <2>1. /\ pc = "ping" /\ pc' = "ping" /\ clients_ready' = clients_ready + 1
        /\ ready' = ready \cup {cursor} /\ cursor' = cursor + 1
    BY <1>3 DEF Pong, FoundReady, NextClient
  <2>2. Behind' = Behind \cup {cursor} /\ cursor \notin Behind
    BY <1>0, <2>1 DEF Behind
  <2>3. IsFiniteSet(Behind)
    BY ReadyFinite, FS_Subset DEF Behind
  <2>4. Cardinality(Behind \cup {cursor}) = Cardinality(Behind) + 1
    BY <2>2, <2>3, FS_AddElement
  <2> QED
    BY <2>1, <2>2, <2>4
<1>4. CASE EndScan
  <2>1. pc = "ping" /\ pc' = "decide" /\ UNCHANGED client_vars
    BY <1>4 DEF EndScan, data_vars
  <2>2. Behind = ready
    BY <1>0, <1>4 DEF EndScan, Behind
  <2> QED
    BY <2>1, <2>2 DEF client_vars
<1>5. CASE UNCHANGED <<pc, cursor, ready, clients_ready>>
  BY <1>5 DEF Behind
<1>6. CASE Decide \/ LockStart
  BY <1>6 DEF Decide, LockStart, data_vars, client_vars
<1>7. CASE /\ Scheduler
           /\ ~(BeginScan \/ PingRefused \/ Pong \/ PingBroken \/ EndScan)
           /\ ~(Decide \/ LockStart \/ Ping)
  <2>1. pc' \notin {"ping", "decide", "lock_start", "starting"}
    BY <1>7, ReportStep
       DEF Scheduler, CheckRounds, WakeAndCheckStarted, StartRound,
           BeginBroadcast, SkipNotReady, SendTrain, TrainFails, EndBroadcast
  <2> QED
    BY <2>1
<1>8. CASE Ping
  BY <1>8, <1>5 DEF Ping, data_vars, client_vars
<1>9. CASE Listener \/ UNCHANGED vars
  BY <1>5, <1>9 DEF Listener, ListenerCheck, AcceptId, AcceptResult,
       AcceptShutdown, Accept, vars, data_vars, client_vars, scheduler_vars
<1>10. ASSUME NEW w \in Worker, Handler(w) PROVE FlagsCounted'
  BY <1>5, <1>10 DEF Handler, SendId, ReplyId, ExtractId, RecvContent,
       UpdateStats, PutStats, CheckRound, LockResult, Accumulate, Average,
       Evaluate, Finish, SetShutdown, data_vars, client_vars, scheduler_vars
<1>11. ASSUME NEW d \in Device, DeviceStep(d) PROVE FlagsCounted'
  BY <1>5, <1>11 DEF DeviceStep, Boot, Listen, Train, data_vars, client_vars,
       scheduler_vars
<1>12. CASE Fault
  BY <1>5, <1>12
     DEF Fault, OperatorShutdown, LoseId, LoseTrain, Crash, data_vars,
       client_vars, scheduler_vars
<1> QED
  BY <1>1, <1>2, <1>3, <1>4, <1>6, <1>7, <1>8, <1>9, <1>10, <1>11, <1>12
     DEF Next, Running, Exited

\* A running round has ClientsPerRound participants, those marked ready.
LEMMA RoundIsFullNext ==
  Shape /\ Control /\ [Next]_vars => RoundIsFull'
<1> SUFFICES ASSUME Shape, Control, [Next]_vars PROVE RoundIsFull'
  OBVIOUS
<1> USE DEF Control, RoundIsFull, round_vars, client_vars
<1>1. CASE StartRound
  BY <1>1 DEF StartRound, FlagsCounted, client_vars
<1>2. ASSUME NEW w \in Worker, Accumulate(w) \/ Finish(w) PROVE RoundIsFull'
  BY <1>2 DEF Accumulate, Finish
<1>3. CASE UNCHANGED <<round_vars, responded>> /\ UNCHANGED client_vars
  BY <1>3
<1>4. CASE /\ UNCHANGED <<round_vars, responded>>
           /\ BeginScan \/ PingRefused \/ Pong \/ PingBroken
  <2>1. pc \in BeforeStart
    BY <1>4 DEF BeginScan, PingRefused, Pong, PingBroken, BeforeStart
  <2> QED
    BY <1>4, <2>1 DEF StartOnlyOnce
<1>5. ASSUME UNCHANGED <<round_vars, responded>>,
             NEW w \in Worker, SendId(w)
      PROVE  RoundIsFull'
  BY <1>5 DEF SendId
<1> QED
  BY <1>1, <1>2, <1>3, <1>4, <1>5, RoundWriters, ClientWriters

\* The scheduler's place says what it should, so that a round is started
\* with a full set of participants, and the set stays as it is.
LEMMA AlwaysControl == Spec => []Control
<1>1. Init => Control
  BY BoundAssumption
     DEF Init, Control, StartOnlyOnce, FlagsCounted, RoundIsFull, BeforeStart
<1>2. Shape /\ Control /\ [Next]_vars => Control'
  BY StartOnlyOnceNext, FlagsCountedNext, RoundIsFullNext DEF Control
<1> QED
  BY <1>1, <1>2, AlwaysShape, PTL DEF Spec

\* While a round runs it has as many participants as entries marked ready.
THEOREM AlwaysParticipantsAreReady == Spec => []ParticipantsAreReady
<1>1. Control => ParticipantsAreReady
  BY DEF Control, RoundIsFull, ParticipantsAreReady
<1> QED
  BY <1>1, AlwaysControl, PTL

\* The membership of a round that runs does not change.
THEOREM AlwaysMembershipStable == Spec => MembershipStable
<1>1. ASSUME Shape, Control, [Next]_vars, started, started'
      PROVE  participants' = participants /\ ready' = ready
  <2>1. CASE BeginScan \/ PingRefused \/ Pong \/ PingBroken
    <3>1. pc \in BeforeStart
      BY <2>1 DEF BeginScan, PingRefused, Pong, PingBroken, BeforeStart
    <3> QED
      BY <1>1, <3>1 DEF Control, StartOnlyOnce
  <2>2. CASE (\E w \in Worker : SendId(w)) \/ UNCHANGED client_vars
    <3>1. ready' = ready
      BY <2>2 DEF SendId, client_vars
    <3>2. CASE StartRound
      BY <1>1, <3>2 DEF StartRound, Control, StartOnlyOnce, BeforeStart
    <3>3. CASE \/ \E w \in Worker : Accumulate(w) \/ Finish(w)
               \/ UNCHANGED <<round_vars, responded>>
      BY <3>1, <3>3 DEF Accumulate, Finish, round_vars
    <3> QED
      BY <1>1, <3>2, <3>3, RoundWriters
  <2> QED
    BY <1>1, <2>1, <2>2, ClientWriters
<1> QED
  BY <1>1, AlwaysShape, AlwaysControl, PTL DEF Spec, MembershipStable
=============================================================================
