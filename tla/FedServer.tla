----------------------------- MODULE FedServer ------------------------------
(***************************************************************************)
(* The threads of the zfl server (zflserver/src/main.c) and the devices    *)
(* that talk to it: the round scheduler (start_round), the listener        *)
(* (accept_conns), one handler thread per connection                       *)
(* (handle_incoming_connection, send_id, handle_results), and, for each    *)
(* device, what the client program (zflclient/src/main.c) does with the    *)
(* requests it gets.                                                       *)
(*                                                                         *)
(* A step is what one thread does between two points where another thread  *)
(* may come in: taking or releasing a mutex, or the network.  A critical   *)
(* section whose data no other section touches is a single step that       *)
(* needs the mutex free; a mutex held across several steps is recorded     *)
(* with its owner.  Parameters of the neural network are abstracted to     *)
(* which updates a buffer sums, and how often.                             *)
(***************************************************************************)
EXTENDS Naturals, Sequences, FiniteSets

CONSTANTS Device,          \* the emulated devices, each with its address
          Worker,          \* handler threads that may be alive at once
          NumRounds,       \* argv[1]: rounds to aggregate
          ClientsPerRound, \* argv[2]: ready clients that start a round
          MaxClients,      \* bound: registrations the model follows
          Faulty,          \* devices crash and connections break
          MayShutdown,     \* the operator may POST /shutdown
          FirstCapacity,   \* da.h: elements in an array's first block (4)
          NoRequest        \* a worker that serves no request

Retries == 3               \* attempts to deliver one POST /train
NoId == 0                  \* the static ID of a device that was given none

ASSUME DeviceAssumption == IsFiniteSet(Device) /\ NoRequest \notin Device
ASSUME WorkerAssumption ==
  Worker \cap {"free", "scheduler", "none", "backlog"} = {}
ASSUME BoundAssumption ==
  /\ NumRounds \in Nat
  /\ ClientsPerRound \in Nat \ {0}
  /\ MaxClients \in Nat
  /\ FirstCapacity \in Nat \ {0}
  /\ Faulty \in BOOLEAN /\ MayShutdown \in BOOLEAN

Entry == 1 .. MaxClients   \* a client's place in SERVER.clients, its id
Round == 1 .. NumRounds

\* The parameters one device sends back: the entry it was trained for, the
\* round it names and the version of the global model it started from.
Update == [entry : Entry, round : Round, base : 0 .. NumRounds]
Result == [id : 0 .. MaxClients, update : Update]  \* POST /results?id=
Registration == [peer : Device, id : 0 .. MaxClients]  \* GET /id
ASSUME RequestAssumption == NoRequest \notin Result \cup Registration

NoUpdates == [u \in Update |-> 0]
Model == [version : Nat, sum : [Update -> Nat], n : Nat]

VARIABLES
  clients,          \* SERVER.clients: the address of each entry
  ready,            \* the entries of SERVER.clients whose ready is true
  clients_ready,    \* SERVER.clients_ready
  started, averaging, round_number, participants, responded,
  weights,          \* current_round.weights/biases: how often each is summed
  nn,               \* current_round.nn
  accuracies,       \* the model evaluated by each da_put(accuracies)
  stats,            \* SERVER.stats: for each round the clients' rows
  file,             \* the text of stats.json, as far as it is printed
  round_mutex, client_mutex, result_mutex,
  pc, cursor, attempt,  \* scheduler: where it is, loop variables
  ping,             \* scheduler's GET /ready: "none", "open" or "silent"
  listener, should_shutdown,
  wpc, req,         \* each worker: where it is, the request it serves
  phase,            \* each device: "off", "boot", "loading" or "serving"
  device_id,        \* each device: its static ID
  id_conn,          \* each device: its GET /id connection, and who has it
  trains,           \* POST /train delivered to a device, not yet answered
  posts,            \* POST /results waiting in the listen backlog
  shutdown_request  \* a POST /shutdown waiting in the listen backlog

client_vars == <<clients, ready, clients_ready>>
round_vars == <<started, averaging, round_number, participants>>
result_vars == <<responded, weights, nn, accuracies>>
data_vars == <<client_vars, round_vars, result_vars, stats, file>>
scheduler_vars == <<pc, cursor, attempt, ping>>
listener_vars == <<listener, should_shutdown>>
worker_vars == <<wpc, req>>
device_vars == <<phase, device_id, id_conn>>
net_vars == <<trains, posts, shutdown_request>>
mutex_vars == <<round_mutex, client_mutex, result_mutex>>
vars == <<data_vars, mutex_vars, scheduler_vars, listener_vars, worker_vars,
          device_vars, net_vars>>

Init ==
  /\ clients = <<>> /\ ready = {} /\ clients_ready = 0
  /\ started = FALSE /\ averaging = FALSE
  /\ round_number = 0 /\ participants = 0 /\ responded = 0
  /\ weights = NoUpdates
  /\ nn = [version |-> 0, sum |-> NoUpdates, n |-> 0]
  /\ accuracies = <<>> /\ stats = <<>> /\ file = <<>>
  /\ round_mutex = "free" /\ client_mutex = "free" /\ result_mutex = "free"
  /\ pc = "check" /\ cursor = 1 /\ attempt = 1 /\ ping = "none"
  /\ listener = "check" /\ should_shutdown = FALSE
  /\ wpc = [w \in Worker |-> "idle"]
  /\ req = [w \in Worker |-> NoRequest]
  /\ phase = [d \in Device |-> "off"]
  /\ device_id = [d \in Device |-> NoId]
  /\ id_conn = [d \in Device |-> "none"]
  /\ trains = {} /\ posts = {} /\ shutdown_request = FALSE

-----------------------------------------------------------------------------
(* The scheduler thread, start_round. *)

\* connect_client succeeds: a device listens at the entry's address.
Reachable(i) == phase[clients[i]] = "serving"

\* The loop's head: without a lock, are all the rounds started?
OneRoundMore == round_number > NumRounds          \* mutant: off by one
AllRoundsStarted == round_number >= NumRounds
CheckRounds ==
  /\ pc = "check"
  /\ pc' = IF AllRoundsStarted THEN "report" ELSE "sleep"
  /\ UNCHANGED <<data_vars, mutex_vars, cursor, attempt, ping, listener_vars,
                 worker_vars, device_vars, net_vars>>

\* sleep(10), then one section of round_mutex: is a round still running?
NeverRunning == FALSE                             \* mutant: guard dropped
RoundRunning == started
WakeAndCheckStarted ==
  /\ pc = "sleep"
  /\ round_mutex = "free"
  /\ pc' = IF RoundRunning THEN "check" ELSE "lock_ping"
  /\ UNCHANGED <<data_vars, mutex_vars, cursor, attempt, ping, listener_vars,
                 worker_vars, device_vars, net_vars>>

\* client_mutex is held from here to EndScan, across the network.
BeginScan ==
  /\ pc = "lock_ping"
  /\ client_mutex = "free"
  /\ client_mutex' = "scheduler"
  /\ clients_ready' = 0
  /\ cursor' = 1
  /\ pc' = "ping"
  /\ UNCHANGED <<clients, ready, round_vars, result_vars, stats, file,
                 round_mutex, result_mutex, attempt, ping, listener_vars,
                 worker_vars, device_vars, net_vars>>

\* The entry at the cursor is found ready or not, and the scan goes on.
FoundReady ==
  /\ ready' = ready \cup {cursor}
  /\ clients_ready' = clients_ready + 1
FoundUnready ==
  /\ ready' = ready \ {cursor}
  /\ UNCHANGED clients_ready
NextClient ==
  /\ cursor' = cursor + 1
  /\ ping' = "none"
  /\ UNCHANGED <<clients, round_vars, result_vars, stats, file, mutex_vars, pc,
                 attempt, listener_vars, worker_vars, device_vars, net_vars>>

\* connect_client and sendall of GET /ready.  The scheduler then sits in a
\* recv that has no timeout.
Ping ==
  /\ pc = "ping" /\ ping = "none"
  /\ cursor <= Len(clients)
  /\ Reachable(cursor)
  /\ ping' = "open"
  /\ UNCHANGED <<data_vars, mutex_vars, pc, cursor, attempt, listener_vars,
                 worker_vars, device_vars, net_vars>>

\* Nobody listens: connect fails and so does the recv on socket -1.
PingRefused ==
  /\ pc = "ping" /\ ping = "none"
  /\ cursor <= Len(clients)
  /\ ~Reachable(cursor)
  /\ FoundUnready /\ NextClient

\* The device's handler answers "true": it serves only with its samples.
Pong ==
  /\ pc = "ping" /\ ping = "open"
  /\ Reachable(cursor)
  /\ FoundReady /\ NextClient

\* The connection breaks: recv returns no byte.
PingBroken ==
  /\ Faulty
  /\ pc = "ping" /\ ping = "open"
  /\ FoundUnready /\ NextClient

KeepIfFew ==                                 \* mutant: unlock on one path only
  IF clients_ready = ClientsPerRound THEN "free" ELSE "scheduler"
AfterScan == "free"
EndScan ==
  /\ pc = "ping" /\ ping = "none"
  /\ cursor > Len(clients)
  /\ client_mutex' = AfterScan
  /\ pc' = "decide"
  /\ UNCHANGED <<data_vars, round_mutex, result_mutex, cursor, attempt, ping,
                 listener_vars, worker_vars, device_vars, net_vars>>

\* The comparison is an equality.
Decide ==
  /\ pc = "decide"
  /\ pc' = IF clients_ready = ClientsPerRound THEN "lock_start" ELSE "check"
  /\ UNCHANGED <<data_vars, mutex_vars, cursor, attempt, ping, listener_vars,
                 worker_vars, device_vars, net_vars>>

LockStart ==
  /\ pc = "lock_start"
  /\ round_mutex = "free"
  /\ round_mutex' = "scheduler"
  /\ pc' = "starting"
  /\ UNCHANGED <<data_vars, client_mutex, result_mutex, cursor, attempt, ping,
                 listener_vars, worker_vars, device_vars, net_vars>>

StartRound ==
  /\ pc = "starting"
  /\ started' = TRUE
  /\ round_number' = round_number + 1
  /\ participants' = clients_ready
  /\ round_mutex' = "free"
  /\ pc' = "lock_train"
  /\ UNCHANGED <<client_vars, averaging, result_vars, stats, file,
                 client_mutex, result_mutex, cursor, attempt, ping,
                 listener_vars, worker_vars, device_vars, net_vars>>

BeginBroadcast ==
  /\ pc = "lock_train"
  /\ client_mutex = "free"
  /\ client_mutex' = "scheduler"
  /\ cursor' = 1
  /\ attempt' = 1
  /\ pc' = "train"
  /\ UNCHANGED <<data_vars, round_mutex, result_mutex, ping, listener_vars,
                 worker_vars, device_vars, net_vars>>

\* The broadcast loop leaves the entry at the cursor.
SkipNotReady ==
  /\ pc = "train"
  /\ cursor <= Len(clients)
  /\ cursor \notin ready
  /\ cursor' = cursor + 1
  /\ UNCHANGED <<data_vars, mutex_vars, pc, attempt, ping, listener_vars,
                 worker_vars, device_vars, net_vars>>

\* connect, weights_to_string(current_round.nn) and both sendall succeed.
SendTrain ==
  /\ pc = "train"
  /\ cursor <= Len(clients)
  /\ cursor \in ready
  /\ Reachable(cursor)
  /\ trains' = trains \cup
       {[entry |-> cursor, round |-> round_number, base |-> nn.version]}
  /\ cursor' = cursor + 1
  /\ attempt' = 1
  /\ UNCHANGED <<data_vars, mutex_vars, pc, ping, listener_vars, worker_vars,
                 device_vars, posts, shutdown_request>>

\* The attempt fails: try again, or give the client up after the last.
TrainFails ==
  /\ pc = "train"
  /\ cursor <= Len(clients)
  /\ cursor \in ready
  /\ Faulty \/ ~Reachable(cursor)
  /\ IF attempt < Retries
     THEN attempt' = attempt + 1 /\ cursor' = cursor
     ELSE attempt' = 1 /\ cursor' = cursor + 1
  /\ UNCHANGED <<data_vars, mutex_vars, pc, ping, listener_vars, worker_vars,
                 device_vars, net_vars>>

EndBroadcast ==
  /\ pc = "train"
  /\ cursor > Len(clients)
  /\ client_mutex' = "free"
  /\ pc' = "check"
  /\ UNCHANGED <<data_vars, round_mutex, result_mutex, cursor, attempt, ping,
                 listener_vars, worker_vars, device_vars, net_vars>>

\* write_stats runs when all the rounds are started, with no lock, while the
\* handlers of the last round go on.  Its loop variables are read off what is
\* printed: i is Len(file) - 1, j is Len(Row.entries) - 1.
NoAccuracy == 0            \* what lies behind the end of accuracies
NoFigures == 0             \* what lies in an element not yet written
Row == file[Len(file)]
Reporting(at) ==
  /\ pc' = at
  /\ UNCHANGED <<client_vars, round_vars, result_vars, stats, mutex_vars,
                 cursor, attempt, ping, listener_vars, worker_vars,
                 device_vars, net_vars>>

\* update_stats holds stats_mutex between its two calls of da_put, the first
\* of which it makes only for a row that is not there.
StatsMutexFree == \A w \in Worker : wpc[w] # "put_stats"
RoundNamed(w) == req[w].update.round
AddingRow ==
  \E w \in Worker : /\ wpc[w] = "update_stats" /\ StatsMutexFree
                    /\ Len(stats) < RoundNamed(w)
AddingTo(i) == \E w \in Worker : wpc[w] = "put_stats" /\ RoundNamed(w) = i

\* A length of which write_stats has seen so much already: while a da_put is
\* at work the new element counts or not, written or not.
Seen(text) ==
  Len(text) + (IF text # <<>> /\ text[Len(text)].comma THEN 1 ELSE 0)
Length(len, adding, seen) ==
  {n \in len .. len + (IF adding THEN 1 ELSE 0) : n >= seen}
RowsRead == Length(Len(stats), AddingRow, Seen(file))
EntriesRead ==                          \* da_len(s), and of a NULL s 0
  IF Row.taken = 0 THEN {0}
  ELSE Length(Len(stats[Len(file)]), AddingTo(Len(file)), Seen(Row.entries))

\* The loop's test and the head of a row.
PrintHead ==
  /\ pc = "report"
  /\ \E n \in RowsRead : Len(file) < n
  /\ accuracies # <<>>
  /\ file' = Append(file,
       [accuracy |-> IF Len(file) < Len(accuracies) THEN Len(file) + 1
                                                    ELSE NoAccuracy,
        taken |-> 0, entries |-> <<>>, comma |-> FALSE])
  /\ Reporting("row")

\* s is the row as it is now: what is added later shows only while da_put
\* leaves the row in its block.
TakeRow ==
  /\ pc = "row"
  /\ Len(file) <= Len(stats)
  /\ \E n \in Length(Len(stats[Len(file)]), AddingTo(Len(file)), 0) :
       file' = [file EXCEPT ![Len(file)].taken = n]
  /\ Reporting("entry")

\* Every entry is printed from s itself, which is the row's first.
FirstFigures(row) == IF row = <<>> THEN NoFigures ELSE row[1]
PrintEntry ==
  /\ pc = "entry"
  /\ \E n \in EntriesRead : Len(Row.entries) < n
  /\ file' = [file EXCEPT ![Len(file)].entries =
       Append(@, [figures |-> FirstFigures(stats[Len(file)]),
                  comma |-> FALSE])]
  /\ Reporting("comma")

Beyond(printed, n) == printed > n        \* mutant: comparison turned round
NotTheLast(printed, n) == printed # n
EntryComma ==
  /\ pc = "comma"
  /\ \E n \in EntriesRead :
       file' = [file EXCEPT ![Len(file)].entries[Len(Row.entries)].comma =
                  NotTheLast(Len(Row.entries), n)]
  /\ Reporting("entry")

EndEntries ==
  /\ pc = "entry"
  /\ \E n \in EntriesRead : Len(Row.entries) >= n
  /\ Reporting("end_row")
  /\ UNCHANGED file

RowComma ==
  /\ pc = "end_row"
  /\ \E n \in RowsRead :
       file' = [file EXCEPT ![Len(file)].comma = NotTheLast(Len(file), n)]
  /\ Reporting("report")

\* The text is complete and written out, and the thread ends; main was
\* joined on it and exits.
WriteFile ==
  /\ pc = "report"
  /\ \E n \in RowsRead : Len(file) >= n
  /\ Reporting("exited")
  /\ UNCHANGED file

\* da_put moves an array of n elements, and frees the block it was in.
Moves(n) == \E k \in 0 .. n : n = FirstCapacity * 2 ^ k

\* write_stats reads through NULL, a row not yet written or a freed block.
ReadsAstray ==
  \/ /\ pc = "report" /\ \E n \in RowsRead : Len(file) < n
     /\ \/ accuracies = <<>>
        \/ (\E w \in Worker : wpc[w] = "evaluate") /\ Moves(Len(accuracies))
  \/ pc \in {"report", "row", "end_row"} /\ AddingRow /\ Moves(Len(stats))
  \/ pc = "row" /\ Len(file) > Len(stats)
  \/ /\ pc \in {"entry", "comma"}
     /\ \E n \in EntriesRead : \E k \in Row.taken .. n - 1 : Moves(k)
ReadAstray ==
  /\ ReadsAstray
  /\ Reporting("undefined")
  /\ UNCHANGED file

WriteStats ==
  \/ PrintHead \/ TakeRow \/ PrintEntry \/ EntryComma \/ EndEntries
  \/ RowComma \/ WriteFile \/ ReadAstray

Scheduler ==
  \/ CheckRounds \/ WakeAndCheckStarted
  \/ BeginScan \/ Ping \/ PingRefused \/ Pong \/ PingBroken \/ EndScan
  \/ Decide \/ LockStart \/ StartRound
  \/ BeginBroadcast \/ SkipNotReady \/ SendTrain \/ TrainFails \/ EndBroadcast
  \/ WriteStats

-----------------------------------------------------------------------------
(* The listener thread, accept_conns, and main's accepted connections. *)

\* Returning with shutdown_mutex locked leaves it locked for ever: nobody
\* takes it again once the listener is "dead".
ListenerCheck ==
  /\ listener = "check"
  /\ listener' = IF should_shutdown THEN "dead" ELSE "accept"
  /\ UNCHANGED <<data_vars, mutex_vars, scheduler_vars, should_shutdown,
                 worker_vars, device_vars, net_vars>>

\* A connection is accepted and worker w runs for it from step `at`.
Accept(w, at, request) ==
  /\ listener = "accept"
  /\ wpc[w] = "idle"
  /\ listener' = "check"
  /\ wpc' = [wpc EXCEPT ![w] = at]
  /\ req' = [req EXCEPT ![w] = request]
  /\ UNCHANGED <<data_vars, mutex_vars, scheduler_vars, should_shutdown>>

AcceptId(w, d) ==
  /\ id_conn[d] = "backlog"
  /\ Accept(w, "send_id", [peer |-> d, id |-> NoId])
  /\ id_conn' = [id_conn EXCEPT ![d] = w]
  /\ UNCHANGED <<phase, device_id, net_vars>>

AcceptResult(w, p) ==
  /\ p \in posts
  /\ Accept(w, "extract_id", p)
  /\ posts' = posts \ {p}
  /\ UNCHANGED <<device_vars, trains, shutdown_request>>

AcceptShutdown(w) ==
  /\ shutdown_request
  /\ Accept(w, "set_shutdown", NoRequest)
  /\ shutdown_request' = FALSE
  /\ UNCHANGED <<device_vars, trains, posts>>

Listener ==
  \/ ListenerCheck
  \/ \E w \in Worker : \/ \E d \in Device : AcceptId(w, d)
                       \/ \E p \in posts : AcceptResult(w, p)
                       \/ AcceptShutdown(w)

-----------------------------------------------------------------------------
(* A handler thread, handle_incoming_connection. *)

Goto(w, at) == wpc' = [wpc EXCEPT ![w] = at] /\ UNCHANGED req

\* The thread closes its connection and ends.
Done(w) ==
  /\ wpc' = [wpc EXCEPT ![w] = "idle"]
  /\ req' = [req EXCEPT ![w] = NoRequest]

\* send_id: the number is drawn and the client appended in one section of
\* client_mutex; the same address may be registered again.
SendId(w) ==
  /\ wpc[w] = "send_id"
  /\ client_mutex = "free"
  /\ Len(clients) < MaxClients
  /\ clients' = Append(clients, req[w].peer)
  /\ req' = [req EXCEPT ![w] = [peer |-> req[w].peer, id |-> Len(clients) + 1]]
  /\ wpc' = [wpc EXCEPT ![w] = "reply_id"]
  /\ UNCHANGED <<ready, clients_ready, round_vars, result_vars, stats, file,
                 mutex_vars, scheduler_vars, listener_vars, device_vars,
                 net_vars>>

\* The number is sent after the unlock, and may be lost; the device that
\* receives nothing goes on with the ID it had (req_id's return is ignored).
ReplyId(w) ==
  /\ wpc[w] = "reply_id"
  /\ LET d == req[w].peer IN
     IF id_conn[d] = w
     THEN /\ phase' = [phase EXCEPT ![d] = "loading"]
          /\ id_conn' = [id_conn EXCEPT ![d] = "none"]
          /\ \/ device_id' = [device_id EXCEPT ![d] = req[w].id]
             \/ Faulty /\ UNCHANGED device_id
     ELSE UNCHANGED device_vars
  /\ Done(w)
  /\ UNCHANGED <<data_vars, mutex_vars, scheduler_vars, listener_vars,
                 net_vars>>

\* extract_id reads da_len(SERVER.clients) without client_mutex.
ExtractId(w) ==
  /\ wpc[w] = "extract_id"
  /\ IF req[w].id \in 1 .. Len(clients) THEN Goto(w, "recv_content")
                                        ELSE Done(w)
  /\ UNCHANGED <<data_vars, mutex_vars, scheduler_vars, listener_vars,
                 device_vars, net_vars>>

\* recv_content gets the whole body, or the socket's READ_TIMEOUT expires.
RecvContent(w) ==
  /\ wpc[w] = "recv_content"
  /\ \/ Goto(w, "update_stats")
     \/ Faulty /\ Done(w)
  /\ UNCHANGED <<data_vars, mutex_vars, scheduler_vars, listener_vars,
                 device_vars, net_vars>>

\* deserialize_training_data has found the round, never 0.  In one section of
\* stats_mutex a row is added when the round has none, and then the figures
\* to row round - 1 (from 0).  Past the end is undefined: see StatsInRange.
UpdateStats(w) ==
  /\ wpc[w] = "update_stats"
  /\ StatsMutexFree
  /\ stats' = IF Len(stats) < RoundNamed(w) THEN Append(stats, <<>>)
                                            ELSE stats
  /\ Goto(w, "put_stats")
  /\ UNCHANGED <<client_vars, round_vars, result_vars, file, mutex_vars,
                 scheduler_vars, listener_vars, device_vars, net_vars>>
PutStats(w) ==
  /\ wpc[w] = "put_stats"
  /\ stats' = [stats EXCEPT ![RoundNamed(w)] = Append(@, req[w].id)]
  /\ Goto(w, "check_round")
  /\ UNCHANGED <<client_vars, round_vars, result_vars, file, mutex_vars,
                 scheduler_vars, listener_vars, device_vars, net_vars>>

\* One section of round_mutex; the lock is released before the next step.
CheckRound(w) ==
  /\ wpc[w] = "check_round"
  /\ round_mutex = "free"
  /\ IF RoundNamed(w) = round_number THEN Goto(w, "lock_result")
                                     ELSE Done(w)
  /\ UNCHANGED <<data_vars, mutex_vars, scheduler_vars, listener_vars,
                 device_vars, net_vars>>

NoWait == TRUE                                    \* mutant: lock omitted
ResultMutexFree == result_mutex = "free"
LockResult(w) ==
  /\ wpc[w] = "lock_result"
  /\ ResultMutexFree
  /\ IF averaging
     THEN Done(w) /\ UNCHANGED result_mutex
     ELSE Goto(w, "accumulate") /\ result_mutex' = w
  /\ UNCHANGED <<data_vars, round_mutex, client_mutex, scheduler_vars,
                 listener_vars, device_vars, net_vars>>

\* parse_weights_json zeroes the buffers first when nobody has responded.
NotZeroed == weights                              \* mutant: missing reset
SumSoFar == IF responded = 0 THEN NoUpdates ELSE weights

ButOne(n) == n + 1 >= participants                \* mutant: off by one
OneMore(n) == n > participants                    \* mutant: off by one
AllResponded(n) == n = participants
Accumulate(w) ==
  /\ wpc[w] = "accumulate"
  /\ weights' = [SumSoFar EXCEPT ![req[w].update] = @ + 1]
  /\ responded' = responded + 1
  /\ averaging' = AllResponded(responded + 1)
  /\ IF AllResponded(responded + 1)
     THEN Goto(w, "average") /\ UNCHANGED result_mutex
     ELSE Done(w) /\ result_mutex' = "free"
  /\ UNCHANGED <<client_vars, started, round_number, participants, nn,
                 accuracies, stats, file, round_mutex, client_mutex,
                 scheduler_vars, listener_vars, device_vars, net_vars>>

\* The division by participants and init_nn on the scheduler's model.
Average(w) ==
  /\ wpc[w] = "average"
  /\ nn' = [version |-> nn.version + 1, sum |-> weights, n |-> participants]
  /\ Goto(w, "evaluate")
  /\ UNCHANGED <<client_vars, round_vars, responded, weights, accuracies,
                 stats, file, mutex_vars, scheduler_vars, listener_vars,
                 device_vars, net_vars>>

\* accuracy and loss of the new model, and one da_put for each.
Evaluate(w) ==
  /\ wpc[w] = "evaluate"
  /\ accuracies' = Append(accuracies, nn)
  /\ Goto(w, "finish")
  /\ UNCHANGED <<client_vars, round_vars, responded, weights, nn, stats, file,
                 mutex_vars, scheduler_vars, listener_vars, device_vars,
                 net_vars>>

\* The section of round_mutex nested in result_mutex, then both unlocks.
Finish(w) ==
  /\ wpc[w] = "finish"
  /\ round_mutex = "free"
  /\ started' = FALSE
  /\ averaging' = FALSE
  /\ responded' = 0
  /\ result_mutex' = "free"
  /\ Done(w)
  /\ UNCHANGED <<client_vars, round_number, participants, weights, nn,
                 accuracies, stats, file, round_mutex, client_mutex,
                 scheduler_vars, listener_vars, device_vars, net_vars>>

\* POST /shutdown needs shutdown_mutex, which a dead listener keeps.
SetShutdown(w) ==
  /\ wpc[w] = "set_shutdown"
  /\ listener # "dead"
  /\ should_shutdown' = TRUE
  /\ Done(w)
  /\ UNCHANGED <<data_vars, mutex_vars, scheduler_vars, listener, device_vars,
                 net_vars>>

Handler(w) ==
  \/ SendId(w) \/ ReplyId(w)
  \/ ExtractId(w) \/ RecvContent(w) \/ UpdateStats(w) \/ PutStats(w)
  \/ CheckRound(w)
  \/ LockResult(w) \/ Accumulate(w) \/ Average(w) \/ Evaluate(w) \/ Finish(w)
  \/ SetShutdown(w)

-----------------------------------------------------------------------------
(* A device: the client program, and the network between it and the server. *)

\* run: the device asks for its id.  A new process has no ID.
Boot(d) ==
  /\ phase[d] = "off"
  /\ Len(clients) < MaxClients
  /\ phase' = [phase EXCEPT ![d] = "boot"]
  /\ device_id' = [device_id EXCEPT ![d] = NoId]
  /\ id_conn' = [id_conn EXCEPT ![d] = "backlog"]
  /\ UNCHANGED <<data_vars, mutex_vars, scheduler_vars, listener_vars,
                 worker_vars, net_vars>>

\* run: images and labels are loaded (with no ID, none of either, which run
\* takes for a match), and start_server listens with samples_ready set.
Listen(d) ==
  /\ phase[d] = "loading"
  /\ phase' = [phase EXCEPT ![d] = "serving"]
  /\ UNCHANGED <<data_vars, mutex_vars, scheduler_vars, listener_vars,
                 worker_vars, device_id, id_conn, net_vars>>

\* GET /id fails: run, which ignores what req_id returns, goes on with no ID.
\* A server thread that has the connection still registers the device.
LoseId(d) ==
  /\ Faulty
  /\ phase[d] = "boot"
  /\ phase' = [phase EXCEPT ![d] = "loading"]
  /\ id_conn' = [id_conn EXCEPT ![d] = "none"]
  /\ UNCHANGED <<data_vars, mutex_vars, scheduler_vars, listener_vars,
                 worker_vars, device_id, net_vars>>

\* send_weights goes on to its next attempt unless this one delivered.
NotYet(u) == {}                                   \* mutant: missing break
Answered(u) == {u}

\* POST /train: init_model, train, and send_weights with the device's ID.
Train(d) ==
  /\ phase[d] = "serving"
  /\ \E u \in trains :
       /\ clients[u.entry] = d
       /\ trains' = trains \ Answered(u)
       /\ posts' = posts \cup {[id |-> device_id[d], update |-> u]}
  /\ UNCHANGED <<data_vars, mutex_vars, scheduler_vars, listener_vars,
                 worker_vars, device_vars, shutdown_request>>

\* The device cannot deliver its result (send_weights gave up).
LoseTrain(d) ==
  /\ Faulty
  /\ \E u \in trains : /\ clients[u.entry] = d
                       /\ trains' = trains \ {u}
  /\ UNCHANGED <<data_vars, mutex_vars, scheduler_vars, listener_vars,
                 worker_vars, device_vars, posts, shutdown_request>>

\* The emulator dies.  A ping in progress never gets an answer nor an error.
Crash(d) ==
  /\ Faulty
  /\ phase[d] # "off"
  /\ phase' = [phase EXCEPT ![d] = "off"]
  /\ device_id' = [device_id EXCEPT ![d] = NoId]
  /\ id_conn' = [id_conn EXCEPT ![d] = "none"]
  /\ trains' = {u \in trains : clients[u.entry] # d}
  /\ ping' = IF ping = "open" /\ clients[cursor] = d THEN "silent"
                                                         ELSE ping
  /\ UNCHANGED <<data_vars, mutex_vars, pc, cursor, attempt, listener_vars,
                 worker_vars, posts, shutdown_request>>

\* The operator posts /shutdown, once at a time.
OperatorShutdown ==
  /\ MayShutdown
  /\ ~shutdown_request
  /\ shutdown_request' = TRUE
  /\ UNCHANGED <<data_vars, mutex_vars, scheduler_vars, listener_vars,
                 worker_vars, device_vars, trains, posts>>

DeviceStep(d) == Boot(d) \/ Listen(d) \/ Train(d)
Fault ==
  OperatorShutdown \/ \E d \in Device : LoseId(d) \/ LoseTrain(d) \/ Crash(d)

-----------------------------------------------------------------------------
\* Once start_round has returned, main returns and every thread is gone.
\* What an undefined read leads to is not followed.
Ended == {"exited", "undefined"}
Exited == pc \in Ended /\ UNCHANGED vars

Running ==
  /\ pc \notin Ended
  /\ \/ Scheduler
     \/ Listener
     \/ \E w \in Worker : Handler(w)
     \/ \E d \in Device : DeviceStep(d)
     \/ Fault

Next == Running \/ Exited

Spec == Init /\ [][Next]_vars

\* Fairness of a run without faults: every thread and device goes on, and a
\* registration gets client_mutex in one of the scheduler's sleeps.
Fairness ==
  /\ WF_vars(Running /\ Scheduler)
  /\ WF_vars(Running /\ ListenerCheck)
  /\ \A d \in Device : /\ WF_vars(Running /\ DeviceStep(d))
                       /\ SF_vars(Running /\ \E w \in Worker : AcceptId(w, d))
  /\ \A e \in Entry :
       SF_vars(Running /\ \E w \in Worker, p \in posts :
                            p.update.entry = e /\ AcceptResult(w, p))
  /\ \A w \in Worker : /\ WF_vars(Running /\ Handler(w))
                       /\ SF_vars(Running /\ SendId(w))

FairSpec == Spec /\ Fairness

-----------------------------------------------------------------------------
(* Vocabulary of the properties. *)

Summed(sum) == {u \in Update : sum[u] > 0}

\* Where a handler of a result is between two points of handle_results.
Results == {"extract_id", "recv_content", "update_stats", "put_stats",
            "check_round", "lock_result", "accumulate", "average", "evaluate",
            "finish"}
Checked == {"lock_result", "accumulate", "average", "evaluate", "finish"}
Locked == {"accumulate", "average", "evaluate", "finish"}

\* Where the scheduler is in write_stats, and the text it prints of a round.
Report == {"report", "row", "entry", "comma", "end_row"}
FileEntry == [figures : Nat, comma : BOOLEAN]
FileRow == [accuracy : Nat, taken : Nat, entries : Seq(FileEntry),
            comma : BOOLEAN]

(***************************************************************************)
(* Types.  The one invariant that only bounds the values.                  *)
(***************************************************************************)
TypeOK ==
  /\ clients \in Seq(Device) /\ Len(clients) <= MaxClients
  /\ ready \subseteq DOMAIN clients
  /\ clients_ready \in Nat
  /\ started \in BOOLEAN /\ averaging \in BOOLEAN
  /\ round_number \in 0 .. NumRounds
  /\ participants \in Nat /\ responded \in Nat
  /\ weights \in [Update -> Nat]
  /\ nn \in Model
  /\ accuracies \in Seq(Model)
  /\ stats \in Seq(Seq(Nat))
  /\ file \in Seq(FileRow)
  /\ round_mutex \in {"free", "scheduler"}
  /\ client_mutex \in {"free", "scheduler"}
  /\ result_mutex \in {"free"} \cup Worker
  /\ pc \in {"check", "sleep", "lock_ping", "ping", "decide", "lock_start",
             "starting", "lock_train", "train"} \cup Report \cup Ended
  /\ cursor \in Nat \ {0} /\ attempt \in 1 .. Retries
  /\ ping \in {"none", "open", "silent"}
  /\ listener \in {"check", "accept", "dead"}
  /\ should_shutdown \in BOOLEAN
  /\ wpc \in [Worker -> Results \cup
                        {"idle", "send_id", "reply_id", "set_shutdown"}]
  /\ req \in [Worker -> Result \cup Registration \cup {NoRequest}]
  /\ \A w \in Worker :
       /\ wpc[w] \in {"send_id", "reply_id"} => req[w] \in Registration
       /\ wpc[w] \in Results => req[w] \in Result
  /\ phase \in [Device -> {"off", "boot", "loading", "serving"}]
  /\ device_id \in [Device -> 0 .. MaxClients]
  /\ id_conn \in [Device -> {"none", "backlog"} \cup Worker]
  /\ trains \subseteq Update
  /\ posts \subseteq Result
  /\ shutdown_request \in BOOLEAN

-----------------------------------------------------------------------------
(* Safety. *)

\* The mutexes do their work: the scheduler walks the client list only with
\* client_mutex, starts a round only with round_mutex, and the handler in the
\* result section of handle_results is the owner of result_mutex, so alone.
Exclusion ==
  /\ client_mutex = "scheduler" <=> pc \in {"ping", "train"}
  /\ round_mutex = "scheduler" <=> pc = "starting"
  /\ \A w \in Worker : wpc[w] \in Locked <=> result_mutex = w

\* FedAvg: the model published for round r averages exactly ClientsPerRound
\* updates, each counted once, each trained in round r from the model of
\* round r - 1, and is divided by their number.
FedAvgExact ==
  \A r \in DOMAIN accuracies :
    LET m == accuracies[r] IN
    /\ m.version = r
    /\ m.n = ClientsPerRound
    /\ Cardinality(Summed(m.sum)) = ClientsPerRound
    /\ \A u \in Summed(m.sum) : m.sum[u] = 1 /\ u.round = r /\ u.base = r - 1

\* handle_results unlocks round_mutex between its check of the round number
\* and the use of the result.  Nothing may start another round in the gap,
\* and participants and started may not be written (under round_mutex) while
\* a handler reads them (under result_mutex).
NoLateUpdate ==
  \A w \in Worker :
    wpc[w] \in Checked =>
      /\ started
      /\ req[w].update.round = round_number
      /\ pc \notin {"decide", "lock_start", "starting"}

\* The broadcast serialises current_round.nn without result_mutex: no handler
\* may rewrite the model while some ready client has yet to be sent it.
NoTornBroadcast ==
  pc \in {"lock_train", "train"} =>
    \/ \A w \in Worker : wpc[w] \notin {"average", "evaluate", "finish"}
    \/ pc = "train" /\ \A i \in ready : i < cursor

\* While a round runs its number of participants is the number of entries
\* marked ready: the flags are neither cleared nor set under its feet.
ParticipantsAreReady ==
  started => participants = Cardinality(ready)

\* update_stats adds at most one row, so a result must never be two rounds
\* ahead of the rows; and each averaged round has its row.
StatsInRange ==
  /\ \A w \in Worker :
       /\ wpc[w] = "update_stats" => req[w].update.round <= Len(stats) + 1
       /\ wpc[w] = "put_stats" => req[w].update.round <= Len(stats)
  /\ Len(accuracies) <= Len(stats)
  /\ Len(stats) <= Len(accuracies) + 1

\* Without faults a round's statistics name each of its clients once: they
\* are written before the round number is looked at, so a result that came
\* twice, or late, would show here although the average ignores it.
StatsOncePerClient ==
  \A r \in DOMAIN stats :
    LET ids == {stats[r][j] : j \in DOMAIN stats[r]} IN
    /\ Cardinality(ids) = Len(stats[r])
    /\ r <= Len(accuracies) =>
         ids = {u.entry : u \in Summed(accuracies[r].sum)}

\* The text of round r: its accuracy, and ClientsPerRound entries with commas
\* between them, each with the figures of the round's first result.
Complete(r, row, figures) ==
  /\ row.accuracy = r
  /\ Len(row.entries) = ClientsPerRound
  /\ \A j \in 1 .. ClientsPerRound :
       /\ row.entries[j].figures = figures
       /\ row.entries[j].comma <=> j < ClientsPerRound
  /\ r < NumRounds - 1 => row.comma

\* write_stats re-reads lengths and arrays that the handlers of the last round
\* may be adding to, and moving, under a mutex it does not take.  Whatever
\* they do, stats.json tells of every round but the last, each complete; and
\* the reading goes astray only in the row of the last round, or when there
\* is one round only, or when the last round's row or accuracy makes an array
\* move to a larger block.
FileComplete ==
  /\ \A r \in 1 .. NumRounds - 1 :
       r < Len(file) \/ pc = "exited" =>
         /\ r <= Len(file)
         /\ Complete(r, file[r], FirstFigures(stats[r]))
  /\ pc = "exited" => Len(file) <= NumRounds
  /\ pc = "undefined" =>
       Len(file) = NumRounds \/ NumRounds = 1 \/ Moves(NumRounds - 1)

-----------------------------------------------------------------------------
(* Action properties. *)

\* The scheduler starts a round only when the one before it is published.
NoRoundAbandoned ==
  [][round_number' # round_number =>
       round_number' = round_number + 1 /\ Len(accuracies) = round_number]_vars

\* While a round runs its membership is fixed: new clients register, but no
\* entry becomes ready or stops being ready, nor does participants change.
MembershipStable ==
  [][started /\ started' => /\ participants' = participants
                            /\ ready' = ready]_vars

\* The model changes only by averaging, and then no update made from the
\* old one is still on its way: nobody can be counted for a stale model.
NoStaleInFlight ==
  [][nn' # nn => /\ trains = {} /\ posts = {}
                 /\ \A w, v \in Worker :
                      wpc[w] \in Results /\ wpc[v] \in Results => w = v]_vars

\* What the server computes is federated averaging.
Training == started /\ Len(accuracies) < round_number
FA == INSTANCE FedAvg WITH
        Member <- Entry,
        round <- round_number,
        training <- Training,
        pool <- IF Training THEN ready ELSE {},
        received <- IF Training /\ responded > 0
                    THEN {u.entry : u \in Summed(weights)} ELSE {},
        models <- [r \in DOMAIN accuracies |->
                     {u.entry : u \in Summed(accuracies[r].sum)}]
ImplementsFedAvg == FA!Spec

\* What device d owes the server, and what it has posted, by round.
Owed(d) == [r \in Round |->
  Cardinality({u \in trains : u.round = r /\ clients[u.entry] = d})]
Posted(d) == [r \in Round |->
  Cardinality({p \in posts : /\ p.update.round = r
                             /\ clients[p.update.entry] = d})]
Contract(d) == INSTANCE Participant WITH
  phase <- phase[d], id <- device_id[d], owed <- Owed(d), posted <- Posted(d)

\* Every device, restarted or not, keeps the contract that the device's
\* program is shown to keep: it is sent a model only when it serves, and posts
\* one result for each or none.
DevicesKeepContract ==
  /\ \A d \in Device : Contract(d)!Init
  /\ [][\A d \in Device : [Contract(d)!Next]_(Contract(d)!vars)]_vars

-----------------------------------------------------------------------------
(* Liveness, of runs without faults. *)

\* The scheduler gets through all its rounds and to the end of the report: the
\* statistics are written, or a read of them went astray.
Terminates == <>(pc \in Ended)

\* A round that is started, other than the last, is averaged.
RoundsComplete ==
  \A r \in Round : r < NumRounds =>
    (started /\ round_number = r) ~> (Len(accuracies) >= r)

\* A device that asks for an id is given one, although the scheduler holds
\* client_mutex across whole scans of the network.
Registered ==
  \A d \in Device : (phase[d] = "boot") ~> (device_id[d] # NoId)
-----------------------------------------------------------------------------
(* What the documents say and the code does not do. *)

\* report.tex, "-r num_rounds: Number of rounds of aggregation", and the
\* message of main.c:450, "all %zu rounds completed".
AllRoundsAggregated == pc = "exited" => Len(accuracies) = NumRounds

\* report.tex: a round starts "when enough clients are ready".
EnoughReadyStarts ==
  (\A d \in Device : phase[d] = "serving") ~> (round_number > 0)
=============================================================================
