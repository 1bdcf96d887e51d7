# Verification of zfl

zfl emulates federated learning: a server on the host (`zflserver/src/main.c`)
and a fleet of Zephyr devices under QEMU (`zflclient/src/main.c`) train one
network together. This directory holds TLA+ modules translated from the C
source, TLC configurations that check them on small instances, and theorems
checked by TLAPS. All paths and line numbers below are those of `src/`.

    tlc -workers 2 -config MCRounds.cfg MCFedServer.tla    # check
    tlc -workers 2 -config Fleet.cfg Fleet.tla
    tlapm FedServerRounds.tla                              # prove

1. [The system](#1-the-system)
2. [The modules](#2-the-modules)
3. [What the runs show](#3-what-the-runs-show)
4. [What is proved](#4-what-is-proved)
5. [Disagreements found](#5-disagreements-found)
6. [What is not modelled](#6-what-is-not-modelled)
7. [Plan](#7-plan)

## 1. The system

### Components

| component | source | state it keeps | operations |
|---|---|---|---|
| round scheduler | `zflserver/src/main.c` 446-569, `start_round` | `current_round` (started, averaging, round number, participants), the ready flags and `clients_ready` | scan all devices with `GET /ready`, start a round, broadcast the model, write the statistics |
| listener | same, `accept_conns` | `should_shutdown` | accept, one handler thread per connection, stop |
| connection handlers | same, `handle_incoming_connection`, `send_id`, `extract_id`, `handle_results` | `SERVER.clients`, the sums in `current_round.weights/biases`, `responded`, `current_round.nn`, `accuracies` | registration, results, aggregation, downloads of data, shutdown |
| statistics | same, `update_stats`, `write_stats` | `SERVER.stats`, `stats.json` | a row for each round, an entry for each result |
| log | same, `log_append` | `SERVER.logs`, `log_len` | append, shifting out the oldest |
| HTTP reader | `http.h` | a string and three lengths | request line, headers, body |
| weights on the wire | `common.h` | accumulation buffers | print, parse and add, copy into a network |
| string builder, dynamic array | `sb.h`, `da.h` | size, capacity, block | append, prepend, put |
| device program | `zflclient/src/main.c` | its id, its samples, a static handler thread | get an id, load samples, answer `/ready`, train, post the result |
| JSON parser | `cson.h` | a tree of tokens | recursive descent |
| training | `zflclient/src/train.h`, `nn.h` | the samples, the local model | epochs, batches, gradient, learning |
| data preparation | `tools/data.c` | the MNIST files | shuffle, split |
| launcher | `zfl.c`, `net-setup.sh` | FIFOs, child processes, copying threads, a network interface | `zfl client`: start emulators, send each its command, wait; `zfl server`: interface made, server, interface deleted |

### How they interact

The server is one process. `main` starts the scheduler and the listener, and is
joined on the scheduler alone: when `start_round` returns, the process ends.
Each accepted connection is a detached thread. Threads share the global
`SERVER` and use five mutexes:

* `round_mutex`: the test of `started` (459-467), a round's start (496-521), the
  check of a result's round number (276-283), a round's end (335-339);
* `client_mutex`: the whole scan of the devices (470-493) and the whole broadcast
  (523-565), the network included, and each registration (237-246);
* `result_mutex`: from the addition of a result to the end of the round it
  completes (285-341), with `round_mutex` taken inside it;
* `stats_mutex`: `update_stats` (90-96), but not the reading in `write_stats`;
* `shutdown_mutex`: `should_shutdown` (431-433, 578-583), and the listener returns
  with it locked.

Server and devices speak HTTP over one TCP connection per request: a device
sends `GET /id`, `GET` for images and labels, and `POST /results`; the scheduler
sends `GET /ready` and `POST /train`. An accepted socket has a receive timeout,
one the server connects itself has none.

A device is an emulator on the host. `zfl client` makes two FIFOs for it, forks it,
types `run` into its serial line through the first and copies its output from the
second in a thread; the emulator's network card is bridged to the interface `zfl`,
which `zfl server` has `net-setup.sh` make before it forks the server and delete
when the server has ended. It gives up only if the script's status is 1;
`net-setup.sh start` ends with 0 whatever its commands did, so the server may run
without the interface, and `stop` may leave it. (`src/README.md` gives `zfl`'s
arguments without flags; the code, which is the reference here, wants `-c`, `-e` and
`-b`.)

In the device, `run` executes in the shell's thread: it registers, loads its
samples and then accepts connections for ever. Each connection is handed to a
thread of higher priority, which is created on the same static thread object and
stack every time.

### What is hard about it

* No lock orders the scheduler's write of `participants` (under `round_mutex`)
  with the handlers' reads (under `result_mutex`), nor the broadcast's reading of
  the model (under `client_mutex`) with its rewriting (under `result_mutex`).
  Whether that is harmless follows only from the order of whole rounds.
* The scheduler releases its locks three times between finding no round and
  starting one, and `handle_results` releases one between a result's check and
  its use.
* A device that restarts registers a second entry with the same address; both
  are found ready, both are sent the round.
* The sums are reset by the first response of a round, by a flag.
* Statistics are written before the result is known to be of this round.
* `write_stats` reads rows, entries and accuracies again at each turn, without
  `stats_mutex`, while handlers of the last round add to them.
* `log_append` has no lock at all.
* TCP may cut a request anywhere, and the parsers start over on what came.
* The device's handler is preempted by nothing while it computes, but while it
  waits for the network the next connection may be accepted.
* `run` ignores what its three requests return and goes by two counts, and an id
  without a file of samples is sent nothing.
* A `connect` that fails leaves its socket open.
* A pattern of the HTTP parsers may match behind the data, and reading goes on.
* The launcher returns, or is killed, in the middle of its loop, and its children
  go on.

`PROJECT.json` lists these hazards line by line, with the properties aimed at
each of them, or the reason why there is none.

### What makes each part correct

* Rounds: each published model is the average of exactly `clients_per_round`
  updates of its own round, each counted once, each trained from the model
  before; rounds follow one another; who takes part is fixed while a round runs.
* Locks: each is held by the one thread inside its sections, no deadlock.
* Statistics: a row per round, an entry per client, and a file with a complete
  row for every round but the last, whatever is written while it is read.
* Log: the last messages in their order.
* HTTP: exactly the body, no wait for bytes that have all come, nothing taken
  before it is complete.
* Codec: a body is read as what was printed, or refused if it came cut; a round
  in which nobody trains changes nothing.
* Device: one handler at a time, its connections closed, no result sent twice,
  the samples of its id or none, an answer to every `GET /ready`.
* Training: batches that follow one another inside the samples.
* Launcher: one emulator per address, nothing left behind by a launch that
  returned, the interface left alone as long as the server runs.
* Containers: no write outside a block.
* Data preparation: an image keeps its label.

## 2. The modules

### FedServer and FedAvg, the core

`FedServer` models the server's threads and, as far as the server can observe
them, the devices. A step is what a thread does between two points where another
can come in: a lock, an unlock or the network. A section whose data no other
section touches is one step that needs the mutex free; a mutex held across
several steps is a variable with its owner.

| in the model | in the code |
|---|---|
| `pc`, `cursor`, `attempt`, `ping` | where `start_round` is, its loop variables, its open `GET /ready` |
| `CheckRounds`, `WakeAndCheckStarted` | the loop's head, `sleep(10)`, the test of `started` |
| `BeginScan` ... `EndScan` | the scan under `client_mutex`, one connection after another |
| `Decide`, `LockStart`, `StartRound` | the comparison, the start under `round_mutex` |
| `BeginBroadcast` ... `EndBroadcast` | the broadcast, three attempts for each ready entry |
| `PrintHead`, `TakeRow`, `PrintEntry`, `EntryComma`, `EndEntries`, `RowComma`, `WriteFile` | `write_stats`, one reading of shared data at a time; then the process ends |
| `ReadAstray` | a reading of `write_stats` through NULL, of a row not yet written or of a block `da_put` has freed |
| `ListenerCheck`, `AcceptId`, `AcceptResult`, `AcceptShutdown` | `accept_conns` |
| `wpc`, `req` | for each handler thread, where it is and its request |
| `SendId`, `ReplyId` | `send_id`: the entry under `client_mutex`, then the answer |
| `ExtractId` ... `CheckRound` | `extract_id`, `recv_content`, `update_stats` and its `da_put`, the round's check |
| `LockResult`, `Accumulate`, `Average`, `Evaluate`, `Finish` | the result section of `handle_results` |
| `SetShutdown` | `POST /shutdown` |
| `Boot`, `Listen`, `Train` | the device: `run`, `start_server`, `POST /train` and `send_weights` |
| `LoseId`, `LoseTrain`, `Crash`, the `Faulty` disjuncts | what the network and the emulator may do |

Parameters of the network are abstracted to which updates a buffer sums and how
often: `weights[u]` counts update `u`, and an update names the entry it was
trained for, the round it claims and the version of the model it started from.
That is all that "the right average" can be about; what the arithmetic and the
text do to a number is `WeightsCodec`'s.

`FedAvg` is the abstract specification: a pool is fixed when a round starts,
each member is received once, and the whole pool is published. `FedServer`
implements it under this mapping: `StartRound` is `Start(ready)`, `Accumulate`
is `Receive`, `Evaluate` is `Publish`, everything else stutters.

`file` is the text of `stats.json` as far as it is printed: for each row its
accuracy, the length `write_stats` took it for, and its entries, each with the
figures it shows and whether a comma follows. `da_put` is not atomic for a reader
without the mutex: while one is at work a length may be seen with or without the
new element (`Length`), and at a capacity (`FirstCapacity` doubled so many times,
`Moves`) the array may be in a block that is already freed.

Of the network it is assumed, as external code, that a `sendall` that reports
failure has not delivered the whole request (a train request that failed was not
obeyed), and that a connection delivers its request at most once.

### The parts in modules of their own

* `HttpReader`: `http.h`, one `recv` at a time. A byte that matters to the
  parsers is a symbol, a run of bytes that does not is one symbol. What lies
  behind the data in the buffer is an input (`Stale`), since `find_first_match`
  compares past the end of the data. A match there makes the remaining length,
  which is unsigned, wrap around; the search then goes on through memory nobody
  filled, to a match `more` symbols behind the data, as many as `Far`, or in vain
  (`Past`). Whatever length or offset comes of it, inside the data or not, is
  taken as the code takes it, and the reader goes on. `exposed` is a history: a
  piece of the head has ended where a pattern may match behind it (`Exposes`).
  `parse_optional` has a closed form, `OptionalFrom`, of the loop in the code:
  where the lines end (`Places`), which end stops it, which lines are headers.
  `MCHttpReader` has the loop itself, and TLC evaluates on every run that the two
  agree (`LoopAssumption`). `header` is the Content-Length that `get_header` will
  find, kept from one attempt to the next as the code keeps it.
* `LogBuffer`: `log_append`, each access to `log_len` a step, a `--` or `++` two.
* `Buffers`: `sb.h` and `da.h`, by their sizes.
* `Cson`: `cson.h`. A character has a class and a value; a run of digits is one
  character. `Scan` is `scan_token`, `scan_array` and `scan_object` as one recursive
  function, with a token's two links as they are: an element's `next` is
  overwritten when another follows, the keys of an object hang on its own `next`.
* `WeightsCodec`: the bodies of `/train` and `/results` as they are printed, what
  `deserialize_training_data` finds in them by way of `Cson`, `parse_weights_json`
  and `insert_weights_to_nn`, over one round in which no device trains. Numbers
  are in units of which the text keeps the multiples of `Precision`. A body that
  is no JSON is taken no further: `deserialize_training_data` (113) reads through
  the parser's NULL.
* `DataSplit`: `shuffle` and `read_mnist` of `tools/data.c`.

### Fleet: a device, the launcher, and the server around them

`FedServer` has of a device what the server can observe. `Fleet` is the other
half: the device's program in full, the emulator it runs in, and of the server
what this one device sees. It is composed of three modules whose actions it
conjoins, each action of a part being a step of the code of that part:

| module | models | actions |
|---|---|---|
| `Launcher` | `zfl.c`, `net-setup.sh` | `Launch`, `MakeFifos`, `Fork`, `OpenIn`, `WriteRun`, `Wait`, `CopierOpens`; `InterfaceUp`, `StartServer`, `InterfaceDown` |
| `Training` | `train` in `train.h` | `BeginTraining`, `TakeBatch`, `Learn`, `NextEpoch`, `EndTraining` |
| `Device` (extends `Training`) | `zflclient/src/main.c` | `Run`, `ReqId`, `ReqImages`, `ReqLabels`, `InitTrainSet`; `Accept`, `Receive`, `Answer`, `Train`, `Clean`; `Connect`, `SendHeader`, `SendBody`, `CloseServ` |
| `Fleet` (extends both) | the calls between them, and `start_round`, `send_id`, `send_file`, `extract_id`, `handle_results` for one device | `DeviceRegisters`, `DeviceDownloads`, `Scan`, `Ping`, `EndScan`, `SendTrain`, `EndBroadcast`, `Collect`, ... |

`zfl client` may be given again with another number of devices (`num_clients`),
`zfl server` is run once. In `InterfaceUp(status, made)` the script's status says
nothing of what it did, but that the interface is not made by a script that could
not be run; `InterfaceDown(gone)` likewise.

In `Device` what the network does to a call is a parameter (`Connect(ok)`,
`SendHeader(result)`, `ReqImages(connected, answered, n)`); `Fleet` decides it: a
call to a server that is not there fails, one to a server that is there works or is
a fault (`Reaches`). Ids up to `NumSplits` have a file of samples; to one beyond
them `send_file` sends nothing (`SamplesOf`), and a result whose id `extract_id`
refuses is not counted (`Countable`). `sockets` counts what is open, the sockets of
failed connects (`leaked`) included. `Vanish` is the end of the emulator: the
program's memory is gone, what it sent is not.

`HandlerWaits` is the priority rule of the device: the handler (priority 5)
keeps the processor from the shell's thread until it blocks in the network, so a
connection is accepted only when there is no handler or it is in a call.

The device of `Fleet` is the last client; the others only start and end, since
to the launcher a device is a process.

### Participant, where the two halves meet

`FedServer`'s device is four actions that say what a device does, `Device` is the
program. What keeps the first an honest picture of the second is `Participant`, the
contract between a device and the server: the device gets its id, then its samples,
then serves; it is sent a model only when it serves; it owes one result for each,
of that round, and answers or does not; what it owes dies with it, what it has
posted does not. `FedServer` implements it for each of its devices
(`DevicesKeepContract`), `Fleet` for its one (`DeviceKeepsContract`):

| in `Participant` | in `FedServer` | in `Fleet` |
|---|---|---|
| `phase` | `phase[d]` | `boot`, with `"images"`, `"labels"` and `"init"` as one, and all ends of `run` as `"stopped"` |
| `owed[r]` | updates of round `r` in `trains` for an entry of `d` | requests of round `r` in the backlog, and the one a handler works on |
| `posted[r]` | updates of round `r` in `posts` from an entry of `d` | results of round `r` in the server's backlog |

So each of the two is shown to do no more than the contract allows. The converse,
that each can do all of it, is not claimed: `Stop`, for one, is in `Fleet` alone.

`MCFedServer`, `MCHttpReader` and `MCWeightsCodec` only give TLC its sets, but for
the loop in `MCHttpReader`. The proofs are in modules of their own:
`FedServerProofs` (the invariant), `FedServerRounds` (the rounds, that the server
implements `FedAvg` and its devices `Participant`) and `FedServerStats` (the
statistics and their file); `BuffersProofs`, `LogBufferProofs`, `HttpReaderProofs`,
`WeightsCodecProofs`; and `FleetProofs` (the launcher, training, what the fleet has
of them, its requests, and that its device implements `Participant`).

## 3. What the runs show

Each property of a passing run has, in `PROJECT.json`, a mutant: a plausible bug
in one definition (a dropped guard, an off-by-one, a missing reset) under which
the same run finds that property violated.

| run | instance | shows |
|---|---|---|
| `rounds` | 3 devices, 2 handlers at once, 2 rounds of 2 | types, locks, `FedAvgExact`, statistics, the file read while handlers write, and that the server implements `FedAvg`; no deadlock |
| `faults` | 2 devices, 1 handler, 2 rounds of 2, 2 registrations, shutdown at any moment, crashes and broken connections everywhere | every device, restarted or not, keeps the contract of `Participant` |
| `live` | 2 devices, 1 handler, 2 rounds of 2, fair | every device registers, rounds complete, the server ends; no deadlock |
| `http` | bodies to 6 symbols, pieces to 15, all stale bytes, matches to 10 symbols behind the data | `BodyExact`, `NeverStarves`, `HeadWellCut` |
| `log` | 2 threads, 4 places, 7 messages | `LastMessages`, `NoHole` |
| `buffers` | first capacity 4, strings to 40, arrays to 70 | `Fits`, `InBlock` |
| `codec_kernels` | layers 2-3-1, a positive and a negative value, two clients; every array of up to two leaves or arrays of leaves, every object of up to two leaves, and objects of these; each cut anywhere | `ReadsBack`, `FieldsArrive`, `KernelsSurvive` |
| `fleet` | 2 emulators, `zfl client` given twice, for one device or for two, rounds of 1, 2 rounds, 2 registrations of the device of which only the first id has a file, one failing connection anywhere, 2 epochs over 5 samples in batches of 2; fair | launcher, device and training, that the device implements `Participant`, and their liveness |
| `early_exit`, `too_many_ready`, `codec_biases`, `split_pairs` | see section 5 | the code does not do what is said of it |

### The properties of the server

* `Exclusion`: each mutex is held by exactly the thread in its sections.
* `FedAvgExact`: the promise stated above.
* `NoLateUpdate`: in the gap between a result's check and its use the round
  cannot end and the next cannot begin; the scheduler is not near its start.
* `NoTornBroadcast`: the model is not rewritten while a ready client has yet to
  be sent it.
* `ParticipantsAreReady`, `MembershipStable`: the number of answers a round waits
  for is the number of entries it is sent to, and neither changes under it.
* `StatsInRange`, `StatsOncePerClient`: no row out of range, and the rows name each
  averaged client once.
* `FileComplete`: `stats.json` has, for every round but the last, its own accuracy
  and `clients_per_round` entries with commas between them, however handlers of the
  last round add to the arrays while `write_stats` reads them; a reading goes astray
  only in that round's row, or when it makes an array move, or when there is one
  round only. The entries all show the figures of the round's first result, as the
  code prints them: section 5.
* `NoRoundAbandoned`: a round is started only when the last is published.
* `NoStaleInFlight`: when the model is replaced no update of the old one is on
  its way, in a device, in the backlog or in another handler.
* `ImplementsFedAvg`: `FA!Spec`.
* `Terminates`, `RoundsComplete`, `Registered`: liveness without faults.

* `DevicesKeepContract`: each device, however often it dies and registers again,
  is sent a model only when it serves, and owes and posts one result for each. A
  send to a device that is not there, a result posted twice or left behind by a
  crash would be a step the contract does not have.

With faults, `faults` checks this last one; the safety properties before it are
proved with faults as without, but for `StatsOncePerClient` (section 4).

### The properties of the fleet

* `OneEmulatorPerAddress`: two emulators never run with one device's address,
  although a launch may fail halfway, be killed and be repeated while its
  emulators go on. That `mkfifo` refuses a path that exists is what it rests on.
* `ReturnsClean`: when `start_client` returns 0, no FIFO and no emulator is left of
  the devices this launch was given, whatever launches for more or fewer left.
* `InterfaceAroundServer`: the interface is neither made nor deleted while the
  server runs. That it is up then is not so: section 5.
* `BatchInside`, `EpochWhole`: batches follow one another inside the samples and
  leave out less than a batch.
* `SocketsReturned`: between two connections the device holds its listening socket
  and one for each `connect` that has failed, which nobody closes, and no other;
  whatever it could connect is closed once, through all the tries.
* `OneHandler`: the static thread object is not given to a second connection
  while the first is served, unless the server knows the device twice or a
  connection has failed. In both of these cases it does happen, and the model
  goes on to "undefined", as the program does.
* `NoSurplusResult`: the results of a round that are still to come, at every
  place a request or a result can be, are no more than the round waits for.
* `TrainsOnSamples`: a device trains on all samples the server has for its id,
  which are none for an id without a file; a download that failed is not taken for
  data. With two failures both counts can be wrong and equal, which the property
  excuses.
* `DeviceKeepsContract`: the program, with its three tries, its one handler thread,
  its ignored return values and its emulator ending anywhere, does what `FedServer`
  takes a device to do: one result for each model it was sent, or none.
* `RoundCompletes`: a round all of whose requests reached a device that stays up
  is completed. `PingAnswered`: the scheduler, which waits without a timeout and
  holds `client_mutex`, gets its answer.

### The properties of the codec

* `ReadsBack`: the parser makes of each text exactly the tokens it stands for,
  and of each proper prefix of it nothing.
* `FieldsArrive`: every field of a body arrives under its name, and every number of
  the weights at the row and column it was printed from.
* `KernelsSurvive`: printed, parsed, summed and divided, a kernel is the same.

### Bounds, and why they are enough

Three devices for rounds of two: a scan can find too few, enough or too many, and
the third registers at any moment of a round. Two handlers: every pair of
critical sections meets; a third would only wait as the second does. Two rounds:
the second has everything a later one has (stale sums, rows, late results of the
round before). With `FirstCapacity` 2 no array moves within two rounds, so
`FileComplete` has no excuse in `rounds` but the last row; in `faults` it is 1, and
every array moves.
With faults, two registrations let a device restart and hold both entries of a
round; the third device and the second handler are left to `rounds` and to the
proofs. `MaxClients` bounds the
registrations the model follows (the code has none), `Retries` is the code's own
3. Devices and handlers are interchangeable, so `rounds` and `faults` use
their symmetry: each of their properties treats devices alike, and none is about
liveness. `live`, `early_exit` and `too_many_ready` are small and do not use it.

Deadlock is checked in every run but `faults` and `fleet`, where the system really
stops: after a shutdown nobody accepts the results a round waits for, a round whose
train request or result is lost for good never ends, and in `fleet` all may end and
stay ended.

In `fleet`, two emulators make the second fail with the first running, and the
launcher given twice meets what it left. Two registrations let a restarted device
be known twice; a round of one participant can then still begin, if one of its
two entries is found not ready. One fault may fall on each call there is; after a
second `TrainsOnSamples` promises nothing more. Five samples in batches of two make
two batches in an epoch and leave one sample out; one split for two ids lets a
device hold an id without a file. The safety properties are proved for every number
of all of these (section 4).

`HttpReader`'s body is long enough to be cut before, inside and behind; the piece
is long enough to hold a whole POST with a short body; a match `Far` symbols behind
the data lies beyond the end of every request line. `LogBuffer` goes round the
full log with fewer places than messages. `Buffers` doubles at least three times.

### Conditions some properties carry, and the cases outside them

* `BodyExact` and `NeverStarves` speak of requests whose head comes in one piece.
  When a piece ends exactly between the headers and the blank line,
  `parse_optional` (`http.h`) ends without having seen the blank line and the body
  is taken two bytes early; `HeadWellCut` has that as the second of the two offsets.
* `HeadWellCut` speaks of requests no piece of whose head ends where a pattern may
  match on what lies behind the data: before a space, before the value of a header,
  between CR and LF, or before a line's CR other than the blank line's
  (`exposed`). Where one does, it fails, as TLC shows at once without the
  condition: with the CR of the request line last in the data and an LF behind it,
  the line is taken with a length one more than has come; the lengths wrap, headers
  of an earlier use of the buffer are taken, and the body may begin anywhere. If a
  piece ends inside Content-Length, `parse_optional` may store the header without
  its value, receive more, and `get_header` later returns the first of the two
  headers stored. What the server then reads, and that it may be behind the
  block, is no property's.
* `NoHole` speaks of a log not yet full, `LastMessages` of a log nobody raced for.
* `StatsOncePerClient` is checked and proved without faults. With them a device
  that restarted can hold two entries under one id. `FileComplete` is proved with
  faults as without.
* `FileComplete` leaves out the last round, which the server does not wait for, and
  the reader going astray where the comment names it; for the last round the row
  may be missing, short, without a comma, or with one too many.
* `ReturnsClean` speaks of the devices this launch was given: a smaller launch that
  follows a larger one that was killed leaves the rest of that one's emulators.

### Fairness

Only the specifications named `FairSpec` assume any. In `FedServer`: weak fairness
of the scheduler, of the listener, of each handler and of each device: they are
threads or processes the operating system keeps running. Strong fairness of
accepting a given device's connection or a given entry's result: a listen backlog is
served in order, so a connection that can be accepted again and again is accepted,
although another handler may take the free place each time. Strong fairness of
`SendId`: it needs `client_mutex`, which the scheduler releases for each `sleep(10)`
of its loop; a thread blocked in `pthread_mutex_lock` gets the lock in one of them.
Nothing is fair about faults or the operator. In `Fleet`: weak fairness of the
device's threads, of the scheduler and of the handling of results, for as long as
emulator and server run; nobody has to start or end anything, and no step of the
launcher is fair.

## 4. What is proved

All for every value of the constants: any number of devices, handlers, rounds,
participants and registrations, with or without faults and shutdown. Assumed are
only `DeviceAssumption` (finitely many devices; `NoRequest` is none),
`WorkerAssumption` (a thread's name is none of the markers that are used beside
names: "free", "scheduler", "none", "backlog"), `BoundAssumption` (types, a round
needs a client, and an array begins with room for one element), `RequestAssumption`,
and for launcher, training and fleet `LauncherAssumption`, `TrainAssumption`,
`SplitAssumption`, `FleetAssumption` (types), and for the containers
`SizeAssumption` and `CallersAssumption` (no piece is longer than the first
capacity: callers append from buffers of 1024 bytes to strings that begin with
1024), for the log `LogAssumption` (types), and for the reader `HttpAssumption`
(types; what lies behind the data is two symbols, any of those the parsers look for;
a match may lie any number of symbols behind it; a request line is refused only
after more than one piece). Only `AlwaysStatsOncePerClient` supposes that there are
no faults. For the codec there is `CodecAssumption` (three rows of neurons, types),
and its two theorems suppose `FieldsArrive`, which the run `codec_kernels` checks:
see below.

| theorem | module | says |
|---|---|---|
| `AlwaysTypeOK` | FedServerRounds | `Spec => []TypeOK` |
| `AlwaysExclusion` | FedServerProofs | `Spec => []Exclusion` |
| `AlwaysParticipantsAreReady`, `AlwaysMembershipStable` | FedServerProofs | who takes part is fixed and counted |
| `AlwaysFedAvgExact` | FedServerRounds | the average is right |
| `AlwaysNoLateUpdate`, `AlwaysNoTornBroadcast`, `AlwaysNoRoundAbandoned`, `AlwaysNoStaleInFlight` | FedServerRounds | the gaps between the locks are harmless |
| `AlwaysStatsInRange` | FedServerStats | no row out of range |
| `AlwaysStatsOncePerClient` | FedServerStats | `~Faulty` implies `Spec => []StatsOncePerClient` |
| `AlwaysFileComplete` | FedServerStats | `Spec => []FileComplete` |
| `Implementation` | FedServerRounds | `Spec => ImplementsFedAvg` |
| `DevicesAsPromised` | FedServerRounds | `Spec => DevicesKeepContract` |
| `AlwaysFits`, `AlwaysInBlock`, `AlwaysDoubles` | BuffersProofs | no write outside a block, and a block is exchanged for one twice as large (proved only) |
| `AlwaysLastMessages`, `AlwaysNoHole` | LogBufferProofs | the log is the last messages; racing threads leave no hole |
| `AlwaysBodyExact`, `AlwaysNeverStarves`, `AlwaysHeadWellCut` | HttpReaderProofs | what the reader takes for line, headers and body; the last unless a piece ends where a pattern may match behind it |
| `KernelsComeBack`, `BiasesAreKernels` | WeightsCodecProofs | `Spec /\ []FieldsArrive => KernelsSurvive`; and the biases become elements of the kernels |
| `AddressesUnique`, `LaunchesEndClean`, `InterfaceLives` | FleetProofs | one emulator per address, nothing left behind by a launch that returned, the interface left alone while the server runs |
| `SlicesInside`, `EpochsWhole` | FleetProofs | batches inside the samples, less than one left out |
| `FleetLaunches`, `FleetTrains`, `FleetParts` | FleetProofs | the fleet implements launcher and training, so all of these hold in it |
| `HandlersClose` | FleetProofs | `Spec => []SocketsReturned` |
| `SamplesWhole` | FleetProofs | `Spec => []TrainsOnSamples` |
| `NoneTwice` | FleetProofs | `Spec => []NoSurplusResult` |
| `ThreadsApart` | FleetProofs | `Spec => []OneHandler` |
| `DeviceAsPromised` | FleetProofs | `Spec => DeviceKeepsContract` |

### The argument

The invariant is built in layers, each inductive relative to those before:

1. `Shape`, a type invariant weaker than `TypeOK` (numbers are naturals, without
   the bounds that need the rest), by one lemma for each group of variables.
2. `SchedulerLocks` and `ResultLock`, which are `Exclusion`.
3. `Control`: between finding no round and starting one no round is running
   (`StartOnlyOnce`), `clients_ready` counts the flags set behind the cursor
   (`FlagsCounted`), a round starts full (`RoundIsFull`).
4. `Rounds`: every update anywhere - in a device, in the backlog, in a handler -
   is of the running round and of the current model (`AllFresh`), and is in one
   place only (`Once`), not among those already summed (`NotYetCounted`); what is
   summed is each update once, as many as have responded (`Tally`); while the
   average is computed all the participants have been counted (`Averaging`);
   outside a round nothing is on its way (`Quiet`); model, accuracies and round
   number keep step (`Versions`).
`FedAvgExact` alone is not inductive: it says nothing of updates not yet
averaged, and an arbitrary state that satisfies it may hold a stale update in the
backlog. The heart of the proof is one counting step (`AllSummed`, `NothingLeft`):
updates of the same round differ by entry, so when as many are summed as there are
ready entries, each entry's update is summed, and since an update is in one place
only nothing is left anywhere. From that follow, in turn, that no handler holds a
checked result when the round ends, that the model is rewritten with nobody else
reading it, and that the next round starts clean.

The statistics have an invariant of their own, `Figures`, on top of that one.
`update_stats` writes before the round number is looked at, so nothing in it keeps
a row to what is averaged; what does is that a result once noted is always summed.
`Rows` says which rows there are, and `RowsExact` that the row of a published round
has as many figures as its average has updates, that of the running round as many
as have been summed or sit in a handler between `update_stats` and the sum
(`NotedUpdates`). For the ids
(`Named`) it takes `Identity`: without faults no device is registered twice, since
one that asks for an id has not been answered, so an update carries the id of the
entry it was trained for.

`AlwaysFileComplete` follows `write_stats` from one reading to the next. When it runs
all rounds are started (`Late`), so every result still on its way is of the last one
(`WhileReporting`): rows before it have their `ClientsPerRound` entries and no
handler is adding to them, and of the number of rows `write_stats` sees the last
round's or not. `Printed` says that the rows behind the one being printed are
complete, `Current` how much of that one is there at each point of the loop; and
where a reading goes astray, which row it was.

Most steps touch nothing of `Rounds`; `StepKinds` sorts the actions once into the
neutral ones and the nine that matter, and each of these has a lemma.

The launcher's invariant follows the FIFOs: a client whose emulator runs, as a
child or left over from an earlier launch, has both its FIFOs as long as this
launch has not waited for it, and those of the clients the loop has still to come
to were there before. So `mkfifo` fails exactly where a second emulator would be
started, and when the last child has been waited for every client's FIFOs have
been removed; how many have been waited for is counted with a cardinality. All of it
is about the first `num_clients` clients, which each launch is given anew: what an
earlier launch left of others stays, and is promised nothing.

In training, `from = batch * BATCH_SIZE` lies inside the samples because a batch
is begun only below the quotient (`WholeBatches`: for `b` less than `n \div s`,
`b * s + s <= n`, and no smaller number of batches leaves less than one). That is
nonlinear, and a lemma of its own so that no other step meets it.

`FleetLaunches` and `FleetTrains` are refinements by identity: each step of the
fleet is, on the variables of a part, a step of that part or a stutter; the only
thing needed of the rest is that a file has a natural number of samples
(`GotInv`). `SocketsReturned` is not inductive, as it says nothing while a
handler runs: `SocketsInv` counts the sockets by who holds them, those of failed
connects as nobody's.

`SamplesWhole` keeps, for every point of `run` at which a count is held, that it is
the file's, or that a failure is on record (`Counts`). The second count is compared
with the first: if they agree and one of them is wrong, both answers failed. What
makes it hold across restarts is that a server that has ended never comes back
(`ServerOnce`), and that nothing is on its way to a program that does not serve
(`Alone`).

`NoneTwice` and `ThreadsApart` are two balances of one invariant, `RequestsInv`. What
is still to come - requests not sent, requests in the backlog, the one a handler
works on, results in the server's backlog - never exceeds what is due
(`ToCome <= due`); a step moves one from one place to the next, or loses it. As long
as the server knows the device once and nothing has failed (`Calm`), the same holds
with every request counted, the `/ready` that is waited for included: then two can
never be there at once, and the thread object is free when a connection is accepted.
The requests in a backlog are counted by a cardinality (`HowManyAppend`, `HowManyTail`).

The contract of `Participant` is a step simulation on both sides. On the server's,
`Devices` says that an update is only ever in a device that serves and that one
asking for its id has none, and `EntriesKept` that an entry is never given to another
device, so that a tally by device changes only where messages do. The tallies are
cardinalities, by round, of sets of updates; every step is a stutter of the device
(`Elsewhere`), a change of its phase, or one element more or less in one of these
sets (`Grows`, `OneMoreCounted`). That `posts` is a set does not lose a result
posted twice, since `Once` has each update in one place. On the device's side the
tallies count places in two sequences, and `InRounds` keeps everything on its way
within the rounds the server has started; with `RequestsInv`, which knows where a
request can be, and `Alone`, by which nothing is on its way to a program that does
not serve, each step moves one request from the backlog to the handler, which the
contract does not see, answers it, or loses it. A crash empties the backlog and
leaves the inbox: that is `Crash`, and the reason `posted` survives it.

For the log, `OneAtATime` says what the places hold at each point of `log_append`
while one thread is in it. `NeverFull`, for threads that race, bounds `log_len` and
every loaded copy of it: with the threads that have yet to claim a place
(`Unclaimed`) they never exceed the messages begun, so no thread finds the log full,
and every place below them holds a message or is about to (`Covered`).

For the codec, `FieldsArrive` says what is read at a row and a column, and the proof
is the rest of the way. An element's row and column, computed by a division, are
those it was printed at (`Elements`); printing what was printed loses nothing more
(`PrintedTwice`); `CodecInv` holds the sums to as many times the printed number as
clients have answered, from zero and not from what the buffers held; and a multiple
divided by its factor is the number again (`SumDivided`). `Quotient`, that a division
with remainder has one result, is under all three. The biases take the same way from
the kernel's elements, which is the finding `codec_biases` for every network.

For the reader, the lengths are computed by searches whose pattern may match behind
the data, so the first half of the proof is about `FirstMatch` and `OptionalFrom`:
on every prefix of every request, whatever lies behind, a length that fits in the
data ends a line of the head (`RequiredIs`, `OptionalIs`). The least element of a set
of positions exists by the well-foundedness of `<` on numbers (`Least`). `Cut` then
carries this through the attempts as long as the data did not end where more may
match behind them, and `Whole` says that with the head in one piece
there is one attempt at each part, and the reader waits only for the body.

### What is only model-checked

* `Terminates`, `RoundsComplete`, `Registered`, `RoundCompletes`, `PingAnswered`:
  liveness under fairness is out of the prover's reach.
* `ReadsBack`, `FieldsArrive`: what the JSON parser makes of a text of any depth
  and length. `Scan` is recursive; its value on every input needs an induction
  that the provers cannot instantiate. The theorems of the codec take from TLC
  that bodies are read as they were printed, and nothing else.

Three attempts at a proof changed the model. To state one contract for both devices
showed what `FedServer`'s could not do and the program does: go on without an id when
`GET /id` fails (`main.c` ignores what `req_id` returns); `LoseId` was added, and
every theorem with faults holds with it. A worker named "none" or "backlog" was
possible, and would have been taken for a free handler or a connection nobody
serves: `WorkerAssumption` excludes the two. And `HttpReader` gave up a search at a
match behind the data; the claim that Content-Length is then never misread could not
be proved because it is false of the code, in which the search goes on (section 3).

## 5. Disagreements found

* `early_exit`: the scheduler leaves its loop when `round_number >= num_rounds`
  (449), which holds as soon as the last round has been *started*. The process
  ends while its devices train; "all %zu rounds completed" (450) is printed with
  one accuracy fewer than rounds.
* `too_many_ready`: a round starts only if `clients_ready == clients_per_round`
  (495). With one ready device more than needed there is never a round, where
  the report says "when enough clients are ready".
* `codec_biases`: `weights_to_string` (`common.h:66`) prints each bias from the
  elements of the kernel, so every exchange replaces the biases.
* `split_pairs`: `shuffle` (`tools/data.c:45`) saves a label and never puts it
  back; a label becomes a pixel.

Met while modelling, and in the models, but stated by no document and so not
checked by a run:

* Log: two threads in `log_append` (153-166) that both find 99 of the 100 places
  taken both add one, `log_len` passes `LOG_LENGTH_MAX`, is never equal to it again,
  and every later message is written behind the array. `LastMessages` and `NoHole`
  carry the conditions that exclude it.
* Statistics: `write_stats` prints each entry of a row from `s` (114-116), which
  never advances, so every entry has the figures of the round's first result
  (`FirstFigures`), and what `tools/stats.py` (28-39) takes for the mean and the sum
  over a round's clients is of that one.
* Statistics: in the last round's row a comma may be missing or stand before the
  closing bracket, an accuracy may be read behind the end of the array or through
  NULL, and a block read that `da_put` has freed (`ReadAstray`).
* HTTP: an incomplete request line is taken when a pattern matches behind the data
  (section 3).
* Launcher: `zfl.c` compares the status of `net-setup.sh` with 1 (285, 302), and the
  script's own is 0 for a missing file (110-114) and for a `start` whose commands
  failed, and 2 for a `stop` whose `ip link delete` failed: the server may run without
  the interface, and `zfl server` may end with it still there.
* Launcher: `fclose(NULL)` in `cat_client_output` ends the process when the FIFO has
  been removed before the thread opens it, or the log cannot be opened.
* Device: an id without a file is sent nothing (`zflserver/src/main.c` 205-210), no
  images match no labels, and the device serves and trains on none.
* Device: a failed `connect` leaves its socket open (`zflclient/src/main.c` 124-127),
  once for each of the three tries of each result.
* Codec: `deserialize_training_data` (`common.h:113`) reads through NULL if the body is
  no JSON.

## 6. What is not modelled

* The user interface (729-814): compiled out, reads only.
* The arithmetic of `nn.h` and `train.h`, and `test.c`: floating-point numbers whose
  values nothing in the control depends on. `Training` has the loop and the
  slices, not the memory `nn.h` takes for gradients.
* `accuracy` and the reading of the test set: the same, and input.
* `tools/*.py`: offline scripts. Of `net-setup.sh` the commands are left out; what they
  may come to, and the status it ends with, are `InterfaceUp` and `InterfaceDown`.
* `http.h`'s `parse_query_param`, `get_param`: the id of a result is taken as given.
  They read one parameter, and every request has one.
* Failures of `socket`, `malloc`, `accept` and `bind`, after which the programs go on
  with a value they did not get: nothing is promised for them.
* In `Fleet`, other devices' registrations: `FedServer` has several devices, with
  less of each.

## 7. Plan

Modules, in the order they were worth writing: `FedAvg` and `FedServer` with the
refinement; `HttpReader`, `LogBuffer`, `Buffers`, `WeightsCodec`, `DataSplit`; `Cson`,
and the bodies in `WeightsCodec`; `Launcher`, `Training`, `Device` and their
composition `Fleet`. All are done.

Every safety property a passing run checks is a theorem, but for the two that say
what the JSON parser reads; that `FedServer`'s device and the device's program keep
one contract is proved for both. What is left is out of the prover's reach: the
liveness properties, and the recursive parser (section 4).
