------------------------------- MODULE Fleet --------------------------------
(***************************************************************************)
(* A device, the launcher of its emulator and of the server, and the       *)
(* server as this device sees it (zflserver/src/main.c): it registers who  *)
(* asks for an id, asks each registration whether it is ready, sends       *)
(* /train to them if as many are as a round takes, and waits for as many   *)
(* results.  The device is the last client; the other emulators only start *)
(* and end.  An emulator started again registers again with its old        *)
(* address, and the server then has two entries for one program.           *)
(***************************************************************************)
EXTENDS Launcher, Device

CONSTANTS NumRounds,    \* argv[1] of the server
          PerRound,     \* the values of argv[2], clients_per_round
          NumSplits,    \* ids with files of samples
          MaxEntries,   \* bound: registrations of the device's address
          MaxFaults     \* bound: failures of the network

ASSUME FleetAssumption ==
  /\ NumRounds \in Nat /\ PerRound \subseteq Nat \ {0}
  /\ NumSplits \in Nat /\ MaxEntries \in Nat /\ MaxFaults \in Nat

VARIABLES
  clients_per_round,
  entries,     \* SERVER.clients: registrations with the device's address
  scheduler,   \* start_round: "sleep", "scan", "ping", "train", "over"
  todo,        \* entries it has still to ask, or to send /train to
  attempt,     \* of the /train being sent
  clients_ready,
  round_number,
  due,         \* participants - responded, 0 when no round is started
  faults       \* failures so far

scheduler_vars == <<clients_per_round, entries, scheduler, todo, attempt,
                    clients_ready, round_number, due>>
guest_vars == <<device_vars, train_vars>>
fleet_vars == <<launcher_vars, guest_vars, scheduler_vars, faults>>

Init ==
  /\ LauncherInit /\ DeviceInit /\ TrainInit
  /\ clients_per_round \in PerRound
  /\ entries = 0 /\ scheduler = "sleep" /\ todo = 0 /\ attempt = 0
  /\ clients_ready = 0 /\ round_number = 0 /\ due = 0 /\ faults = 0

Me == NumClients        \* the device's number

ServerUp == server = "running"
Listening == boot = "serving"
Works == UNCHANGED faults
Fails == faults < MaxFaults /\ faults' = faults + 1

\* A call works if someone is there, and fails if no one is, or by a fault.
Reaches(ok, there) == IF ok THEN there /\ Works
                      ELSE IF there THEN Fails ELSE Works

-----------------------------------------------------------------------------
(* Starting: the launcher's steps, and the device's as far as the samples. *)

Launching == ClientLauncher /\ UNCHANGED <<guest_vars, scheduler_vars, faults>>
Serving == ServerLauncher /\ UNCHANGED <<guest_vars, scheduler_vars, faults>>

DeviceRuns ==
  /\ Me \in told /\ Run
  /\ UNCHANGED <<launcher_vars, scheduler_vars, faults>>

\* send_id takes client_mutex, which start_round holds while it asks and
\* while it sends.
ClientsLocked == scheduler \in {"scan", "ping", "train"}

\* The device is registered, and told its number; the answer may be lost.
DeviceRegisters ==
  /\ ServerUp /\ ~ClientsLocked /\ entries < MaxEntries
  /\ entries' = entries + 1
  /\ \/ Works /\ ReqId(TRUE, entries + 1)
     \/ Fails /\ ReqId(TRUE, 0)
  /\ UNCHANGED <<launcher_vars, clients_per_round, scheduler, todo, attempt,
                 clients_ready, round_number, due>>
\* A request that is not answered: connect fails, or what follows it.
Unanswered(connected) == Reaches(FALSE, ServerUp) /\ (connected => ServerUp)

DeviceGetsNoId ==
  /\ \E connected \in BOOLEAN : Unanswered(connected) /\ ReqId(connected, 0)
  /\ UNCHANGED <<launcher_vars, scheduler_vars>>

\* extract_id refuses an id that was not given out, and send_file cannot open
\* the file of an id beyond the splits: then nothing is sent.  A fault cuts
\* the file short or breaks the connection.  After a request that failed the
\* count is whatever was on the stack.
Registered(id) == id \in 1 .. entries
SamplesOf(id) == IF id \in 1 .. NumSplits THEN SplitSize ELSE 0
File == IF Registered(ID) THEN SamplesOf(ID) ELSE 0
Count == {0, 1, SplitSize}
DeviceDownloads ==
  /\ \E connected, answered \in BOOLEAN, n \in Count :
       /\ IF ~answered THEN Unanswered(connected)
          ELSE /\ connected /\ ServerUp
               /\ IF n = File THEN Works ELSE n < File /\ Fails
       /\ \/ ReqImages(connected, answered, n)
          \/ ReqLabels(connected, answered, n)
  /\ UNCHANGED <<launcher_vars, scheduler_vars>>

DeviceBegins ==
  InitTrainSet /\ UNCHANGED <<launcher_vars, scheduler_vars, faults>>

EmulatorExits ==
  \E c \in Client :
    /\ Exit(c)
    /\ IF c = Me THEN Vanish ELSE UNCHANGED guest_vars
    /\ UNCHANGED <<scheduler_vars, faults>>

-----------------------------------------------------------------------------
(* The server's scheduler, in its own time *)

ServerStep ==
  /\ ServerUp
  /\ UNCHANGED <<launcher_vars, train_vars, run_vars, handler_vars,
                 socket_vars, clobbered, clients_per_round, entries>>

\* The sleep is over and no round is started.
Scan ==
  /\ ServerStep
  /\ scheduler = "sleep" /\ round_number < NumRounds /\ due = 0
  /\ scheduler' = "scan" /\ todo' = entries /\ clients_ready' = 0
  /\ UNCHANGED <<backlog, inbox, attempt, round_number, due, faults>>

\* What the device sees of a request that fails: nothing, or a connection
\* whose request never comes whole.
AfterFailure ==
  {backlog} \cup IF Listening THEN {Append(backlog, Broken)} ELSE {}

\* GET /ready to the next entry.  One that cannot be reached, or whose
\* connection breaks, is not ready.
Ping ==
  /\ ServerStep /\ scheduler = "scan" /\ todo > 0
  /\ \/ /\ Reaches(TRUE, Listening)
        /\ backlog' = Append(backlog, ReadyRequest)
        /\ scheduler' = "ping" /\ UNCHANGED todo
     \/ /\ Reaches(FALSE, Listening)
        /\ backlog' \in AfterFailure
        /\ todo' = todo - 1 /\ UNCHANGED scheduler
  /\ UNCHANGED <<inbox, attempt, clients_ready, round_number, due>>

\* With as many ready as a round takes, the round is started.
EndScan ==
  /\ ServerStep /\ scheduler = "scan" /\ todo = 0
  /\ IF clients_ready = clients_per_round
     THEN /\ round_number' = round_number + 1 /\ due' = clients_ready
          /\ scheduler' = "train" /\ todo' = clients_ready /\ attempt' = 1
     ELSE /\ scheduler' = "sleep"
          /\ UNCHANGED <<todo, attempt, round_number, due>>
  /\ UNCHANGED <<backlog, inbox, clients_ready, faults>>

\* POST /train to the next ready entry, three times at most.
ThreeTries == attempt < 3
SendTrain ==
  /\ ServerStep /\ scheduler = "train" /\ todo > 0
  /\ \/ /\ Reaches(TRUE, Listening)
        /\ backlog' = Append(backlog, round_number)
        /\ todo' = todo - 1 /\ attempt' = 1
     \/ /\ Reaches(FALSE, Listening)
        /\ backlog' \in AfterFailure
        /\ IF ThreeTries THEN attempt' = attempt + 1 /\ UNCHANGED todo
                          ELSE todo' = todo - 1 /\ attempt' = 1
  /\ UNCHANGED <<inbox, scheduler, clients_ready, round_number, due>>

\* After the last round's requests the thread ends, whatever is due.
EndBroadcast ==
  /\ ServerStep /\ scheduler = "train" /\ todo = 0
  /\ scheduler' = IF round_number < NumRounds THEN "sleep" ELSE "over"
  /\ UNCHANGED <<backlog, inbox, todo, attempt, clients_ready, round_number,
                 due, faults>>

OfEarlier(r) == r < round_number      \* mutant: compared before it is counted
OfThisRound(r) == r = round_number
\* A result whose id extract_id refuses, and in handle_results one of another
\* round, is dropped.
Countable(result) == Registered(result.id) /\ OfThisRound(result.round)
Collect ==
  /\ ServerStep /\ inbox # <<>>
  /\ inbox' = Tail(inbox)
  /\ due' = IF Countable(Head(inbox)) /\ due > 0 THEN due - 1 ELSE due
  /\ UNCHANGED <<backlog, scheduler, todo, attempt, clients_ready,
                 round_number, faults>>

\* The window is closed or, without one, the thread has ended.
ServerExits == ServerEnds /\ UNCHANGED <<guest_vars, scheduler_vars, faults>>

-----------------------------------------------------------------------------
(* The device, serving *)

DeviceAlone ==
  /\ Accept \/ Receive \/ Train \/ CloseServ \/ Clean
  /\ UNCHANGED <<launcher_vars, scheduler_vars, faults>>

\* The answer to GET /ready is read by the scheduler that waits for it.
DeviceAnswers ==
  /\ Answer
  /\ IF ServerUp /\ scheduler = "ping"
     THEN /\ scheduler' = "scan" /\ todo' = todo - 1
          /\ clients_ready' = clients_ready + 1
     ELSE UNCHANGED <<scheduler, todo, clients_ready>>
  /\ UNCHANGED <<launcher_vars, clients_per_round, entries, attempt,
                 round_number, due, faults>>

DeviceSends ==
  /\ \/ \E ok \in BOOLEAN : Connect(ok) /\ Reaches(ok, ServerUp)
     \/ \E result \in {"ok", "ENOTCONN", "error"} :
          SendHeader(result) /\ Reaches(result = "ok", ServerUp)
     \/ \E result \in {"ok", "lost", "error"} :
          SendBody(result) /\ Reaches(result = "ok", ServerUp)
  /\ UNCHANGED <<launcher_vars, scheduler_vars>>

Starting == DeviceRuns \/ DeviceRegisters \/ DeviceGetsNoId \/ DeviceDownloads
              \/ DeviceBegins
Device == DeviceAlone \/ DeviceAnswers \/ DeviceSends
Scheduler == Scan \/ Ping \/ EndScan \/ SendTrain \/ EndBroadcast
Next == Launching \/ Serving \/ Starting \/ EmulatorExits \/ Device
          \/ Scheduler \/ Collect \/ ServerExits

Spec == Init /\ [][Next]_fleet_vars

\* Threads that can run do: the device's, the scheduler, a connection's
\* handler.  No one has to start an emulator or to end one.
Fairness == /\ WF_fleet_vars(Device) /\ WF_fleet_vars(Scheduler)
            /\ WF_fleet_vars(Collect)
FairSpec == Spec /\ Fairness
-----------------------------------------------------------------------------
\* main.c:259: the one thread object and stack of the device is not given to
\* a second connection while the first is served, as long as the server
\* knows the device once and no connection has failed.
OneHandler == clobbered => entries > 1 \/ faults > 0

\* The results of a round that are still to come, at every place a request or
\* a result can be, are never more than the round waits for: none can be
\* averaged in twice, or into a later round.
Unsent == {"recv", "train", "connect", "header", "body"}
Holds(cond) == IF cond THEN 1 ELSE 0
Places(s, V) == {k \in DOMAIN s : s[k] \in V}
HowMany(s, V) == Cardinality(Places(s, V))
Rounds(s) == HowMany(s, Nat \ {0})
ToCome ==
  (IF scheduler = "train" THEN todo ELSE 0)
    + Rounds(backlog)
    + Holds(request > 0 /\ handler \in Unsent)
    + Len(inbox)
NoSurplusResult == ServerUp => ToCome <= due

\* What the device owes and has posted, by round, and its phase.
Round == 1 .. NumRounds
InHand(r) == Holds(request = r /\ handler \in Unsent)
Owed == [r \in Round |-> HowMany(backlog, {r}) + InHand(r)]
Results(r) == [round : {r}, id : Nat]
Posted == [r \in Round |-> HowMany(inbox, Results(r))]
Phase ==
  CASE boot = "off" -> "off"
    [] boot = "id" -> "boot"
    [] boot \in {"images", "labels", "init"} -> "loading"
    [] boot = "serving" -> "serving"
    [] OTHER -> "stopped"
Contract == INSTANCE Participant WITH
  phase <- Phase, id <- ID, owed <- Owed, posted <- Posted

\* The device keeps the contract the server's model has of its devices: one
\* result for each model it was sent, or none, however its calls fail, its
\* attempts are repeated, its one thread is made anew or it starts again.
DeviceKeepsContract == Contract!Spec

\* A device trains on all the samples the server has for its id, which are
\* none for a device without an id or with one beyond the splits: it does not
\* take what one failed download left, or as many labels as images by chance.
TrainsOnSamples == step # "out" => n_images = SamplesOf(ID) \/ faults > 1

\* A round all of whose requests have reached the device, which stays up, is
\* completed, if nothing fails and the server is left running.
Disturbed == ~ServerUp \/ faults > 0 \/ clobbered \/ ~Running(Me)
RoundCompletes ==
  due > 0 /\ ToCome = due /\ scheduler # "train" ~> due = 0 \/ Disturbed

\* main.c:479: start_round, which waits without a timeout and holds
\* client_mutex, gets its answer from an emulator that keeps running.
Asked ==
  \/ ReadyRequest \in {backlog[k] : k \in DOMAIN backlog}
  \/ request = ReadyRequest /\ handler \in {"recv", "answer"}
PingAnswered ==
  scheduler = "ping" /\ Asked
    ~> scheduler # "ping" \/ ~ServerUp \/ clobbered \/ ~Running(Me)
=============================================================================
