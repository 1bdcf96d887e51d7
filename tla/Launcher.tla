------------------------------ MODULE Launcher ------------------------------
(***************************************************************************)
(* zfl.c and net-setup.sh.  "zfl client" makes two FIFOs and forks an      *)
(* emulator for each device in turn, types a run command into the first    *)
(* FIFO and leaves a thread to copy the second; when all are started it    *)
(* waits for them, and removes the FIFOs of those that end.  It may be     *)
(* started again when it has ended, for more devices or for fewer; what it *)
(* leaves in the system stays: FIFOs and emulators.  "zfl server" is run   *)
(* once: it has a script make the network interface, forks the server,     *)
(* waits for it and has the script delete the interface.                   *)
(***************************************************************************)
EXTENDS Naturals, FiniteSets

CONSTANTS NumClients,   \* most devices a launch is given
          MaxLaunches   \* bound: times zfl client is started

ASSUME LauncherAssumption == NumClients \in Nat \ {0} /\ MaxLaunches \in Nat

Client == 1 .. NumClients
OneEach == {"in", "out"}
Fifo == Client \X OneEach       \* /tmp/client<c>.in and .out

VARIABLES
  client_pc,   \* zfl client: where start_client is, or how it ended
  num_clients, \* of this launch
  i,           \* start_client's loop index
  launches,    \* times it was started
  fifos,       \* the FIFOs that exist
  child,       \* process_ids: each client's emulator, as this zfl's child
  orphan,      \* clients whose emulator outlived the zfl that started it
  told,        \* clients whose emulator was sent its run command
  copier,      \* each client's cat_client_output: "start" until it copies
  server_pc,   \* zfl server: where main is, "over" when it has returned
  interface,   \* the network interface zfl with its address: "down", "up"
  server       \* the server process: "none", "running", "ended"

client_vars ==
  <<client_pc, num_clients, i, launches, fifos, child, orphan, told, copier>>
server_vars == <<server_pc, interface, server>>
launcher_vars == <<client_vars, server_vars>>

\* An emulator that failed to start is, to its parent, one that has exited.
Running(c) == child[c] = "running" \/ c \in orphan

LauncherInit ==
  /\ client_pc = "idle" /\ num_clients = 1 /\ i = 1 /\ launches = 0
  /\ fifos = {} /\ orphan = {} /\ told = {}
  /\ child = [c \in Client |-> "none"]
  /\ copier = [c \in Client |-> "none"]
  /\ server_pc = "idle" /\ interface = "down" /\ server = "none"

-----------------------------------------------------------------------------
(* zfl client: main and start_client *)

Ended == {"idle", "returned", "failed", "killed"}

Launch ==
  /\ client_pc \in Ended /\ launches < MaxLaunches
  /\ client_pc' = "mkfifo" /\ launches' = launches + 1 /\ i' = 1
  /\ num_clients' \in Client
  /\ child' = [c \in Client |-> "none"]
  /\ copier' = [c \in Client |-> "none"]
  /\ UNCHANGED <<fifos, orphan, told, server_vars>>

\* The process ends: its children go on without it, its threads do not.
End(how) ==
  /\ client_pc' = how /\ i' = 1
  /\ orphan' = orphan \cup {c \in Client : child[c] = "running"}
  /\ child' = [c \in Client |-> "none"]
  /\ copier' = [c \in Client |-> "none"]

\* mkfifo fails if the path exists.
AnyPath(c) == TRUE                                \* mutant: EEXIST tolerated
FreePath(c) == \A e \in OneEach : <<c, e>> \notin fifos

\* The two mkfifos; the first may succeed and the second fail.
MakeFifos(ok) ==
  /\ client_pc = "mkfifo"
  /\ ok => FreePath(i)
  /\ IF ok
     THEN /\ fifos' = fifos \cup ({i} \X OneEach)
          /\ client_pc' = "fork"
          /\ UNCHANGED <<i, child, orphan, copier>>
     ELSE /\ \/ UNCHANGED fifos
             \/ FreePath(i) /\ fifos' = fifos \cup {<<i, "in">>}
          /\ End("failed")
  /\ UNCHANGED <<num_clients, launches, told, server_vars>>

\* The emulator's network card is bridged to the interface zfl: without it the
\* emulator does not start.
Fork(ok) ==
  /\ client_pc = "fork"
  /\ IF ok
     THEN /\ child' = [child EXCEPT ![i] =
                          IF interface = "up" THEN "running" ELSE "exited"]
          /\ client_pc' = "open"
          /\ UNCHANGED <<i, orphan, copier>>
     ELSE End("failed")
  /\ UNCHANGED <<num_clients, launches, fifos, told, server_vars>>

\* After its sleep, open waits for a reader: for ever if there is none.
OpenIn ==
  /\ client_pc = "open" /\ Running(i)
  /\ client_pc' = "write"
  /\ UNCHANGED <<num_clients, i, launches, fifos, child, orphan, told, copier,
                 server_vars>>

\* The run command.  With no reader left SIGPIPE ends the process.
WriteRun ==
  /\ client_pc = "write"
  /\ IF Running(i)
     THEN /\ told' = told \cup {i}
          /\ copier' = [copier EXCEPT ![i] = "start"]
          /\ IF i < num_clients
             THEN client_pc' = "mkfifo" /\ i' = i + 1
             ELSE client_pc' = "wait" /\ i' = 1
          /\ UNCHANGED <<child, orphan>>
     ELSE End("killed") /\ UNCHANGED told
  /\ UNCHANGED <<num_clients, launches, fifos, server_vars>>

OnlyIn(c) == {<<c, "in">>}                        \* mutant: .out forgotten
FifosOf(c) == {c} \X OneEach

\* One wait(NULL) of the last loop; i counts them.
Wait(c) ==
  /\ client_pc = "wait" /\ child[c] = "exited"
  /\ fifos' = fifos \ FifosOf(c)
  /\ IF i < num_clients
     THEN /\ child' = [child EXCEPT ![c] = "reaped"] /\ i' = i + 1
          /\ UNCHANGED <<client_pc, orphan, copier>>
     ELSE End("returned")
  /\ UNCHANGED <<num_clients, launches, told, server_vars>>

\* cat_client_output waits for the FIFO's writer and opens the log.  If the
\* FIFO has been removed, or the log cannot be opened, fclose is given a NULL.
\* Otherwise it copies until the emulator has gone or a write fails, and
\* changes nothing else.
CopierOpens(c) ==
  /\ copier[c] = "start"
  /\ <<c, "out">> \in fifos => Running(c)
  /\ \/ /\ <<c, "out">> \in fifos
        /\ copier' = [copier EXCEPT ![c] = "none"]
        /\ UNCHANGED <<client_pc, i, child, orphan>>
     \/ End("killed")
  /\ UNCHANGED <<num_clients, launches, fifos, told, server_vars>>

\* The emulator ends, by its user or by itself.
Exit(c) ==
  /\ Running(c)
  /\ child' = [child EXCEPT ![c] = IF @ = "running" THEN "exited" ELSE @]
  /\ orphan' = orphan \ {c}
  /\ told' = told \ {c}
  /\ UNCHANGED <<client_pc, num_clients, i, launches, fifos, copier,
                 server_vars>>

ClientLauncher ==
  \/ Launch \/ OpenIn \/ WriteRun
  \/ \E ok \in BOOLEAN : MakeFifos(ok) \/ Fork(ok)
  \/ \E c \in Client : Wait(c) \/ CopierOpens(c)

-----------------------------------------------------------------------------
(* zfl server: main, setup_net_interface and start_server *)

EXIT_FAILURE == 1

\* net-setup.sh start, as a child that is waited for.  Once the script runs its
\* status is 0, whatever came of its commands and of the file they are in; a
\* script that could not be run has done nothing.  main gives up only if the
\* status is EXIT_FAILURE.
InterfaceUp(status, made) ==
  /\ server_pc = "idle"
  /\ made => status = 0
  /\ interface' = IF made THEN "up" ELSE interface
  /\ server_pc' = IF status = EXIT_FAILURE THEN "over" ELSE "fork"
  /\ UNCHANGED <<server, client_vars>>

\* A fork that fails is reported to no one: wait then returns at once.
StartServer(ok) ==
  /\ server_pc = "fork"
  /\ server' = IF ok THEN "running" ELSE "ended"
  /\ server_pc' = "wait"
  /\ UNCHANGED <<interface, client_vars>>

NoWait == TRUE                                    \* mutant: wait left out
ServerGone == server = "ended"

\* wait returns, and net-setup.sh stop deletes the interface.  Without its file,
\* or if there is no interface, or if the kernel refuses, it deletes nothing;
\* its status, 0 to 2, only decides what main returns.
InterfaceDown(gone) ==
  /\ server_pc = "wait" /\ ServerGone
  /\ interface' = IF gone THEN "down" ELSE interface
  /\ server_pc' = "over"
  /\ UNCHANGED <<server, client_vars>>

\* The server ends, by its user or by itself.
ServerEnds ==
  /\ server = "running" /\ server' = "ended"
  /\ UNCHANGED <<client_vars, server_pc, interface>>

ServerLauncher ==
  \/ \E ok \in BOOLEAN : StartServer(ok) \/ InterfaceDown(ok)
  \/ \E made \in BOOLEAN, status \in 0 .. 1 : InterfaceUp(status, made)
LauncherNext ==
  ClientLauncher \/ ServerLauncher \/ ServerEnds \/ \E c \in Client : Exit(c)
LauncherSpec == LauncherInit /\ [][LauncherNext]_launcher_vars
-----------------------------------------------------------------------------
\* Two emulators never run with one device's address, although a launch may
\* fail halfway or be killed and be started again while emulators are left.
OneEmulatorPerAddress == \A c \in orphan : child[c] # "running"

\* When start_client returns 0, no emulator runs and no FIFO is left of the
\* devices it was given, whatever earlier launches for more or for fewer have
\* left: the same command can be given again.
ReturnsClean ==
  client_pc = "returned" =>
    \A c \in 1 .. num_clients :
      c \notin orphan /\ \A e \in OneEach : <<c, e>> \notin fifos

\* zfl.c:285 and 302: the interface is not made, or taken away, while the
\* server runs, whatever the script does and whatever status it ends with.
InterfaceAroundServer ==
  [][interface' # interface
       => server # "running" /\ server' # "running"]_launcher_vars
=============================================================================
