------------------------------- MODULE Device -------------------------------
(***************************************************************************)
(* The program a device runs (zflclient/src/main.c): run fetches an id and *)
(* the samples, then accepts connections for ever in the shell's thread    *)
(* and serves each in a thread made from the one static thread_data, which *)
(* answers GET /ready, or trains for POST /train and posts the weights.    *)
(* The handler's priority is above the shell's: while it computes, no      *)
(* connection is accepted; while it waits for the network, one may be.     *)
(* What the network does to a call is a parameter of the action.           *)
(***************************************************************************)
EXTENDS Training, Sequences

CONSTANTS SplitSize   \* images, and labels, in the files of one id

ASSUME SplitAssumption == SplitSize \in Nat

Retries == 3          \* attempts of send_weights

\* A request of the server: GET /ready, POST /train for a round, or one that
\* never comes whole.
ReadyRequest == 0
NoRequest == -1
Broken == -2

VARIABLES
  boot,       \* run: "off", "id", "images", "labels", "init", "serving",
              \* "stopped" when it returned, "undefined" when anything goes
  ID,
  got,        \* what run's locals say: images, labels, and missing data
  backlog,    \* connections not accepted yet, by their requests
  handler,    \* the handler thread: "none" or where it is
  request,    \* what it serves
  try, serv,  \* send_weights: attempt, and the socket of the last one
  sockets,    \* open sockets
  leaked,     \* history: connects that have failed since it started
  inbox,      \* results sent to the server and not handled there
  clobbered   \* history: a handler was made while the last one was alive

run_vars == <<boot, ID, got>>
send_vars == <<try, serv>>
handler_vars == <<handler, request, send_vars>>
socket_vars == <<sockets, leaked>>
device_vars ==
  <<run_vars, backlog, handler_vars, socket_vars, inbox, clobbered>>

Nothing == [images |-> 0, labels |-> 0, missing |-> FALSE]

DeviceInit ==
  /\ boot = "off" /\ ID = 0 /\ got = Nothing
  /\ backlog = <<>> /\ handler = "none" /\ request = NoRequest
  /\ try = 0 /\ serv = "none" /\ sockets = 0 /\ leaked = 0
  /\ inbox = <<>> /\ clobbered = FALSE

-----------------------------------------------------------------------------
(* run *)

\* connect_main_server returns -1 and leaves the socket it has made open.
ConnectFails == sockets' = sockets + 1 /\ leaked' = leaked + 1

\* get_request closes its socket, if it has got one from connect_main_server;
\* without an answer the caller's count stays unset.
GetRequest(connected) ==
  IF connected THEN UNCHANGED socket_vars ELSE ConnectFails

\* The run command has been read from the shell's serial line.
Run ==
  /\ boot = "off"
  /\ boot' = "id"
  /\ UNCHANGED <<ID, got, backlog, handler_vars, socket_vars, inbox, clobbered,
                 train_vars>>

\* req_id: an empty answer reads as 0, and run goes on in any case.
ReqId(connected, id) ==
  /\ boot = "id"
  /\ GetRequest(connected)
  /\ ID' = id
  /\ boot' = "images"
  /\ UNCHANGED <<got, backlog, handler_vars, inbox, clobbered, train_vars>>

\* req_images: n is bytes / IMG_SIZE, so that the -1 of a broken connection
\* counts as no image.
ReqImages(connected, answered, n) ==
  /\ boot = "images"
  /\ GetRequest(connected)
  /\ got' = [got EXCEPT !.images = n, !.missing = ~answered]
  /\ boot' = "labels"
  /\ UNCHANGED <<ID, backlog, handler_vars, inbox, clobbered, train_vars>>

ReqLabels(connected, answered, n) ==
  /\ boot = "labels"
  /\ GetRequest(connected)
  /\ got' = [got EXCEPT !.labels = n, !.missing = @ \/ ~answered]
  /\ boot' = "init"
  /\ UNCHANGED <<ID, backlog, handler_vars, inbox, clobbered, train_vars>>

NoMismatch == FALSE                               \* mutant: no comparison
Mismatch == got.images # got.labels

\* run goes on only if the numbers agree.  init_train_set reads the data, if
\* there are images; start_server opens the listening socket.
InitTrainSet ==
  /\ boot = "init"
  /\ IF Mismatch
     THEN boot' = "stopped" /\ UNCHANGED <<train_vars, sockets>>
     ELSE IF got.images > 0 /\ got.missing
     THEN boot' = "undefined" /\ UNCHANGED <<train_vars, sockets>>
     ELSE boot' = "serving" /\ SetSamples(got.images) /\ sockets' = sockets + 1
  /\ got' = Nothing
  /\ UNCHANGED <<ID, backlog, handler_vars, leaked, inbox, clobbered>>

-----------------------------------------------------------------------------
(* start_server and handle_incoming_connection *)

\* The handler lets the shell's thread run while it is in the network.
Anywhere == TRUE                                  \* mutant: equal priorities
HandlerWaits ==
  handler \in {"none", "recv", "answer", "connect", "header", "body"}

Accept ==
  /\ boot = "serving" /\ backlog # <<>> /\ HandlerWaits
  /\ backlog' = Tail(backlog)
  /\ sockets' = sockets + 1
  /\ IF handler = "none"
     THEN /\ handler' = "recv" /\ request' = Head(backlog)
          /\ UNCHANGED <<boot, clobbered>>
     ELSE /\ clobbered' = TRUE /\ boot' = "undefined"
          /\ handler' = "none" /\ request' = NoRequest
  /\ UNCHANGED <<ID, got, send_vars, leaked, inbox, train_vars>>

WithBody(r) == r > 0           \* mutant: a head must announce a body
Complete(r) == r # Broken

\* The request is read to its end, or breaks off.  A train request is
\* init_model's, then train's.
Receive ==
  /\ handler = "recv"
  /\ \/ request = Broken /\ handler' = "clean" /\ UNCHANGED train_vars
     \/ /\ Complete(request) /\ request = ReadyRequest
        /\ handler' = "answer" /\ UNCHANGED train_vars
     \/ /\ Complete(request) /\ request # ReadyRequest
        /\ handler' = "train" /\ BeginTraining
  /\ UNCHANGED <<run_vars, backlog, request, send_vars, socket_vars, inbox,
                 clobbered>>

\* samples_ready was set before the first accept: the answer is "true".
Answer ==
  /\ handler = "answer"
  /\ handler' = "clean"
  /\ UNCHANGED <<run_vars, backlog, request, send_vars, socket_vars, inbox,
                 clobbered, train_vars>>

Train ==
  /\ handler = "train" /\ TrainStep
  /\ IF step' = "out" THEN handler' = "connect" /\ try' = 1 /\ serv' = "none"
                      ELSE UNCHANGED <<handler, send_vars>>
  /\ UNCHANGED <<run_vars, backlog, request, socket_vars, inbox, clobbered>>

-----------------------------------------------------------------------------
(* send_weights *)

\* continue: the next attempt, or the close that follows the loop.
NextTry ==
  IF try < Retries THEN handler' = "connect" /\ try' = try + 1
                   ELSE handler' = "close" /\ UNCHANGED try

Connect(ok) ==
  /\ handler = "connect"
  /\ IF ok THEN /\ handler' = "header" /\ serv' = "open"
                /\ sockets' = sockets + 1 /\ UNCHANGED <<try, leaked>>
           ELSE NextTry /\ serv' = "none" /\ ConnectFails
  /\ UNCHANGED <<run_vars, backlog, request, inbox, clobbered, train_vars>>

\* Only ENOTCONN makes it try again.
SendHeader(result) ==
  /\ handler = "header"
  /\ \/ result = "ok" /\ handler' = "body" /\ UNCHANGED <<send_vars, sockets>>
     \/ /\ result = "ENOTCONN"
        /\ NextTry /\ serv' = "closed" /\ sockets' = sockets - 1
     \/ /\ result = "error"
        /\ handler' = "close" /\ UNCHANGED <<send_vars, sockets>>
  /\ UNCHANGED <<run_vars, backlog, request, leaked, inbox, clobbered,
                 train_vars>>

SendAgain == NextTry                              \* mutant: break left out
Sent == handler' = "close" /\ UNCHANGED try
SendBody(result) ==
  /\ handler = "body"
  /\ IF result = "error"
     THEN /\ NextTry /\ serv' = "closed" /\ sockets' = sockets - 1
          /\ UNCHANGED inbox
     ELSE /\ Sent /\ UNCHANGED <<serv, sockets>>
          /\ inbox' = IF result = "lost" THEN inbox
                      ELSE Append(inbox, [round |-> request, id |-> ID])
  /\ UNCHANGED <<run_vars, backlog, request, leaked, clobbered, train_vars>>

\* The close after the loop, of a socket that may be closed or none.
CloseServ ==
  /\ handler = "close"
  /\ sockets' = IF serv = "open" THEN sockets - 1 ELSE sockets
  /\ serv' = "none" /\ try' = 0
  /\ handler' = "clean"
  /\ UNCHANGED <<run_vars, backlog, request, leaked, inbox, clobbered,
                 train_vars>>

Kept == sockets                                   \* mutant: not closed
WithoutClient == sockets - 1
Clean ==
  /\ handler = "clean"
  /\ sockets' = WithoutClient
  /\ handler' = "none" /\ request' = NoRequest
  /\ UNCHANGED <<run_vars, backlog, send_vars, leaked, inbox, clobbered,
                 train_vars>>

\* The emulator has ended, and the program's memory with it.
Vanish ==
  /\ boot' = "off" /\ ID' = 0 /\ got' = Nothing
  /\ backlog' = <<>> /\ handler' = "none" /\ request' = NoRequest
  /\ try' = 0 /\ serv' = "none" /\ sockets' = 0 /\ leaked' = 0
  /\ ForgetTraining
  /\ UNCHANGED <<inbox, clobbered>>
-----------------------------------------------------------------------------
\* Between two connections a device holds its listening socket and the sockets
\* whose connect has failed since it started, one for each, and no other: a
\* handler closes what it could connect, through all its tries, once.
SocketsReturned ==
  boot = "serving" /\ handler = "none" => sockets = 1 + leaked
=============================================================================
