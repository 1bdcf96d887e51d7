----------------------------- MODULE LogBuffer ------------------------------
(***************************************************************************)
(* log_append (zflserver/src/main.c): the scheduler and the handlers put   *)
(* messages in SERVER.logs, from which the oldest is shifted out when all  *)
(* LOG_LENGTH_MAX places are taken.  There is no mutex: each access to     *)
(* log_len is a step of its own, a -- or a ++ two of them.                 *)
(***************************************************************************)
EXTENDS Integers, Sequences, FiniteSetsExt

CONSTANTS Logger,          \* threads that call log_append
          LogLengthMax,    \* LOG_LENGTH_MAX
          MaxMessages      \* bound: messages logged in all

ASSUME LogAssumption == LogLengthMax \in Nat \ {0} /\ MaxMessages \in Nat

Empty == 0
Message == 1 .. MaxMessages

VARIABLES logs,      \* the places below LogLengthMax, and those past the end
          log_len,
          logged,    \* number of messages whose log_append has begun
          pc,        \* each thread: where it is in log_append
          message,   \* each thread: what it logs
          register,  \* each thread: the value of log_len it has loaded
          raced      \* history: two threads were in log_append at once

vars == <<logs, log_len, logged, pc, message, register, raced>>

Place == 0 .. LogLengthMax + MaxMessages

Init ==
  /\ logs = [i \in Place |-> Empty]
  /\ log_len = 0 /\ logged = 0
  /\ pc = [t \in Logger |-> "idle"]
  /\ message = [t \in Logger |-> Empty]
  /\ register = [t \in Logger |-> 0]
  /\ raced = FALSE

Goto(t, at) == pc' = [pc EXCEPT ![t] = at]
Load(t) == register' = [register EXCEPT ![t] = log_len]

\* The message is formatted and printed; messages are numbered as they begin.
Begin(t) ==
  /\ pc[t] = "idle"
  /\ logged < MaxMessages
  /\ logged' = logged + 1
  /\ message' = [message EXCEPT ![t] = logged + 1]
  /\ Goto(t, "check")
  /\ raced' = (raced \/ \E other \in Logger \ {t} : pc[other] # "idle")
  /\ UNCHANGED <<logs, log_len, register>>

LateFull == log_len = LogLengthMax + 1            \* mutant: off by one
Full == log_len = LogLengthMax
CheckFull(t) ==
  /\ pc[t] = "check"
  /\ Goto(t, IF Full THEN "shift" ELSE "load")
  /\ UNCHANGED <<logs, log_len, logged, message, register, raced>>

\* memmove of places 1 .. LogLengthMax - 1 to 0 .., then log_len is loaded.
Shift(t) ==
  /\ pc[t] = "shift"
  /\ logs' = [i \in Place |-> IF i < LogLengthMax - 1 THEN logs[i + 1]
                                                       ELSE logs[i]]
  /\ Load(t)
  /\ Goto(t, "decrement")
  /\ UNCHANGED <<log_len, logged, message, raced>>

Decrement(t) ==
  /\ pc[t] = "decrement"
  /\ log_len' = register[t] - 1
  /\ Goto(t, "load")
  /\ UNCHANGED <<logs, logged, message, register, raced>>

LoadLen(t) ==
  /\ pc[t] = "load"
  /\ Load(t)
  /\ Goto(t, "increment")
  /\ UNCHANGED <<logs, log_len, logged, message, raced>>

ByTwo(t) == register[t] + 2                       \* mutant: claims two places
Claimed(t) == register[t] + 1
Increment(t) ==
  /\ pc[t] = "increment"
  /\ log_len' = Claimed(t)
  /\ Goto(t, "write")
  /\ UNCHANGED <<logs, logged, message, register, raced>>

\* snprintf to the place that was log_len when it was loaded.
Write(t) ==
  /\ pc[t] = "write"
  /\ logs' = [logs EXCEPT ![register[t]] = message[t]]
  /\ Goto(t, "idle")
  /\ UNCHANGED <<log_len, logged, message, register, raced>>

LogAppend(t) ==
  \/ Begin(t) \/ CheckFull(t) \/ Shift(t) \/ Decrement(t)
  \/ LoadLen(t) \/ Increment(t) \/ Write(t)

Quiet == \A t \in Logger : pc[t] = "idle"
Done == Quiet /\ logged = MaxMessages /\ UNCHANGED vars
Next == Done \/ \E t \in Logger : LogAppend(t)

Spec == Init /\ [][Next]_vars
-----------------------------------------------------------------------------
\* As long as no two threads were in log_append at once, the log is the last
\* messages in their order, as many as there are places.
LastMessages ==
  Quiet /\ ~raced =>
    /\ log_len = Min({logged, LogLengthMax})
    /\ \A i \in 0 .. log_len - 1 : logs[i] = logged - log_len + 1 + i

\* While the log has never been full, racing threads may lose messages but
\* the log shown has no hole: each of its places holds a message.
NoHole ==
  Quiet /\ logged <= LogLengthMax =>
    \A i \in 0 .. log_len - 1 : logs[i] # Empty
=============================================================================
