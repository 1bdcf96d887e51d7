--------------------------- MODULE LogBufferProofs ---------------------------
(***************************************************************************)
(* Proofs about the log, for any number of threads, places and messages.   *)
(* LastMessages is about a single thread at a time: its invariant says     *)
(* what the buffer holds at each place of log_append.  NoHole is about     *)
(* threads that race: an increment may be lost, so that log_len runs       *)
(* behind the messages, but it never runs ahead of the places written.     *)
(***************************************************************************)
EXTENDS LogBuffer, TLAPS, FiniteSetTheorems

Steps == {"idle", "check", "shift", "decrement", "load", "increment", "write"}

\* The types, and a thread in log_append has a message.
LogShape ==
  /\ logs \in [Place -> Nat]
  /\ log_len \in Int /\ logged \in Nat
  /\ pc \in [Logger -> Steps]
  /\ message \in [Logger -> Nat]
  /\ register \in [Logger -> Int]
  /\ raced \in BOOLEAN
  /\ \A t \in Logger : pc[t] # "idle" => message[t] > 0

\* One thread at a time.

\* The first k places show the last k of n messages.
Shown(n, k) == \A i \in 0 .. k - 1 : logs[i] = n - k + 1 + i

\* k places are taken of `most' after n messages.
Taken(k, n, most) == k = IF n <= most THEN n ELSE most

\* What the log holds at each place of log_append, in which thread t puts the
\* last message there is.
Holds(t) ==
  /\ pc[t] # "idle" => logged > 0 /\ message[t] = logged
  /\ pc[t] = "check" => /\ Taken(log_len, logged - 1, LogLengthMax)
                        /\ Shown(logged - 1, log_len)
  /\ pc[t] = "shift" => /\ log_len = LogLengthMax /\ logged > LogLengthMax
                        /\ Shown(logged - 1, LogLengthMax)
  /\ pc[t] = "decrement" => /\ register[t] = LogLengthMax
                            /\ logged > LogLengthMax
                            /\ Shown(logged - 1, LogLengthMax - 1)
  /\ pc[t] \in {"load", "increment"} =>
       /\ Taken(log_len, logged - 1, LogLengthMax - 1)
       /\ Shown(logged - 1, log_len)
  /\ pc[t] = "increment" => register[t] = log_len
  /\ pc[t] = "write" => /\ Taken(register[t], logged - 1, LogLengthMax - 1)
                        /\ log_len = register[t] + 1
                        /\ Shown(logged - 1, register[t])

OneAtATime ==
  ~raced => /\ \A t, u \in Logger : pc[t] # "idle" /\ pc[u] # "idle" => t = u
            /\ \A t \in Logger : Holds(t)
            /\ Quiet => /\ Taken(log_len, logged, LogLengthMax)
                        /\ Shown(logged, log_len)

\* Threads that race, in a log that has never been full.

\* The threads that have begun and not yet claimed a place.
Unclaimed == {t \in Logger : pc[t] \in {"check", "load", "increment"}}

\* A place that holds a message, or that a thread is about to write.
Covered(i) ==
  logs[i] # Empty \/ \E t \in Logger : pc[t] = "write" /\ register[t] = i

NeverFull ==
  logged <= LogLengthMax =>
    /\ \A t \in Logger : pc[t] \notin {"shift", "decrement"}
    /\ IsFiniteSet(Unclaimed)
    /\ log_len >= 0 /\ log_len + Cardinality(Unclaimed) <= logged
    /\ \A i \in 0 .. log_len - 1 : Covered(i)
    /\ \A t \in Logger : pc[t] = "increment" =>
         /\ register[t] >= 0
         /\ register[t] + Cardinality(Unclaimed) <= logged
         /\ \A i \in 0 .. register[t] - 1 : Covered(i)
    /\ \A t \in Logger : pc[t] = "write" => register[t] \in Place

\* Each step keeps the types.
LEMMA LogShapeNext == LogShape /\ [Next]_vars => LogShape'
<1> SUFFICES ASSUME LogShape, [Next]_vars PROVE LogShape'
  OBVIOUS
<1> USE LogAssumption DEF LogShape, Steps, Goto, Load
<1>1. ASSUME NEW t \in Logger, Begin(t) PROVE LogShape'
  <2>1. raced' \in BOOLEAN
    BY <1>1, Zenon DEF Begin
  <2> QED
    BY <1>1, <2>1 DEF Begin
<1>2. ASSUME NEW t \in Logger, CheckFull(t) PROVE LogShape'
  BY <1>2 DEF CheckFull
<1>3. ASSUME NEW t \in Logger, Shift(t) PROVE LogShape'
  <2>1. ASSUME NEW i \in Place PROVE logs'[i] \in Nat
    BY <1>3, <2>1 DEF Shift, Place
  <2>2. logs' \in [Place -> Nat]
    BY <1>3, <2>1 DEF Shift
  <2> QED
    BY <1>3, <2>2 DEF Shift
<1>4. ASSUME NEW t \in Logger, Decrement(t) PROVE LogShape'
  BY <1>4 DEF Decrement
<1>5. ASSUME NEW t \in Logger, LoadLen(t) PROVE LogShape'
  BY <1>5 DEF LoadLen
<1>6. ASSUME NEW t \in Logger, Increment(t) PROVE LogShape'
  BY <1>6 DEF Increment, Claimed
<1>7. ASSUME NEW t \in Logger, Write(t) PROVE LogShape'
  BY <1>7 DEF Write
<1>8. CASE UNCHANGED vars
  BY <1>8 DEF vars
<1> QED
  BY <1>1, <1>2, <1>3, <1>4, <1>5, <1>6, <1>7, <1>8 DEF Next, LogAppend, Done

\* The variables keep their types.
LEMMA AlwaysLogShape == Spec => []LogShape
<1>1. ASSUME Init PROVE LogShape
  <2>1. raced \in BOOLEAN
    BY <1>1, Zenon DEF Init
  <2>2. \A t \in Logger : pc[t] = "idle"
    BY <1>1 DEF Init
  <2> QED
    BY <1>1, <2>1, <2>2 DEF Init, LogShape, Steps, Empty
<1> QED
  BY <1>1, LogShapeNext, PTL DEF Spec

\* Only Begin lets another thread in, and it says so.
LEMMA AloneNext ==
  ASSUME LogShape, OneAtATime, NEW t \in Logger, LogAppend(t), ~raced'
  PROVE  /\ ~raced
         /\ \A u \in Logger \ {t} :
              /\ pc[u] = "idle" /\ pc'[u] = "idle"
         /\ \A u \in Logger \ {t} : Holds(u)'
<1>1. ~raced
  BY DEF LogAppend, Begin, CheckFull, Shift, Decrement, LoadLen, Increment,
         Write
<1>2. ASSUME NEW u \in Logger \ {t}
      PROVE  pc[u] = "idle" /\ pc'[u] = "idle"
  <2>1. pc[u] = "idle"
    BY <1>1 DEF OneAtATime, LogAppend, Begin, CheckFull, Shift, Decrement,
         LoadLen, Increment, Write
  <2> QED
    BY <2>1 DEF LogAppend, Begin, CheckFull, Shift, Decrement, LoadLen,
         Increment, Write, Goto, LogShape
<1>3. ASSUME NEW u \in Logger \ {t} PROVE Holds(u)'
  BY <1>2 DEF Holds
<1> QED
  BY <1>1, <1>2, <1>3

\* A thread that is alone in log_append does what it should at each place.
LEMMA OneAtATimeNext == LogShape /\ OneAtATime /\ [Next]_vars => OneAtATime'
<1> SUFFICES ASSUME LogShape, OneAtATime, [Next]_vars PROVE OneAtATime'
  OBVIOUS
<1>1. CASE UNCHANGED vars
  BY <1>1 DEF vars, OneAtATime, Holds, Quiet, Taken, Shown
<1>2. ASSUME NEW t \in Logger, LogAppend(t), ~raced',
             Holds(t)',
             pc'[t] = "idle" =>
               Taken(log_len, logged, LogLengthMax)' /\ Shown(logged, log_len)'
      PROVE  OneAtATime'
  BY <1>2, AloneNext DEF OneAtATime, Quiet
<1> USE LogAssumption DEF Goto, Load
<1>3. ASSUME NEW t \in Logger, Begin(t), ~raced' PROVE OneAtATime'
  <2>1. LogAppend(t)
    BY <1>3 DEF LogAppend
  <2>2. Quiet /\ ~raced
    BY <1>3, <2>1, AloneNext DEF Quiet, Begin
  <2>3. /\ pc'[t] = "check" /\ message'[t] = logged' /\ logged' = logged + 1
        /\ log_len' = log_len /\ logs' = logs /\ logged \in Nat
    BY <1>3 DEF Begin, LogShape
  <2>4. Holds(t)'
    BY <2>2, <2>3 DEF Holds, OneAtATime, Taken, Shown
  <2> QED
    BY <1>2, <1>3, <2>1, <2>3, <2>4
<1>4. ASSUME NEW t \in Logger, CheckFull(t), ~raced' PROVE OneAtATime'
  <2>1. LogAppend(t)
    BY <1>4 DEF LogAppend
  <2>2. pc[t] = "check" /\ Holds(t)
    BY <1>4, <2>1, AloneNext DEF CheckFull, OneAtATime
  <2>3. /\ pc'[t] = IF log_len = LogLengthMax THEN "shift" ELSE "load"
        /\ UNCHANGED <<logs, log_len, logged, message, register>>
        /\ logged \in Nat
    BY <1>4 DEF CheckFull, Full, LogShape
  <2>4. Holds(t)'
    BY <2>2, <2>3 DEF Holds, Taken, Shown
  <2> QED
    BY <1>2, <1>4, <2>1, <2>3, <2>4
<1>5. ASSUME NEW t \in Logger, Shift(t), ~raced' PROVE OneAtATime'
  <2>1. LogAppend(t)
    BY <1>5 DEF LogAppend
  <2>2. pc[t] = "shift" /\ Holds(t)
    BY <1>5, <2>1, AloneNext DEF Shift, OneAtATime
  <2>3. /\ pc'[t] = "decrement" /\ register'[t] = log_len
        /\ UNCHANGED <<log_len, logged, message>>
        /\ logged \in Nat
    BY <1>5 DEF Shift, LogShape
  <2>4. \A i \in 0 .. LogLengthMax - 2 : logs'[i] = logs[i + 1]
    BY <1>5 DEF Shift, Place
  <2>5. \A i \in 0 .. LogLengthMax - 2 :
          i + 1 \in 0 .. LogLengthMax - 1
          /\ logs[i + 1] = logged - 1 - LogLengthMax + 1 + (i + 1)
    BY <2>2 DEF Holds, Shown
  <2>6. Shown(logged - 1, LogLengthMax - 1)'
    BY <2>3, <2>4, <2>5 DEF Shown
  <2>7. Holds(t)'
    BY <2>2, <2>3, <2>6 DEF Holds
  <2> QED
    BY <1>2, <1>5, <2>1, <2>3, <2>7
<1>6. ASSUME NEW t \in Logger, Decrement(t), ~raced' PROVE OneAtATime'
  <2>1. LogAppend(t)
    BY <1>6 DEF LogAppend
  <2>2. pc[t] = "decrement" /\ Holds(t)
    BY <1>6, <2>1, AloneNext DEF Decrement, OneAtATime
  <2>3. /\ pc'[t] = "load" /\ log_len' = register[t] - 1
        /\ UNCHANGED <<logs, logged, message>>
        /\ logged \in Nat
    BY <1>6 DEF Decrement, LogShape
  <2>4. Holds(t)'
    BY <2>2, <2>3 DEF Holds, Taken, Shown
  <2> QED
    BY <1>2, <1>6, <2>1, <2>3, <2>4
<1>7. ASSUME NEW t \in Logger, LoadLen(t), ~raced' PROVE OneAtATime'
  <2>1. LogAppend(t)
    BY <1>7 DEF LogAppend
  <2>2. pc[t] = "load" /\ Holds(t)
    BY <1>7, <2>1, AloneNext DEF LoadLen, OneAtATime
  <2>3. /\ pc'[t] = "increment" /\ register'[t] = log_len
        /\ UNCHANGED <<logs, log_len, logged, message>>
    BY <1>7 DEF LoadLen, LogShape
  <2>4. Holds(t)'
    BY <2>2, <2>3 DEF Holds, Taken, Shown
  <2> QED
    BY <1>2, <1>7, <2>1, <2>3, <2>4
<1>8. ASSUME NEW t \in Logger, Increment(t), ~raced' PROVE OneAtATime'
  <2>1. LogAppend(t)
    BY <1>8 DEF LogAppend
  <2>2. pc[t] = "increment" /\ Holds(t)
    BY <1>8, <2>1, AloneNext DEF Increment, OneAtATime
  <2>3. /\ pc'[t] = "write" /\ log_len' = register[t] + 1
        /\ UNCHANGED <<logs, logged, message, register>>
    BY <1>8 DEF Increment, Claimed, LogShape
  <2>4. Holds(t)'
    BY <2>2, <2>3 DEF Holds, Taken, Shown
  <2> QED
    BY <1>2, <1>8, <2>1, <2>3, <2>4
<1>9. ASSUME NEW t \in Logger, Write(t), ~raced' PROVE OneAtATime'
  <2>1. LogAppend(t)
    BY <1>9 DEF LogAppend
  <2>2. pc[t] = "write" /\ Holds(t)
    BY <1>9, <2>1, AloneNext DEF Write, OneAtATime
  <2>3. /\ pc'[t] = "idle" /\ UNCHANGED <<log_len, logged>>
        /\ logs' = [logs EXCEPT ![register[t]] = message[t]]
    BY <1>9 DEF Write, LogShape
  <2>4. /\ Taken(register[t], logged - 1, LogLengthMax - 1)
        /\ log_len = register[t] + 1 /\ message[t] = logged /\ logged > 0
        /\ Shown(logged - 1, register[t])
        /\ logged \in Nat
    BY <2>2 DEF Holds, LogShape
  <2>5. register[t] \in 0 .. LogLengthMax - 1
    BY <2>4 DEF Taken
  <2>6. \A i \in 0 .. log_len - 1 :
          logs'[i] = IF i = register[t] THEN logged ELSE logs[i]
    BY <2>3, <2>4, <2>5 DEF LogShape, Place
  <2>7. Shown(logged, log_len)'
    BY <2>3, <2>4, <2>5, <2>6 DEF Shown
  <2>8. Taken(log_len, logged, LogLengthMax)'
    BY <2>3, <2>4 DEF Taken
  <2>9. Holds(t)'
    BY <2>3 DEF Holds
  <2> QED
    BY <1>2, <1>9, <2>1, <2>7, <2>8, <2>9
<1>10. CASE raced'
  BY <1>10 DEF OneAtATime
<1> QED
  BY <1>1, <1>3, <1>4, <1>5, <1>6, <1>7, <1>8, <1>9, <1>10
     DEF Next, LogAppend, Done

\* The smaller of two numbers.
LEMMA MinOfTwo ==
  ASSUME NEW m \in Int, NEW n \in Int
  PROVE  Min({m, n}) = IF m <= n THEN m ELSE n
<1> DEFINE least == IF m <= n THEN m ELSE n
<1>1. least \in {m, n} /\ \A y \in {m, n} : least <= y
  OBVIOUS
<1>2. \A x \in {m, n} : (\A y \in {m, n} : x <= y) => x = least
  OBVIOUS
<1> HIDE DEF least
<1>3. Min({m, n}) = least
  BY <1>1, <1>2 DEF Min
<1> QED
  BY <1>3 DEF least

\* The log is the last messages, as long as no two threads met in log_append.
THEOREM AlwaysLastMessages == Spec => []LastMessages
<1>1. Init => OneAtATime
  BY LogAssumption
     DEF Init, OneAtATime, Holds, Taken, Shown, Quiet, Empty
<1>2. LogShape /\ OneAtATime => LastMessages
  BY MinOfTwo, LogAssumption
     DEF LogShape, OneAtATime, LastMessages, Taken, Shown
<1> QED
  BY <1>1, <1>2, AlwaysLogShape, OneAtATimeNext, PTL DEF Spec

\* Before the log is full, no thread finds it so; a place below log_len is
\* written, or claimed by a thread that goes on to write it; and each thread
\* that has yet to claim a place is one that log_len has not counted.
LEMMA NeverFullNext == LogShape /\ NeverFull /\ [Next]_vars => NeverFull'
<1> SUFFICES ASSUME LogShape, NeverFull, [Next]_vars, logged' <= LogLengthMax
             PROVE  NeverFull'
  BY DEF NeverFull
<1>0. /\ logs \in [Place -> Nat] /\ log_len \in Int /\ logged \in Nat
      /\ pc \in [Logger -> Steps] /\ message \in [Logger -> Nat]
      /\ register \in [Logger -> Int]
      /\ \A t \in Logger : pc[t] # "idle" => message[t] > 0
      /\ LogLengthMax \in Nat \ {0} /\ MaxMessages \in Nat
  BY LogAssumption DEF LogShape
<1>1. logged <= LogLengthMax
  BY <1>0 DEF Next, LogAppend, Begin, CheckFull, Shift, Decrement, LoadLen,
              Increment, Write, Done, vars
<1>2. /\ \A t \in Logger : pc[t] \notin {"shift", "decrement"}
      /\ IsFiniteSet(Unclaimed) /\ Cardinality(Unclaimed) \in Nat
      /\ log_len >= 0 /\ log_len + Cardinality(Unclaimed) <= logged
      /\ \A i \in 0 .. log_len - 1 : Covered(i)
      /\ \A t \in Logger : pc[t] = "increment" =>
           /\ register[t] >= 0
           /\ register[t] + Cardinality(Unclaimed) <= logged
           /\ \A i \in 0 .. register[t] - 1 : Covered(i)
      /\ \A t \in Logger : pc[t] = "write" => register[t] \in Place
  BY <1>1, FS_CardinalityType DEF NeverFull
<1> USE DEF Goto, Load
<1>3. ASSUME NEW t \in Logger, Begin(t) PROVE NeverFull'
  <2>1. /\ pc[t] = "idle" /\ pc' = [pc EXCEPT ![t] = "check"]
        /\ logged' = logged + 1
        /\ UNCHANGED <<logs, log_len, register>>
    BY <1>3 DEF Begin
  <2>2. Unclaimed' = Unclaimed \cup {t} /\ t \notin Unclaimed
    BY <1>0, <2>1 DEF Unclaimed
  <2>3. /\ IsFiniteSet(Unclaimed')
        /\ Cardinality(Unclaimed') = Cardinality(Unclaimed) + 1
    BY <1>2, <2>2, FS_AddElement
  <2>4. \A i : Covered(i) => Covered(i)'
    BY <1>0, <2>1 DEF Covered
  <2> QED
    BY <1>0, <1>2, <2>1, <2>3, <2>4 DEF NeverFull
<1>4. ASSUME NEW t \in Logger, CheckFull(t) PROVE NeverFull'
  <2>1. t \in Unclaimed
    BY <1>4 DEF CheckFull, Unclaimed
  <2>2. Cardinality(Unclaimed) > 0
    BY <1>2, <2>1, FS_EmptySet
  <2>3. ~Full
    BY <1>0, <1>1, <1>2, <2>2 DEF Full
  <2>4. /\ pc[t] = "check" /\ pc' = [pc EXCEPT ![t] = "load"]
        /\ UNCHANGED <<logs, log_len, logged, register>>
    BY <1>4, <2>3 DEF CheckFull
  <2>5. Unclaimed' = Unclaimed
    BY <1>0, <2>4 DEF Unclaimed
  <2>6. \A i : Covered(i) => Covered(i)'
    BY <1>0, <2>4 DEF Covered
  <2> QED
    BY <1>0, <1>2, <2>4, <2>5, <2>6 DEF NeverFull
<1>5. ASSUME NEW t \in Logger, LoadLen(t) PROVE NeverFull'
  <2>1. /\ pc[t] = "load" /\ pc' = [pc EXCEPT ![t] = "increment"]
        /\ register' = [register EXCEPT ![t] = log_len]
        /\ UNCHANGED <<logs, log_len, logged>>
    BY <1>5 DEF LoadLen
  <2>2. Unclaimed' = Unclaimed
    BY <1>0, <2>1 DEF Unclaimed
  <2>3. \A i : Covered(i) => Covered(i)'
    BY <1>0, <2>1 DEF Covered
  <2> QED
    BY <1>0, <1>2, <2>1, <2>2, <2>3 DEF NeverFull
<1>6. ASSUME NEW t \in Logger, Increment(t) PROVE NeverFull'
  <2>1. /\ pc[t] = "increment" /\ pc' = [pc EXCEPT ![t] = "write"]
        /\ log_len' = register[t] + 1
        /\ UNCHANGED <<logs, logged, register>>
    BY <1>6 DEF Increment, Claimed
  <2>2. Unclaimed' = Unclaimed \ {t} /\ t \in Unclaimed
    BY <1>0, <2>1 DEF Unclaimed
  <2>3. /\ IsFiniteSet(Unclaimed')
        /\ Cardinality(Unclaimed') = Cardinality(Unclaimed) - 1
    BY <1>2, <2>2, FS_RemoveElement
  <2>4. \A i : Covered(i) => Covered(i)'
    BY <1>0, <2>1 DEF Covered
  <2>5. Covered(register[t])'
    BY <1>0, <2>1 DEF Covered
  <2>6. \A i \in 0 .. log_len' - 1 : Covered(i)'
    BY <1>0, <1>2, <2>1, <2>4, <2>5
  <2>7. register[t] \in Place
    BY <1>0, <1>1, <1>2, <2>1 DEF Place
  <2>8. log_len' >= 0 /\ log_len' + Cardinality(Unclaimed') <= logged'
    BY <1>0, <1>2, <2>1, <2>3
  <2> QED
    BY <1>0, <1>2, <2>1, <2>3, <2>4, <2>6, <2>7, <2>8 DEF NeverFull
<1>7. ASSUME NEW t \in Logger, Write(t) PROVE NeverFull'
  <2>1. /\ pc[t] = "write" /\ pc' = [pc EXCEPT ![t] = "idle"]
        /\ logs' = [logs EXCEPT ![register[t]] = message[t]]
        /\ UNCHANGED <<log_len, logged, register>>
    BY <1>7 DEF Write
  <2>2. Unclaimed' = Unclaimed
    BY <1>0, <2>1 DEF Unclaimed
  <2>3. register[t] \in Place /\ message[t] # Empty
    BY <1>0, <1>2, <2>1 DEF Empty
  <2>4. ASSUME NEW i, Covered(i) PROVE Covered(i)'
    <3>1. CASE i = register[t]
      BY <1>0, <2>1, <2>3, <3>1 DEF Covered
    <3>2. CASE i # register[t]
      BY <1>0, <2>1, <2>4, <3>2 DEF Covered
    <3> QED
      BY <3>1, <3>2
  <2> QED
    BY <1>0, <1>2, <2>1, <2>2, <2>4 DEF NeverFull
<1>8. ASSUME NEW t \in Logger, Shift(t) \/ Decrement(t) PROVE FALSE
  BY <1>2, <1>8 DEF Shift, Decrement
<1>9. CASE UNCHANGED vars
  BY <1>9 DEF vars, NeverFull, Unclaimed, Covered
<1> QED
  BY <1>3, <1>4, <1>5, <1>6, <1>7, <1>8, <1>9 DEF Next, LogAppend, Done

\* The log shown has no hole while it has never been full, however the
\* threads race.
THEOREM AlwaysNoHole == Spec => []NoHole
<1>1. ASSUME Init PROVE NeverFull
  <2>1. Unclaimed = {} /\ \A t \in Logger : pc[t] = "idle"
    BY <1>1 DEF Init, Unclaimed
  <2> QED
    BY <1>1, <2>1, FS_EmptySet DEF Init, NeverFull
<1>2. LogShape /\ NeverFull => NoHole
  BY DEF LogShape, NeverFull, NoHole, Quiet, Covered
<1> QED
  BY <1>1, <1>2, AlwaysLogShape, NeverFullNext, PTL DEF Spec

==============================================================================
