------------------------------ MODULE Buffers -------------------------------
(***************************************************************************)
(* The two containers the programs grow while they run: the string of      *)
(* sb.h, in which requests, responses and whole data sets are collected,   *)
(* and the array of da.h, which holds the server's clients, accuracies and *)
(* statistics.  Only sizes are modelled; a step is a call on one of them.  *)
(* An append to a string doubles its capacity at most once, which is       *)
(* enough only because no caller appends more than the capacity it began   *)
(* with.                                                                   *)
(***************************************************************************)
EXTENDS Naturals

CONSTANTS InitCap,    \* the size given to sb_init: 1024 everywhere
          MaxAppend,  \* longest piece appended: a buffer of 1024 bytes
          MaxSize,    \* bound: longest string followed
          MaxLength   \* bound: longest array followed

ASSUME SizeAssumption ==
  /\ InitCap \in Nat /\ MaxAppend \in Nat
  /\ MaxSize \in Nat /\ MaxLength \in Nat
ASSUME CallersAssumption == MaxAppend <= InitCap

VARIABLES size, cap,          \* sb->size, sb->cap
          allocated,          \* bytes in the block sb->data points to
          live,               \* between sb_init and sb_free
          length, capacity    \* the array's header, both 0 for NULL

string_vars == <<size, cap, allocated, live>>
array_vars == <<length, capacity>>
vars == <<string_vars, array_vars>>
Piece == 0 .. MaxAppend

Init ==
  /\ size = 0 /\ cap = 0 /\ allocated = 0 /\ live = FALSE
  /\ length = 0 /\ capacity = 0

-----------------------------------------------------------------------------
(* sb.h *)

\* sb_init.  What an earlier use left is sb_free's zeros.
Create ==
  /\ ~live
  /\ size' = 0 /\ cap' = InitCap /\ allocated' = InitCap /\ live' = TRUE
  /\ UNCHANGED array_vars

SomeMore(len) == 1                                \* mutant: grows too little
Doubled(len) == cap
\* sb_append and sb_appendf: realloc to twice the capacity, then memcpy.
Append(len) ==
  /\ live /\ size + len <= MaxSize
  /\ size' = size + len
  /\ IF size + len > cap
     THEN cap' = cap + Doubled(len) /\ allocated' = cap + Doubled(len)
     ELSE UNCHANGED <<cap, allocated>>
  /\ UNCHANGED <<live, array_vars>>

\* sb_prepend: the block gets len bytes more than the capacity recorded.
Prepend(len) ==
  /\ live /\ size + len <= MaxSize
  /\ size' = size + len
  /\ IF size + len > cap
     THEN cap' = cap + cap /\ allocated' = cap + cap + len
     ELSE UNCHANGED <<cap, allocated>>
  /\ UNCHANGED <<live, array_vars>>

Free ==
  /\ live
  /\ size' = 0 /\ cap' = 0 /\ allocated' = 0 /\ live' = FALSE
  /\ UNCHANGED array_vars

-----------------------------------------------------------------------------
(* da.h *)

\* arrgrowf(a, elemsize, 1, 0): the capacity of the block it returns.
TooFewAtFirst(len, room) ==                       \* mutant: NULL not grown
  IF len + 1 <= room THEN room ELSE 2 * room
Grown(len, room) ==
  IF len + 1 <= room THEN room
  ELSE IF len + 1 < 2 * room THEN 2 * room
  ELSE IF len + 1 < 4 THEN 4
  ELSE len + 1

\* da_put: the element goes to the place length was.
Put ==
  /\ length < MaxLength
  /\ capacity' = Grown(length, capacity)
  /\ length' = length + 1
  /\ UNCHANGED string_vars

Next ==
  \/ Create \/ Free
  \/ \E len \in Piece : Append(len) \/ Prepend(len)
  \/ Put

Spec == Init /\ [][Next]_vars
-----------------------------------------------------------------------------
\* No memcpy or memmove of sb.h goes past the block, whatever pieces come in
\* whatever order: the string fits its capacity, the capacity its block.
Fits == size <= cap /\ cap <= allocated

\* da_put writes inside the block that arrgrowf returned.
InBlock == length <= capacity

\* A full array is exchanged for one with at least twice its capacity, so n
\* appends copy fewer than 2n elements.
Doubles == [][capacity' # capacity => capacity' >= 2 * capacity]_vars
=============================================================================
