--------------------------- MODULE BuffersProofs ----------------------------
(***************************************************************************)
(* The containers for every capacity, piece and length.                    *)
(***************************************************************************)
EXTENDS Buffers, TLAPS

(* Fits alone is not inductive: one doubling makes room for a piece only if *)
(* the capacity is at least the longest piece, which holds because a        *)
(* capacity never shrinks while the string lives.                           *)

StringType ==
  size \in Nat /\ cap \in Nat /\ allocated \in Nat /\ live \in BOOLEAN
\* A live string keeps at least the capacity it was created with.
Roomy == live => InitCap <= cap
StringInv == StringType /\ Fits /\ Roomy

\* A string that was never created has the invariant.
LEMMA InitString == Init => StringInv
<1> SUFFICES ASSUME Init PROVE StringInv
  OBVIOUS
<1>1. live = FALSE
  BY DEF Init
<1>2. live \in BOOLEAN
  BY <1>1, Zenon
<1> QED
  BY <1>1, <1>2, SizeAssumption DEF Init, StringInv, StringType, Fits, Roomy

\* Each operation of sb.h keeps it.
LEMMA NextString == StringInv /\ [Next]_vars => StringInv'
<1> SUFFICES ASSUME StringInv, [Next]_vars PROVE StringInv'
  OBVIOUS
<1> USE SizeAssumption, CallersAssumption
    DEF StringInv, StringType, Fits, Roomy, string_vars
<1>1. CASE Create
  BY <1>1 DEF Create
<1>2. CASE Free
  <2>1. live' = FALSE
    BY <1>2 DEF Free
  <2>2. live' \in BOOLEAN
    BY <2>1, Zenon
  <2> QED
    BY <1>2, <2>1, <2>2 DEF Free
<1>3. ASSUME NEW len \in Piece, Append(len) PROVE StringInv'
  BY <1>3 DEF Append, Piece, Doubled
<1>4. ASSUME NEW len \in Piece, Prepend(len) PROVE StringInv'
  BY <1>4 DEF Prepend, Piece
<1>5. CASE Put \/ UNCHANGED vars
  BY <1>5 DEF Put, vars
<1> QED
  BY <1>1, <1>2, <1>3, <1>4, <1>5 DEF Next

\* sb_append, sb_appendf and sb_prepend never write past the block, for
\* every size of buffer and every sequence of pieces.
THEOREM AlwaysFits == Spec => []Fits
<1>1. StringInv => Fits
  BY DEF StringInv
<1> QED
  BY InitString, NextString, <1>1, PTL DEF Spec

-----------------------------------------------------------------------------
(* Doubling needs to know that a capacity is never 1: then the branch of    *)
(* arrgrowf that grows by a single element would be taken.                  *)

\* The capacities arrgrowf returns are 0 (of NULL) and at least 4.
ArrayInv ==
  /\ length \in Nat /\ capacity \in Nat
  /\ InBlock
  /\ capacity = 0 \/ capacity >= 4

\* The NULL array has the invariant.
LEMMA InitArray == Init => ArrayInv
BY DEF Init, ArrayInv, InBlock

\* Only da_put touches the array.
LEMMA ArraySteps == [Next]_vars => Put \/ UNCHANGED array_vars
BY DEF Next, Create, Free, Append, Prepend, vars

\* da_put keeps the invariant.
LEMMA NextArray == ArrayInv /\ [Next]_vars => ArrayInv'
BY ArraySteps, SizeAssumption DEF ArrayInv, InBlock, Put, Grown, array_vars

\* Growing never adds less than the capacity there was.
LEMMA NextDoubles ==
  ArrayInv /\ [Next]_vars
    => (capacity' # capacity => capacity' >= 2 * capacity)
BY ArraySteps, SizeAssumption DEF ArrayInv, InBlock, Put, Grown, array_vars

\* No da_put writes outside its block.
THEOREM AlwaysInBlock == Spec => []InBlock
<1>1. ArrayInv => InBlock
  BY DEF ArrayInv
<1> QED
  BY InitArray, NextArray, <1>1, PTL DEF Spec

\* Every growth of a da.h array at least doubles its capacity.
THEOREM AlwaysDoubles == Spec => Doubles
<1>1. ArrayInv /\ [Next]_vars
        => [capacity' # capacity => capacity' >= 2 * capacity]_vars
  BY NextDoubles
<1> QED
  BY InitArray, NextArray, <1>1, PTL DEF Spec, Doubles
=============================================================================
