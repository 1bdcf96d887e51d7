------------------------- MODULE WeightsCodecProofs -------------------------
(***************************************************************************)
(* What a round in which nobody trains does to the parameters, for every   *)
(* architecture, precision and number of clients.  That the parser finds   *)
(* in a body what was printed there is taken from FieldsArrive, which TLC  *)
(* checks: it is about the value of a recursive function on every text.    *)
(* What is proved is the rest of the way: that a number read at a row and  *)
(* a column is added where it was printed from, that printing twice loses  *)
(* no more than printing once, and that the sums start from zero and come  *)
(* to as many times the number as there are clients.                       *)
(***************************************************************************)
EXTENDS WeightsCodec, TLAPS

-----------------------------------------------------------------------------
(* The numbers. *)

\* The widths of the layers.
LEMMA Widths ==
  ASSUME NEW l \in Layer
  PROVE  /\ Arch[l] \in Nat /\ Arch[l] > 0
         /\ Arch[l + 1] \in Nat /\ Arch[l + 1] > 0
         /\ Arch[l] * Arch[l + 1] \in Nat
         /\ Arch[l + 1] <= Arch[l] * Arch[l + 1]
<1>1. l \in 1 .. 3 /\ l + 1 \in 1 .. 3
  BY DEF Layer
<1>2. \A i \in 1 .. 3 : Arch[i] \in Nat \ {0}
  BY CodecAssumption
<1> DEFINE a == Arch[l]
           b == Arch[l + 1]
<1>3. a \in Nat /\ a > 0 /\ b \in Nat /\ b > 0
  BY <1>1, <1>2
<1> HIDE DEF a, b
<1>4. a * b \in Nat /\ b <= a * b
  BY <1>3, SMT
<1> QED
  BY <1>3, <1>4 DEF a, b

\* Division with a remainder.
LEMMA Divided ==
  ASSUME NEW n \in Int, NEW d \in Nat, d > 0
  PROVE  /\ n \div d \in Int /\ n % d \in 0 .. d - 1
         /\ n = d * (n \div d) + (n % d)
BY SMT

\* The quotient is the only number of which this is true.
LEMMA Quotient ==
  ASSUME NEW n \in Int, NEW d \in Nat, d > 0,
         NEW q \in Int, NEW r \in 0 .. d - 1, n = d * q + r
  PROVE  n \div d = q
<1> DEFINE p == n \div d
           m == n % d
<1>1. p \in Int /\ m \in 0 .. d - 1 /\ n = d * p + m
  BY Divided
<1> HIDE DEF p, m
<1>2. ~(p < q)
  <2>1. SUFFICES ASSUME p + 1 <= q PROVE FALSE
    BY <1>1
  <2>2. d * (p + 1) <= d * q /\ d * (p + 1) = d * p + d
    BY <1>1, <2>1, SMT
  <2>3. d * p \in Int /\ d * q \in Int
    BY <1>1
  <2> QED
    BY <1>1, <2>2, <2>3
<1>3. ~(q < p)
  <2>1. SUFFICES ASSUME q + 1 <= p PROVE FALSE
    BY <1>1
  <2>2. d * (q + 1) <= d * p /\ d * (q + 1) = d * q + d
    BY <1>1, <2>1, SMT
  <2>3. d * p \in Int /\ d * q \in Int
    BY <1>1
  <2> QED
    BY <1>1, <2>2, <2>3
<1> QED
  BY <1>1, <1>2, <1>3 DEF p

\* Printing a number that has been printed changes nothing.
LEMMA PrintedTwice ==
  ASSUME NEW v \in Int
  PROVE  Printed(v) \in Int /\ Printed(Printed(v)) = Printed(v)
<1> DEFINE half == Precision \div 2
           q == (v + half) \div Precision
<1>1. Precision \in Nat /\ Precision > 0
  BY CodecAssumption
<1>2. half \in 0 .. Precision - 1
  BY <1>1
<1>3. q \in Int
  BY <1>1, <1>2, Divided
<1>4. Printed(v) = q * Precision
  BY DEF Printed
<1> HIDE DEF half, q
<1>5. /\ q * Precision \in Int
      /\ q * Precision + half \in Int
      /\ q * Precision + half = Precision * q + half
  BY <1>1, <1>2, <1>3
<1>6. (q * Precision + half) \div Precision = q
  BY <1>1, <1>2, <1>3, <1>5, Quotient
<1>7. Printed(q * Precision) = q * Precision
  BY <1>6 DEF Printed, half
<1> QED
  BY <1>4, <1>5, <1>7

\* A sum of n times a number, divided by n, is the number.
LEMMA SumDivided ==
  ASSUME NEW x \in Int
  PROVE  Clients * x \in Int /\ (Clients * x) \div Clients = x
<1>1. Clients \in Nat /\ Clients > 0
  BY CodecAssumption
<1>2. Clients * x \in Int /\ Clients * x = Clients * x + 0
  BY <1>1
<1> QED
  BY <1>1, <1>2, Quotient

\* The element i of a layer is the one printed at the row and the column that
\* parse_weights_json reads it from.
LEMMA Elements ==
  ASSUME NEW l \in Layer, NEW i \in Cell(l)
  PROVE  LET j == 1 + ((i - 1) \div Arch[l + 1])
             k == 1 + ((i - 1) % Arch[l + 1])
         IN j \in Row(l) /\ k \in Col(l) /\ At(l, j, k) = i
<1> DEFINE a == Arch[l]
           b == Arch[l + 1]
           q == (i - 1) \div b
           r == (i - 1) % b
<1>1. /\ a \in Nat /\ a > 0 /\ b \in Nat /\ b > 0 /\ a * b \in Nat
  BY Widths
<1>2. i \in 1 .. a * b
  BY DEF Cell
<1>3. i - 1 \in Int /\ i - 1 >= 0 /\ i - 1 < a * b /\ i \in Int
  BY <1>1, <1>2
<1> HIDE DEF a, b
<1>4. q \in Int /\ r \in 0 .. b - 1 /\ i - 1 = b * q + r
  BY <1>1, <1>3, Divided
<1> HIDE DEF q, r
<1>5. q >= 0
  <2>1. SUFFICES ASSUME q <= -1 PROVE FALSE
    BY <1>4
  <2>2. b * q <= b * (-1)
    BY <1>1, <1>4, <2>1, SMT
  <2> QED
    BY <1>1, <1>3, <1>4, <2>2
<1>6. q < a
  <2>1. SUFFICES ASSUME q >= a PROVE FALSE
    BY <1>1, <1>4
  <2>2. b * q >= b * a /\ b * a = a * b
    BY <1>1, <1>4, <2>1, SMT
  <2> QED
    BY <1>1, <1>3, <1>4, <2>2
<1>7. 1 + q \in 1 .. a /\ 1 + r \in 1 .. b
  BY <1>1, <1>4, <1>5, <1>6
<1>8. ((1 + q) - 1) * b + (1 + r) = i
  <2>1. (1 + q) - 1 = q /\ q * b = b * q
    BY <1>1, <1>4
  <2> QED
    BY <1>1, <1>3, <1>4, <2>1
<1> QED
  BY <1>7, <1>8 DEF Row, Col, At, a, b, q, r

\* A bias is printed from an element that its layer's kernel has.
LEMMA BiasCells ==
  ASSUME NEW l \in Layer, NEW k \in Col(l)
  PROVE  k \in Cell(l)
BY Widths DEF Col, Cell

-----------------------------------------------------------------------------
(* The round. *)

\* A kernel and a bias, of which the numbers are in the layers.
Parts(nn) == nn = [kernel |-> nn.kernel, bias |-> nn.bias]

\* The number that an element of the server's kernel arrives as.
Kept(l, i) == Printed(server.kernel[l][i])

\* n times what arrives from each device, the elements of the kernel that are
\* printed for its bias included.
Sums(nn, n) ==
  \A l \in Layer :
    /\ \A i \in Cell(l) : nn.kernel[l][i] = n * Kept(l, i)
    /\ \A k \in Col(l) : nn.bias[l][k] = n * Kept(l, k)

\* The device has what was printed for it, the buffers what has been added,
\* from zero, whatever they held before.
CodecInv ==
  /\ stage \in {"broadcast", "load", "answer", "collect", "divide", "done",
                "body"}
  /\ responded \in Nat
  /\ stage # "body" =>
       /\ Parts(server) /\ Parts(device)
       /\ \A l \in Layer : \A i \in Cell(l) : server.kernel[l][i] \in Int
  /\ stage \in {"answer", "collect"} =>
       \A l \in Layer : \A i \in Cell(l) : device.kernel[l][i] = Kept(l, i)
  /\ stage # "body" /\ responded > 0 => Sums(buffers, responded)
  /\ stage = "divide" => responded = Clients

\* Before a round the invariant asks for the server's numbers only.
LEMMA CodecInit == Init => CodecInv
<1> SUFFICES ASSUME Init PROVE CodecInv
  OBVIOUS
<1>1. responded = 0 /\ Parts(device)
  BY DEF Init, Allocated, Parts
<1>2. CASE BodyInit
  BY <1>1, <1>2 DEF BodyInit, CodecInv
<1>3. CASE RoundInit
  <2>1. PICK k1 \in [Cell(1) -> Value], b1 \in [Col(1) -> Value],
             k2 \in [Cell(2) -> Value], b2 \in [Col(2) -> Value] :
          server = [kernel |-> <<k1, k2>>, bias |-> <<b1, b2>>]
    BY <1>3 DEF RoundInit
  <2>2. Parts(server) /\ server.kernel = <<k1, k2>>
    BY <2>1 DEF Parts
  <2>3. server.kernel[1] = k1 /\ server.kernel[2] = k2
    BY <2>2
  <2>4. \A v \in Value : v \in Int
    BY CodecAssumption
  <2>5. \A l \in Layer : \A i \in Cell(l) : server.kernel[l][i] \in Int
    BY <2>3, <2>4 DEF Layer
  <2>6. stage = "broadcast"
    BY <1>3 DEF RoundInit
  <2> QED
    BY <1>1, <2>2, <2>5, <2>6 DEF CodecInv
<1> QED
  BY <1>2, <1>3 DEF Init

\* The numbers of new are those of base and, as printed, of nn.
AreAdded(new, base, nn, l) ==
  /\ \A i \in Cell(l) :
       new.kernel[l][i] = base.kernel[l][i] + Printed(nn.kernel[l][i])
  /\ \A k \in Col(l) :
       new.bias[l][k] = base.bias[l][k] + Printed(nn.kernel[l][k])

\* Each number read is added to the element it was printed from.
LEMMA Added ==
  ASSUME NEW nn, WeightsArrive(nn), NEW into, NEW accum, NEW l \in Layer
  PROVE  AreAdded(ParseWeights(Received.weights, into, accum),
                  AddedTo(into, accum), nn, l)
<1> DEFINE arrays == Received.weights
           base == AddedTo(into, accum)
           parsed == ParseWeights(arrays, into, accum)
<1>1. /\ \A j \in Row(l), k \in Col(l) :
           Parsed(arrays[2 * l - 1].child[j].child[k])
             = Printed(nn.kernel[l][At(l, j, k)])
      /\ \A k \in Col(l) :
           Parsed(arrays[2 * l].child[k]) = Printed(nn.kernel[l][k])
  BY Zenon DEF WeightsArrive
<1> HIDE DEF arrays, base
<1>2. ASSUME NEW i \in Cell(l)
      PROVE  parsed.kernel[l][i] = base.kernel[l][i] + Printed(nn.kernel[l][i])
  <2> DEFINE j == 1 + ((i - 1) \div Arch[l + 1])
             k == 1 + ((i - 1) % Arch[l + 1])
  <2>1. j \in Row(l) /\ k \in Col(l) /\ At(l, j, k) = i
    BY Elements, Zenon
  <2>2. Parsed(arrays[2 * l - 1].child[j].child[k]) = Printed(nn.kernel[l][i])
    BY <1>1, <2>1, Zenon
  <2>3. parsed.kernel[l][i]
          = base.kernel[l][i] + Parsed(arrays[2 * l - 1].child[j].child[k])
    BY DEF ParseWeights, base
  <2> QED
    BY <2>2, <2>3, Zenon
<1>3. ASSUME NEW k \in Col(l)
      PROVE  parsed.bias[l][k] = base.bias[l][k] + Printed(nn.kernel[l][k])
  <2>1. parsed.bias[l][k] = base.bias[l][k] + Parsed(arrays[2 * l].child[k])
    BY DEF ParseWeights, base
  <2> QED
    BY <1>1, <2>1, Zenon
<1> QED
  BY <1>2, <1>3, Zenon DEF AreAdded, arrays, base

\* The numbers of new are those of from.
AreCopied(new, from) ==
  \A l \in Layer :
    /\ \A i \in Cell(l) : new.kernel[l][i] = from.kernel[l][i]
    /\ \A k \in Col(l) : new.bias[l][k] = from.bias[l][k]

\* init_nn copies the buffers, each number to the same place.
LEMMA Inserted ==
  ASSUME NEW nn, Parts(nn), NEW from
  PROVE  /\ Parts(InsertWeights(nn, from))
         /\ AreCopied(InsertWeights(nn, from), from)
<1> DEFINE kernel == [l \in Layer |-> [i \in Cell(l) |-> from.kernel[l][i]]]
           bias == [l \in Layer |-> [j \in Col(l) |-> from.bias[l][j]]]
           new == InsertWeights(nn, from)
<1>1. new = [nn EXCEPT !.kernel = kernel, !.bias = bias]
  BY Zenon DEF InsertWeights
<1>2. \A l \in Layer :
        /\ \A i \in Cell(l) : kernel[l][i] = from.kernel[l][i]
        /\ \A k \in Col(l) : bias[l][k] = from.bias[l][k]
  OBVIOUS
<1> HIDE DEF kernel, bias, new
<1>3. new = [kernel |-> kernel, bias |-> bias]
  BY <1>1 DEF Parts
<1>4. new.kernel = kernel /\ new.bias = bias /\ Parts(new)
  BY <1>3 DEF Parts
<1>5. AreCopied(new, from)
  BY <1>2, <1>4, Zenon DEF AreCopied
<1> QED
  BY <1>4, <1>5, Zenon DEF new

\* What the device loads are the server's numbers, as printed: its buffers are
\* zeroed first, whatever malloc left in them.
LEMMA LoadKeeps ==
  ASSUME CodecInv, FieldsArrive, Load PROVE CodecInv'
<1> DEFINE parsed == ParseWeights(Received.weights, Allocated(Garbage), FALSE)
<1>1. /\ stage = "load" /\ stage' = "answer"
      /\ UNCHANGED <<server, buffers, responded>>
      /\ device' = InsertWeights(device, parsed)
  BY DEF Load
<1>2. WeightsArrive(server)
  BY <1>1 DEF FieldsArrive
<1>3. /\ Parts(server) /\ Parts(device)
      /\ \A l \in Layer : \A i \in Cell(l) : server.kernel[l][i] \in Int
  BY <1>1 DEF CodecInv
<1>4. ASSUME NEW l \in Layer, NEW i \in Cell(l)
      PROVE  parsed.kernel[l][i] = Kept(l, i)
  <2>1. parsed.kernel[l][i]
          = Allocated(0).kernel[l][i] + Printed(server.kernel[l][i])
    <3>1. AddedTo(Allocated(Garbage), FALSE) = Allocated(0)
      BY Zenon DEF AddedTo
    <3>2. AreAdded(parsed, Allocated(0), server, l)
      BY <1>2, <3>1, Added, Zenon
    <3> QED
      BY <3>2, Zenon DEF AreAdded
  <2> HIDE DEF parsed
  <2>2. Allocated(0).kernel[l][i] = 0
    BY DEF Allocated
  <2>3. Printed(server.kernel[l][i]) \in Int
    BY <1>3, PrintedTwice
  <2> QED
    BY <2>1, <2>2, <2>3 DEF Kept
<1> HIDE DEF parsed
<1>5. Parts(device') /\ AreCopied(device', parsed)
  <2>1. /\ Parts(InsertWeights(device, parsed))
        /\ AreCopied(InsertWeights(device, parsed), parsed)
    BY <1>3, Inserted, Zenon
  <2> QED
    BY <1>1, <2>1, Zenon
<1>6. \A l \in Layer : \A i \in Cell(l) : Kept(l, i)' = Kept(l, i)
  BY <1>1 DEF Kept
<1>7. \A l \in Layer : \A i \in Cell(l) : device'.kernel[l][i] = Kept(l, i)'
  BY <1>4, <1>5, <1>6 DEF AreCopied
<1>8. responded > 0 => Sums(buffers, responded)'
  BY <1>1 DEF CodecInv, Sums, Kept
<1> QED
  BY <1>1, <1>3, <1>5, <1>7, <1>8 DEF CodecInv, Parts

\* What the server adds are the same numbers once more: the first response of
\* a round replaces what the buffers held, each other one is added.
LEMMA CollectKeeps ==
  ASSUME CodecInv, FieldsArrive, Collect PROVE CodecInv'
<1> DEFINE accum == responded # 0
           parsed == ParseWeights(Received.weights, buffers, accum)
           base == AddedTo(buffers, accum)
<1>1. /\ stage = "collect" /\ UNCHANGED <<server, device>>
      /\ buffers' = parsed /\ responded' = responded + 1
      /\ stage' = IF responded + 1 = Clients THEN "divide" ELSE "broadcast"
  BY DEF Collect
<1>2. WeightsArrive(device)
  BY <1>1 DEF FieldsArrive
<1>3. /\ Parts(server) /\ Parts(device) /\ responded \in Nat
      /\ \A l \in Layer : \A i \in Cell(l) :
           server.kernel[l][i] \in Int /\ device.kernel[l][i] = Kept(l, i)
  BY <1>1 DEF CodecInv
<1>4. \A l \in Layer : \A i \in Cell(l) :
        Kept(l, i) \in Int /\ Printed(device.kernel[l][i]) = Kept(l, i)
  BY <1>3, PrintedTwice DEF Kept
<1>5. ASSUME NEW l \in Layer
      PROVE  /\ \A i \in Cell(l) : base.kernel[l][i] = responded * Kept(l, i)
             /\ \A k \in Col(l) : base.bias[l][k] = responded * Kept(l, k)
  <2>1. CASE responded = 0
    <3>1. base = Allocated(0)
      BY <2>1 DEF AddedTo
    <3>2. /\ \A i \in Cell(l) : base.kernel[l][i] = 0
          /\ \A k \in Col(l) : base.bias[l][k] = 0
      BY <3>1 DEF Allocated
    <3>3. \A i \in Cell(l) : responded * Kept(l, i) = 0
      BY <1>4, <2>1
    <3> QED
      BY <3>2, <3>3, BiasCells
  <2>2. CASE responded # 0
    <3>1. base = buffers
      BY <2>2 DEF AddedTo
    <3>2. Sums(buffers, responded)
      BY <1>1, <1>3, <2>2 DEF CodecInv
    <3> QED
      BY <3>1, <3>2 DEF Sums
  <2> QED
    BY <2>1, <2>2
<1>6. ASSUME NEW l \in Layer
      PROVE  /\ \A i \in Cell(l) : buffers'.kernel[l][i]
                                     = base.kernel[l][i] + Kept(l, i)
             /\ \A k \in Col(l) : buffers'.bias[l][k]
                                    = base.bias[l][k] + Kept(l, k)
  <2>1. AreAdded(parsed, base, device, l)
    BY <1>2, Added, Zenon
  <2> HIDE DEF parsed, base
  <2> QED
    BY <1>1, <1>4, <2>1, BiasCells DEF AreAdded
<1> HIDE DEF parsed, base, accum
<1>7. \A x \in Int : responded * x + x = (responded + 1) * x
  BY <1>3, SMT
<1>8. Sums(buffers', responded + 1)
  BY <1>4, <1>5, <1>6, <1>7, BiasCells DEF Sums
<1>9. Sums(buffers, responded)'
  BY <1>1, <1>8 DEF Sums, Kept
<1> QED
  BY <1>1, <1>3, <1>9 DEF CodecInv, Parts

\* Divided by the number of clients, the sums are the numbers that were sent.
LEMMA DividedKernel ==
  ASSUME CodecInv, Divide, NEW l \in Layer
  PROVE  /\ \A i \in Cell(l) : server'.kernel[l][i] = Kept(l, i)
         /\ \A k \in Col(l) : server'.bias[l][k] = Kept(l, k)
<1> DEFINE average == Averaged(buffers)
<1>1. stage = "divide" /\ server' = InsertWeights(server, average)
  BY DEF Divide
<1>2. /\ Parts(server) /\ responded = Clients /\ Clients > 0
      /\ \A i \in Cell(l) : server.kernel[l][i] \in Int
  BY <1>1, CodecAssumption DEF CodecInv
<1>3. Sums(buffers, Clients)
  BY <1>1, <1>2 DEF CodecInv
<1>4. ASSUME NEW i \in Cell(l)
      PROVE  (Clients * Kept(l, i)) \div Clients = Kept(l, i)
  BY <1>2, PrintedTwice, SumDivided DEF Kept
<1>5. /\ \A i \in Cell(l) :
           average.kernel[l][i] = buffers.kernel[l][i] \div Clients
      /\ \A k \in Col(l) : average.bias[l][k] = buffers.bias[l][k] \div Clients
  BY DEF Averaged
<1> HIDE DEF average
<1>6. AreCopied(InsertWeights(server, average), average)
  BY <1>2, Inserted, Zenon
<1>7. AreCopied(server', average)
  BY <1>1, <1>6, Zenon
<1> QED
  BY <1>3, <1>4, <1>5, <1>7, BiasCells DEF Sums, AreCopied

\* The other steps print, or divide; of what they leave nothing more is said.
LEMMA CodecNext == CodecInv /\ FieldsArrive /\ [Next]_vars => CodecInv'
<1> SUFFICES ASSUME CodecInv, FieldsArrive, [Next]_vars PROVE CodecInv'
  OBVIOUS
<1>1. CASE UNCHANGED vars
  BY <1>1 DEF vars, CodecInv, Parts, Sums, Kept
<1>2. CASE Broadcast \/ Answer
  BY <1>2 DEF Broadcast, Answer, CodecInv, Parts, Sums, Kept
<1>3. CASE Load
  BY <1>3, LoadKeeps
<1>4. CASE Collect
  BY <1>4, CollectKeeps
<1>5. CASE Divide
  <2>1. /\ stage = "divide" /\ stage' = "done" /\ responded' = 0
        /\ server' = InsertWeights(server, Averaged(buffers))
        /\ device' = device
    BY <1>5 DEF Divide
  <2>2. server' = InsertWeights(server, Averaged(buffers)) => Parts(server')
    BY <2>1, Inserted, Zenon DEF CodecInv
  <2>3. ASSUME NEW l \in Layer, NEW i \in Cell(l)
        PROVE  server'.kernel[l][i] \in Int
    <3>1. server'.kernel[l][i] = Kept(l, i)
      BY <1>5, DividedKernel
    <3> QED
      BY <2>1, <3>1, PrintedTwice DEF CodecInv, Kept
  <2> QED
    BY <2>1, <2>2, <2>3 DEF CodecInv, Parts
<1> QED
  BY <1>1, <1>2, <1>3, <1>4, <1>5 DEF Next

\* So it holds as long as the bodies are read as they were printed.
LEMMA CodecAlways == Spec /\ []FieldsArrive => []CodecInv
  BY CodecInit, CodecNext, PTL DEF Spec

-----------------------------------------------------------------------------
(* What a round leaves. *)

\* Only the division ends a round.
LEMMA RoundEnds ==
  ASSUME [Next]_vars, stage' = "done", stage # "done" PROVE Divide
BY DEF Next, vars, Broadcast, Load, Answer, Collect

\* A round in which nobody trains gives every element of the kernels back, to
\* the precision of the text, for every architecture and number of clients,
\* if the parser finds in each body what was printed there.
THEOREM KernelsComeBack == Spec /\ []FieldsArrive => KernelsSurvive
<1>1. CodecInv /\ [Next]_vars =>
        (stage' = "done" /\ stage # "done" =>
           \A l \in Layer : \A i \in Cell(l) :
             server'.kernel[l][i] = Printed(server.kernel[l][i]))
  BY RoundEnds, DividedKernel DEF Kept
<1> QED
  BY <1>1, CodecAlways, PTL DEF Spec, KernelsSurvive

\* A round makes every bias an element of its layer's kernel.
BiasesReplaced ==
  [][stage' = "done" /\ stage # "done" =>
       \A l \in Layer : \A k \in Col(l) :
         server'.bias[l][k] = Printed(server.kernel[l][k])]_vars

\* Whatever the biases were, such a round replaces them all.
THEOREM BiasesAreKernels == Spec /\ []FieldsArrive => BiasesReplaced
<1>1. CodecInv /\ [Next]_vars =>
        (stage' = "done" /\ stage # "done" =>
           \A l \in Layer : \A k \in Col(l) :
             server'.bias[l][k] = Printed(server.kernel[l][k]))
  BY RoundEnds, DividedKernel DEF Kept
<1> QED
  BY <1>1, CodecAlways, PTL DEF Spec, BiasesReplaced
=============================================================================
