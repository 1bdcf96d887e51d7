---------------------------- MODULE WeightsCodec ----------------------------
(***************************************************************************)
(* How parameters travel (common.h): weights_to_string prints a network as *)
(* nested arrays, kernel then bias of each layer, in the body of a train   *)
(* request or of a device's results; deserialize_training_data finds the   *)
(* fields among the tokens parse_json made of the body; parse_weights_json *)
(* adds the numbers to flat buffers that it zeroes first or not; init_nn   *)
(* copies the buffers into a network.  This is one round whose devices do  *)
(* not train: each of Clients clients loads the server's network and sends *)
(* it back, and the sum, divided, becomes the server's.  A parameter is a  *)
(* number of units, of which printing with "%f" keeps the multiples of     *)
(* Precision.  Beside the round, in the stage "body", the parser alone is  *)
(* given any text of Documents.                                            *)
(***************************************************************************)
EXTENDS Cson, SequencesExt

CONSTANTS Arch,       \* ARCH: the widths of the three rows of neurons
          Value,      \* parameters the server's network may have
          Precision,  \* units in the last digit printed
          Clients,    \* participants of the round
          Garbage,    \* what malloc leaves in the buffers
          Documents   \* bound: texts, each with the chain it stands for

ASSUME CodecAssumption ==
  /\ Arch \in Seq(Nat \ {0}) /\ Len(Arch) = 3
  /\ Value \subseteq Int /\ Garbage \in Nat
  /\ Precision \in Nat \ {0} /\ Clients \in Nat \ {0}

Layer == {1, 2}
Row(l) == 1 .. Arch[l]
Col(l) == 1 .. Arch[l + 1]

Cell(l) == 1 .. Arch[l] * Arch[l + 1]

\* MAT_AT: where row j, column k of layer l is in elements, and in a buffer.
At(l, j, k) == (j - 1) * Arch[l + 1] + k

\* Memory for all the layers, one matrix and one row each, from nn_alloc or
\* from malloc.  What value it has is the caller's business.
Allocated(v) ==
  [kernel |-> [l \in Layer |-> [i \in Cell(l) |-> v]],
   bias |-> [l \in Layer |-> [j \in Col(l) |-> v]]]

\* What "%f" keeps of a number.
Printed(v) == ((v + Precision \div 2) \div Precision) * Precision

-----------------------------------------------------------------------------
(* The bodies *)

Number(v) ==
  IF v < 0 THEN <<Mark("-"), Char("digit", -v)>> ELSE <<Char("digit", v)>>
Quoted(name) == <<Mark("quote"), Char("letter", name), Mark("quote")>>

SepBy(parts, sep) ==
  FoldLeft(LAMBDA done, part : IF done = <<>> THEN part ELSE done \o sep \o part,
           <<>>, parts)
ArrayText(parts) ==
  <<Mark("[")>> \o SepBy(parts, <<Mark(",")>>) \o <<Mark("]")>>
Member(name, value) == Quoted(name) \o <<Mark(":"), Mark("space")>> \o value
ObjectText(members) ==
  <<Mark("{")>> \o SepBy(members, <<Mark(","), Mark("space")>>) \o <<Mark("}")>>

\* The names of the fields, in the order in which a device prints them.
round == 1
training_time == 2
weights == 3
stats == 4
bytes_sent == 5
bytes_recv == 6
seg_dropped == 7
seg_rexmit == 8

\* The bias of a layer is printed from w.elements, its kernel's elements.
WeightsToString(nn) ==
  LET kernel(l) == ArrayText([j \in Row(l) |-> ArrayText(
                     [k \in Col(l) |-> Number(Printed(nn.kernel[l][At(l, j, k)]))])])
      bias(l) == ArrayText([j \in Col(l) |-> Number(Printed(nn.kernel[l][j]))])
  IN ArrayText(<<kernel(1), bias(1), kernel(2), bias(2)>>)

\* What a device reports beside its weights: a value for each field.
Round == 11
Report == [training_time |-> 12, bytes_sent |-> 13, bytes_recv |-> 14,
           seg_dropped |-> 15, seg_rexmit |-> 16]

TrainBody(nn) ==
  ObjectText(<<Member(round, Number(Round)),
               Member(weights, WeightsToString(nn))>>)
ResultsBody(nn) ==
  ObjectText(<<Member(round, Number(Round)),
               Member(training_time, Number(Report.training_time)),
               Member(weights, WeightsToString(nn)),
               Member(stats, ObjectText(<<
                 Member(bytes_sent, Number(Report.bytes_sent)),
                 Member(bytes_recv, Number(Report.bytes_recv)),
                 Member(seg_dropped, Number(Report.seg_dropped)),
                 Member(seg_rexmit, Number(Report.seg_rexmit))>>))>>)

-----------------------------------------------------------------------------
(* Reading a body *)

\* strtof, atol, atoi and strtoll on the text of a token.
Parsed(token) ==
  IF token.text[1].c = "-" THEN -token.text[2].v ELSE token.text[1].v

\* The value of a field among keys: the last of that name; none is empty.
Field(keys, name) ==
  LET named == SelectSeq(keys, LAMBDA key : key.text = <<Char("letter", name)>>)
  IN IF named = <<>> THEN <<>> ELSE Last(named).child
NumberOr0(value) == IF value = <<>> THEN 0 ELSE Parsed(value[1])

\* A Payload is zeroed by its owner; "weights" is the chain of arrays in it.
SwappedStats(keys) ==                             \* mutant: fields swapped
  [bytes_sent |-> NumberOr0(Field(keys, bytes_recv)),
   bytes_recv |-> NumberOr0(Field(keys, bytes_sent)),
   seg_dropped |-> NumberOr0(Field(keys, seg_dropped)),
   seg_rexmit |-> NumberOr0(Field(keys, seg_rexmit))]
StatsOf(keys) ==
  [bytes_sent |-> NumberOr0(Field(keys, bytes_sent)),
   bytes_recv |-> NumberOr0(Field(keys, bytes_recv)),
   seg_dropped |-> NumberOr0(Field(keys, seg_dropped)),
   seg_rexmit |-> NumberOr0(Field(keys, seg_rexmit))]

\* The keys of an object follow its own token, also in the value of "stats".
\* A round number of 0 would end the reading early; the server counts from 1.
\* There is a token: of a text that is no JSON, p->json is NULL and its next
\* is read all the same (see Take).
Keys(chain) == IF chain = <<>> THEN <<>> ELSE Tail(chain)
DeserializeTrainingData(chain) ==
  LET keys == Tail(chain)
      arrays == Field(keys, weights)
  IN [round_number |-> NumberOr0(Field(keys, round)),
      training_time |-> NumberOr0(Field(keys, training_time)),
      stats |-> StatsOf(Keys(Field(keys, stats))),
      weights |-> IF arrays = <<>> THEN <<>> ELSE arrays[1].child]

NoPayload ==
  [round_number |-> 0, training_time |-> 0, stats |-> StatsOf(<<>>),
   weights |-> <<>>]

VARIABLES server,    \* current_round.nn
          device,    \* TRAINER.model of the device being served
          buffers,   \* current_round.weights and biases
          text,      \* the last body
          payload,   \* the fields last read from a body, without the weights
          tree,      \* stage "body": the chain the text stands for
          responded,
          stage      \* "broadcast", "load", "answer", "collect", "divide",
                     \* "done"; or "body"

vars == <<server, device, buffers, text, payload, tree, responded, stage>>

\* init_nn without buffers: nn_rand.
RoundInit ==
  /\ \E k1 \in [Cell(1) -> Value], b1 \in [Col(1) -> Value],
        k2 \in [Cell(2) -> Value], b2 \in [Col(2) -> Value] :
       server = [kernel |-> <<k1, k2>>, bias |-> <<b1, b2>>]
  /\ text = <<>> /\ tree = <<>> /\ stage = "broadcast"

BodyInit ==
  /\ server = Allocated(0)
  /\ \E document \in Documents : text = document.text /\ tree = document.chain
  /\ stage = "body"

Init ==
  /\ RoundInit \/ BodyInit
  /\ device = Allocated(Garbage) /\ buffers = Allocated(Garbage)
  /\ payload = NoPayload /\ responded = 0

\* The buffers before the additions of parse_weights_json.
NotZeroed(into, accum) == into                    \* mutant: missing reset
AddedTo(into, accum) == IF accum THEN into ELSE Allocated(0)

\* Two tokens of the chain are taken for each layer: kernel, then bias.  The
\* number at row j, column k is added to the buffer's element At(l, j, k).
ParseWeights(arrays, into, accum) ==
  LET base == AddedTo(into, accum)
      row(l, i) == arrays[2 * l - 1].child[1 + ((i - 1) \div Arch[l + 1])]
      col(l, i) == row(l, i).child[1 + ((i - 1) % Arch[l + 1])]
  IN [kernel |-> [l \in Layer |-> [i \in Cell(l) |->
                    base.kernel[l][i] + Parsed(col(l, i))]],
      bias |-> [l \in Layer |-> [j \in Col(l) |->
                    base.bias[l][j] + Parsed(arrays[2 * l].child[j])]]]

\* Matrix and buffer have their elements in the same order.
InsertWeights(nn, from) ==
  [nn EXCEPT !.kernel = [l \in Layer |-> [i \in Cell(l) |-> from.kernel[l][i]]],
             !.bias = [l \in Layer |-> [j \in Col(l) |-> from.bias[l][j]]]]

-----------------------------------------------------------------------------
\* The body that deserialize_training_data is given, and what it leaves.  The
\* program ends on a body that is no JSON, and the model with it: a deadlock.
Received == DeserializeTrainingData(ParseJson(text))
Take ==
  /\ ParseJson(text) # <<>>
  /\ payload' = [Received EXCEPT !.weights = <<>>]

Broadcast ==
  /\ stage = "broadcast"
  /\ text' = TrainBody(server)
  /\ stage' = "load"
  /\ UNCHANGED <<server, device, buffers, payload, tree, responded>>

\* The device's init_model: fresh buffers, parsed into and copied.
Load ==
  /\ stage = "load"
  /\ Take
  /\ device' = InsertWeights(device,
                  ParseWeights(Received.weights, Allocated(Garbage), FALSE))
  /\ stage' = "answer"
  /\ UNCHANGED <<server, buffers, text, tree, responded>>

\* send_weights.
Answer ==
  /\ stage = "answer"
  /\ text' = ResultsBody(device)
  /\ stage' = "collect"
  /\ UNCHANGED <<server, device, buffers, payload, tree, responded>>

\* handle_results accumulates unless this is the first response.
Collect ==
  /\ stage = "collect"
  /\ Take
  /\ buffers' = ParseWeights(Received.weights, buffers, responded # 0)
  /\ responded' = responded + 1
  /\ stage' = IF responded + 1 = Clients THEN "divide" ELSE "broadcast"
  /\ UNCHANGED <<server, device, text, tree>>

\* Each sum is divided and the buffers are copied into the network.
Averaged(sums) ==
  [kernel |-> [l \in Layer |-> [i \in Cell(l) |-> sums.kernel[l][i] \div Clients]],
   bias |-> [l \in Layer |-> [j \in Col(l) |-> sums.bias[l][j] \div Clients]]]
Divide ==
  /\ stage = "divide"
  /\ buffers' = Averaged(buffers)
  /\ server' = InsertWeights(server, Averaged(buffers))
  /\ responded' = 0
  /\ stage' = "done"
  /\ UNCHANGED <<device, text, payload, tree>>

Next ==
  \/ Broadcast \/ Load \/ Answer \/ Collect \/ Divide
  \/ stage \in {"done", "body"} /\ UNCHANGED vars

Spec == Init /\ [][Next]_vars
-----------------------------------------------------------------------------
\* parse_json makes of every text the chain it stands for, whatever follows
\* a number, a string or a bracket; and a text that was cut off anywhere, as
\* a body that did not come whole, is refused and never taken for another.
ReadsBack ==
  stage = "body" =>
    /\ ParseJson(text) = tree
    /\ \A n \in 0 .. Len(text) - 1 : ParseJson(SubSeq(text, 1, n)) = <<>>

\* Every field of a body arrives in its place although the reader finds it
\* by its name, in chains in which keys and values hang on different links;
\* and so does every number of the weights, although a bias is not its own.
WeightsArrive(nn) ==
  LET arrays == Received.weights IN
  \A l \in Layer :
    /\ \A j \in Row(l), k \in Col(l) :
         Parsed(arrays[2 * l - 1].child[j].child[k])
           = Printed(nn.kernel[l][At(l, j, k)])
    /\ \A k \in Col(l) :
         Parsed(arrays[2 * l].child[k]) = Printed(nn.kernel[l][k])
FieldsArrive ==
  /\ stage = "load" => WeightsArrive(server)
  /\ stage = "collect" => WeightsArrive(device)
  /\ stage = "answer" => payload = [NoPayload EXCEPT !.round_number = Round]
  /\ stage \in {"broadcast", "divide"} /\ responded > 0 =>
       /\ payload.round_number = Round
       /\ payload.training_time = Report.training_time
       /\ \A f \in DOMAIN payload.stats : payload.stats[f] = Report[f]

\* Averaging what the devices were sent gives it back: every weight of the
\* kernels, in its place, to the precision of the text, whatever was in the
\* buffers and although each weight is printed twice on its way.
KernelsSurvive ==
  [][stage' = "done" /\ stage # "done" =>
       \A l \in Layer : \A i \in Cell(l) :
         server'.kernel[l][i] = Printed(server.kernel[l][i])]_vars

\* report.tex:461: the client "sends the resulting weights of the local
\* model"; tools/main.py:102 writes the format as kernel, then bias.
BiasesSurvive ==
  [][stage' = "done" /\ stage # "done" =>
       \A l \in Layer : \A j \in Col(l) :
         server'.bias[l][j] = Printed(server.bias[l][j])]_vars
=============================================================================
