---------------------------- MODULE MCWeightsCodec ---------------------------
(***************************************************************************)
(* WeightsCodec on the instance TLC checks: no matrix is square.  The      *)
(* documents are arrays and objects nested twice, in which no object is    *)
(* inside an array: the programs print no other.                           *)
(***************************************************************************)
EXTENDS WeightsCodec

SmallArch == <<2, 3, 1>>
SmallValue == {1, -4}

Document(written, chain) == [text |-> written, chain |-> chain]
LeafDocument(type, written, margin) ==
  Document(written,
    <<Token(type, SubSeq(written, 1 + margin, Len(written) - margin), <<>>)>>)

Digit == Char("digit", 7)
Letter == Char("letter", 9)
Leaves ==
  {LeafDocument("number", written, 0) : written \in
     {<<Digit>>, <<Mark("-"), Digit, Mark("."), Digit, Digit>>,
      <<Digit, Mark("e"), Mark("+"), Digit>>}}
  \cup {LeafDocument("string", <<Mark("quote")>> \o inside \o <<Mark("quote")>>, 1) :
          inside \in {<<>>, <<Letter, Mark("\\"), Mark("quote"), Mark(",")>>}}
  \cup {LeafDocument("true", <<Mark("true")>>, 0)}

UpTo2(S) == {<<>>} \cup {<<x>> : x \in S} \cup {<<x, y>> : x \in S, y \in S}

ArrayDocument(parts) ==
  Document(ArrayText([i \in DOMAIN parts |-> parts[i].text]),
           <<Token("array", <<>>, [i \in DOMAIN parts |-> parts[i].chain[1]])>>)
ObjectDocument(parts) ==
  Document(ObjectText([i \in DOMAIN parts |-> Member(i, parts[i].text)]),
           <<Token("object", <<>>, <<>>)>> \o
             [i \in DOMAIN parts |->
                Token("string", <<Char("letter", i)>>, parts[i].chain)])

Arrays == {ArrayDocument(parts) : parts \in UpTo2(Leaves)}
Objects == {ObjectDocument(parts) : parts \in UpTo2(Leaves)}
SmallDocuments ==
  Objects
    \cup {ArrayDocument(parts) : parts \in UpTo2(Leaves \cup Arrays)}
    \cup {ObjectDocument(<<x, y>>) : x \in Arrays \cup Objects, y \in Objects}
=============================================================================
