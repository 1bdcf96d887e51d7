-------------------------------- MODULE Cson --------------------------------
(***************************************************************************)
(* The JSON parser both programs read bodies with (cson.h).  A text is a   *)
(* sequence of characters, followed by the NUL that substr puts there.  A  *)
(* character has a class and a value: a "digit" may stand for a run of     *)
(* digits, a "letter" for a name, and true, false and null are characters. *)
(*                                                                         *)
(* Tokens are linked by two pointers.  A chain is what is reached from a   *)
(* token by next, the token first; a token's child is a chain.  The keys   *)
(* of an object hang on the next of the object's own token, and a key's    *)
(* value is the key's child.                                               *)
(***************************************************************************)
EXTENDS Integers, Sequences

Char(class, value) == [c |-> class, v |-> value]
Mark(class) == Char(class, 0)

Token(type, text, child) == [type |-> type, text |-> text, child |-> child]
Read(at, chain) == [at |-> at, chain |-> chain]
Failed == Read(0, <<>>)

\* peek, peek_next and advance give NUL from the end of the text on.
Peek(text, i) == IF i <= Len(text) THEN text[i].c ELSE "NUL"

Position(text) == 1 .. Len(text) + 1

\* skip_whitespace: the first place from i on that holds something else.
Skip(text, i) ==
  CHOOSE j \in i .. Len(text) + 1 :
    Peek(text, j) # "space" /\ \A k \in i .. j - 1 : Peek(text, k) = "space"

\* The end of scan_array's and scan_object's loop is the closing character,
\* not the end of the text.
EndsAtNul(c, close) == c \in {close, "NUL"}       \* mutant: end of text closes
Closes(c, close) == c = close

\* A comma after an element or a member is optional.
CommaKept(text, i) == i                           \* mutant: comma not eaten
AfterComma(text, i) ==
  LET j == Skip(text, i)
  IN IF Peek(text, j) = "," THEN Skip(text, j + 1) ELSE j

\* scan_number from i: the place after the number, 0 if it is none.  The
\* loop is at its last digit; fraction and exp say what has been met.
ScanNumber(text, i) ==
  LET Digit(j) == Peek(text, j) = "digit"
      loop[j \in Position(text), fraction \in BOOLEAN, exp \in BOOLEAN] ==
        CASE Digit(j + 1) -> loop[j + 1, fraction, exp]
          [] Peek(text, j + 1) = "." ->
               IF fraction \/ ~Digit(j + 2) THEN 0 ELSE loop[j + 1, TRUE, exp]
          [] Peek(text, j + 1) = "e" ->
               LET sign == IF Peek(text, j + 2) \in {"+", "-"} THEN 1 ELSE 0
               IN IF exp \/ ~Digit(j + sign + 2) THEN 0
                  ELSE loop[j + sign + 1, fraction, TRUE]
          [] OTHER -> j + 1
      first == IF Peek(text, i) = "-" THEN i + 1 ELSE i
  IN IF Digit(first) THEN loop[first, FALSE, FALSE] ELSE 0

\* scan_string from the quote at i: the place after the closing quote.  An
\* escape is checked and kept as it is.
Escape == {"quote", "\\", "letter"}
ScanString(text, i) ==
  LET loop[j \in Position(text)] ==
        CASE Peek(text, j + 1) = "NUL" -> 0
          [] Peek(text, j + 1) = "quote" -> j + 2
          [] Peek(text, j + 1) = "\\" ->
               IF Peek(text, j + 2) \in Escape THEN loop[j + 2] ELSE 0
          [] OTHER -> loop[j + 1]
  IN IF Peek(text, i) = "quote" THEN loop[i] ELSE 0

Leaf(type, text, i, end, margin) ==
  IF end = 0 THEN Failed
  ELSE Read(end, <<Token(type, SubSeq(text, i + margin, end - 1 - margin), <<>>)>>)

Special == {"true", "false", "null"}

\* A chain before what was read after it, which may have failed.
Linked(head, rest) ==
  IF rest.at = 0 THEN Failed ELSE Read(rest.at, head \o rest.chain)

\* An element's next is overwritten when another element follows it.
Element(chain, rest) == IF rest.chain = <<>> THEN chain ELSE <<Head(chain)>>

\* scan_token, and from inside their brackets scan_array and scan_object.
Scan(text) ==
  LET scan[what \in {"token", "elements", "members"}, i \in Position(text)] ==
        LET j == Skip(text, i)
            one == scan["token", j]
            others == scan["elements", AfterComma(text, one.at)]
            key == Leaf("string", text, j, ScanString(text, j), 1)
            colon == Skip(text, key.at)
            value == scan["token", colon + 1]
            more == scan["members", AfterComma(text, value.at)]
        IN CASE what = "token" /\ Peek(text, j) = "[" ->
                  LET in == scan["elements", Skip(text, j + 1)]
                  IN IF in.at = 0 THEN Failed
                     ELSE Read(in.at, <<Token("array", <<>>, in.chain)>>)
             [] what = "token" /\ Peek(text, j) = "{" ->
                  Linked(<<Token("object", <<>>, <<>>)>>,
                         scan["members", Skip(text, j + 1)])
             [] what = "token" /\ Peek(text, j) = "quote" -> key
             [] what = "token" /\ Peek(text, j) \in Special ->
                  Leaf(Peek(text, j), text, j, j + 1, 0)
             [] what = "token" /\ Peek(text, j) = "NUL" -> Failed
             [] what = "token" ->
                  Leaf("number", text, j, ScanNumber(text, j), 0)
             [] what = "elements" ->
                  IF Closes(Peek(text, i), "]") THEN Read(i + 1, <<>>)
                  ELSE IF one.at = 0 THEN Failed
                  ELSE Linked(Element(one.chain, others), others)
             [] what = "members" ->
                  IF Closes(Peek(text, i), "}") THEN Read(i + 1, <<>>)
                  ELSE IF key.at = 0 \/ Peek(text, colon) # ":" THEN Failed
                  ELSE IF value.at = 0 THEN Failed
                  ELSE Linked(<<[Head(key.chain) EXCEPT !.child = value.chain]>>,
                              more)
  IN scan

\* parse_json: the chain that begins with the text's token, empty for NULL.
\* What follows that token in the text is not looked at.
ParseJson(text) == Scan(text)["token", 1].chain

=============================================================================
