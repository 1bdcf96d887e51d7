-------------------------- MODULE HttpReaderProofs ---------------------------
(***************************************************************************)
(* Proofs about the reader of requests, for bodies of any length, pieces   *)
(* of any size and whatever lies in the buffer behind the data.  Unless    *)
(* the data end where a pattern may match behind them, a length can only   *)
(* come from a pattern found in them, so it ends a line of the head; and   *)
(* when the whole head is there, both lengths are the right ones.          *)
(***************************************************************************)
EXTENDS HttpReader, FiniteSetTheorems, WellFoundedInduction, TLAPS

-----------------------------------------------------------------------------
(* The data. *)

\* A nonempty set of numbers has a least one.
LEMMA Least ==
  ASSUME NEW T, T \subseteq Nat, T # {}
  PROVE  Min(T) \in T /\ \A y \in T : Min(T) <= y
<1>1. PICK R : R = OpToRel(<, Nat)
  OBVIOUS
<1>2. PICK x \in T : \A y \in T : ~(<<y, x>> \in R)
  BY <1>1, NatLessThanWellFounded, WFMin
<1>3. \A y, z \in Nat : y < z => <<y, z>> \in R
  BY <1>1 DEF OpToRel
<1>4. ASSUME NEW y \in T PROVE x <= y
  <2>1. x \in Nat /\ y \in Nat
    OBVIOUS
  <2>2. ~(y < x)
    BY <1>2, <1>3, <2>1, Zenon
  <2> QED
    BY <2>1, <2>2
<1> QED
  BY <1>4 DEF Min

\* The least element is the one that is below the others.
LEMMA LeastIs ==
  ASSUME NEW T, T \subseteq Nat, NEW m \in T, \A y \in T : m <= y
  PROVE  Min(T) = m
<1>1. Min(T) \in T /\ Min(T) <= m
  BY Least
<1>2. m <= Min(T) /\ m \in Nat /\ Min(T) \in Nat
  BY <1>1
<1> QED
  BY <1>1, <1>2

\* The bounds of an instance.
LEMMA Bounds ==
  /\ MaxBody \in Nat /\ MaxChunk \in Nat \ {0} /\ Far \in Nat
  /\ MaxRequired \in Nat /\ MaxRequired > MaxChunk
<1>1. /\ MaxBody \in Nat /\ MaxChunk \in Nat \ {0} /\ Far \in Nat
      /\ MaxRequired \in Nat \ 0 .. MaxChunk
  BY HttpAssumption, Zenon
<1> QED
  BY <1>1

\* One sequence behind another.
IsJoined(u, s, t) ==
  /\ Len(u) = Len(s) + Len(t)
  /\ \A i \in 1 .. Len(s) : u[i] = s[i]
  /\ \A i \in Len(s) + 1 .. Len(s) + Len(t) : u[i] = t[i - Len(s)]

\* What the concatenation of two sequences is.
LEMMA Joined ==
  ASSUME NEW S, NEW s \in Seq(S), NEW t \in Seq(S)
  PROVE  s \o t \in Seq(S) /\ IsJoined(s \o t, s, t)
  BY DEF IsJoined

\* A sequence over some symbols is one over more.
LEMMA SeqSubset ==
  ASSUME NEW S, NEW T, S \subseteq T, NEW s \in Seq(S)
  PROVE  s \in Seq(T)
  OBVIOUS

\* What a request and the buffer behind it are made of.
Symbol == {"method", " ", "url", "CR", "LF", "key", ": ", "value", "body",
           "none"}

\* A request, and one of each kind, symbol by symbol.
IsRequest(r) ==
  /\ Bytes(r) \in Seq(Symbol) /\ r.length \in Nat
  /\ Bytes(r)[1] = "method" /\ Bytes(r)[2] = " " /\ Bytes(r)[3] = "url"
  /\ Bytes(r)[4] = " " /\ Bytes(r)[5] = "CR" /\ Bytes(r)[6] = "LF"
IsGet(r) ==
  /\ r = Get /\ Len(r.head) = 8 /\ r.length = 0 /\ Len(Bytes(r)) = 8
  /\ Bytes(r)[7] = "CR" /\ Bytes(r)[8] = "LF"
IsPost(r) ==
  /\ Len(r.head) = 13 /\ Len(Bytes(r)) = 13 + r.length
  /\ Bytes(r)[7] = "key" /\ Bytes(r)[8] = ": " /\ Bytes(r)[9] = "value"
  /\ Bytes(r)[10] = "CR" /\ Bytes(r)[11] = "LF"
  /\ Bytes(r)[12] = "CR" /\ Bytes(r)[13] = "LF"
  /\ \A i \in 14 .. 13 + r.length : Bytes(r)[i] = "body"

\* The lines of a head are sequences of symbols.
LEMMA Lines ==
  /\ Line \in Seq(Symbol) /\ Len(Line) = 6
  /\ Header \in Seq(Symbol) /\ Len(Header) = 5
  /\ Blank \in Seq(Symbol) /\ Len(Blank) = 2
  BY DEF Line, Header, Blank, Symbol

\* So is the space that separates the words of the request line.
LEMMA OneSpace == Space \in Seq(Symbol) /\ Len(Space) = 1 /\ Space[1] = " "
<1>1. " " \in Symbol
  BY DEF Symbol
<1>2. Space \in Seq(Symbol)
  <2>1. ASSUME NEW S, NEW x \in S PROVE <<x>> \in Seq(S)
    OBVIOUS
  <2> QED
    BY <1>1, <2>1, Zenon DEF Space
<1>3. Len(Space) = 1
  BY DEF Space
<1>4. Space[1] = " "
  BY DEF Space
<1> QED
  BY <1>2, <1>3, <1>4

\* A body of n symbols is n times the symbol of a body.
LEMMA Bodies ==
  ASSUME NEW n \in Nat
  PROVE  /\ Body(n) \in Seq(Symbol) /\ Len(Body(n)) = n
         /\ \A i \in 1 .. n : Body(n)[i] = "body"
<1>1. \A i \in 1 .. n : "body" \in Symbol
  BY DEF Symbol
<1> QED
  BY <1>1 DEF Body

\* A GET is its request line and the blank line.
LEMMA GetSymbols ==
  /\ Get.head \in Seq(Symbol)
  /\ Bytes(Get) \in Seq(Symbol) /\ Len(Get.head) = 8 /\ Get.length = 0
  /\ Len(Bytes(Get)) = 8
  /\ \A i \in 1 .. 6 : Bytes(Get)[i] = Line[i]
  /\ \A i \in 7 .. 8 : Bytes(Get)[i] = Blank[i - 6]
<1> DEFINE head == Line \o Blank
           bytes == head \o Body(0)
<1>1. Get.length = 0 /\ Get.head = head
  BY DEF Get
<1>2. Bytes(Get) = bytes
  BY <1>1 DEF Bytes
<1>3. head \in Seq(Symbol) /\ IsJoined(head, Line, Blank)
  BY Joined, Lines, Zenon
<1> HIDE DEF head
<1>4. head \in Seq(Symbol) /\ Len(head) = 8
  BY <1>3, Lines DEF IsJoined
<1>5. Body(0) \in Seq(Symbol) /\ Len(Body(0)) = 0
  BY Bodies
<1>6. bytes \in Seq(Symbol) /\ IsJoined(bytes, head, Body(0))
  BY <1>3, <1>5, Joined, Zenon
<1> HIDE DEF bytes
<1>7. /\ \A i \in 1 .. 6 : head[i] = Line[i]
      /\ \A i \in 7 .. 8 : head[i] = Blank[i - 6]
  BY <1>3, Lines DEF IsJoined
<1>8. /\ bytes \in Seq(Symbol) /\ Len(bytes) = 8
      /\ \A i \in 1 .. 8 : bytes[i] = head[i]
  BY <1>4, <1>5, <1>6 DEF IsJoined
<1>9. /\ \A i \in 1 .. 6 : bytes[i] = Line[i]
      /\ \A i \in 7 .. 8 : bytes[i] = Blank[i - 6]
  BY <1>7, <1>8
<1> QED
  BY <1>1, <1>2, <1>4, <1>8, <1>9, Zenon

\* A POST is its request line, a header, the blank line and its body.
LEMMA PostSymbols ==
  ASSUME NEW n \in Nat
  PROVE  /\ Post(n).head \in Seq(Symbol) /\ Bytes(Post(n)) \in Seq(Symbol)
         /\ Len(Post(n).head) = 13 /\ Post(n).length = n
         /\ Len(Bytes(Post(n))) = 13 + n
         /\ \A i \in 1 .. 6 : Bytes(Post(n))[i] = Line[i]
         /\ \A i \in 7 .. 11 : Bytes(Post(n))[i] = Header[i - 6]
         /\ \A i \in 12 .. 13 : Bytes(Post(n))[i] = Blank[i - 11]
         /\ \A i \in 14 .. 13 + n : Bytes(Post(n))[i] = "body"
<1> DEFINE lines == Line \o Header
           head == lines \o Blank
           bytes == head \o Body(n)
<1>1. Post(n).length = n /\ Post(n).head = head
  BY DEF Post
<1>2. Bytes(Post(n)) = bytes
  BY <1>1 DEF Bytes
<1>3. lines \in Seq(Symbol) /\ IsJoined(lines, Line, Header)
  BY Joined, Lines, Zenon
<1> HIDE DEF lines
<1>4. lines \in Seq(Symbol) /\ Len(lines) = 11
  BY <1>3, Lines DEF IsJoined
<1>5. head \in Seq(Symbol) /\ IsJoined(head, lines, Blank)
  BY <1>3, Joined, Lines, Zenon
<1> HIDE DEF head
<1>6. head \in Seq(Symbol) /\ Len(head) = 13
  BY <1>4, <1>5, Lines DEF IsJoined
<1>7. Body(n) \in Seq(Symbol) /\ Len(Body(n)) = n
  BY Bodies
<1>8. bytes \in Seq(Symbol) /\ IsJoined(bytes, head, Body(n))
  BY <1>5, <1>7, Joined, Zenon
<1> HIDE DEF bytes
<1>9. /\ \A i \in 1 .. 6 : lines[i] = Line[i]
      /\ \A i \in 7 .. 11 : lines[i] = Header[i - 6]
  BY <1>3, Lines DEF IsJoined
<1>10. /\ \A i \in 1 .. 11 : head[i] = lines[i]
      /\ \A i \in 12 .. 13 : head[i] = Blank[i - 11]
  BY <1>4, <1>5, Lines DEF IsJoined
<1>11. /\ bytes \in Seq(Symbol) /\ Len(bytes) = 13 + n
       /\ \A i \in 1 .. 13 : bytes[i] = head[i]
       /\ \A i \in 14 .. 13 + n : bytes[i] = Body(n)[i - 13]
  BY <1>6, <1>8, <1>7 DEF IsJoined
<1>12. /\ \A i \in 1 .. 6 : bytes[i] = Line[i]
       /\ \A i \in 7 .. 11 : bytes[i] = Header[i - 6]
       /\ \A i \in 12 .. 13 : bytes[i] = Blank[i - 11]
  BY <1>9, <1>10, <1>11
<1>13. \A i \in 14 .. 13 + n : bytes[i] = "body"
  <2>1. \A i \in 14 .. 13 + n : i - 13 \in 1 .. n
    OBVIOUS
  <2> QED
    BY <2>1, <1>11, Bodies, Zenon
<1> QED
  BY <1>1, <1>2, <1>6, <1>11, <1>12, <1>13, Zenon

\* The lines of a head, symbol by symbol.
LEMMA Letters ==
  /\ Line[1] = "method" /\ Line[2] = " " /\ Line[3] = "url"
  /\ Line[4] = " " /\ Line[5] = "CR" /\ Line[6] = "LF"
  /\ Header[1] = "key" /\ Header[2] = ": " /\ Header[3] = "value"
  /\ Header[4] = "CR" /\ Header[5] = "LF"
  /\ Blank[1] = "CR" /\ Blank[2] = "LF"
  BY DEF Line, Header, Blank

\* Every request begins with a request line, and is one of the two.
LEMMA Symbols ==
  ASSUME NEW r \in Request
  PROVE  IsRequest(r) /\ (IsGet(r) \/ IsPost(r))
<1>1. IsRequest(Get) /\ IsGet(Get)
  <2>1. /\ \A i \in 1 .. 6 : Bytes(Get)[i] = Line[i]
        /\ Bytes(Get)[7] = Blank[1] /\ Bytes(Get)[8] = Blank[2]
    BY GetSymbols
  <2>2. /\ Bytes(Get)[1] = Line[1] /\ Bytes(Get)[2] = Line[2]
        /\ Bytes(Get)[3] = Line[3] /\ Bytes(Get)[4] = Line[4]
        /\ Bytes(Get)[5] = Line[5] /\ Bytes(Get)[6] = Line[6]
    BY <2>1
  <2>3. /\ Get.length \in Nat /\ Get.length = 0 /\ Bytes(Get) \in Seq(Symbol)
        /\ Len(Get.head) = 8 /\ Len(Bytes(Get)) = 8
    BY GetSymbols
  <2>4. IsRequest(Get)
    BY <2>2, <2>3, Letters, Zenon DEF IsRequest
  <2>5. IsGet(Get)
    BY <2>1, <2>3, Letters, Zenon DEF IsGet
  <2> QED
    BY <2>4, <2>5
<1>2. ASSUME NEW n \in 0 .. MaxBody PROVE IsRequest(Post(n)) /\ IsPost(Post(n))
  <2>1. n \in Nat
    BY Bounds
  <2>2. /\ \A i \in 1 .. 6 : Bytes(Post(n))[i] = Line[i]
        /\ \A i \in 7 .. 11 : Bytes(Post(n))[i] = Header[i - 6]
        /\ \A i \in 12 .. 13 : Bytes(Post(n))[i] = Blank[i - 11]
    BY <2>1, PostSymbols, Zenon
  <2>3. /\ Bytes(Post(n))[1] = Line[1] /\ Bytes(Post(n))[2] = Line[2]
        /\ Bytes(Post(n))[3] = Line[3] /\ Bytes(Post(n))[4] = Line[4]
        /\ Bytes(Post(n))[5] = Line[5] /\ Bytes(Post(n))[6] = Line[6]
    BY <2>2
  <2>4. /\ Bytes(Post(n))[7] = Header[1] /\ Bytes(Post(n))[8] = Header[2]
        /\ Bytes(Post(n))[9] = Header[3] /\ Bytes(Post(n))[10] = Header[4]
        /\ Bytes(Post(n))[11] = Header[5]
    BY <2>2
  <2>5. Bytes(Post(n))[12] = Blank[1] /\ Bytes(Post(n))[13] = Blank[2]
    BY <2>2
  <2>6. IsRequest(Post(n))
    BY <2>1, <2>3, Letters, PostSymbols, Zenon DEF IsRequest
  <2>7. IsPost(Post(n))
    <3>1. Post(n).length = n
      BY <2>1, PostSymbols, Zenon
    <3>2. /\ Len(Bytes(Post(n))) = 13 + n
          /\ \A i \in 14 .. 13 + n : Bytes(Post(n))[i] = "body"
      BY <2>1, PostSymbols, Zenon
    <3>3. /\ Len(Bytes(Post(n))) = 13 + Post(n).length
          /\ \A i \in 14 .. 13 + Post(n).length : Bytes(Post(n))[i] = "body"
      BY <3>1, <3>2
    <3> QED
      BY <2>1, <2>4, <2>5, <3>3, Letters, PostSymbols, Zenon DEF IsPost
  <2> QED
    BY <2>6, <2>7
<1> QED
  BY <1>1, <1>2, Zenon DEF Request

\* Where nothing can match behind the data: at the start, behind the first
\* space, or with the request line in, and there not everywhere.
LEMMA SafeCuts ==
  ASSUME NEW r \in Request, NEW n \in Nat
  PROVE  /\ ~Exposes(r, 0)
         /\ n >= Len(r.head) => ~Exposes(r, n)
         /\ ~Exposes(r, n) =>
              /\ n \in {0, 2} \/ n >= 6
              /\ IsGet(r) => n # 7
              /\ IsPost(r) => n \notin {8, 9, 10, 12}
<1>1. /\ Bytes(r)[1] = "method" /\ Bytes(r)[2] = " "
      /\ Bytes(r)[4] = " " /\ Bytes(r)[5] = "CR" /\ Bytes(r)[6] = "LF"
  BY Symbols, Zenon DEF IsRequest
<1>2. Len(r.head) = 8 \/ Len(r.head) = 13
  BY Symbols, Zenon DEF IsGet, IsPost
<1>3. ASSUME n < Len(r.head), NEW k, k = n + 1,
             \/ Bytes(r)[k] \in {" ", "value", "LF"}
             \/ Bytes(r)[k] = "CR" /\ n # Len(r.head) - BlankLen
      PROVE  Exposes(r, n)
  BY <1>3, Zenon DEF Exposes
<1>4. ASSUME Exposes(r, 0) PROVE FALSE
  <2>1. \/ Bytes(r)[0 + 1] \in {" ", "value", "LF"}
        \/ Bytes(r)[0 + 1] = "CR"
    BY <1>4, Zenon DEF Exposes
  <2>2. 0 + 1 = 1
    OBVIOUS
  <2>3. "method" \in {" ", "value", "LF"} \/ "method" = "CR"
    BY <1>1, <2>1, <2>2, Zenon
  <2> QED
    BY <2>3
<1>5. ASSUME n >= Len(r.head), Exposes(r, n) PROVE FALSE
  <2>1. n < Len(r.head)
    BY <1>5, Zenon DEF Exposes
  <2> QED
    BY <1>2, <1>5, <2>1
<1>6. ASSUME ~Exposes(r, n) PROVE n \in {0, 2} \/ n >= 6
  <2>1. n < 6 => n < Len(r.head)
    <3>1. PICK len \in {8, 13} : Len(r.head) = len
      BY <1>2
    <3>2. n < 6 => n < len
      OBVIOUS
    <3> QED
      BY <3>1, <3>2, Zenon
  <2>2. n # 1
    <3>1. n = 1 => 2 = n + 1 /\ n < 6
      OBVIOUS
    <3> QED
      BY <1>1, <1>3, <1>6, <2>1, <3>1, Zenon
  <2>3. n # 3
    <3>1. n = 3 => 4 = n + 1 /\ n < 6
      OBVIOUS
    <3> QED
      BY <1>1, <1>3, <1>6, <2>1, <3>1, Zenon
  <2>4. n # 4
    <3>1. n = 4 => 5 = n + 1 /\ n < 6 /\ n # Len(r.head) - BlankLen
      BY <1>2 DEF BlankLen
    <3> QED
      BY <1>1, <1>3, <1>6, <2>1, <3>1, Zenon
  <2>5. n # 5
    <3>1. n = 5 => 6 = n + 1 /\ n < 6
      OBVIOUS
    <3> QED
      BY <1>1, <1>3, <1>6, <2>1, <3>1, Zenon
  <2> QED
    BY <2>2, <2>3, <2>4, <2>5
<1>7. ASSUME ~Exposes(r, n), IsGet(r) PROVE n # 7
  <2>1. Bytes(r)[8] = "LF" /\ Len(r.head) = 8
    BY <1>7, Zenon DEF IsGet
  <2>2. n = 7 => 8 = n + 1 /\ n < Len(r.head)
    BY <2>1
  <2> QED
    BY <1>3, <1>7, <2>1, <2>2, Zenon
<1>8. ASSUME ~Exposes(r, n), IsPost(r) PROVE n \notin {8, 9, 10, 12}
  <2>1. /\ Bytes(r)[9] = "value" /\ Bytes(r)[10] = "CR"
        /\ Bytes(r)[11] = "LF" /\ Bytes(r)[13] = "LF"
        /\ Len(r.head) = 13
    BY <1>8, Zenon DEF IsPost
  <2>2. n < 13 => n < Len(r.head)
    BY <2>1
  <2>3. n # 8
    <3>1. n = 8 => 9 = n + 1 /\ n < 13
      OBVIOUS
    <3> QED
      BY <1>3, <1>8, <2>1, <2>2, <3>1, Zenon
  <2>4. n # 9
    <3>1. n = 9 => 10 = n + 1 /\ n < 13 /\ n # Len(r.head) - BlankLen
      BY <2>1 DEF BlankLen
    <3> QED
      BY <1>3, <1>8, <2>1, <2>2, <3>1, Zenon
  <2>5. n # 10
    <3>1. n = 10 => 11 = n + 1 /\ n < 13
      OBVIOUS
    <3> QED
      BY <1>3, <1>8, <2>1, <2>2, <3>1, Zenon
  <2>6. n # 12
    <3>1. n = 12 => 13 = n + 1 /\ n < 13
      OBVIOUS
    <3> QED
      BY <1>3, <1>8, <2>1, <2>2, <3>1, Zenon
  <2> QED
    BY <2>3, <2>4, <2>5, <2>6
<1> QED
  BY <1>4, <1>5, <1>6, <1>7, <1>8, Zenon

\* The data received are so many symbols.
LEMMA Lengths ==
  ASSUME NEW r \in Request, NEW n \in 6 .. Len(Bytes(r))
  PROVE  n \in Nat /\ n >= 6 /\ n \in 0 .. Len(Bytes(r))
<1>1. Bytes(r) \in Seq(Symbol)
  BY Symbols, Zenon DEF IsRequest
<1>2. Len(Bytes(r)) \in Nat
  BY <1>1
<1> QED
  BY <1>2

-----------------------------------------------------------------------------
(* The patterns. *)

\* Where a pattern lies within the data, it is the data that match.
LEMMA PlacesInData ==
  ASSUME NEW data \in Seq(Symbol), NEW n \in 0 .. Len(data), NEW from \in Nat,
         NEW pattern \in Seq(Symbol), NEW stale \in Stale
  PROVE  /\ Places(data, from, n, pattern, stale) \subseteq from .. n
         /\ \A i \in from .. n : i + Len(pattern) <= n =>
              (i \in Places(data, from, n, pattern, stale)
                 <=> \A j \in 1 .. Len(pattern) : data[i + j] = pattern[j])
         /\ \A i \in Places(data, from, n, pattern, stale) :
              \A j \in 1 .. Len(pattern) :
                i + j <= n => data[i + j] = pattern[j]
<1> DEFINE part == SubSeq(data, 1, n)
           buffer == part \o stale
           places == Places(data, from, n, pattern, stale)
<1>1. stale \in Seq({" ", "CR", "LF", "none"}) /\ Len(stale) = 2
  BY HttpAssumption, Zenon
<1>2. stale \in Seq(Symbol)
  <2>1. {" ", "CR", "LF", "none"} \subseteq Symbol
    BY DEF Symbol
  <2> QED
    BY <1>1, <2>1, SeqSubset, Zenon
<1>3. n \in Nat /\ Len(pattern) \in Nat
  OBVIOUS
<1>4. /\ part \in Seq(Symbol) /\ Len(part) = n
      /\ \A i \in 1 .. n : part[i] = data[i]
  OBVIOUS
<1>5. places = {i \in from .. n : /\ i + Len(pattern) <= n + 2
                                  /\ \A j \in 1 .. Len(pattern) :
                                       buffer[i + j] = pattern[j]}
  BY Zenon DEF Places
<1> HIDE DEF part, places
<1>6. IsJoined(buffer, part, stale)
  BY <1>2, <1>4, Joined, Zenon
<1> HIDE DEF buffer
<1>7. \A i \in 1 .. n : buffer[i] = data[i]
  BY <1>3, <1>4, <1>6 DEF IsJoined
<1>8. places \subseteq from .. n
  BY <1>5
<1>9. ASSUME NEW i \in from .. n, NEW j \in 1 .. Len(pattern), i + j <= n
      PROVE  buffer[i + j] = data[i + j]
  <2>1. i + j \in 1 .. n
    BY <1>3, <1>9
  <2> QED
    BY <2>1, <1>7
<1>10. ASSUME NEW i \in from .. n, i + Len(pattern) <= n
       PROVE  i \in places
                <=> \A j \in 1 .. Len(pattern) : data[i + j] = pattern[j]
  <2>1. i + Len(pattern) <= n + 2
    BY <1>3, <1>10
  <2>2. \A j \in 1 .. Len(pattern) : i + j <= n
    BY <1>3, <1>10
  <2> QED
    BY <1>5, <1>9, <2>1, <2>2, Zenon
<1>11. ASSUME NEW i \in places, NEW j \in 1 .. Len(pattern), i + j <= n
       PROVE  data[i + j] = pattern[j]
  BY <1>5, <1>9, <1>11, Zenon
<1> QED
  BY <1>8, <1>10, <1>11 DEF places

\* What is found is a place where the pattern is, the first from the one
\* where the search starts.
LEMMA FirstMatchIs ==
  ASSUME NEW data \in Seq(Symbol), NEW n \in 0 .. Len(data), NEW from \in Nat,
         NEW pattern \in Seq(Symbol), NEW stale \in Stale
  PROVE  LET places == Places(data, from, n, pattern, stale)
             found == FirstMatch(data, from, n, pattern, stale)
         IN /\ found \in Nat \/ found = None
            /\ found # None => found + from \in places
            /\ \A m \in places : found \in Nat /\ found + from <= m
<1> DEFINE places == Places(data, from, n, pattern, stale)
           found == FirstMatch(data, from, n, pattern, stale)
<1>1. places \subseteq from .. n
  BY PlacesInData, Zenon
<1>2. found = IF places = {} THEN None ELSE Min(places) - from
  BY Zenon DEF FirstMatch
<1> HIDE DEF places, found
<1>3. places \subseteq Nat
  BY <1>1
<1>4. places # {} =>
        Min(places) \in places /\ \A m \in places : Min(places) <= m
  BY <1>3, Least
<1>5. CASE places = {}
  BY <1>2, <1>5 DEF found, places
<1>6. CASE places # {}
  <2>1. PICK least \in places :
          Min(places) = least /\ \A m \in places : least <= m
    BY <1>4, <1>6
  <2>2. least \in from .. n /\ found = least - from
    BY <1>1, <1>2, <1>6, <2>1
  <2>3. found \in Nat /\ found + from = least
    BY <2>2
  <2> QED
    BY <2>1, <2>3 DEF found, places
<1> QED
  BY <1>5, <1>6

\* A pattern right where the search starts, or one symbol further on.
LEMMA FirstIs ==
  ASSUME NEW data \in Seq(Symbol), NEW n \in 0 .. Len(data), NEW from \in Nat,
         NEW pattern \in Seq(Symbol), NEW stale \in Stale
  PROVE  LET places == Places(data, from, n, pattern, stale)
             found == FirstMatch(data, from, n, pattern, stale)
         IN /\ from \in places => found = 0
            /\ from \notin places /\ from + 1 \in places => found = 1
<1> DEFINE places == Places(data, from, n, pattern, stale)
           found == FirstMatch(data, from, n, pattern, stale)
<1>1. /\ found \in Nat \/ found = None
      /\ found # None => found + from \in places
      /\ \A m \in places : found \in Nat /\ found + from <= m
  BY FirstMatchIs, Zenon
<1> HIDE DEF places, found
<1>2. from \in places => found = 0
  BY <1>1
<1>3. ASSUME from \notin places, from + 1 \in places PROVE found = 1
  <2>1. found \in Nat /\ found + from <= from + 1
    BY <1>1, <1>3
  <2>2. found # 0
    BY <1>1, <1>3, <2>1 DEF None
  <2> QED
    BY <2>1, <2>2
<1> QED
  BY <1>2, <1>3 DEF places, found

\* A space, and an end of line.
LEMMA Spaces ==
  ASSUME NEW data \in Seq(Symbol), NEW n \in 0 .. Len(data), NEW from \in Nat,
         NEW stale \in Stale,
         NEW i \in from .. n, NEW k \in 1 .. n, k = i + 1
  PROVE  i \in Places(data, from, n, Space, stale) <=> data[k] = " "
<1>1. Space \in Seq(Symbol) /\ Len(Space) = 1 /\ Space[1] = " "
  BY OneSpace
<1>2. i \in Places(data, from, n, Space, stale)
        <=> \A j \in 1 .. Len(Space) : data[i + j] = Space[j]
  <2>1. i + Len(Space) <= n
    <3>1. Len(Space) = 1
      BY OneSpace
    <3> QED
      BY <3>1
  <2> QED
    BY <1>1, <2>1, PlacesInData, Zenon
<1>3. (\A j \in 1 .. Len(Space) : data[i + j] = Space[j])
        <=> data[k] = Space[1]
  <2>1. Len(Space) = 1
    BY OneSpace
  <2> QED
    BY <2>1
<1> QED
  BY <1>1, <1>2, <1>3, Zenon

\* An end of line within the data is a CR and a LF.
LEMMA Ends ==
  ASSUME NEW data \in Seq(Symbol), NEW n \in 0 .. Len(data), NEW from \in Nat,
         NEW stale \in Stale, NEW i \in from .. n,
         NEW k \in 1 .. n, k = i + 1, NEW l \in 1 .. n, l = k + 1
  PROVE  i \in Places(data, from, n, Blank, stale)
           <=> data[k] = "CR" /\ data[l] = "LF"
<1>1. Blank \in Seq(Symbol) /\ Len(Blank) = 2
  BY Lines
<1>2. i \in Places(data, from, n, Blank, stale)
        <=> \A j \in 1 .. Len(Blank) : data[i + j] = Blank[j]
  <2>1. i + Len(Blank) <= n
    BY <1>1
  <2> QED
    BY <1>1, <2>1, PlacesInData, Zenon
<1>3. (\A j \in 1 .. Len(Blank) : data[i + j] = Blank[j])
        <=> data[k] = Blank[1] /\ data[l] = Blank[2]
  BY <1>1
<1> QED
  BY <1>2, <1>3, Letters, Zenon

\* What starts an end of line within the data is a CR.
LEMMA EndsStart ==
  ASSUME NEW data \in Seq(Symbol), NEW n \in 0 .. Len(data), NEW from \in Nat,
         NEW stale \in Stale, NEW i \in from .. n,
         NEW k \in 1 .. n, k = i + 1,
         i \in Places(data, from, n, Blank, stale)
  PROVE  data[k] = "CR"
<1>1. Blank \in Seq(Symbol) /\ Len(Blank) = 2
  BY Lines
<1>2. 1 \in 1 .. Len(Blank) /\ i + 1 <= n
  BY <1>1
<1>3. data[i + 1] = Blank[1]
  <2>1. \A m \in Places(data, from, n, Blank, stale) :
          \A j \in 1 .. Len(Blank) : m + j <= n => data[m + j] = Blank[j]
    BY <1>1, PlacesInData, Zenon
  <2> QED
    BY <1>2, <2>1, Zenon
<1> QED
  BY <1>3, Letters, Zenon

-----------------------------------------------------------------------------
(* The request line. *)

\* With the line in, its length is found; with nothing or the first word,
\* none is.
LEMMA RequiredIs ==
  ASSUME NEW r \in Request, NEW n \in 0 .. Len(Bytes(r)), NEW stale \in Stale,
         NEW more \in 0 .. Far
  PROVE  /\ n >= 6 => RequiredLen(Bytes(r), n, stale, more) = 6
         /\ n \in {0, 2} => RequiredLen(Bytes(r), n, stale, more) = None
<1> DEFINE data == Bytes(r)
           method == FirstMatch(data, 0, n, Space, stale)
           url == FirstMatch(data, method + 1, n, Space, stale)
           rest == FirstMatch(data, method + url + 2, n, Blank, stale)
           len == RequiredLen(data, n, stale, more)
<1>1. len = IF method <= 0 THEN None
            ELSE IF method + 1 > n THEN Past(n, 5, more)
            ELSE IF url <= 0 THEN None
            ELSE IF method + url + 2 > n THEN Past(n, 3, more)
            ELSE IF rest = None THEN None
            ELSE method + url + 2 + rest + 2
  BY Zenon DEF RequiredLen
<1>2. IsRequest(r)
  BY Symbols
<1>3. data \in Seq(Symbol) /\ n \in 0 .. Len(data) /\ n \in Nat
  <2>1. data \in Seq(Symbol) /\ n \in 0 .. Len(data)
    BY <1>2, Zenon DEF IsRequest
  <2> HIDE DEF data
  <2> QED
    BY <2>1
<1>4. Space \in Seq(Symbol) /\ Blank \in Seq(Symbol)
  BY Lines, OneSpace, Zenon
<1> HIDE DEF data, len, method, url, rest
<1>5. method \in Nat \/ method = None
  BY <1>3, <1>4, FirstMatchIs, Zenon DEF method
<1>6. method \in Nat => url \in Nat \/ url = None
  <2>1. ASSUME method \in Nat PROVE method + 1 \in Nat
    BY <2>1
  <2> QED
    BY <1>3, <1>4, <2>1, FirstMatchIs, Zenon DEF url
<1>7. ASSUME NEW from \in Nat, NEW found \in Nat,
             found = FirstMatch(data, from, n, Space, stale)
      PROVE  found + from \in from .. n
  <2>1. found # None
    BY DEF None
  <2>2. found + from \in Places(data, from, n, Space, stale)
    BY <1>3, <1>4, <1>7, <2>1, FirstMatchIs, Zenon
  <2> QED
    BY <1>3, <1>4, <2>2, PlacesInData, Zenon
<1>8. ASSUME n = 0 PROVE len = None
  <2>1. ASSUME method \in Nat PROVE method = 0
    <3>1. method + 0 \in 0 .. n
      BY <1>7, <2>1 DEF method
    <3> QED
      BY <1>8, <2>1, <3>1
  <2> QED
    BY <1>1, <1>5, <2>1 DEF None
<1>9. /\ data[1] = "method" /\ data[2] = " " /\ data[3] = "url"
      /\ data[4] = " " /\ data[5] = "CR" /\ data[6] = "LF"
      /\ "method" # " " /\ "url" # " "
  <2>1. "method" # " " /\ "url" # " "
    OBVIOUS
  <2> QED
    BY <1>2, <2>1, Zenon DEF IsRequest, data
<1>10. ASSUME n >= 2 PROVE method = 1
  <2>1. 0 \in 0 .. n /\ 1 \in 0 .. n /\ 0 \in Nat /\ 0 + 1 = 1 /\ 1 + 1 = 2
        /\ 1 \in 1 .. n /\ 2 \in 1 .. n
    BY <1>3, <1>10
  <2>2. 0 + 1 \in Places(data, 0, n, Space, stale)
    BY <1>3, <1>9, <2>1, Spaces, Zenon
  <2>3. 0 \notin Places(data, 0, n, Space, stale)
    BY <1>3, <1>9, <2>1, Spaces, Zenon
  <2> QED
    BY <1>3, <1>4, <2>1, <2>2, <2>3, FirstIs, Zenon DEF method
<1>11. ASSUME n = 2 PROVE len = None
  <2>1. method = 1 /\ method + 1 = 2
    BY <1>10, <1>11
  <2>2. ASSUME url \in Nat PROVE url = 0
    <3>1. url + 2 \in 2 .. n
      BY <1>7, <2>1, <2>2 DEF url
    <3> QED
      BY <1>11, <2>2, <3>1
  <2>3. url <= 0
    BY <1>6, <2>1, <2>2 DEF None
  <2> QED
    BY <1>1, <1>11, <2>1, <2>3
<1>12. ASSUME n >= 6 PROVE len = 6
  <2>1. method = 1
    BY <1>10, <1>12, <1>3
  <2>2. url = 1
    <3>1. 2 \in 2 .. n /\ 3 \in 2 .. n /\ 2 \in Nat /\ 2 + 1 = 3 /\ 3 + 1 = 4
          /\ 3 \in 1 .. n /\ 4 \in 1 .. n
      BY <1>3, <1>12
    <3>2. 2 + 1 \in Places(data, 2, n, Space, stale)
      BY <1>3, <1>9, <3>1, Spaces, Zenon
    <3>3. 2 \notin Places(data, 2, n, Space, stale)
      BY <1>3, <1>9, <3>1, Spaces, Zenon
    <3>4. method + 1 = 2
      BY <2>1
    <3> QED
      BY <1>3, <1>4, <3>1, <3>2, <3>3, <3>4, FirstIs, Zenon DEF url
  <2>3. rest = 0
    <3>1. /\ 4 \in 4 .. n /\ 5 \in 1 .. n /\ 4 + 1 = 5
          /\ 6 \in 1 .. n /\ 5 + 1 = 6
      BY <1>3, <1>12
    <3>2. 4 \in Nat
      OBVIOUS
    <3>3. 4 \in Places(data, 4, n, Blank, stale)
      <4>1. 4 \in Places(data, 4, n, Blank, stale)
              <=> data[5] = "CR" /\ data[6] = "LF"
        BY <1>3, <3>1, <3>2, Ends
      <4> QED
        BY <1>9, <4>1, Zenon
    <3>4. method + url + 2 = 4
      BY <2>1, <2>2
    <3> QED
      BY <1>3, <1>4, <3>1, <3>3, <3>4, <3>2, FirstIs, Zenon DEF rest
  <2> QED
    BY <1>1, <1>12, <2>1, <2>2, <2>3 DEF None
<1> QED
  BY <1>8, <1>11, <1>12 DEF len, data
-----------------------------------------------------------------------------
(* The headers. *)

\* What OptionalFrom is made of when it starts behind the request line.
Kind == {"none", "cut", "whole"}
LineEnds(r, n, stale) == Places(Bytes(r), 6, n, Blank, stale)
BlankEnds(r, n, stale) ==
  LET ends == LineEnds(r, n, stale)
  IN {p \in ends : p = 6 \/ p - BlankLen \in ends}
Stops(r, n, stale) ==
  BlankEnds(r, n, stale)
    \cup {p \in LineEnds(r, n, stale) : p + BlankLen >= n}
Stop(r, n, stale) == Min(Stops(r, n, stale))
HeaderEnds(r, n, stale) ==
  {p \in LineEnds(r, n, stale) \ BlankEnds(r, n, stale) :
     Stops(r, n, stale) = {} \/ p <= Stop(r, n, stale)}
LastStart(r, n, stale) ==
  Max({6} \cup {p + BlankLen :
                  p \in HeaderEnds(r, n, stale) \ {Stop(r, n, stale)}})
FirstHeader(r, n, stale) ==
  IF HeaderEnds(r, n, stale) = {} THEN "none"
  ELSE HeaderIn(Bytes(r), 6, Min(HeaderEnds(r, n, stale)))
BadLine(r, n, stale) ==
  \/ FirstHeader(r, n, stale) = "bad" \/ Stops(r, n, stale) = {}
  \/ /\ Stop(r, n, stale) \notin BlankEnds(r, n, stale)
     /\ HeaderIn(Bytes(r), LastStart(r, n, stale), Stop(r, n, stale)) = "bad"
EndsWithin(r, n, stale) ==
  \/ Stop(r, n, stale) \in BlankEnds(r, n, stale)
  \/ Stop(r, n, stale) + BlankLen = n
Parse(r, n, stale, more) == OptionalFrom(Bytes(r), 6, n, stale, more)

\* What parse_optional gives where it does not go on behind the data.
LEMMA ParseIs ==
  ASSUME NEW r \in Request, NEW n \in 6 .. Len(Bytes(r)), NEW stale \in Stale,
         NEW more \in 0 .. Far
  PROVE  LET parse == Parse(r, n, stale, more)
             name == FirstHeader(r, n, stale)
         IN /\ n = 6 =>
                 parse.len = 0 /\ parse.header = "none" /\ ~parse.astray
            /\ n > 6 =>
                 /\ parse.header = IF name = "bad" THEN "none" ELSE name
                 /\ BadLine(r, n, stale) =>
                      parse.len = None /\ ~parse.astray
                 /\ ~BadLine(r, n, stale) /\ EndsWithin(r, n, stale) =>
                      parse.len = Stop(r, n, stale) + 2 - 6 /\ ~parse.astray
<1> DEFINE parse == Parse(r, n, stale, more)
           name == FirstHeader(r, n, stale)
           bad == BadLine(r, n, stale)
           within == EndsWithin(r, n, stale)
           stop == Stop(r, n, stale)
           beyond == IF more < stop + 2 * BlankLen - n THEN None
                     ELSE n + more - 6
           behind == Past(0, BlankLen, more)
<1>1. parse = [len |-> IF 6 = n THEN 0
                       ELSE IF 6 > n THEN behind
                       ELSE IF bad THEN None
                       ELSE IF within THEN stop + BlankLen - 6
                       ELSE beyond,
               header |-> IF 6 >= n \/ name = "bad" THEN "none" ELSE name,
               astray |-> 6 > n \/ (6 < n /\ ~bad /\ ~within)]
  BY Zenon DEF Parse, OptionalFrom, FirstHeader, BadLine, EndsWithin, Stop,
               HeaderEnds, LastStart, Stops, BlankEnds, LineEnds
<1>2. n \in Nat /\ n >= 6
  BY Lengths
<1> HIDE DEF parse, name, bad, within, stop, beyond, behind
<1>3. /\ parse.len = IF 6 = n THEN 0
                     ELSE IF 6 > n THEN behind
                     ELSE IF bad THEN None
                     ELSE IF within THEN stop + BlankLen - 6
                     ELSE beyond
      /\ parse.header = IF 6 >= n \/ name = "bad" THEN "none" ELSE name
  BY <1>1
<1>4. parse.astray <=> 6 > n \/ (6 < n /\ ~bad /\ ~within)
  BY <1>1, Zenon
<1>5. ~(6 > n) /\ (n = 6 => ~(6 < n)) /\ (n > 6 => ~(6 >= n) /\ 6 # n)
  BY <1>2
<1>6. n = 6 => parse.len = 0 /\ ~parse.astray /\ parse.header = "none"
  <2>1. n = 6 => parse.len = 0 /\ parse.header = "none"
    BY <1>3
  <2> QED
    BY <1>4, <1>5, <2>1, Zenon
<1>7. n > 6 => parse.header = IF name = "bad" THEN "none" ELSE name
  BY <1>3, <1>5, Zenon
<1>8. n > 6 /\ bad => parse.len = None /\ ~parse.astray
  BY <1>3, <1>4, <1>5, Zenon
<1>9. n > 6 /\ ~bad /\ within => parse.len = stop + BlankLen - 6
  BY <1>3, <1>5, Zenon
<1>10. n > 6 /\ ~bad /\ within => ~parse.astray
  BY <1>4, <1>5, Zenon
<1> QED
  BY <1>6, <1>7, <1>8, <1>9, <1>10, Zenon
     DEF parse, name, bad, within, stop, BlankLen

\* Where line ends may lie, and the first of those that end the loop.
LEMMA StopIs ==
  ASSUME NEW r \in Request, NEW n \in 6 .. Len(Bytes(r)), NEW stale \in Stale
  PROVE  /\ LineEnds(r, n, stale) \subseteq 6 .. n
         /\ \A m \in Stops(r, n, stale) :
              (\A p \in Stops(r, n, stale) : m <= p) => Stop(r, n, stale) = m
         /\ \A m \in HeaderEnds(r, n, stale) :
              (\A p \in HeaderEnds(r, n, stale) : m <= p) =>
                FirstHeader(r, n, stale) = HeaderIn(Bytes(r), 6, m)
<1>1. Bytes(r) \in Seq(Symbol)
  BY Symbols, Zenon DEF IsRequest
<1>2. n \in 0 .. Len(Bytes(r)) /\ n \in Nat
  BY Lengths
<1>3. LineEnds(r, n, stale) \subseteq 6 .. n
  <2>1. 6 \in Nat /\ Blank \in Seq(Symbol)
    BY Lines
  <2> QED
    BY <1>1, <1>2, <2>1, PlacesInData, Zenon DEF LineEnds
<1>4. LineEnds(r, n, stale) \subseteq Nat
  BY <1>2, <1>3
<1>5. Stops(r, n, stale) \subseteq Nat
  BY <1>4 DEF Stops, BlankEnds
<1>6. HeaderEnds(r, n, stale) \subseteq Nat
  BY <1>4 DEF HeaderEnds
<1>7. ASSUME NEW m \in Stops(r, n, stale),
             \A p \in Stops(r, n, stale) : m <= p
      PROVE  Stop(r, n, stale) = m
  BY <1>5, <1>7, LeastIs, Zenon DEF Stop
<1>8. ASSUME NEW m \in HeaderEnds(r, n, stale),
             \A p \in HeaderEnds(r, n, stale) : m <= p
      PROVE  FirstHeader(r, n, stale) = HeaderIn(Bytes(r), 6, m)
  <2>1. Min(HeaderEnds(r, n, stale)) = m
    BY <1>6, <1>8, LeastIs, Zenon
  <2> QED
    BY <1>8, <2>1, Zenon DEF FirstHeader
<1> QED
  BY <1>3, <1>7, <1>8, Zenon

\* What the headers come to unless the data end where more may match behind
\* them, and once the head is there.
WellParsed(r, n, stale, more) ==
  LET parse == Parse(r, n, stale, more)
  IN /\ parse.len > 0 =>
          /\ 6 + parse.len \in {Len(r.head) - 2, Len(r.head)}
          /\ 6 + parse.len <= n
          /\ r = Get \/ parse.header = "whole"
     /\ \/ r = Get \/ parse.header = "whole"
        \/ parse.header = "none" /\ ~parse.astray
     /\ n >= Len(r.head) => parse.len > 0 /\ 6 + parse.len = Len(r.head)

\* A request without headers: the only line end behind the request line is
\* the blank line.
LEMMA ParseGet ==
  ASSUME NEW r \in Request, IsGet(r), NEW n \in 6 .. Len(Bytes(r)), n # 7,
         NEW stale \in Stale, NEW more \in 0 .. Far
  PROVE  WellParsed(r, n, stale, more)
<1> DEFINE ends == LineEnds(r, n, stale)
           blank == BlankEnds(r, n, stale)
           stops == Stops(r, n, stale)
           stop == Stop(r, n, stale)
           headers == HeaderEnds(r, n, stale)
           parse == Parse(r, n, stale, more)
<1>1. /\ Len(Bytes(r)) = 8 /\ Len(r.head) = 8 /\ r = Get
      /\ n \in {6, 8}
  BY DEF IsGet
<1>2. CASE n = 6
  <2>1. parse.len = 0
    BY <1>2, ParseIs, Zenon
  <2> QED
    BY <1>1, <1>2, <2>1 DEF WellParsed
<1>3. CASE n = 8
  <2>1. Bytes(r) \in Seq(Symbol) /\ Bytes(r)[7] = "CR" /\ Bytes(r)[8] = "LF"
    BY Symbols, Zenon DEF IsRequest, IsGet
  <2>2. 6 \in ends
    <3>1. /\ n \in 0 .. Len(Bytes(r)) /\ 6 \in 6 .. n /\ 7 \in 1 .. n
          /\ 8 \in 1 .. n /\ 6 + 1 = 7 /\ 7 + 1 = 8 /\ 6 \in Nat
      BY <1>1, <1>3
    <3> QED
      BY <2>1, <3>1, Ends DEF LineEnds
  <2>3. 6 \in blank /\ 6 \in stops
    BY <2>2, Zenon DEF Stops, BlankEnds
  <2>4. ends \subseteq 6 .. n
    BY StopIs, Zenon
  <2>5. stops \subseteq ends
    BY DEF Stops, BlankEnds
  <2>6. stop = 6
    <3>1. \A p \in stops : 6 <= p
      BY <2>4, <2>5
    <3> QED
      BY <2>3, <3>1, StopIs, Zenon
  <2>7. headers = {}
    <3>1. ASSUME NEW p \in headers PROVE FALSE
      <4>1. p \in ends /\ p \notin blank /\ (stops = {} \/ p <= stop)
        BY <3>1 DEF HeaderEnds
      <4>2. p = 6
        BY <2>3, <2>4, <2>6, <4>1
      <4> QED
        BY <2>3, <4>1, <4>2
    <3> QED
      BY <3>1
  <2>8. FirstHeader(r, n, stale) = "none"
    BY <2>7, Zenon DEF FirstHeader
  <2>9. ~BadLine(r, n, stale) /\ EndsWithin(r, n, stale)
    BY <2>3, <2>6, <2>8 DEF BadLine, EndsWithin
  <2>10. n > 6
    BY <1>3
  <2>11. parse.len = stop + 2 - 6
    BY <2>9, <2>10, ParseIs, Zenon
  <2>12. parse.len = 2
    BY <2>6, <2>11
  <2> HIDE DEF parse
  <2> QED
    BY <1>1, <1>3, <2>12 DEF WellParsed, parse
<1> QED
  BY <1>1, <1>2, <1>3

\* One with a header: two line ends behind the request line, of the header
\* and of the blank line.
LEMMA ParsePost ==
  ASSUME NEW r \in Request, IsPost(r), NEW n \in 6 .. Len(Bytes(r)),
         n \notin {8, 9, 10, 12}, NEW stale \in Stale, NEW more \in 0 .. Far
  PROVE  WellParsed(r, n, stale, more)
<1> DEFINE ends == LineEnds(r, n, stale)
           blank == BlankEnds(r, n, stale)
           stops == Stops(r, n, stale)
           stop == Stop(r, n, stale)
           headers == HeaderEnds(r, n, stale)
           name == FirstHeader(r, n, stale)
           parse == Parse(r, n, stale, more)
           data == Bytes(r)
<1>1. /\ r.length \in Nat /\ Len(r.head) = 13
      /\ Len(data) = 13 + r.length
  BY Symbols, Zenon DEF IsRequest, IsPost
<1>2. data \in Seq(Symbol)
  BY Symbols, Zenon DEF IsRequest
<1>3. /\ data[10] = "CR" /\ data[11] = "LF"
      /\ data[12] = "CR" /\ data[13] = "LF"
  BY Zenon DEF IsPost
<1>4. /\ data[7] # "CR" /\ data[8] # "CR" /\ data[9] # "CR"
      /\ data[11] # "CR" /\ data[13] # "CR"
      /\ \A i \in 14 .. 13 + r.length : data[i] # "CR"
  BY Zenon DEF IsPost
<1>5. HeaderIn(data, 6, 9) = "whole" /\ HeaderIn(data, 6, 7) = "bad"
  <2>1. /\ data[7] = "key" /\ data[8] = ": " /\ data[9] = "value"
    BY Zenon DEF IsPost
  <2>2. 8 \in 6 + 1 .. 9 /\ 6 + 1 = 7 /\ \A i \in 6 + 1 .. 7 : i = 7
    OBVIOUS
  <2>3. HeaderIn(data, 6, 9) = "whole"
    <3>1. /\ data[6 + 1] = "key" /\ data[9] # ": "
          /\ "whole" # "bad" /\ data[8] = ": "
      BY <2>1, <2>2
    <3> QED
      BY <2>1, <2>2, <3>1, Zenon DEF HeaderIn
  <2>4. HeaderIn(data, 6, 7) = "bad"
    <3>1. data[7] # ": "
      BY <2>1
    <3> QED
      BY <2>2, <3>1, Zenon DEF HeaderIn
  <2> QED
    BY <2>3, <2>4
<1>6. /\ ends \subseteq 6 .. n
      /\ \A m \in stops : (\A p \in stops : m <= p) => stop = m
      /\ \A m \in headers :
           (\A p \in headers : m <= p) => name = HeaderIn(data, 6, m)
  BY StopIs, Zenon
<1>7. /\ ends = Places(data, 6, n, Blank, stale)
      /\ blank = {p \in ends : p = 6 \/ p - 2 \in ends}
      /\ stops = blank \cup {p \in ends : p + 2 >= n}
      /\ headers = {p \in ends \ blank : stops = {} \/ p <= stop}
  BY Zenon DEF LineEnds, BlankEnds, Stops, HeaderEnds, BlankLen
<1>8. /\ BadLine(r, n, stale) <=>
           \/ name = "bad" \/ stops = {}
           \/ /\ stop \notin blank
              /\ HeaderIn(data, LastStart(r, n, stale), stop) = "bad"
      /\ EndsWithin(r, n, stale) <=> stop \in blank \/ stop + 2 = n
      /\ LastStart(r, n, stale)
           = Max({6} \cup {p + 2 : p \in headers \ {stop}})
      /\ name = IF headers = {} THEN "none"
                ELSE HeaderIn(data, 6, Min(headers))
  BY Zenon DEF BadLine, EndsWithin, LastStart, FirstHeader, BlankLen
<1>9. /\ n = 6 => parse.len = 0 /\ parse.header = "none" /\ ~parse.astray
      /\ n > 6 =>
           /\ parse.header = IF name = "bad" THEN "none" ELSE name
           /\ BadLine(r, n, stale) => parse.len = None /\ ~parse.astray
           /\ ~BadLine(r, n, stale) /\ EndsWithin(r, n, stale) =>
                parse.len = stop + 2 - 6 /\ ~parse.astray
  BY ParseIs, Zenon
<1> HIDE DEF ends, blank, stops, stop, headers, name, parse, data
<1>10. n \in 0 .. Len(data) /\ n \in Nat /\ 6 \in Nat /\ n <= 13 + r.length
  BY <1>1 DEF data
<1>11. ASSUME NEW p \in ends, p + 1 <= n PROVE p = 9 \/ p = 11
  <2>1. p \in 6 .. n /\ p + 1 \in 1 .. n
    BY <1>6, <1>10, <1>11
  <2>2. data[p + 1] = "CR"
    BY <1>2, <1>7, <1>10, <1>11, <2>1, EndsStart
  <2>3. \/ p + 1 \in {7, 8, 9, 11, 13} \/ p + 1 \in 14 .. 13 + r.length
        \/ p = 9 \/ p = 11
    BY <1>1, <1>10, <2>1
  <2> QED
    BY <1>4, <2>2, <2>3
<1>12. ASSUME NEW p \in ends PROVE p = n \/ p = 9 \/ p = 11
  BY <1>6, <1>10, <1>11
<1>13. ASSUME n >= 11 PROVE 9 \in ends
  <2>1. /\ 9 \in 6 .. n /\ 10 \in 1 .. n /\ 11 \in 1 .. n
        /\ 9 + 1 = 10 /\ 10 + 1 = 11
    BY <1>10, <1>13
  <2> QED
    BY <1>2, <1>3, <1>7, <1>10, <2>1, Ends
<1>14. ASSUME n >= 13 PROVE 11 \in ends
  <2>1. /\ 11 \in 6 .. n /\ 12 \in 1 .. n /\ 13 \in 1 .. n
        /\ 11 + 1 = 12 /\ 12 + 1 = 13
    BY <1>10, <1>14
  <2> QED
    BY <1>2, <1>3, <1>7, <1>10, <2>1, Ends
<1>15. n >= 11 => 9 \notin blank
  <2>1. n >= 11 => 7 \notin ends
    BY <1>10, <1>12
  <2> QED
    BY <1>7, <2>1
<1>16. ASSUME n >= 11, stop = 9 \/ stop = 11 PROVE name = "whole"
  <2>1. 9 \in headers
    BY <1>7, <1>13, <1>15, <1>16
  <2>2. \A p \in headers : 9 <= p
    BY <1>7, <1>12, <1>16
  <2> QED
    BY <1>5, <1>6, <2>1, <2>2, Zenon
<1>17. CASE n = 6
  <2>1. parse.len = 0 /\ parse.header = "none" /\ ~parse.astray
    BY <1>9, <1>17
  <2> QED
    BY <1>1, <1>17, <2>1 DEF WellParsed, parse
<1>18. CASE n = 7
  <2>1. \A p \in ends : p = 7
    <3>1. \A p \in ends : p \in 6 .. 7 /\ (p = 7 \/ p = 9 \/ p = 11)
      BY <1>6, <1>12, <1>18
    <3> QED
      BY <3>1
  <2>2. parse.len = None /\ parse.header = "none" /\ ~parse.astray
    <3>1. n > 6
      BY <1>18
    <3>2. BadLine(r, n, stale) /\ (name = "none" \/ name = "bad")
      <4>1. CASE ends = {}
        <5>1. stops = {} /\ headers = {}
          BY <1>7, <4>1
        <5> QED
          BY <1>8, <5>1, Zenon
      <4>2. CASE ends # {}
        <5>1. ends = {7}
          BY <2>1, <4>2
        <5>2. blank = {}
          BY <1>7, <5>1
        <5>3. stops = {7}
          BY <1>7, <1>18, <5>1, <5>2
        <5>4. stop = 7
          BY <1>6, <5>3
        <5>5. headers = {7}
          BY <1>7, <5>1, <5>2, <5>3, <5>4
        <5>6. name = "bad"
          BY <1>5, <1>6, <5>5
        <5> QED
          BY <1>8, <5>6, Zenon
      <4> QED
        BY <4>1, <4>2
    <3> QED
      BY <1>9, <3>1, <3>2
  <2> QED
    BY <1>1, <1>18, <2>2 DEF WellParsed, parse, None
<1>19. CASE n = 11
  <2>1. 9 \in stops /\ \A p \in stops : 9 <= p
    BY <1>7, <1>12, <1>13, <1>19
  <2>2. stop = 9
    BY <1>6, <2>1, Zenon
  <2>3. headers = {9}
    BY <1>7, <1>12, <1>13, <1>15, <1>19, <2>2
  <2>4. name = "whole" /\ n > 6
    BY <1>16, <1>19, <2>2
  <2>5. LastStart(r, n, stale) = 6
    <3>1. {6} \cup {p + 2 : p \in headers \ {stop}} = {6}
      BY <2>2, <2>3
    <3>2. LastStart(r, n, stale) = Max({6})
      BY <1>8, <3>1, Zenon
    <3> QED
      BY <3>2 DEF Max
  <2>6. ~BadLine(r, n, stale)
    <3>1. HeaderIn(data, LastStart(r, n, stale), stop) = "whole"
      BY <1>5, <2>2, <2>5, Zenon
    <3>2. "whole" # "bad" /\ stops # {}
      BY <2>1
    <3> QED
      BY <1>8, <2>4, <3>1, <3>2, Zenon
  <2>7. EndsWithin(r, n, stale)
    BY <1>8, <1>19, <2>2
  <2>8. parse.len = stop + 2 - 6 /\ parse.header = "whole"
    BY <1>9, <2>4, <2>6, <2>7
  <2> QED
    BY <1>1, <1>19, <2>2, <2>8 DEF WellParsed, parse
<1>20. CASE n >= 13
  <2>1. 11 \in blank /\ 11 \in stops /\ 9 \notin stops
    BY <1>7, <1>10, <1>13, <1>14, <1>15, <1>20
  <2>2. \A p \in stops : 11 <= p
    BY <1>7, <1>12, <1>20, <2>1
  <2>3. stop = 11
    BY <1>6, <2>1, <2>2, Zenon
  <2>4. name = "whole" /\ n > 6
    BY <1>16, <1>20, <2>3
  <2>5. ~BadLine(r, n, stale) /\ EndsWithin(r, n, stale)
    <3>1. "whole" # "bad" /\ stops # {} /\ stop \in blank
      BY <2>1, <2>3
    <3> QED
      BY <1>8, <2>4, <3>1, Zenon
  <2>6. parse.len = stop + 2 - 6 /\ parse.header = "whole"
    BY <1>9, <2>4, <2>5
  <2> QED
    BY <1>1, <1>20, <2>3, <2>6 DEF WellParsed, parse
<1>21. n = 6 \/ n = 7 \/ n = 11 \/ n >= 13
  BY <1>10
<1> QED
  BY <1>17, <1>18, <1>19, <1>20, <1>21

\* So of every request the headers are parsed as they should be.
LEMMA OptionalIs ==
  ASSUME NEW r \in Request, NEW n \in 6 .. Len(Bytes(r)), ~Exposes(r, n),
         NEW stale \in Stale, NEW more \in 0 .. Far
  PROVE  WellParsed(r, n, stale, more)
<1>1. n \in Nat
  BY Lengths
<1> QED
  BY <1>1, SafeCuts, Symbols, ParseGet, ParsePost, Zenon

-----------------------------------------------------------------------------
(* The reader. *)

\* Unless the data ended where more may match behind them, a length is taken
\* only when it lies within what has arrived, and then it is one of those
\* above.
Cut ==
  /\ request \in Request /\ waiting \in BOOLEAN
  /\ size \in 0 .. Len(Bytes(request)) /\ first \in 0 .. size
  /\ size = 0 =>
       stage \in {"required", "failed"} /\ header = "none" /\ ~exposed
  /\ stage \in {"done", "failed"} => ~waiting
  /\ ~exposed =>
       /\ stage \in {"required", "optional"} => ~Exposes(request, size)
       /\ request = Get \/ header \in {"none", "whole"}
       /\ stage \in {"optional", "content", "done"} =>
            required_len = 6 /\ 6 <= size
       /\ stage \in {"content", "done"} =>
            /\ Offset \in {Len(request.head) - 2, Len(request.head)}
            /\ Offset <= size /\ content_len = request.length
       /\ stage = "done" => size - Offset >= content_len

\* With the head in one piece, both parse at once, and the reader waits only
\* for the rest of the body.
Whole ==
  WholeHead =>
    /\ ~exposed
    /\ stage \in {"content", "done"} => Offset = Len(request.head)
    /\ waiting => stage = "content" /\ size - Offset < request.length

Inv == Cut /\ Whole

\* The head and the body are all of a request.
LEMMA Sizes ==
  ASSUME NEW r \in Request
  PROVE  /\ Len(r.head) \in Nat /\ Len(r.head) >= 8 /\ r.length \in Nat
         /\ Len(Bytes(r)) = Len(r.head) + r.length
<1>1. r.length \in Nat
  BY Symbols, Zenon DEF IsRequest
<1>2. CASE IsGet(r)
  <2>1. Len(r.head) = 8 /\ r.length = 0 /\ Len(Bytes(r)) = 8
    BY <1>2, Zenon DEF IsGet
  <2> QED
    BY <2>1
<1>3. CASE IsPost(r)
  <2>1. Len(r.head) = 13 /\ Len(Bytes(r)) = 13 + r.length
    BY <1>3, Zenon DEF IsPost
  <2> QED
    BY <1>1, <2>1
<1> QED
  BY <1>2, <1>3, Symbols

\* A reader that has received nothing satisfies the invariant.
LEMMA InitInv == Init => Inv
<1> SUFFICES ASSUME Init PROVE Inv
  OBVIOUS
<1>1. /\ request \in Request /\ size = 0 /\ first = 0 /\ waiting = FALSE
      /\ stage = "required" /\ header = "none" /\ exposed = FALSE
  BY DEF Init
<1>2. /\ Len(request.head) \in Nat /\ Len(request.head) >= 8
      /\ Len(Bytes(request)) \in Nat
  BY <1>1, Sizes
<1>3. ~WholeHead
  BY <1>1, <1>2 DEF WholeHead
<1>4. size \in 0 .. Len(Bytes(request)) /\ first \in 0 .. size
  BY <1>1, <1>2
<1>5. ~Exposes(request, size)
  <2>1. 0 \in Nat
    OBVIOUS
  <2> QED
    BY <1>1, <2>1, SafeCuts, Zenon
<1>6. Cut
  BY <1>1, <1>4, <1>5 DEF Cut
<1> QED
  BY <1>3, <1>6 DEF Inv, Whole

\* The line is refused, found where it is, or waited for; and with the head
\* there, it is found.
LEMMA ParseRequiredInv ==
  ASSUME Inv, ParseRequired PROVE Inv'
<1>1. /\ stage = "required" /\ waiting = FALSE /\ request \in Request
      /\ size \in 0 .. Len(Bytes(request)) /\ first \in 0 .. size
      /\ size = 0 => header = "none" /\ ~exposed
      /\ ~exposed => /\ ~Exposes(request, size)
                     /\ request = Get \/ header \in {"none", "whole"}
      /\ WholeHead => ~exposed
  BY DEF Inv, Cut, Whole, ParseRequired
<1>2. UNCHANGED <<request, size, optional_len, header, content_len, first,
                  exposed>>
  BY DEF ParseRequired
<1>3. /\ Len(request.head) \in Nat /\ Len(request.head) >= 8
      /\ size \in Nat /\ first \in Nat
  BY <1>1, Sizes
<1>4. CASE size >= MaxRequired
  <2>1. stage' = "failed" /\ waiting' = FALSE
    BY <1>1, <1>4 DEF ParseRequired
  <2> QED
    BY <1>1, <1>2, <2>1 DEF Inv, Cut, Whole, WholeHead
<1>5. CASE ~(size >= MaxRequired)
  <2>1. PICK stale \in Stale, more \in 0 .. Far :
          LET len == RequiredLen(Bytes(request), size, stale, more) IN
            /\ required_len' = len
            /\ waiting' = (len = None)
            /\ stage' = IF len = None THEN stage ELSE "optional"
    BY <1>5 DEF ParseRequired
  <2> DEFINE len == RequiredLen(Bytes(request), size, stale, more)
  <2>2. /\ required_len' = len
        /\ waiting' = (len = None)
        /\ stage' = IF len = None THEN stage ELSE "optional"
    BY <2>1, Zenon
  <2>3. (size >= 6 => len = 6) /\ (size \in {0, 2} => len = None)
    BY <1>1, RequiredIs, Zenon
  <2>4. ~exposed => size \in {0, 2} \/ size >= 6
    BY <1>1, <1>3, SafeCuts, Zenon
  <2> HIDE DEF len
  <2>5. waiting' \in BOOLEAN /\ (waiting' <=> len = None)
    BY <2>2, Zenon
  <2>6. CASE len = None
    <3>1. stage' = "required" /\ waiting'
      BY <1>1, <2>2, <2>5, <2>6, Zenon
    <3>2. size < 6
      BY <1>3, <2>3, <2>6 DEF None
    <3>3. ~WholeHead'
      BY <1>1, <1>2, <1>3, <3>2 DEF WholeHead
    <3>4. Cut'
      BY <1>1, <1>2, <2>5, <3>1 DEF Cut
    <3> QED
      BY <3>3, <3>4 DEF Inv, Whole
  <2>7. CASE len # None
    <3>1. stage' = "optional" /\ ~waiting' /\ size # 0
      BY <2>2, <2>3, <2>5, <2>7, Zenon
    <3>2. ~exposed => required_len' = 6 /\ 6 <= size
      BY <1>3, <2>2, <2>3, <2>4, <2>7
    <3>3. Cut'
      BY <1>1, <1>2, <2>5, <3>1, <3>2 DEF Cut
    <3>4. Whole'
      BY <1>1, <1>2, <3>1 DEF Whole, WholeHead
    <3> QED
      BY <3>3, <3>4 DEF Inv
  <2> QED
    BY <2>6, <2>7
<1> QED
  BY <1>4, <1>5

\* Likewise for the headers.
LEMMA ParseOptionalInv ==
  ASSUME Inv, ParseOptional PROVE Inv'
<1>1. /\ stage = "optional" /\ waiting = FALSE /\ request \in Request
      /\ size \in 0 .. Len(Bytes(request)) /\ first \in 0 .. size
      /\ size # 0
      /\ ~exposed => /\ ~Exposes(request, size)
                     /\ request = Get \/ header \in {"none", "whole"}
                     /\ required_len = 6 /\ 6 <= size
      /\ WholeHead => ~exposed
  BY DEF Inv, Cut, Whole, ParseOptional
<1>2. UNCHANGED <<request, size, required_len, first, exposed>>
  BY DEF ParseOptional
<1>3. /\ Len(request.head) \in Nat /\ Len(request.head) >= 8
      /\ size \in Nat /\ first \in Nat /\ request.length \in Nat
  BY <1>1, Sizes
<1>4. PICK stale \in Stale, more \in 0 .. Far, behind \in {"none", "stale"} :
        LET parsed ==
              OptionalFrom(Bytes(request), required_len, size, stale, more)
            found == IF parsed.header = "none" /\ parsed.astray THEN behind
                     ELSE parsed.header
        IN /\ optional_len' = parsed.len
           /\ header' = IF header = "none" THEN found ELSE header
           /\ IF Parsed(parsed.len, size)
              THEN stage' = "content" /\ waiting' = FALSE
              ELSE stage' = stage /\ waiting' = TRUE
  BY DEF ParseOptional
<1> DEFINE parsed ==
             OptionalFrom(Bytes(request), required_len, size, stale, more)
           len == parsed.len
           found == IF parsed.header = "none" /\ parsed.astray THEN behind
                    ELSE parsed.header
<1>5. /\ optional_len' = len
      /\ header' = IF header = "none" THEN found ELSE header
      /\ \/ len > 0 /\ stage' = "content" /\ waiting' = FALSE
         \/ ~(len > 0) /\ stage' = "optional" /\ waiting' = TRUE
  BY <1>1, <1>4, Zenon DEF Parsed
<1>6. stage' = "content" =>
        content_len' \in ContentLengths(request, header')
  BY DEF ParseOptional
<1>7. ASSUME ~exposed
      PROVE  /\ len > 0 =>
                  /\ 6 + len \in {Len(request.head) - 2, Len(request.head)}
                  /\ 6 + len <= size
                  /\ request = Get \/ found = "whole"
             /\ request = Get \/ found \in {"none", "whole"}
             /\ size >= Len(request.head) =>
                  len > 0 /\ 6 + len = Len(request.head)
  <2>1. required_len = 6 /\ ~Exposes(request, size)
    BY <1>1, <1>7
  <2>2. size \in 6 .. Len(Bytes(request))
    BY <1>1, <1>3, <1>7, Sizes
  <2>3. parsed = Parse(request, size, stale, more)
    BY <2>1, Zenon DEF Parse
  <2>4. WellParsed(request, size, stale, more)
    BY <1>1, <2>1, <2>2, OptionalIs, Zenon
  <2> HIDE DEF parsed
  <2>5. /\ len > 0 =>
             /\ 6 + len \in {Len(request.head) - 2, Len(request.head)}
             /\ 6 + len <= size
             /\ request = Get \/ parsed.header = "whole"
        /\ \/ request = Get \/ parsed.header = "whole"
           \/ parsed.header = "none" /\ ~parsed.astray
        /\ size >= Len(request.head) =>
             len > 0 /\ 6 + len = Len(request.head)
    BY <2>3, <2>4, Zenon DEF WellParsed
  <2>6. parsed.header = "whole" => found = "whole"
    BY Zenon
  <2>7. parsed.header = "none" /\ ~parsed.astray => found = "none"
    BY Zenon
  <2> QED
    BY <2>5, <2>6, <2>7, Zenon
<1> HIDE DEF len, found
<1>8. WholeHead' = WholeHead
  BY <1>2 DEF WholeHead
<1>9. ~exposed => request = Get \/ header' \in {"none", "whole"}
  BY <1>1, <1>5, <1>7
<1>10. WholeHead => size >= Len(request.head)
  BY <1>1, <1>3 DEF WholeHead
<1>11. CASE ~(len > 0)
  <2>1. waiting' = TRUE /\ stage' = "optional"
    BY <1>5, <1>11
  <2>2. ~WholeHead'
    BY <1>1, <1>7, <1>8, <1>10, <1>11
  <2>3. Cut'
    BY <1>1, <1>2, <1>9, <2>1 DEF Cut
  <2> QED
    BY <2>2, <2>3 DEF Inv, Whole
<1>12. CASE len > 0
  <2>1. waiting' = FALSE /\ stage' = "content"
    BY <1>5, <1>12
  <2>2. Offset' = required_len + len
    BY <1>2, <1>5 DEF Offset
  <2>3. ASSUME ~exposed
        PROVE  /\ Offset' \in {Len(request.head) - 2, Len(request.head)}
               /\ Offset' <= size /\ content_len' = request.length
    <3>1. /\ 6 + len \in {Len(request.head) - 2, Len(request.head)}
          /\ 6 + len <= size /\ Offset' = 6 + len
      BY <1>1, <1>7, <1>12, <2>2, <2>3
    <3>2. request = Get \/ header' = "whole"
      BY <1>1, <1>5, <1>7, <1>12, <2>3
    <3>3. content_len' \in ContentLengths(request, header')
      BY <1>6, <2>1
    <3>4. content_len' = request.length
      <4>1. Get.length = 0
        BY GetSymbols
      <4> QED
        BY <3>2, <3>3, <4>1 DEF ContentLengths
    <3> QED
      BY <3>1, <3>4
  <2>4. Cut'
    BY <1>1, <1>2, <1>9, <2>1, <2>3 DEF Cut
  <2>5. ASSUME WholeHead PROVE Offset' = Len(request.head)
    BY <1>1, <1>7, <1>10, <2>2, <2>5
  <2>6. Whole'
    BY <1>1, <1>2, <1>8, <2>1, <2>5 DEF Whole
  <2> QED
    BY <2>4, <2>6 DEF Inv
<1> QED
  BY <1>11, <1>12

\* The content is taken when it is there, and waited for when it is not.
LEMMA RecvContentInv ==
  ASSUME Inv, RecvContent PROVE Inv'
<1>1. UNCHANGED <<request, size, required_len, optional_len, header,
                  content_len, first, exposed>>
  BY DEF RecvContent
<1>2. Offset' = Offset /\ WholeHead' = WholeHead
  BY <1>1 DEF Offset, WholeHead
<1>3. stage = "content" /\ size \in Nat /\ size # 0
  BY Sizes DEF RecvContent, Inv, Cut
<1>4. \/ stage' = "done" /\ waiting' = FALSE /\ ContentReceived
      \/ stage' = "content" /\ waiting' = TRUE /\ ~ContentReceived
  BY <1>3 DEF RecvContent
<1>5. ~exposed => /\ Offset \in Int /\ Offset <= size
                  /\ content_len = request.length /\ request.length \in Nat
  BY <1>3, Sizes DEF Inv, Cut
<1>6. ~exposed => (ContentReceived <=> size - Offset >= content_len)
  BY <1>3, <1>5 DEF ContentReceived
<1>7. Cut'
  <2>1. CASE stage' = "done" /\ waiting' = FALSE /\ ContentReceived
    BY <1>1, <1>2, <1>3, <1>6, <2>1 DEF Inv, Cut
  <2>2. CASE stage' = "content" /\ waiting' = TRUE /\ ~ContentReceived
    BY <1>1, <1>2, <1>3, <2>2 DEF Inv, Cut
  <2> QED
    BY <1>4, <2>1, <2>2
<1>8. ASSUME WholeHead, waiting'
      PROVE  stage' = "content" /\ size - Offset < request.length
  <2>1. ~exposed /\ stage' = "content" /\ ~ContentReceived
    BY <1>4, <1>8 DEF Inv, Whole
  <2> QED
    BY <1>3, <1>5, <1>6, <2>1
<1>9. Whole'
  BY <1>1, <1>2, <1>3, <1>8 DEF Inv, Whole
<1> QED
  BY <1>7, <1>9 DEF Inv

\* More data move no length that has been found.
LEMMA RecvInv ==
  ASSUME Inv, Recv PROVE Inv'
<1>1. PICK n \in 1 .. MaxChunk :
        /\ size + n <= Len(Bytes(request))
        /\ size' = size + n
        /\ first' = IF size = 0 THEN n ELSE first
        /\ exposed' = (exposed \/ (stage # "content"
                                   /\ Exposes(request, size')))
  BY DEF Recv
<1>2. /\ waiting /\ waiting' = FALSE
      /\ UNCHANGED <<request, stage, required_len, optional_len, header,
                     content_len>>
  BY DEF Recv
<1>3. Offset' = Offset
  BY <1>2 DEF Offset
<1>4. /\ request \in Request /\ size \in Nat /\ first \in 0 .. size
      /\ n \in Nat /\ n > 0
      /\ Len(request.head) \in Nat /\ Len(request.head) >= 8
      /\ Len(Bytes(request)) \in Nat
  BY <1>1, Sizes, Bounds DEF Inv, Cut
<1>5. /\ size' \in 0 .. Len(Bytes(request)) /\ first' \in 0 .. size'
      /\ size' # 0 /\ size' >= size /\ size' \in Nat
  BY <1>1, <1>4
<1>6. /\ ~exposed' => ~exposed
      /\ ~exposed' => stage = "content" \/ ~Exposes(request, size')
      /\ exposed' => exposed \/ Exposes(request, size')
  BY <1>1, Zenon
<1>7. Cut'
  <2>1. stage \notin {"done", "failed"}
    BY <1>2 DEF Inv, Cut
  <2>2. ASSUME ~exposed'
        PROVE  /\ stage \in {"required", "optional"} =>
                    ~Exposes(request, size')
               /\ request = Get \/ header \in {"none", "whole"}
               /\ stage \in {"optional", "content"} =>
                    required_len = 6 /\ 6 <= size'
               /\ stage = "content" =>
                    /\ Offset \in {Len(request.head) - 2, Len(request.head)}
                    /\ Offset <= size' /\ content_len = request.length
    <3>1. ~exposed
      BY <1>6, <2>2
    <3>2. stage \in {"required", "optional"} => ~Exposes(request, size')
      BY <1>6, <2>2
    <3>3. request = Get \/ header \in {"none", "whole"}
      BY <3>1 DEF Inv, Cut
    <3>4. stage \in {"optional", "content"} => required_len = 6 /\ 6 <= size
      BY <3>1 DEF Inv, Cut
    <3>5. stage = "content" =>
            /\ Offset \in {Len(request.head) - 2, Len(request.head)}
            /\ Offset <= size /\ content_len = request.length
      BY <3>1 DEF Inv, Cut
    <3>6. 6 <= size => 6 <= size'
      BY <1>4, <1>5
    <3>7. stage = "content" => Offset <= size'
      BY <1>4, <1>5, <3>5
    <3> QED
      BY <3>2, <3>3, <3>4, <3>5, <3>6, <3>7
  <2> QED
    BY <1>2, <1>3, <1>4, <1>5, <2>1, <2>2 DEF Cut
<1>8. Whole'
  <2> SUFFICES ASSUME WholeHead'
               PROVE  /\ ~exposed'
                      /\ stage = "content" => Offset = Len(request.head)
    <3>1. stage \notin {"done"}
      BY <1>2 DEF Inv, Cut
    <3> QED
      BY <1>2, <1>3, <3>1 DEF Whole
  <2>1. size' >= Len(request.head)
    BY <1>2, <1>4, <1>5 DEF WholeHead
  <2>2. ~Exposes(request, size')
    BY <1>4, <1>5, <2>1, SafeCuts, Zenon
  <2>3. CASE size = 0
    <3>1. ~exposed /\ stage # "content"
      BY <2>3 DEF Inv, Cut
    <3> QED
      BY <1>6, <2>2, <3>1
  <2>4. CASE size # 0
    <3>1. WholeHead
      BY <1>1, <1>2, <2>4 DEF WholeHead
    <3>2. ~exposed /\ (stage = "content" => Offset = Len(request.head))
      BY <3>1 DEF Inv, Whole
    <3> QED
      BY <1>6, <2>2, <3>2
  <2> QED
    BY <2>3, <2>4
<1> QED
  BY <1>7, <1>8 DEF Inv

\* A reader that gives up makes no claim.
LEMMA RecvFailsInv ==
  ASSUME Inv, RecvFails PROVE Inv'
<1>1. UNCHANGED <<request, size, required_len, optional_len, header,
                  content_len, first, exposed>>
  BY DEF RecvFails
<1>2. stage' = "failed" /\ waiting' = FALSE
  BY DEF RecvFails
<1> QED
  BY <1>1, <1>2 DEF Inv, Cut, Whole, WholeHead

\* Every step keeps the invariant.
LEMMA NextInv == Inv /\ [Next]_vars => Inv'
<1> SUFFICES ASSUME Inv, [Next]_vars PROVE Inv'
  OBVIOUS
<1>1. CASE UNCHANGED vars
  BY <1>1 DEF vars, Inv, Cut, Whole, WholeHead, Offset
<1> QED
  BY <1>1, ParseRequiredInv, ParseOptionalInv, RecvContentInv, RecvInv,
     RecvFailsInv DEF Next, Finished

\* So it always holds.
LEMMA AlwaysInv == Spec => []Inv
  BY InitInv, NextInv, PTL DEF Spec
-----------------------------------------------------------------------------
(* What the handler is given. *)

\* The handler of a request whose head came in one piece is given its body,
\* and no length that points outside the data, for every body, every cut and
\* whatever lies in the buffer behind the data.
THEOREM AlwaysBodyExact == Spec => []BodyExact
<1>1. Inv => BodyExact
  <2> SUFFICES ASSUME Inv, WholeHead
               PROVE  /\ stage \in {"optional", "content", "done"} =>
                           required_len <= size
                      /\ stage \in {"content", "done"} => Offset <= size
                      /\ stage = "done" => Content = Body(request.length)
    BY DEF BodyExact
  <2>1. ~exposed /\ request \in Request
    BY DEF Inv, Cut, Whole
  <2>2. stage \in {"optional", "content", "done"} => required_len <= size
    BY <2>1 DEF Inv, Cut
  <2>3. stage \in {"content", "done"} => Offset <= size
    BY <2>1 DEF Inv, Cut
  <2>4. ASSUME stage = "done" PROVE Content = Body(request.length)
    <3>1. /\ size \in 0 .. Len(Bytes(request))
          /\ Offset = Len(request.head) /\ content_len = request.length
          /\ size - Offset >= content_len
      BY <2>1, <2>4 DEF Inv, Cut, Whole
    <3>2. /\ request.length \in Nat /\ Len(request.head) \in Nat
          /\ size = Len(request.head) + request.length
      BY <2>1, <3>1, Sizes
    <3>3. ASSUME NEW i \in 1 .. request.length
          PROVE  Offset + i <= size /\ Bytes(request)[Offset + i] = "body"
      <4>1. Offset + i <= size /\ request.length # 0
        BY <3>1, <3>2
      <4>2. IsPost(request)
        BY <2>1, <4>1, Symbols DEF IsGet
      <4>3. /\ Len(request.head) = 13
            /\ \A j \in 14 .. 13 + request.length : Bytes(request)[j] = "body"
        BY <4>2, Zenon DEF IsPost
      <4>4. Offset + i \in 14 .. 13 + request.length
        BY <3>1, <3>2, <4>3
      <4> QED
        BY <4>1, <4>3, <4>4
    <3>4. Content = [i \in 1 .. request.length |->
                       IF Offset + i <= size THEN Bytes(request)[Offset + i]
                       ELSE "stale"]
      BY <3>1 DEF Content
    <3>5. Content = [i \in 1 .. request.length |-> "body"]
      BY <3>3, <3>4
    <3> QED
      BY <3>5 DEF Body
  <2> QED
    BY <2>2, <2>3, <2>4
<1> QED
  BY <1>1, AlwaysInv, PTL

\* The reader of such a request does not wait once all of it has arrived.
THEOREM AlwaysNeverStarves == Spec => []NeverStarves
<1>1. Inv => NeverStarves
  <2> SUFFICES ASSUME Inv, WholeHead, size = Len(Bytes(request)), waiting
               PROVE  FALSE
    BY DEF NeverStarves
  <2>1. /\ request \in Request /\ stage = "content"
        /\ Offset = Len(request.head) /\ size - Offset < request.length
    BY DEF Inv, Cut, Whole
  <2> QED
    BY <2>1, Sizes
<1> QED
  BY <1>1, AlwaysInv, PTL

\* Unless the head is cut where a pattern may match behind the data, no
\* request line or header is taken before it is complete.
THEOREM AlwaysHeadWellCut == Spec => []HeadWellCut
<1>1. Inv => HeadWellCut
  <2>1. Len(Line) = 6
    BY Lines
  <2> QED
    BY <2>1, Zenon DEF Inv, Cut, HeadWellCut
<1> QED
  BY <1>1, AlwaysInv, PTL
=============================================================================
