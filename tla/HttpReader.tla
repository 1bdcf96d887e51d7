----------------------------- MODULE HttpReader -----------------------------
(***************************************************************************)
(* How the server's handlers and the devices read one request from a       *)
(* socket (http.h): recv_required_req, recv_optional_headers and           *)
(* recv_content each receive until their part can be parsed, whatever      *)
(* pieces TCP delivers.  A byte that matters to the parser is a symbol; a  *)
(* run of bytes that does not is one symbol too.  The buffer is longer     *)
(* than the data in it, and find_first_match compares the pattern with     *)
(* what follows the data too, so the two symbols there are an input.  A    *)
(* match there makes the length that remains, which is unsigned, wrap      *)
(* around; the reader then works on with lengths that point behind the     *)
(* data, and where such a search ends is an input too.                     *)
(***************************************************************************)
EXTENDS Naturals, Integers, Sequences, FiniteSetsExt

CONSTANTS MaxBody,      \* longest body of a POST, in symbols
          MaxChunk,     \* most symbols one recv returns
          MaxRequired,  \* max_required: symbols that have the line refused
          Stale,        \* what may lie in the buffer after the data
          Far           \* bound: how far behind the data a search that has
                        \* left them ends

ASSUME HttpAssumption ==
  /\ MaxBody \in Nat /\ MaxChunk \in Nat \ {0} /\ Far \in Nat
  /\ MaxRequired \in Nat \ 0 .. MaxChunk
  /\ Stale \subseteq Seq({" ", "CR", "LF", "none"}) /\ Stale # {}
  /\ \A stale \in Stale : Len(stale) = 2

\* "GET /id \r\n" or "POST /train \r\n", "Content-Length: v\r\n", "\r\n".
Line == <<"method", " ", "url", " ", "CR", "LF">>
Header == <<"key", ": ", "value", "CR", "LF">>
Blank == <<"CR", "LF">>
Space == <<" ">>
Get == [head |-> Line \o Blank, length |-> 0]
Post(n) == [head |-> Line \o Header \o Blank, length |-> n]
Request == {Get} \cup {Post(n) : n \in 0 .. MaxBody}

Body(n) == [i \in 1 .. n |-> "body"]
Bytes(r) == r.head \o Body(r.length)

VARIABLES request,       \* what the peer sends
          size,          \* sb->size: how much of it has arrived
          stage,         \* "required", "optional", "content", "done" or
                         \* "failed"
          waiting,       \* the reader sits in recv
          required_len, optional_len,
          header,        \* Content-Length: "none", "whole", "cut" short, or
                         \* "stale", of an earlier use of the memory
          content_len,   \* what the handler makes of it
          first,         \* history: size after the first recv
          exposed        \* history: a piece of the head ended where a
                         \* pattern may match behind it

vars == <<request, size, stage, waiting, required_len, optional_len, header,
          content_len, first, exposed>>

Init ==
  /\ request \in Request
  /\ size = 0 /\ stage = "required" /\ waiting = FALSE
  /\ required_len = 0 /\ optional_len = 0 /\ header = "none"
  /\ content_len = 0 /\ first = 0 /\ exposed = FALSE

None == -1

\* Where a pattern occurs from position from (from 0) on, at one of the n
\* symbols of data or right after them.
Places(data, from, n, pattern, stale) ==
  LET buffer == SubSeq(data, 1, n) \o stale
  IN {i \in from .. n : /\ i + Len(pattern) <= n + 2
                        /\ \A j \in 1 .. Len(pattern) :
                             buffer[i + j] = pattern[j]}

\* find_first_match: how far from there it occurs first.
FirstMatch(data, from, n, pattern, stale) ==
  LET places == Places(data, from, n, pattern, stale)
  IN IF places = {} THEN None ELSE Min(places) - from

\* Behind a match that does not end within the data the search goes on with
\* a length that has wrapped around, through memory nobody filled: to a
\* match more symbols behind the data, or in vain.  Fewer than least are not
\* possible.
Past(n, least, more) == IF more < least THEN None ELSE n + more

\* parse_required_req: the length of the request line, or None.  A second
\* word of a symbol at least, two spaces and an end of line are five symbols.
RequiredLen(data, n, stale, more) ==
  LET method == FirstMatch(data, 0, n, Space, stale)
      url == FirstMatch(data, method + 1, n, Space, stale)
      rest == FirstMatch(data, method + url + 2, n, Blank, stale)
  IN IF method <= 0 THEN None
     ELSE IF method + 1 > n THEN Past(n, 5, more)
     ELSE IF url <= 0 THEN None
     ELSE IF method + url + 2 > n THEN Past(n, 3, more)
     ELSE IF rest = None THEN None
     ELSE method + url + 2 + rest + 2

BlankLen == 2

\* What parse_optional takes the line between two positions for: "bad"
\* without a colon, "none" if it is another header than Content-Length, and
\* "cut" when it ends behind the colon.  (A value cut in the middle is a wrong
\* one too, but one symbol here.)
HeaderIn(data, from, to) ==
  IF \A i \in from + 1 .. to : data[i] # ": " THEN "bad"
  ELSE IF data[from + 1] # "key" THEN "none"
  ELSE IF data[to] = ": " THEN "cut" ELSE "whole"

\* The loop of parse_optional goes from line end to line end.  It stops at
\* the first that ends a blank line, or has no data behind it; the lines
\* before are headers, and so is the last unless it is blank.  header is the
\* first of them.  When the last line ends behind the data, or the loop
\* starts there, it goes on through the memory behind: astray.
OptionalFrom(data, from, n, stale, more) ==
  LET ends == Places(data, from, n, Blank, stale)
      blank == {p \in ends : p = from \/ p - BlankLen \in ends}
      stops == blank \cup {p \in ends : p + BlankLen >= n}
      stop == Min(stops)
      lines == {p \in ends \ blank : stops = {} \/ p <= stop}
      start == Max({from} \cup {p + BlankLen : p \in lines \ {stop}})
      one == IF lines = {} THEN "none" ELSE HeaderIn(data, from, Min(lines))
      bad == \/ one = "bad" \/ stops = {}
             \/ (stop \notin blank /\ HeaderIn(data, start, stop) = "bad")
      within == stop \in blank \/ stop + BlankLen = n
  IN [len |-> IF from = n THEN 0
              ELSE IF from > n THEN Past(0, BlankLen, more)
              ELSE IF bad THEN None
              ELSE IF within THEN stop + BlankLen - from
              ELSE IF more < stop + 2 * BlankLen - n THEN None
              ELSE n + more - from,
      header |-> IF from >= n \/ one = "bad" THEN "none" ELSE one,
      astray |-> from > n \/ (from < n /\ ~bad /\ ~within)]

-----------------------------------------------------------------------------
\* Once max_required bytes are in, the line is refused without a look at it.
\* Nothing compares the length with what has arrived.
ParseRequired ==
  /\ stage = "required" /\ ~waiting
  /\ IF size >= MaxRequired
     THEN stage' = "failed" /\ UNCHANGED <<waiting, required_len>>
     ELSE \E stale \in Stale, more \in 0 .. Far :
            LET len == RequiredLen(Bytes(request), size, stale, more) IN
            /\ required_len' = len
            /\ waiting' = (len = None)
            /\ stage' = IF len = None THEN stage ELSE "optional"
  /\ UNCHANGED <<request, size, optional_len, header, content_len, first,
                 exposed>>

\* get_header and strtol: what is taken for the length of the body.  Without
\* Content-Length there is nothing to receive: the handler serves the
\* request, a GET, or refuses it.
ContentLengths(r, kept) ==
  IF kept \in {"none", "cut"} \/ r = Get THEN {0}
  ELSE IF kept = "whole" THEN {r.length}
  ELSE 0 .. MaxBody

\* A result of 0 or None makes the reader receive and parse again.  The
\* headers found are kept, those it met behind the data too, and get_header
\* takes the first Content-Length.
NothingBehind(len, n) == len > 0 /\ required_len + len = n  \* mutant: no body
NotZero(len, n) == len # 0                        \* mutant: accepts None
Parsed(len, n) == len > 0
ParseOptional ==
  /\ stage = "optional" /\ ~waiting
  /\ \E stale \in Stale, more \in 0 .. Far, behind \in {"none", "stale"} :
       LET parsed ==
             OptionalFrom(Bytes(request), required_len, size, stale, more)
           found == IF parsed.header = "none" /\ parsed.astray THEN behind
                    ELSE parsed.header
       IN /\ optional_len' = parsed.len
          /\ header' = IF header = "none" THEN found ELSE header
          /\ IF Parsed(parsed.len, size)
             THEN stage' = "content" /\ waiting' = FALSE
             ELSE stage' = stage /\ waiting' = TRUE
  /\ IF stage' = "content"
     THEN content_len' \in ContentLengths(request, header')
     ELSE UNCHANGED content_len
  /\ UNCHANGED <<request, size, required_len, first, exposed>>

\* recv_content: behind the data, size - offset wraps around.
Offset == required_len + optional_len
OneShort ==                                       \* mutant: off by one
  Offset > size \/ size - Offset >= content_len - 1
ContentReceived == Offset > size \/ size - Offset >= content_len
RecvContent ==
  /\ stage = "content" /\ ~waiting
  /\ IF ContentReceived THEN stage' = "done" /\ waiting' = FALSE
                        ELSE stage' = stage /\ waiting' = TRUE
  /\ UNCHANGED <<request, size, required_len, optional_len, header,
                 content_len, first, exposed>>

\* Where a head may be cut so that a pattern matches behind the data, if what
\* lies there happens to be the rest of it or all of it: before a space,
\* before the value, and before either symbol of an end of line, except that
\* an end of line all of which is missing must not be the blank line's.
Exposes(r, n) ==
  /\ n < Len(r.head)
  /\ \/ Bytes(r)[n + 1] \in {" ", "value", "LF"}
     \/ /\ Bytes(r)[n + 1] = "CR"
        /\ n # Len(r.head) - BlankLen

\* recv returns what has arrived, at most a buffer of it.
Recv ==
  /\ waiting
  /\ \E n \in 1 .. MaxChunk :
       /\ size + n <= Len(Bytes(request))
       /\ size' = size + n
       /\ first' = IF size = 0 THEN n ELSE first
       /\ exposed' = (exposed \/ (stage # "content"
                                  /\ Exposes(request, size')))
  /\ waiting' = FALSE
  /\ UNCHANGED <<request, stage, required_len, optional_len, header,
                 content_len>>

\* It times out, or the connection is closed.
RecvFails ==
  /\ waiting
  /\ stage' = "failed" /\ waiting' = FALSE
  /\ UNCHANGED <<request, size, required_len, optional_len, header,
                 content_len, first, exposed>>

Finished == stage \in {"done", "failed"} /\ UNCHANGED vars

Next ==
  \/ ParseRequired \/ ParseOptional \/ RecvContent \/ Recv \/ RecvFails
  \/ Finished

Spec == Init /\ [][Next]_vars

-----------------------------------------------------------------------------
\* What the handler takes for the body: substr(sb.data, offset, content_len),
\* which reads on behind the data.
Content ==
  [i \in 1 .. content_len |->
     IF Offset + i <= size THEN Bytes(request)[Offset + i] ELSE "stale"]

\* The head came in one piece, with or without some of the body.
WholeHead == first >= Len(request.head)

\* A handler whose request had its head in one piece is given the body, the
\* whole body and nothing else, however that is cut; and no length it computes
\* points outside the data, whatever lies in the buffer behind them.
BodyExact ==
  WholeHead =>
    /\ stage \in {"optional", "content", "done"} => required_len <= size
    /\ stage \in {"content", "done"} => Offset <= size
    /\ stage = "done" => Content = Body(request.length)

\* The reader of such a request never waits for bytes when all of them have
\* arrived: it would be refused after READ_TIMEOUT, or hang on a device.
NeverStarves ==
  WholeHead /\ size = Len(Bytes(request)) => ~waiting

\* Wherever else the head is cut, in however many pieces it comes, the request
\* line and the headers are taken only when they are complete: the body never
\* starts inside a line, outside the data or after its first byte, and its
\* length is that of Content-Length.  (Where a pattern matches behind the
\* data, each of these goes wrong.)
HeadWellCut ==
  ~exposed /\ stage \in {"content", "done"} =>
    /\ required_len = Len(Line)
    /\ Offset \in {Len(request.head) - 2, Len(request.head)}
    /\ Offset <= size /\ content_len = request.length
=============================================================================
