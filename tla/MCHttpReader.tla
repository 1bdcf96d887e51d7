---------------------------- MODULE MCHttpReader ----------------------------
(* HttpReader on the instance TLC checks: what the pattern may match behind  *)
(* the data is nothing, a whole pattern, or the rest of one.                 *)
EXTENDS HttpReader

AnyStale == {<<"none", "none">>, <<" ", "none">>, <<"LF", "none">>,
             <<"CR", "LF">>}

\* parse_optional as the code has it, one find_first_match after another: at
\* position at, the first header read is kept.  Behind the data the search
\* needs more symbols than the end it starts from and another one.
Loop(data, from, n, stale, more) ==
  LET result(len, kept, astray) ==
        [len |-> len, header |-> kept, astray |-> astray]
      walk[at \in from .. n + 2, kept \in {"none", "cut", "whole"}] ==
        IF at = n THEN result(at - from, kept, FALSE)
        ELSE IF at > n
             THEN result(IF n + more >= at + BlankLen THEN n + more - from
                         ELSE None, kept, TRUE)
        ELSE LET len == FirstMatch(data, at, n, Blank, stale)
                 line == HeaderIn(data, at, at + len)
             IN IF len = 0
                THEN result(at - from + BlankLen, kept, FALSE)
                ELSE IF len = None \/ line = "bad"
                     THEN result(None, kept, FALSE)
                ELSE walk[at + len + BlankLen,
                          IF kept = "none" THEN line ELSE kept]
  IN walk[from, "none"]

\* From every position behind the shortest line it may be told of, it computes
\* what OptionalFrom says.
ASSUME LoopAssumption ==
  \A r \in Request, stale \in Stale, more \in 0 .. Far :
    \A n \in Len(Line) .. Len(Bytes(r)) : \A from \in Len(Line) .. n :
      OptionalFrom(Bytes(r), from, n, stale, more)
        = Loop(Bytes(r), from, n, stale, more)
=============================================================================
