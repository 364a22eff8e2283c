----------------------------- MODULE HttpContent -----------------------------
(***************************************************************************)
(* The incremental parser of src/src/http/httpcontent.cpp, as operators.   *)
(*                                                                         *)
(* The byte stream is a sequence of pieces: a line, or one byte of a body. *)
(* A line of which only a part has arrived is a line that has not arrived: *)
(* findCRLF does not see it.                                               *)
(***************************************************************************)
EXTENDS Integers, Sequences

CONSTANT MaxRequests   \* bound: requests the browser sends

ASSUME MaxRequestsAssumption == MaxRequests \in Nat

NoLength == -1     \* no Content-Length header
Flaws    == {"none", "line", "header"}

-----------------------------------------------------------------------------
(* The stream of a request *)

Pieces == [kind : {"line", "header", "length", "blank", "byte", "flawed"},
           of : 1 .. MaxRequests, value : Nat]

Piece(kind, r, value) == [kind |-> kind, of |-> r, value |-> value]

\* The pieces of request number r; a flawed line lacks its spaces
Encode(request, r) ==
  << Piece(IF request.flaw = "line" THEN "flawed" ELSE "line", r, 0) >>
    \o << Piece(IF request.flaw = "header" THEN "flawed" ELSE "header", r, 0) >>
    \o (IF request.length = NoLength
        THEN <<>> ELSE << Piece("length", r, request.length) >>)
    \o << Piece("blank", r, 0) >>
    \o [b \in 1 .. request.length |-> Piece("byte", r, b)]

-----------------------------------------------------------------------------
(* HttpContent *)

States   == {"ParseRequestLine", "ParseHeader", "ParseBody", "Complete"}
Lengths  == {NoLength} \cup Nat

\* Only a Content-Length leads to a body
Contents ==
  {c \in [state : States, line : 0 .. MaxRequests, length : Lengths, body : Seq(Pieces)] :
     c.state = "ParseBody" => c.length # NoLength}

Fresh == [state |-> "ParseRequestLine", line |-> 0, length |-> NoLength, body |-> <<>>]

\* HttpContent::reset, with HttpRequest::reset
Reset(content) == Fresh

\* What parseRequest works on: the content, the buffer, has_more and ok
First(p) == IF p.buffer = <<>> THEN "nothing" ELSE Head(p.buffer).kind
Stall(p) == [p EXCEPT !.more = FALSE, !.ok = FALSE]

ParseRequestLine(p) ==
  IF First(p) = "line"
  THEN [p EXCEPT !.content.line = Head(p.buffer).of,
                 !.content.state = "ParseHeader",
                 !.buffer = Tail(@)]
  ELSE Stall(p)

\* The blank line ends the headers: a body follows if a Content-Length came
EndHeaders(p) ==
  [p EXCEPT !.content.state = IF p.content.length # NoLength
                              THEN "ParseBody" ELSE "Complete",
            !.buffer = Tail(@)]

ParseHeader(p) ==
  CASE First(p) = "header" -> [p EXCEPT !.buffer = Tail(@)]
    [] First(p) = "length" -> [p EXCEPT !.content.length = Head(p.buffer).value,
                                        !.buffer = Tail(@)]
    [] First(p) = "blank"  -> EndHeaders(p)
    [] OTHER               -> Stall(p)

\* What-if variant: what is there of the body is taken for all of it
ParseBodyShort(p) ==
  LET taken == IF Len(p.buffer) < p.content.length
               THEN Len(p.buffer) ELSE p.content.length
  IN  [p EXCEPT !.content.body = SubSeq(p.buffer, 1, taken),
                !.content.state = "Complete",
                !.buffer = SubSeq(@, taken + 1, Len(@))]

\* What-if variant: the body must be exceeded to be complete
ParseBodyLate(p) ==
  IF Len(p.buffer) > p.content.length
  THEN [p EXCEPT !.content.body = SubSeq(p.buffer, 1, p.content.length),
                 !.content.state = "Complete",
                 !.buffer = SubSeq(@, p.content.length + 1, Len(@))]
  ELSE Stall(p)

ParseBody(p) ==
  IF Len(p.buffer) >= p.content.length
  THEN [p EXCEPT !.content.body = SubSeq(p.buffer, 1, p.content.length),
                 !.content.state = "Complete",
                 !.buffer = SubSeq(@, p.content.length + 1, Len(@))]
  ELSE Stall(p)

ParseStep(p) ==
  CASE p.content.state = "ParseRequestLine"   -> ParseRequestLine(p)
    [] p.content.state = "ParseHeader"        -> ParseHeader(p)
    [] p.content.state = "ParseBody"          -> ParseBody(p)
    [] p.content.state = "Complete"           -> [p EXCEPT !.more = FALSE, !.ok = TRUE]

\* parseRequest: the loop runs while has_more
Parses == [content : Contents, buffer : Seq(Pieces), more : BOOLEAN, ok : BOOLEAN]

ParseLoop[p \in Parses] == IF p.more THEN ParseLoop[ParseStep(p)] ELSE p

ParseRequest(content, bytes) ==
  ParseLoop[[content |-> content, buffer |-> bytes, more |-> TRUE, ok |-> TRUE]]

=============================================================================
