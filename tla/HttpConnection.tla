--------------------------- MODULE HttpConnection ---------------------------
(***************************************************************************)
(* One connection of HttpServer (src/src/http/httpserver.cpp): the parser  *)
(* (module HttpContent), the chain of middlewares, the router, and the     *)
(* decision to close.  HttpsConnection puts TLS before it.                 *)
(*                                                                         *)
(* A read event delivers any number of pieces of the stream and runs       *)
(* handleReqeust once, as one action.  A read event that brings nothing    *)
(* but a part of a line delivers no piece and runs it as well.             *)
(***************************************************************************)
EXTENDS HttpContent, SequencesExt

CONSTANTS
  Requests,     \* what a browser may send: method, path, length, flaw
  KeyCBs,       \* m_key_CBs: keys of plain callbacks
  KeyFunCBs,    \* m_key_Fun_CBs: keys of callback objects
  DynamicCBs,   \* m_dynamic_key_Fun_CBs: keys whose path ended in a star
  Layers,       \* number of middlewares in the chain
  Stoppers,     \* the middlewares whose forware may refuse a request
  Framed        \* whether the stream comes in TLS records

ASSUME LayersAssumption == Layers \in Nat /\ Stoppers \subseteq 1 .. Layers
ASSUME FramedAssumption == Framed \in BOOLEAN
ASSUME RequestsAssumption ==
  \A r \in Requests : r.length \in Lengths /\ r.flaw \in Flaws

VARIABLES
  sent,       \* requests the browser has sent
  alone,      \* whether each was sent after the answer to the one before
  wire,       \* pieces on their way
  buffer,     \* m_read_buffer
  parser,     \* HttpContent: m_parse_state and m_request
  responses,  \* responses sent
  conn        \* "open" or "closed"

vars == <<sent, alone, wire, buffer, parser, responses, conn>>

-----------------------------------------------------------------------------
(* MiddleWareChain; stop is the first middleware that refuses, 0 if none *)

\* What-if variant: a refusal counts the refusing layer twice
ForwardPastRefusal(stop) == IF stop = 0 THEN Layers + 1 ELSE stop + 1

\* forward: the number of middlewares that ran, one more when all agreed
Forward(stop) == IF stop = 0 THEN Layers + 1 ELSE stop

\* backward(layer): the middlewares whose backware runs
Backward(layer) == 1 .. layer

-----------------------------------------------------------------------------
(* Router::route: the callbacks that may run, of which one does *)

NoCallBack == [table |-> "none", key |-> <<>>]

DynamicMatches(key) == {d \in DynamicCBs : d.path \in SubSeqs(key.path)}

\* Exact keys first; then any dynamic key whose text occurs in the path, in
\* the order of a hash table; the method of a dynamic key is not compared
Route(key) ==
  IF key \in KeyCBs THEN {[table |-> "key", key |-> key]}
  ELSE IF key \in KeyFunCBs THEN {[table |-> "fun", key |-> key]}
  ELSE IF DynamicMatches(key) # {}
       THEN {[table |-> "dynamic", key |-> d] : d \in DynamicMatches(key)}
       ELSE {NoCallBack}

Key(request) == [method |-> request.method, path |-> request.path]

-----------------------------------------------------------------------------
(* The handlers *)

TypeOK ==
  /\ sent \in Seq(Requests) /\ Len(sent) <= MaxRequests
  /\ alone \in BOOLEAN
  /\ wire \in Seq(Pieces) /\ buffer \in Seq(Pieces)
  /\ parser \in Contents /\ parser.state # "Complete" /\ parser.body = <<>>
  /\ Len(responses) <= MaxRequests
  /\ conn \in {"open", "closed"}

Init ==
  /\ sent = <<>> /\ alone = TRUE
  /\ wire = <<>> /\ buffer = <<>>
  /\ parser = Fresh
  /\ responses = <<>> /\ conn = "open"

\* The browser sends a request, perhaps before it has been answered
Send ==
  /\ conn = "open" /\ Len(sent) < MaxRequests
  /\ alone' = (alone /\ Len(responses) = Len(sent))
  /\ \E r \in Requests :
       /\ sent' = Append(sent, r)
       /\ wire' = wire \o Encode(r, Len(sent) + 1)
  /\ UNCHANGED <<buffer, parser, responses, conn>>

\* sendHttpResponse: the chain, the route if every middleware agreed, the
\* chain backwards, the response.  The connection is closed when no callback
\* ran; the header "Connection: close" is looked up in a request already reset.
SendHttpResponse(content, stop) ==
  LET layer == Forward(stop)
      candidates == IF layer = Layers + 1
                    THEN Route(Key(sent[content.line])) ELSE {NoCallBack}
  IN \E callback \in candidates :
       /\ responses' = Append(responses,
            [line |-> content.line, body |-> content.body, refused |-> stop,
             callback |-> callback, backward |-> Backward(layer - 1)])
       /\ parser' = Reset(content)
       /\ conn' = IF callback = NoCallBack THEN "closed" ELSE "open"

\* A read event delivers n pieces, which do not complete a request
ReadMore(n) ==
  LET p == ParseRequest(parser, buffer \o SubSeq(wire, 1, n)) IN
  /\ conn = "open"
  /\ p.content.state # "Complete"
  /\ parser' = p.content /\ buffer' = p.buffer
  /\ wire' = SubSeq(wire, n + 1, Len(wire))
  /\ UNCHANGED <<sent, alone, responses, conn>>

\* ... which complete a request.  The response 400 needs ~p.ok as well, and
\* the loop never ends in Complete with ok false: that branch cannot run.
ReadRequest(n) ==
  LET p == ParseRequest(parser, buffer \o SubSeq(wire, 1, n)) IN
  /\ conn = "open"
  /\ p.content.state = "Complete" /\ p.ok
  /\ buffer' = p.buffer
  /\ wire' = SubSeq(wire, n + 1, Len(wire))
  /\ \E stop \in {0} \cup Stoppers : SendHttpResponse(p.content, stop)
  /\ UNCHANGED <<sent, alone>>

\* How many pieces a read event may deliver: none, if it brings a part of a
\* line or of a record; a byte of a body has no parts
Deliverable ==
  {n \in 0 .. Len(wire) :
     n = 0 => Framed \/ (wire # <<>> /\ Head(wire).kind # "byte")}

HandleReqeust == \E n \in Deliverable : ReadMore(n) \/ ReadRequest(n)

\* The browser leaves
HandleClose ==
  /\ conn = "open" /\ conn' = "closed"
  /\ UNCHANGED <<sent, alone, wire, buffer, parser, responses>>

Next == Send \/ HandleReqeust \/ HandleClose

Spec == Init /\ [][Next]_vars

\* What was sent arrives, and each arrival runs the handler
FairSpec == Spec /\ WF_vars(HandleReqeust)

-----------------------------------------------------------------------------
(* Properties *)

\* Whatever the segmentation of the stream, and however requests are
\* pipelined, the handlers get the requests as they were sent: in order, each
\* with its own line and its own complete body, nothing of a neighbour.
HandledAsSent ==
  \A i \in DOMAIN responses :
    /\ responses[i].line = i
    /\ LET length == IF sent[i].length = NoLength THEN 0 ELSE sent[i].length
       IN  responses[i].body = [b \in 1 .. length |-> Piece("byte", i, b)]

\* A callback runs only for a request that every middleware let through, and
\* then the backware of all of them runs; and it is the one of the exact key if
\* there is one, never a dynamic route whose text the path contains.
RightCallback ==
  \A i \in DOMAIN responses :
    responses[i].callback # NoCallBack =>
      /\ responses[i].refused = 0 /\ responses[i].backward = 1 .. Layers
      /\ Key(sent[i]) \in KeyCBs \cup KeyFunCBs => responses[i].callback.table # "dynamic"

Flawless(i) == i \in DOMAIN sent /\ sent[i].flaw = "none"
Handled(i)  == i \in DOMAIN responses \/ conn = "closed"

\* Every well-formed request of a browser that waits for its answers is
\* answered, or the connection is closed.
EveryRequestAnswered ==
  \A i \in 1 .. MaxRequests : Flawless(i) ~> Handled(i) \/ ~alone

=============================================================================
