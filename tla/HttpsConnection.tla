--------------------------- MODULE HttpsConnection ---------------------------
(***************************************************************************)
(* The same connection with TLS: SSLConnection                             *)
(* (src/src/tls/sslConnect.cpp) between the read event and the parser, and *)
(* the two ways through handleReqeust, while the handshake lasts and after *)
(* it.  OpenSSL works on memory: what arrives is written to m_in_bio, what *)
(* SSL_accept or SSL_read leaves there waits for the next call.            *)
(*                                                                         *)
(* What arrives is a sequence of records; a record holds pieces of the     *)
(* stream of HttpConnection.  A part of a record is a read event as well,  *)
(* and brings no record.                                                   *)
(***************************************************************************)
EXTENDS HttpContent, SequencesExt

CONSTANTS Requests, KeyCBs, KeyFunCBs, DynamicCBs, Layers, Stoppers

ASSUME LayersAssumption == Layers \in Nat /\ Stoppers \subseteq 1 .. Layers
ASSUME RequestsAssumption ==
  \A r \in Requests : r.length \in Lengths /\ r.flaw \in Flaws

VARIABLES
  sent, alone, parser, responses, conn,   \* as in HttpConnection
  buffer,      \* m_decrypted_buffer
  records,     \* records on their way
  bio,         \* records in m_in_bio when the handler has returned
  handshake,   \* what SSL_accept expects; "done" is m_is_connected
  browser      \* the browser's side of the handshake

httpVars == <<sent, alone, buffer, parser, responses>>
tlsVars  == <<records, bio, handshake>>
vars     == <<httpVars, conn, tlsVars, browser>>

Record(type, data) == [type |-> type, data |-> data]
Empty(type)        == Record(type, <<>>)

\* The pieces in a sequence of records
Payload(rs) == FlattenSeq([i \in DOMAIN rs |-> rs[i].data])

Plain == INSTANCE HttpConnection
           WITH Framed <- TRUE, wire <- Payload(bio \o records)

-----------------------------------------------------------------------------
(* SSLConnection *)

\* SSL_accept over the records given to it, and rt when the handshake is over
SSLAccept(expected, input, rt) ==
  IF input = <<>>
  THEN [rt |-> -1, state |-> expected, rest |-> <<>>]
  ELSE LET type == Head(input).type IN
       CASE type # expected ->
              [rt |-> 0, state |-> expected, rest |-> input]
         [] type = expected /\ expected = "hello" ->
              [rt |-> -1, state |-> "finished", rest |-> Tail(input)]
         [] type = expected /\ expected # "hello" ->
              [rt |-> rt, state |-> "done", rest |-> Tail(input)]

\* What-if variant: what follows the handshake stays in m_in_bio
AcceptKeepsRest(expected, input) == SSLAccept(expected, input, 1)

\* What-if variant: the handshake counts as complete with the first answer
AcceptEarly(expected, input) ==
  [SSLAccept(expected, input, 1) EXCEPT !.state = IF @ = "finished" THEN "done" ELSE @]

\* doTLSHandshake: -1 wants more (and has sent what is pending), 0 has failed,
\* 1 is complete, 2 is complete and has put the rest back into m_read_buffer
Accept(expected, input) ==
  SSLAccept(expected, input, IF Len(input) > 1 THEN 2 ELSE 1)

\* What-if variant: each SSL_read overwrites what the one before has read
DecryptDataLast(input) ==
  [failed |-> \E i \in DOMAIN input : input[i].type # "data",
   data   |-> IF input = <<>> THEN <<>> ELSE Last(input).data, rest |-> <<>>]

\* decryptData: SSL_read until it wants more; a close_notify or a broken record
\* fails the call, whatever was read before it
DecryptData(input) ==
  [failed |-> \E i \in DOMAIN input : input[i].type # "data",
   data   |-> Payload(input), rest |-> <<>>]

-----------------------------------------------------------------------------

\* Types, and the two sides agree on the handshake: the server takes it for
\* complete only after the browser's last message, and answers nothing before.
TypeOK ==
  /\ Plain!TypeOK
  /\ \A i \in DOMAIN (bio \o records) :
       (bio \o records)[i].type \in {"hello", "finished", "data", "close", "broken"}
  /\ handshake \in {"hello", "finished", "done"}
  /\ browser \in {"new", "greeted", "secure", "left"}
  /\ handshake = "done" => browser \in {"secure", "left"}
  /\ handshake # "done" => responses = <<>>

Init ==
  /\ records = <<>> /\ bio = <<>>
  /\ handshake = "hello" /\ browser = "new"
  /\ Plain!Init

-----------------------------------------------------------------------------
(* The browser *)

Transmit(rs) == records' = records \o rs

\* It speaks first, if it speaks TLS at all
Greet ==
  /\ conn = "open" /\ browser = "new"
  /\ \/ browser' = "greeted" /\ Transmit(<<Empty("hello")>>)
     \/ browser' = "left"    /\ Transmit(<<Empty("broken")>>)
  /\ UNCHANGED <<httpVars, conn, bio, handshake>>

\* It finishes when the answer of SSL_accept has come, and need not wait then
Finish ==
  /\ conn = "open" /\ browser = "greeted" /\ handshake = "finished"
  /\ browser' = "secure" /\ Transmit(<<Empty("finished")>>)
  /\ UNCHANGED <<httpVars, conn, bio, handshake>>

\* A request goes out in one record or in two
InRecords(pieces) ==
  { <<Record("data", pieces)>> } \cup
  { <<Record("data", SubSeq(pieces, 1, k)), Record("data", SubSeq(pieces, k + 1, Len(pieces)))>>
      : k \in 1 .. Len(pieces) - 1 }

Send ==
  /\ conn = "open" /\ browser = "secure" /\ Len(sent) < MaxRequests
  /\ alone' = (alone /\ Len(responses) = Len(sent))
  /\ \E r \in Requests :
       /\ sent' = Append(sent, r)
       /\ \E rs \in InRecords(Encode(r, Len(sent) + 1)) : Transmit(rs)
  /\ UNCHANGED <<buffer, parser, responses, conn, bio, handshake, browser>>

\* It says good-bye, or what it sends is damaged
Leave ==
  /\ conn = "open" /\ browser = "secure"
  /\ browser' = "left"
  /\ \E type \in {"close", "broken"} : Transmit(<<Empty(type)>>)
  /\ UNCHANGED <<httpVars, conn, bio, handshake>>

-----------------------------------------------------------------------------
(* The handlers *)

\* connection->close(), or handleClose when the browser has gone: the
\* SSLConnection is deleted with whatever it held
HandleClose ==
  /\ conn = "open" /\ conn' = "closed"
  /\ UNCHANGED <<httpVars, tlsVars, browser>>

Receive(n) == bio \o SubSeq(records, 1, n)
Taken(n)   == records' = SubSeq(records, n + 1, Len(records))

\* The second half of handleReqeust, on m_decrypted_buffer
Serve(bytes) ==
  LET p == ParseRequest(parser, buffer \o bytes) IN
  /\ buffer' = p.buffer
  /\ \/ /\ p.content.state # "Complete"
        /\ parser' = p.content
        /\ UNCHANGED <<responses, conn>>
     \/ /\ p.content.state = "Complete"
        /\ \E stop \in {0} \cup Stoppers : Plain!SendHttpResponse(p.content, stop)
  /\ UNCHANGED <<sent, alone, browser>>

\* SSL_accept wants more, or the handshake ends with nothing behind it: the
\* handler returns
Handshake(n) ==
  LET a == Accept(handshake, Receive(n)) IN
  /\ handshake # "done" /\ a.rt \in {-1, 1}
  /\ handshake' = a.state /\ bio' = a.rest
  /\ Taken(n)
  /\ UNCHANGED <<httpVars, conn, browser>>

HandshakeFails(n) ==
  /\ handshake # "done" /\ Accept(handshake, Receive(n)).rt = 0
  /\ HandleClose

\* Records came with the end of the handshake: the handler goes on with them
HandshakeThenRead(n) ==
  LET a == Accept(handshake, Receive(n))
      d == DecryptData(a.rest)
  IN /\ handshake # "done" /\ a.rt = 2
     /\ \/ d.failed /\ HandleClose
        \/ /\ ~d.failed
           /\ handshake' = a.state /\ bio' = d.rest /\ Taken(n)
           /\ Serve(d.data)

ReadSecure(n) ==
  LET d == DecryptData(Receive(n)) IN
  /\ handshake = "done"
  /\ \/ d.failed /\ HandleClose
     \/ /\ ~d.failed
        /\ bio' = d.rest /\ Taken(n)
        /\ Serve(d.data)
        /\ UNCHANGED handshake

HandleReqeust ==
  /\ conn = "open" /\ records # <<>>
  /\ \E n \in 0 .. Len(records) :
       Handshake(n) \/ HandshakeFails(n) \/ HandshakeThenRead(n) \/ ReadSecure(n)

Next == Greet \/ Finish \/ Send \/ Leave \/ HandleReqeust \/ HandleClose

Spec == Init /\ [][Next]_vars

\* What was sent arrives, and each arrival runs the handler
FairSpec == Spec /\ WF_vars(HandleReqeust)

-----------------------------------------------------------------------------
(* Properties *)

\* Behind TLS the connection is the plain one: whatever the records, their
\* cuts, and the record the handshake ends in, the parser sees the stream of
\* the browser, and a failure of TLS is a closing.
ImplementsPlain == Plain!Spec

\* A request of a browser that waits for its answers is answered, also one that
\* came in the read event that ended the handshake.
EveryRequestAnswered == Plain!EveryRequestAnswered

=============================================================================
