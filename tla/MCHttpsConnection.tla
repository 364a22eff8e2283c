------------------------- MODULE MCHttpsConnection --------------------------
(* A request with a body, one without, one for a route nobody registered   *)
EXTENDS HttpsConnection

RouteKey(method, path) == [method |-> method, path |-> path]

MCKeyCBs     == {}
MCKeyFunCBs  == {RouteKey("Get", <<>>)}
MCDynamicCBs == {RouteKey("Post", <<"upload">>)}

Request(method, path, length, flaw) ==
  [method |-> method, path |-> path, length |-> length, flaw |-> flaw]

MCRequests ==
  { Request("Get", <<>>, NoLength, "none"),
    Request("Post", <<"upload">>, 2, "none"),
    Request("Get", <<"other">>, 0, "none") }

MCStoppers == {2}

=============================================================================
