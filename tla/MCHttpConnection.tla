-------------------------- MODULE MCHttpConnection --------------------------
(* The routes of the net disk demo, plus one exact route inside a dynamic   *)
(* one; the chain of HttpServer: cookies, then authorization, which may     *)
(* refuse.                                                                  *)
EXTENDS HttpConnection

RouteKey(method, path) == [method |-> method, path |-> path]

MCKeyCBs     == {RouteKey("Get", <<"download", "index">>)}
MCKeyFunCBs  == {RouteKey("Get", <<>>)}
MCDynamicCBs == {RouteKey("Get", <<"download">>), RouteKey("Post", <<"upload">>)}

Request(method, path, length, flaw) ==
  [method |-> method, path |-> path, length |-> length, flaw |-> flaw]

MCRequests ==
  { Request("Get", <<>>, NoLength, "none"),
    Request("Get", <<"download", "index">>, 0, "none"),
    Request("Get", <<"x", "download">>, NoLength, "none"),
    Request("Post", <<"upload">>, 2, "none"),
    Request("Get", <<"upload">>, NoLength, "none"),
    Request("Get", <<"other">>, 1, "none"),
    Request("Get", <<>>, 1, "line"),
    Request("Post", <<"upload">>, 2, "header") }

MCStoppers == {2}

=============================================================================
