---------------------------- MODULE MCProxyRequest ----------------------------
EXTENDS ProxyRequest

Request(addresses, credentials, length, upgrade) ==
  [addresses |-> addresses, credentials |-> credentials, length |-> length,
   upgrade |-> upgrade]

\* With and without credentials, with one and two addresses, with and without
\* a body, and the upgrade to a web socket
MCRequests ==
  {Request(1, TRUE, 0, FALSE), Request(2, TRUE, 2, FALSE), Request(1, FALSE, 1, FALSE),
   Request(2, FALSE, 0, FALSE), Request(1, TRUE, 0, TRUE)}

=============================================================================
