# zekHttpServer in TLA+

A verification project for the HTTP(S) server and reverse proxy of this
repository: TLA+ modules of its concurrent and stateful parts, TLC
configurations that check them on small instances, and TLAPS proofs for every
size. Paths below are relative to the repository; line numbers are in
`PROJECT.json`, definition by definition.

## 1. The system

| Component | Files | State it keeps | Operations |
|---|---|---|---|
| Reverse proxy | `src/http/httpsproxy.cpp` | `ProxyManager` (id -> `ProxyNode` with mutex and two connection pointers), `m_ssl_connections` (fd -> `SSLConnection`), per connection an `HttpsProxyRequest` | `handleProxyHandshake`, `handleServerRead/Write/Close`, `handleClientRead/Write/Close`, a task after a third wrong login |
| HTTP server | `src/http/httpserver.cpp` | per connection an `HttpContent`, `m_ssl_connections`, the middleware chain, the session manager | `handleReqeust`, `sendHttpResponse`, `handleClose`, `handleTLSHandshare` |
| Request parser | `src/http/httpcontent.cpp`, `httprequest.cpp` | parse state, request line, headers, body | `parseRequest`, `reset` |
| Response | `src/http/httpresponse.cpp` | content buffer with capacity, headers | `setContent`, `reset`, `createResponse` |
| Middlewares | `src/middleware/*.cpp` | the chain; a cache of passwords before the table `user_name_password`; in each session an error counter | `forward`, `backward`, `forware`, `backware`, `getNameAndPassword` |
| Router | `src/router/router.cpp` | three hash tables, filled before the start | `register...`, `route` |
| Sessions | `src/session/*.cpp` | cache id -> `Session*`, table `cookie`, a random engine; a session's data | `findSession`, `reloadSession`, `generateSession`, `setData`, `getData` |
| MySQL pool | `src/mysql/*.cpp` | queue of idle connections, counter, mutex, condition variable, maintenance thread | `getMysqlConnection`, the deleter, `checkThreadMainFuntion` |
| TLS | `src/tls/*.cpp` | OpenSSL object and two memory BIOs | `doTLSHandshake`, `decryptData`, `encryptData` |
| Net disk demo | `demo/netdisk` | files; the list of them, a member that threads share; the position of a running download in a bound callback | three routers |
| Libraries | not in the repository | event loops, connections, buffers, caches, logger | used through their interfaces |

How they interact. `HttpServer` and `HttpsProxy` hand callbacks to a
multi-threaded `TcpServer`; a connection belongs to the loop of one thread and
its callbacks run there, one after the other. All connections of a server
share one `SessionManager`, one middleware chain and one router; sessions and
the authorization middleware share the process-wide MySQL pool. In the proxy
the two halves of a pair live in loops of two different threads; they share
the `ProxyNode` and signal each other by registering `WRITE` on the channel
of the other half, whose write callback then notices that its peer is gone.

What is hard here: two loops ending the two halves of a pair in any order and
in the middle of a connect; a signal that another callback may consume; a task
that runs after other handlers; a pool whose maintenance thread empties the
queue others wait for; a cache filled by several threads without a lock and
lost at a restart, beside a table that stays; counters checked under one lock
and changed under another; a byte stream cut at any point. `PROJECT.json`
lists each hazard at its line.

What makes each component correct:

* pool - a connection is in one pair of hands, none is lost, a waiting thread is woken and served;
* pair - nobody uses a half after its end; when one half ends the other and the node follow;
* sessions - a browser that has a cookie keeps its session, across restarts; an id is one object; the third wrong login, and no earlier one, is refused;
* HTTP connection - what was sent is what is handled, once, in order; a callback needs the consent of all middlewares; every request is answered;
* router - exact keys first;
* authorization - a login passes on its user's password only, and a right one is not refused on account of others;
* response, proxy request, TLS, download - bytes out are the bytes put in, announced lengths are true.

## 2. Modules

| Module | Models | Composes / used by |
|---|---|---|
| `MysqlPool` | the pool, its clients, its maintenance thread, the session behind each handle | |
| `ConnectionLease` | abstract: a connection is leased to one client at a time | |
| `MysqlPoolRefinement` | refinement mapping of the pool to the lease | `MysqlPool`, `ConnectionLease` |
| `MCMysqlPool` | three threads for TLC | `MysqlPoolRefinement` |
| `ProxyPair` | one pair of the proxy in detail, threads S and C | checked directly |
| `ProxyPairProofs` | theorems | `ProxyPair` |
| `ProxyTable` | several pairs: the table of nodes, the map of `SSLConnection`s, descriptors used again | |
| `MCProxyTable` | two descriptors | `ProxyTable` |
| `ProxyTableProofs` | theorems | `ProxyTable` |
| `ProxyRequest` | what the proxy forwards of the browser's stream | |
| `MCProxyRequest` | five kinds of requests | `ProxyRequest` |
| `ProxyRequestProofs` | theorems | `ProxyRequest` |
| `SessionStore` | session manager and login counter, several threads, restarts | |
| `SessionDirectory` | abstract: a directory of ids that gives each request its session in one step | |
| `SessionStoreRefinement` | refinement mapping of the sessions to the directory | `SessionStore`, `SessionDirectory` |
| `MCSessionStore` | two threads, three ids | `SessionStoreRefinement` |
| `StorageProofs` | theorems about the pool and about the sessions | `MysqlPoolRefinement`, `SessionStoreRefinement` |
| `HttpContent` | the parser, as operators | |
| `HttpConnection` | parser, chain, router and closing of one connection | `HttpContent` |
| `MCHttpConnection` | routes of the net disk demo, eight kinds of requests | `HttpConnection` |
| `HttpConnectionProofs` | theorems | `HttpConnection` |
| `HttpsConnection` | the same behind TLS; implements `HttpConnection` | `HttpContent`, `HttpConnection` |
| `MCHttpsConnection` | three kinds of requests | `HttpsConnection` |
| `HttpsConnectionProofs` | theorems, with those of the plain connection | `HttpsConnection`, `HttpConnectionProofs` |
| `HttpResponse` | the response buffer, as operators | |
| `Authorization` | the authorization middleware, from the request to the bytes of the answer | `HttpResponse` |
| `MCAuthorization` | two threads, three names, two passwords | `Authorization` |
| `AuthorizationProofs` | theorems | `Authorization` |
| `NetDisk` | the routers of the net disk demo, several connections, one directory | |
| `MCNetDisk` | two connections, two files | `NetDisk` |
| `NetDiskProofs` | theorems | `NetDisk` |

In each module a definition marked "What-if variant" is a plausible bug in the
definition that follows it; no specification uses it. `PROJECT.json` pairs
each checked property with a variant that breaks it.

### MysqlPool

Every critical section of `m_mutex` is one action. `getMysqlConnection` is
`GetNow` (a connection is there, possibly just built) or `GetWait`
(`m_condition_variable.wait` releases the mutex) followed by `ResumeTake` or
`ResumeWait` once notified or woken spuriously. `Release` and `CheckReturn` are
`MysqlConnectionDeleter::operator()`, run by a client and by the maintenance
thread. `CheckSwap ... CheckSleep` are the steps of `checkThreadMainFuntion`.
`link` is the state of the session behind a handle; `reConnect` closes the
handle and then uses it, so its outcome is either of two.
Abstracted: what queries return. Left out: `m_is_end` and the destructor,
which nothing reaches. `PoolInit`, `PoolNext`, `PoolSpec`, `PoolFairSpec` and
`PoolTypeOK` carry the name of their component, since the pool's theorems share
a module with those about the sessions.

### ProxyPair

A handler holds `proxy->mutex` to its end and is one action. The steps of
`handleProxyHandshake` between `connectServer` and the binding of callbacks,
and the four steps of the 403 task, hold no lock and are actions of their own.
`srv`, `cli` and `node` are the two connections and the node; `faults`
collects uses of an object after its end, and the specification stops at the
first, but for `deadUnlock`. That one is the end of every handler that calls
`deleteProxyNode`: its `lock_guard` unlocks the mutex of the node it has just
deleted (`httpsproxy.cpp:328` and 343, 357 and 382, 511 and 538, 704 and 709,
723 and 740, 750 and 766). It may go unnoticed, so the model goes on, and
`LiveObjectsOnly` names it among its exceptions. A connection has two ends.
`destroyTcpConnection` shuts it down, takes it out of the table and leaves its
deletion to a task of its loop (`ServerFreed`, `ClientFreed`), which runs after
the handler; so the `getConnectId()` with which handlers log the end (534 to
541 and others) still finds it. `IdFault` is what it would be otherwise.
`Behaviours` chooses what the outside does: wrong logins, refused
connects. What the library does (default close callbacks, the handshake
callback that replaces itself by the delayed write callback) is modelled from
its use and marked external. A write event may come in the same batch as the
read event that inserted the 403 task; `taskWrite` remembers whether.

### ProxyTable

What pairs share, with the life of each pair reduced to what matters for it:
`conns` are all connections browsers ever made, each with its pair; `map` is
`m_ssl_connections`, keyed by a descriptor that is free again as soon as its
connection is destroyed. A handler is split where others may come between:
`ServerLooks`/`ClientLooks` are `getProxy`, which gives the node without its
mutex, and the actions after them run with the mutex. The server half ends in
two steps (`ServerEnds` then `ServerDestroyed`, `ServerClose` then
`ServerClosed`): the entry of the map first, the descriptor later.
`LeaveUnbound` is the library's close callback, which knows nothing of the
map: it leaves an `SSLConnection` behind (`left`), and the next connection
with that descriptor gets it. `left` are the connections that left so,
`victims` those that ran with another's `SSLConnection`. Such a connection need
not end: what cannot be decrypted makes `decryptData` return -1
(`sslConnect.cpp:187`), and `handleServerRead` ends the half only for 0 (556),
so it goes on with nothing (`ServerPasses`) until something else ends it.
Abstracted: upstream accepts at
once, no login is wrong, `WRITE` may come at any time. The map is taken as if
it were locked; what its data race does is not modelled.

### ProxyRequest

The stream is a sequence of pieces of length one: an address of the proxy, a
header with a length, credentials, an upgrade, half of the four characters
that end a head, or text; a byte of a body looks like an address, so that a
rewriting where none belongs is seen. A read takes any number of pieces.
`Scan` is the loop of `parseHttpRequest` as a recursive function of an offset,
`Replaced` is `parseHead` with its offset as the code computes it, `Missing`
the countdown of a body across reads. `ReadUnauthorized` is `checkAuthorized`
without credentials: a 401, and the read is gone. `cut` and `mixed` remember
whether a read ended in a head or held one behind other pieces: some
properties are stated for streams where that did not happen, because the code
does not promise more.

### SessionStore

`findSession` is split at each call on the cache and the database, since
nothing else protects the sequence; `forware` is split at its two critical
sections. `Restart` ends the program anywhere, an aborted one too, and keeps
the table and the cookies in the browsers. `generateID` never repeats an id,
except that threads drawing at the same time from the unsynchronised engine
may draw the same one (`MayDraw`). A SELECT that fails makes `findData` return
nothing (`mysqlconnection.cpp:76`), which `findInMysql` takes for an id that is
not there: the request gets a new session, and `failed` remembers why. An INSERT
may fail as well; `unsaved` has its id. Error counters are of any size in the type
invariant; the bounds are on requests, sessions and restarts.

`SessionDirectory` is what a request may count on: `Ask` with a cookie, `Find`
the session of the cookie if its id is known, or else get a `New` one, `Write`
its id, `Give` it in the answer; a `Crash` leaves what was written, and a
look-up that fails (`Fail`) ends in a new session, known or not. Caches,
objects, locks and logins are not in it. `SessionStoreRefinement` takes as known
what table or cache have and what a thread has just drawn and still holds.

### HttpContent and HttpConnection

The stream is a sequence of pieces (a line, or a byte of a body), delivered in
portions of any size; each delivery runs `handleReqeust` once, as one action,
also one that brings only a part of a piece. `ParseRequest` is the loop of
`parseRequest` as a recursive function of its state. `SendHttpResponse` runs
the chain with any of `Stoppers` refusing (cookies never refuse, authorization
may), routes, answers, resets the request and closes if no callback ran.
`HandleClose` is the browser's leaving. `alone` remembers whether the browser
has always waited for its answers.

### HttpsConnection

The stream comes in TLS records: the two messages of the browser's handshake,
data, a good-bye or a damaged record. `Accept` is `doTLSHandshake` with its
four results (`SSLAccept` is what OpenSSL does of it), `DecryptData` is
`decryptData`; `bio` is what they leave in `m_in_bio`. `Handshake`,
`HandshakeFails`, `HandshakeThenRead` and `ReadSecure` are the ways through
`handleReqeust` with `m_use_ssl`; the second half of it is `Serve`. The
refinement mapping takes for the plain stream on its way the data of all
records not yet decrypted: `bio \o records`. A closed connection keeps its
records in the model; nothing reads them. The `SSLConnection` lives from the
first read event to `handleClose` and has no variable of its own.

### HttpResponse and Authorization

`HttpResponse` has the methods of the class as operators on a record with the
pointer, the capacity, the length and the blocks it ever took; `sound` turns
false on a copy beyond a block or a block given back twice or with another
size. `Minus1` is the `size_t` subtraction, which wraps.

`Authorization` runs them where the server does: a thread's request is
`Arrive`, then `NoCredentials` or `Login`, the check (`CheckCache`,
`FindInMysql`, `Put` are `getNameAndPassword`, with other threads between
them), the counter (`Judge` under the shared lock, `Wrong` or `Right` under the
exclusive one), a route (`Callback`, which may set its content again, or
`NotFound`) and `Send`, after which the response on the stack is destroyed.
`FindInMysql` may fail. `ChangePassword` is an administrator with a database
client: no code of the repository changes a password, but the cache keeps what
it took over for as long as it likes. `had` remembers the passwords a user ever
had, `steady` whether a right login stayed right while it was checked.
Abstracted: base64, the text of the answers (their sizes are there, since the
code writes them as constants beside the content).

### NetDisk

Every connection is on a thread of its own, so the handlers interleave
wherever they touch the directory or `RootRouter::m_html_files_list`.
`Download` answers with the headers and binds the write callback; `SendFile`
is one run of it, a block of 1024 bytes from a file opened anew. An upload is
two steps (the file is emptied, then written from the start), a page three
(directory read, member assigned, page built). A unit of a file is the number
of the upload it came from; what lies beyond its end in a block is `Junk`.
`IntRange` is 2^31: the size is a `size_t` that `SendFile` takes as an `int`
(`AsInt`). `patient` and `calm` remember whether the browser waited for its
answers and whether a request ever came while a file was being sent.

## 3. Runs

Passing:

| Run | Shows | Bounds |
|---|---|---|
| `pool` | `NoSharing`, `NoneLost`, `NoLostWakeup`, `ImplementsLease`, `WaiterServed` | 3 threads, 2 connections, 2 acquisitions each: one more thread than connections, so that someone waits, is overtaken and waits again |
| `pair` | `LiveObjectsOnly`, `NodeMirrorsHalves`, `ClientEndSpreads`, `ServerEndSpreads` | one pair; all behaviours of the outside; nothing else is bounded |
| `proxy_table` | `NodeOutlivesHandlers`, `MapIsExact`, `EntryStays`, `LeftHurtsOnce` | 4 connections on 2 descriptors: both descriptors are used again while a pair is open on the other, and one is used three times, so that a connection follows one that followed a left-behind entry |
| `proxy_request` | `NothingLost`, `BodiesUntouched`, `RewrittenExactly`, `InStep` | 3 requests of 5 kinds, cut into any reads: one or two addresses, bodies of 0 to 2, an upgrade; two heads in one read, and a body over several |
| `store_safety` | `CookieHonoured`, `IssuedIsDurable`, `ForbidsAtLimit`; `ImplementsDirectory`: each request gets its session as if in one step | 2 threads, 3 ids, 3 sessions per start of the program, 4 requests (three wrong logins and one more), 1 restart |
| `http` | `HandledAsSent`, `RightCallback`; `EveryRequestAnswered`: a browser that waits for its answers gets them | 3 requests of 8 kinds, pipelined or not: with and without body, empty body, flawed lines, overlapping routes |
| `https` | `ImplementsPlain`: behind TLS the connection is the plain one; `EveryRequestAnswered`, also for a request that comes with the end of the handshake | 2 requests of 3 kinds, each in one record or two; two are enough for one to arrive with the handshake and one behind it |
| `authorization` | `AcceptedByTable`, `RightIsAccepted`, `ResponseSound` | 2 threads, 3 names of which one is unknown, 2 passwords, a cache of 1 (so that one name evicts the other), a limit of 2, 3 requests, 1 change of a password |
| `netdisk` | `NoOverlap`, `FileDelivered`, `PageIsCurrent`, `DownloadEnds` | 2 connections, 2 files, blocks of 2 units, an int of -6 .. 5; sizes 0, 2, 5, 7: empty, one full block, a last block that is not full, beyond an int; 3 requests |

Each of them also checks the module's type invariant, but for `http`, where
`HandledAsSent` says more, and `store_safety`, whose type invariant is only
proved (`StoreTyping`). The bounded counters are in the guards of the
actions that count (`MaxRequests`, `MaxConnections`, `MaxSessions`,
`MaxRestarts`, `MaxChanges`, `Acquisitions`). `SizeMax` of `HttpResponse` need
only be larger than every content, since what matters is that it is the value
that 0 - 1 wraps to.
Symmetry is declared for descriptors, threads with ids, and threads with
passwords; those runs check no liveness.

Disagreements between the code and what it says of itself; each run ends in a
counterexample, and `PROJECT.json` quotes the line:

| Run | The code says | The run shows |
|---|---|---|
| `pair_trigger` | registering `WRITE` starts the closing of the client half | the event is consumed while the half is connecting |
| `pair_forbid` | the 403 task triggers the closing of the client half | if that half ended before, the node stays for ever |
| `store_reload` | `assert(m_sessions_caches.get(id) == nullptr)` | two requests after a restart |

Reading the code for the models shows more, which has no run of its own.
Where a property excludes such a case, its comment says so.

*Proxy.*
`assert(client_connection)` (`httpsproxy.cpp:497`) fails after a refused
connect: the model reaches the fault `assertClient`, which `LiveObjectsOnly`
exempts.
`deleteProxyNode` (343 and five more places) deletes the node while the caller's
`lock_guard` on its mutex is alive; the unlock is the fault `deadUnlock`.
The 403 task acts on a descriptor number that may be another connection's by
then.
A browser that leaves before its pair is bound leaves its `SSLConnection` in
the map (446).
In a head that is not the first of its read a second address may keep the
proxy's name (934).
A read without credentials is dropped as a whole (593), with what it held of a
body.

*HTTP server.*
For a browser that does not wait a request may stay unanswered:
`handleReqeust` parses one request per read event, and a second one in the
buffer waits for more bytes.
A malformed request is never answered 400 (`httpserver.cpp:233`), the condition
cannot hold.
`Connection: close` is read from a request that was just reset (352) and never
honoured.
`backward` leaves out the middleware that refused, where the comment in
`sendHttpResponse` speaks of the one executed last.
The router ignores the method of a dynamic key, so that a Get whose path
contains `/upload` (`router.cpp:76`), as `/download/upload.txt` does, may run
what the demo registers for Post.
With TLS, a request that comes in one read event with the good-bye behind it
is dropped with the connection.

*Sessions and logins.*
Two threads that reload one id may both pass the assertion in `reloadSession`
and serve two `Session` objects. A SELECT that fails is taken for an empty
result: a login whose query failed counts as wrong, and a cookie that is in the
table gets a new session. A password that was changed keeps working while the cache has it.

*Pool.* The comment that a ping reconnects by itself (`mysqlconnection.cpp:24`)
does not hold: the option below it is commented out.

*Net disk.* A file of 2 GB or more is sent as one block (`download.cpp:98`), a
last block as 1024 bytes whatever is left (144), an empty file as a block too;
the answer to an upload has no `Content-Length`; two threads that build the
page share a member string without a lock (`root.cpp:91`).

Deadlock is checked for the pool. It is off where the model does stop: a pair
that is torn down and the bounds on requests.

### Fairness

*Pool.* Threads that hold or can take the mutex run on, and queries return:
weak fairness of each client's steps and of the maintenance thread. Strong
fairness of `ResumeTake`: the maintenance thread sleeps ten seconds between
two rounds, so a woken thread gets the mutex in between. Acquisitions are
finite, as in the repository's test (4 threads, 4 acquisitions, 2
connections); with endless newcomers a waiting thread could be overtaken for
ever, and nothing in the code prevents it.
*Pair.* Loops run the tasks and write events they are given, and a connect
ends one way or the other. Nothing is assumed of browser and upstream.
*HTTP connection, plain or TLS.* Sent bytes arrive and each arrival runs the
handler. Nothing is assumed of the browser.
*Net disk.* A handler that runs goes on, and a write event that is registered
comes, as long as the browser has not left.
`SessionStore`, `Authorization`, `ProxyTable` and `ProxyRequest` state no
liveness.

## 4. Proofs

Eight modules of theorems, each for every value of the constants within the
named assumptions. In each, an invariant is inductive, and the properties of
the runs follow from it.

**Data of any length.** Three components compute with loops over a stream:
`parseRequest`, `parseHttpRequest` and `FlattenSeq` in the payload of TLS
records. The models write them as recursive functions, of which TLA+ says
nothing until they are shown to exist. The library's induction theorems take a
predicate as a parameter; the proofs take a set instead (`SetInduction`,
`Downward`), from the theorem that a well-founded relation has minimal elements
(`WFMin`). `RecursionExists` then says: a definition whose recursive uses are at
smaller values of a measure defines a function. For `parseRequest` the measure
is `Measure`, what is still buffered; for `parseHttpRequest` it is the distance
to the end of the read.

`StorageProofs` about the pool, for every finite non-empty set of threads, every
pool size of at least one and every number of acquisitions (`ClientsAssumption`,
`SizeAssumption`, and `NoneAssumption`: the null pointer is no connection and
no client):

* `Ownership` - `OwnershipInv` is inductive: types, agreement of control states
  with ownership (`ControlOK`), connections numbered within the counter
  (`NumberedByBuild`), and `NoSharing`. The numbering is what makes a newly
  built connection different from every other; the control states are what make
  `held` and `inspecting` null when a step fills them.
* `PoolTyping`, `Exclusive` - `PoolTypeOK` and `NoSharing` follow.
* `Conservation` and `Wakeups` - `NoneLost` and `NoLostWakeup`, from
  `CountingInv`, which adds `WaitOnlyWhenFull`: nobody waits while the pool may
  still grow. Without it a build beside a waiting thread would add an idle
  connection with no wake-up on its way.
* `Refinement` - `ImplementsLease`: every step of the pool is a step of the
  lease or leaves it unchanged, under `OwnershipInv`.

`ProxyPairProofs`, with or without TLS and for all `Behaviours`
(`BehavioursAssumption`): `Paired`, `PairTyping`, `Alive`, `Mirrors`. `PairInv`
is the type invariant, `LiveObjectsOnly` and `Pairing`, which says what a pair
looks like before it is bound (`Unbound`) and after (`Bound`): then a pointer of
the node is null exactly when its half was destroyed. `LiveObjectsOnly` alone is
not inductive, since a handler goes by the pointers. `deadUnlock` is the only
fault after which `Pairing` is claimed still, and the invariant must carry it
through every later step. `Pairing` is claimed only
while no login was forbidden: the 403 task changes a pair without its mutex.

`ProxyTableProofs`, for any descriptors and any number of connections
(`MaxConnectionsAssumption`): `Table`, `NodesStay`, `MapStaysExact`,
`EntriesStay`, `HurtsOnce`, `Typing`. `TableInv` has three parts beside the
properties: what a pair looks like at each step of its two threads (`PairOK`,
which alone gives `NodeOutlivesHandlers`: a thread between lookup and mutex
still has its half in the node), that the map is injective and has exactly the
live `SSLConnection`s (`Exact`), and whose the entry of a descriptor is
(`EntriesOK`): that of its open connection. `LeftHurtsOnce` needs the count
`HurtOK`. An `SSLConnection` is astray (`Stray`) if no open connection has it as
its own or has used it; victims and those astray are together no more than the
connections that left. The first use of another's `SSLConnection` makes one
victim and takes one from those astray (`UseTakes`), whether the victim ends or
goes on; nothing else adds to either but a connection that leaves
(`StrayKept`, `LeaveKeeps`). `RangeInv` adds that what pairs,
`SSLConnection`s and the map say of each other is within what there is.

`ProxyRequestProofs`, for every set of requests, any number of them and every
cut of the stream (`RequestsAssumption`, `MaxRequestsAssumption`): all
properties of the run, `Typing`, `Completeness`, `BodiesPass`, `Exactness`,
`RestInStep`. Two invariants. `Inv` holds for whatever a read has: a turn of the
loop (`Turn`) either finds no head, or a head whose body goes on behind the
read, or a whole request behind which the next turn starts; in each case it
forwards as many pieces as it counts, and the same but for addresses
(`Complete`). `IInv` says where the proxy is in the browser's requests, as long
as no read cut a head. The stream consists of requests (`Unit`, `RequestsOnly`)
until an upgrade, which is in the last one (`UpgradeLast`); what the proxy
counts down is what is left of the request it is in, and that is body
(`Following`); behind an upgrade it passes everything on, and nothing there is
a head (`Passing`). The step, `ParseAgrees`, is that a read that begins with the
rest of a body and does not end in a head leaves the proxy in step. That heads
and bodies are where the count says is what makes `BodyOf` and `ExactOf`, the
two things the properties say of a piece, agree with what `parseHead` does.

`StorageProofs` about the sessions, for any threads, ids and bounds (`IdsAssumption`,
`BoundsAssumption`): `Store`, `StoreTyping`, `Honoured`, `Durable`, `Counted`,
`Directed`. `StoreInv` says what a thread has established at each step of its
request. It survives the steps of other threads because they only add objects,
rows and ids; a restart takes objects and cache away, and with them every request.
Of a request whose SELECT failed it claims nothing about the cookie: it may
generate although the table has the id.

`Directed` is `ImplementsDirectory`. `FindInCache` or `Reload` is the `Find`,
a failed `FindInMysql` the `Fail`, `Generate` the `New`, `Insert` the `Write`,
`Answer` the `Give`; the other steps leave the directory alone. A thread may generate long after it missed the
cache, so the step needs a second invariant, `DirectoryInv`: what cache and
table did not have of its cookie nobody has added since (`SoughtOK`). Others add
only ids that a thread drew or that the table has; the cookie was issued before,
and an issued id that some thread still holds from its draw is in the cache
(`GivenOK`), where the thread would have found it. `PutOK` is why a failed INSERT
takes no id from what is known: the cache has it by then.

`HttpConnectionProofs`, for every number of requests, every length of a body,
every chain, every table of routes and every segmentation (`LayersAssumption`,
`RequestsAssumption`, `MaxRequestsAssumption`, `FramedAssumption`):
`TypeCorrect`, `HandledCorrect`, `CallbackCorrect`. `IInv` says where the parser
is: what it has read of the request it is in (`HasRead`), and that buffer and
wire together are what is left of the stream from there (`Rest`). `StreamAt` is
not true in the middle of a turn, but each turn of the loop moves it on by one
piece (`ReadStep`), so the loop as a whole keeps it (`ParseKeeps`). A response
then has the line, the headers and the body of the request it answers
(`Answered`).

`HttpsConnectionProofs`, for every sequence of records and every cut of it into
read events: `RefinesPlain` is `ImplementsPlain`, with the payload of all
records not yet decrypted as the wire of the plain connection. `IInv` is
`TLSInv`, about the two sides of the handshake, and the invariant of the plain
connection, which comes with its theorems through `INSTANCE`; so
`HandledCorrect` and `CallbackCorrect` hold behind TLS without a second proof.

`AuthorizationProofs`, for any threads, sessions, names, passwords and bounds
(`AuthorizationAssumption`), and contents of any length that fits a `size_t`
with its terminator (`ContentsAssumption`): `LoginHolds`, `Accepted`,
`RightLogin`, `Responded`, `Typing`. What ties the login of a thread to the
steps of others is `HadInv`: table and cache hold nothing a user did not have
as password. So whatever a thread finds in the cache, it is one its user had;
and for a steady login there is only one. `ResponseInv` says that a response
holds nothing or the content set last, in its only live block, which is as
large as the capacity says (`Holds`); the methods of `HttpResponse` keep that,
one lemma for each. The type of the error counters needs `CountInv`: the errors
of a session and its requests that may still add one are no more than the
requests served.

`NetDiskProofs`, for any connections, files and sizes, any size of a block and
any range of an int of at least one (`SizesAssumption`; `NoneAssumption`: no
callback is neither a name of a file nor a callback): `Inductive`, `Typing`,
`NeverOverlaps`, `FilesDelivered`, `PagesCurrent`. `SendFile` keeps nothing but
its parameters, so the invariant must say what they mean. `Pending` does, for a
callback that no request has replaced (`calm`): the file it sends is that of the
last response, its end is the announced length as an int, and it begins where the
body has got. `CallBackOK` adds that it has something left to send unless it has
not begun, which is why the test for the last block, with `<=`, clears it in
time: a browser that has all it was told of leaves no callback behind
(`ReadsQuiet`, and with it `NoOverlap`). `Remembered` ties an untouched response
to the directory: nobody but an upload, which touches it, changes the file, so
the block read now belongs to the length announced then (`BlockDelivers`).
`RootOK` says that threads in the handler of `/` that never overlapped are one
thread, which finds `m_html_files_list` as it assigned it.

Lemmas used in several places are stated once and cited by name: what appending
and cutting keep of a sequence, what `FlattenSeq` makes of a sequence of
sequences, numbers of holders, the effect of `NotifyOne`, the steps that end a
pair.

Only model-checked: liveness under fairness everywhere (`WaiterServed`,
`ClientEndSpreads`, `ServerEndSpreads`, `EveryRequestAnswered`, `DownloadEnds`),
which is beyond the prover, and the three disagreements of the table above, which are
counterexamples and need none.

## 5. Not modelled

* What a data race does inside an unsynchronised container: the map of the
  proxy is modelled as if it were locked. The one of the HTTP server, whose
  `handleClose` always erases, is not modelled over several connections.
* OpenSSL itself; `SSLContext`, which is set up before the start.
* The destructors and `m_is_end`, which run at the end of the program or never;
  the race on `m_connections.size()`, of which the value is not used.
* `std::stoi` of a `Content-Length` that is no number or none of an int: it
  throws (`httpcontent.cpp:88`), and nothing catches it. The requests of the
  models carry lengths that it reads.
* Base64 decoding, and credentials that are not of the form the decoder expects
  (`authorizationmiddleware.cpp:141` to 145, 174); several rows of one name in `user_name_password`, and the
  assertions on the number of rows and columns
  (`authorizationmiddleware.cpp:108`); the branches for `session == nullptr`,
  which are never reached because the constructors of `HttpServer` turn cookies
  on.
* `removeSession`, `Session::isExipred`: reached only at the end of the program
  and by nobody, respectively.
* Start and stop of the servers, registration of routes and middlewares, which
  come before the first connection.
* The prototypes and drivers in `unitTest`: `simpleproxy.cpp`,
  `sslSingeTest.cpp`, `sslTest.cpp`, `simpleMysqlTest.cpp`. They are programs of
  their own from which the classes grew, or that drive them.
* The external libraries (event loops, cache, logger, memory pool), but for what
  the modules mark external.

## 6. Plan

Done, in this order: pool, lease, proofs of both; pair; session store; HTTP
connection; TLS before it; proofs of the session store and of the pair; the
table of pairs and its proofs; the rewriting of requests; the response buffer
and the authorization with its proofs; the net disk; the proofs of the HTTP
connection with and without TLS, of the response buffer, of the rewriting of
requests, and of the net disk; the directory that the sessions implement, with
its proof. Every invariant and every refinement that a
passing run checks is a theorem.

What could follow: several connections of an HTTP server with their own map of
`SSLConnection`s.
