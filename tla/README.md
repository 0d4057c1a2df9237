# Mobilink in TLA+

This directory holds a model of Mobilink, the self-hosted tunnel of this
repository (`src/`): a developer's CLI keeps a QUIC connection to a server, and
the server relays the HTTP requests of the public host to the developer's local
application. The modules are checked with TLC on small instances; what matters
most is proved with TLAPS for instances of any size.

## 1. Inventory of the system

Paths are relative to `src/`.

| Component | State | Operations | Talks to |
|---|---|---|---|
| Session registry, `mobilink-server/src/registry.rs` | the map of open sessions and the `current` one, each under a mutex | `open_session`, `register_session`, `get_session`, `active_session`, `close_session` | called by handler tasks and by blocking threads |
| Tunnel map and options, `mobilink-server/src/quic.rs` | session id to connection and options, under one mutex | `insert`, `remove`, `connection`, `eruda_disabled`, `auth_mode` | handler tasks insert and remove, requests read |
| Tunnel endpoint, `quic.rs`, `handshake.rs` | one task per connection | accept, read Hello, open session, insert tunnel, reply, wait for the end, remove, close | registry, tunnel map, the CLI |
| Request path, `http.rs`, `dispatcher.rs`, `router.rs`, `quic.rs` | one task and one blocking thread per request | read the body, resolve the session, look the tunnel up, send, read the answer, read the options, respond | registry, tunnel map, the CLI over one stream per request |
| HTTP translation, `http.rs`, `transform.rs`, `mobilink-core/src/http.rs` | none | header filtering, `X-Forwarded-*`, CORS, cookie rewriting, Eruda injection | within the request path |
| CLI, `mobilink-cli/src/` | the options typed, one connection, one task per stream | parse the command line, resolve, connect and handshake, serve, replay on the local port, Ctrl+C, exit | the server, the local application |
| Wire format and types, `mobilink-core/src/` | none | encode and decode, options, ids, defaults | both ends |

What is hard in it:

* **Concurrency.** Handler tasks and requests share two maps and three mutexes,
  and none of the sequences they run is atomic: a session is opened before its
  tunnel is inserted, a tunnel is removed before its session is closed, a
  request reads `current`, the session, the tunnel and twice the options under
  five separate locks.
* **Failure.** A CLI may vanish at any moment, with or without a close frame; the
  server learns of it late. A handler has five early returns. The server may be
  restarted, and a browser may hang up without ending the work it has caused.
* **Ordering.** Several developers may be connected to a host that belongs to one.
* **Timeouts and limits.** Only the idle timeout of QUIC bounds anything; streams
  and threads are limited, requests are not limited in time.

What makes each component correct, in short:

* *Session registry.* Its calls are atomic however its two mutexes interleave,
  nobody waits for ever, and the host belongs to an open session or to nobody.
* *Tunnel map and endpoint.* The two maps agree with each other and with what each
  handler has done; no handler touches another's entries; whatever was opened is
  closed.
* *Request path.* A request reaches only a developer who owned the host while it
  was under way; an error has a cause the browser could be told; it ends when the
  application answers; it gets the treatment its developer asked for.
* *HTTP translation.* The application learns its public address exactly once, other
  headers pass, a page changes by the console only, cookies are taken by the
  browser, the CORS headers are the server's.
* *CLI.* Each stream is answered independently; what the process prints and the code
  it exits with are true; shutting down ends and the server hears of it; a server
  that is gone is noticed.
* *The whole.* The server behind real CLIs is the server that was checked with an
  assumed one, also across restarts of it; a hanging request costs its own thread and
  stream and nobody else's.

## 2. The modules

| Module | Models | Extends |
|---|---|---|
| `Core` | ids, connections, options | |
| `Wire` | what crosses a tunnel: requests, Hellos, streams | `Core` |
| `SessionRegistry` | the registry as atomic operations: the contract | `Core` |
| `TunnelMap` | the tunnel map and the order of its iteration | `Core` |
| `Relay` | the server: handler tasks, requests, both maps; a CLI that is assumed | `SessionRegistry`, `TunnelMap`, `Wire` |
| `PublicHost` | what the server promises a visitor, in one life and through restarts: the abstract specification | |
| `RelayHistory` | `Relay` with history variables; implements `PublicHost` | `Relay` |
| `CliAgent` | the CLI process and the task of each stream | `Wire` |
| `Mobilink` | the server, the CLIs, the network, restarts: the composition | `Relay`, `CliAgent` |
| `MobilinkHistory` | `Mobilink` with the history of `RelayHistory`; implements `PublicHost` through restarts | `Mobilink`, `RelayHistory` |
| `ForwardPool` | threads, streams, sizes, browsers that hang up | `Wire` |
| `RegistryLocks` | the registry at the grain of its mutexes; implements `SessionRegistry` | `Core` |
| `RegistryReads` | `RegistryLocks` with the history of each call of `active_session` | `RegistryLocks` |
| `HttpExchange` | one exchange: CORS layer, headers, replay, cookies, console | |
| `MCRelay`, `MCRelayHistory`, `MCMobilink`, `MCMobilinkHistory`, `MCForwardPool`, `MCRegistryReads`, `MCHttpExchange` | instances for TLC | the module they name |
| `RelayProofs` | proofs about the two maps | `Relay` |
| `RelayHistoryProofs` | proofs about routing and 404, and that the server implements `PublicHost` | `RelayHistory`, `RelayProofs` |
| `OwnerProofs` | proofs that a steady owner is served, and with the options asked for | `RelayHistoryProofs` |
| `MobilinkProofs` | proofs about the composition and the CLI, and that no request is stuck | `Mobilink`, `RelayProofs` |
| `MobilinkHistoryProofs` | proofs of all these promises for the composition, restarts included | `MobilinkHistory`, `MobilinkProofs`, `OwnerProofs` |
| `ForwardPoolProofs` | proofs about threads, streams and the queue | `ForwardPool` |
| `RegistryLocksProofs` | proofs about the mutexes, the refinement and the reads | `RegistryReads` |
| `HttpExchangeProofs` | proofs about headers, pages and cookies | `HttpExchange` |

`PROJECT.json` maps every definition that models code to its lines; `PublicHost`, which
models no code but what is promised of it, has none.

### How state and actions correspond to the code

**`SessionRegistry`.** `sessions` and `current` are the fields of
`InMemorySessionRegistry`. A stored `Session` is represented by the connection
whose handler opened it. `RegisterSession` and `CloseSession` are `register_session`
and `close_session`; the reads appear in `Relay` where they are called. `Owner` is
what one atomic look at the registry would tell, and is used by properties only.

**`TunnelMap`.** `tunnels` is the hash map. The two option reads take
`values().next()`, the first entry in the order of a randomly seeded hash map;
`front` is that entry. An insertion may rehash the table, so it may bring any entry
to the front; a removal moves none of the others.

**`Relay`.** `task[c]` is the program counter of `handle_connection` for connection
`c`, `sid[c]` its local variable, `hello[c]` the first message of the CLI, `link[c]`
what the network has told the server: `up`, `lost` (the CLI is gone, the server does
not know), `down`. One action each for the `await` on the handshake (`Accept`), the
read of the Hello (`ReadHello`), `open_session` (`OpenSession`), `tunnels.insert`
(`InsertTunnel`), the reply (`Reply`), `closed().await` with `tunnels.remove`
(`DropTunnel`) and `close_session` (`ForgetSession`). Each `?` of the function is a
disjunct that ends in `failed`. The reply is written while the link is up: a peer that
is connected and stops the stream of its own Hello would make it fail as well, but the
CLI of this repository never does. `stage[r]` is the program counter of a request
through `proxy_handler`, `Dispatcher::dispatch`, `SingleHostRouter::resolve`,
`active_session` and `QuicForwarder::forward`: `ReadCurrent` and `GetSession` are the
two halves of `active_session`, `FindTunnel` the lookup, `SendRequest` the opening of
a stream, `ReadResponse` its end, `ReadAuthMode` and `ReadEruda` the two option
reads. Every action takes at most one mutex once, so every interleaving the runtime
can produce at the mutexes is a behaviour of the model.

A connection and a request are used once. A CLI that reconnects is another member
of `Conns`, as in the code, where it gets another connection, another session and
another task.

**`RelayHistory`.** `owners[r]`, `calm[r]`, `sole[r]` and `between[r]` record what was
true while request `r` was under way: who owned the host, whether one steady owner
was serving, whether its tunnel was the only one, and whether the handler of the session
that the request was routed to was ever between `open_session` and `tunnels.insert` or
between `tunnels.remove` and `close_session`, with the session in one map only. They restrict no step (theorem `HistoryIsOnlyHistory`).

**`PublicHost`.** `host`, `seen`, `given` and `result` of a request are `Owner`,
`owners`, `via` and the `answer` of `RelayHistory`. A request is given to nobody
twice: a forward that fails is not tried on another tunnel, since the application may
have executed it. `ServerStops` is the end of the server's process: nobody owns the
host and whoever waits is cut off for good; `RestartingSpec` is the promise with it.

**`CliAgent`.** `place[c]` is the program counter of `run`: `ParseArguments` is
`StartArgs` with `AuthMode::from_str`, `ResolveHost` is `lookup_host` with `prefer_ipv4`,
`Connect`, `SendHello` and `ReadSession` are `connect_and_handshake`, `AcceptStream`
the loop of `serve` with the `spawn` in it, `PressCtrlC` and `ServeEnds` the two
branches of the `select!`, `WaitIdle` the `wait_idle` before the exit. `conn[c]` is
quinn's view of the connection; `farewell[c]` is the close frame, which `close`
queues and the endpoint's driver sends (`SendClose`). `job[r]` is the program counter
of `handle_stream`. A command line is what matters of it: whether the required
arguments are there, `--no-eruda`, and the word after `--auth`.

**`Mobilink`.** Each action is one of `Relay` or of `CliAgent`, with what it does at
the other end. `CliAnswers` and `CliSendsHello` of `Relay` do not occur: the stream is
answered by `CliResponds` when a job has been written and the connection carries it,
the Hello is the options that were parsed. The two ends learn of a loss separately:
`link[c]` at the server, `conn[c]` at the CLI. Two small reductions: a stream that has
arrived may be accepted as long as the connection is not known to be lost, as a later
acceptance would find the same and fail; and the replay and the `write_all` after it
are one step, `Answer`, since nothing between them is visible to anybody. A restart
(`ServerRestarts`) empties both maps and drops every task, as the end of the process
does; browsers that waited get no answer (`answer` is then `cut`, which no code sends),
and the CLIs notice by their idle timeout. The guards of the steps a request can wait
for are named (`StreamGranted`, `ResponseEnds`, `CanAccept`, `CanAnswer`, `CanDeliver`,
`CanReadSession`, `CanSendClose`), so that `CanGetOn` can say without `ENABLED` that
one of them is possible.

**`MobilinkHistory`** takes the steps of `Mobilink` and lets the history of
`RelayHistory` record those that change a variable of the server, a restart among
them. What a CLI does by itself leaves the history as it is.

**`ForwardPool`.** `queue` is the queue of `spawn_blocking`, `Running` the requests
that hold one of its threads, `Streaming(c)` those that hold a stream of tunnel `c`.
The steps of the pipeline that only read maps are one (`Begin`); `Relay` has them all.
A request that waits for a stream holds its thread meanwhile, as `block_on` does.
`BrowserLeaves` has no effect on any of it, which is what the code does: dropping the
future of `proxy_handler` does not cancel a blocking task. Sizes are counted in an
abstract unit; a frame is longer than its body by `Overhead`.

**`RegistryLocks`.** `map` and `owner` are the data, `sessionsLock` and
`currentLock` the mutexes. `register_session` and `close_session` take the second
lock while they hold the first; `active_session` releases the first before it takes
the other. `LockCurrent` is the wait for `current` in all three.

**`RegistryReads`.** `looks[t]` are the answers that one look at the registry would have
given at each moment of the call of `active_session` that thread `t` is in. It
restricts no step.

**`HttpExchange`.** `place` walks the exchange through `cors_layer`,
`proxy_handler`, `try_replay`, the response and `cors_layer` again. `ForwardedHeaders`
is the header filter with the two recomputed headers, `RewriteSetCookie` and
`InsertSnippet` are the functions of those names, `BuildResponse` is
`build_response`. A header value is a member of a small set, one of them *unreadable*
(bytes `to_str` rejects); a cookie is a sequence of attributes, a page a sequence of
parts of which some are closing tags. `Keep(s, T)` is `Iterator::filter` and
`Vec::retain`: what of `s` is in `T`, in its order. `RefuseBody` is the 413 of a body
that is too long, without its length (`ForwardPool` has that). `FollowRedirect` is
external: what the `reqwest` client of `local.rs` does with a redirect by default. Of
the headers `local` it is the first request that is meant; reqwest drops some of them
when it follows a redirect elsewhere. `LocalReplies` is `send().await`, `CaptureReply`
the reading of the body after it. `Refuse` is every error of the pipeline, among them a
tunnel that is lost, or returns something that cannot be decoded, while the application
is at work or after it has replied: the properties of the page and of the cookies are
about the frames that the server has received and decoded.

## 3. What is checked

| Run | Instance | Distinct states | Question |
|---|---|---|---|
| `relay_history` | 2 connections, any of the six options each, 1 request | 998 000 | Do the maps agree with each other and with the handlers? Where does a request go, when does it fail, how is its response treated? |
| `mobilink_safe` | 2 CLIs, 3 command lines, any resolution, 1 request | 1 070 000 | Is the server behind real CLIs the one of `Relay`, is what a CLI says true, and who sees a request, from end to end? |
| `mobilink_live` | 1 CLI of 2 streams, 2 requests, one hanging, 1 restart | 46 000 | Is nobody ever stuck, and does everything end that should, also when the server restarts? |
| `pool_live` | 2 threads, 2 tunnels of 2 streams, 3 requests, one hanging, bodies at the limits | 125 000 | Do hanging requests stop others, do threads come back? |
| `registry_locks` | 3 threads, 3 ids, 2 connections, any calls for ever | 1 121 000 | Are the two mutexes free of deadlock, are the calls atomic, and is what the one that is not returns true? |
| `exchange` | any 3 of 10 request headers with any redirects; any 2 of 9 response headers, any page of 3 parts, any cookie of 3 attributes | 203 000 | What does the application receive, what the browser, and does it end? |

The properties:

* `relay_history`: `OwnerIsOpen`, `RegistryCoversTunnels`, `HandlerKeepsItsEntries`
  and `SessionsAccounted` relate `current`, the sessions, the tunnels and the program
  counters; `HostChangesHands` says what one step may do to the owner.
  `RoutedToAnOwner`, `NotFoundHasACause`, `MissingTunnelHasACause`, `CalmHostServes` and
  `SoleTunnelOptionsHonoured` relate a request's outcome to what happened since it
  arrived: `MissingTunnelHasACause` is about the 502 of a session that has no tunnel,
  which is given only if that session's handler was between the two maps meanwhile; `KeepsPublicPromise`
  is the refinement of `PublicHost`.
* `mobilink_safe`: `ServerIsRelay` (every step of the composition is one of `Relay`'s
  or a restart), `ReadyMeansReachable` ("Tunnel ready!" is printed after both maps
  have the tunnel, and they keep it until the server notices a loss), `ByeIsHeard`,
  `ExitCodeTellsTruth`; `OnlyOwnersSeeRequests` relates the task of a CLI to the owners
  its browser has seen, and what is relayed to what that task delivered.
* `mobilink_live`: `RequestsNeverStuck` says that a request under way can get on, or
  waits for a stream that another one can give back; `RequestsAnswered`,
  `LostTunnelForgotten`, `CleanShutdown`, `CliFollowsServer`.
* `pool_live`: `PoolAccounted` (the queue against the program counters, and what is
  given out against what there is), `PoolNeverStalls`, `OthersFinish`,
  `ThreadsComeBack`.
* `registry_locks`: `NoDeadlock`; `ImplementsContract` for the effects of the calls, and
  `ActiveSessionIsOfItsCall` for the one that returns something and is not atomic: it
  returns a session only if that session was registered and owned the host at one
  moment of the call, and none only if the host had no owner or changed hands.
* `exchange`: `LocalLearnsPublicAddress`, `OtherHeadersArrive`, `RedirectsEnd` on the
  way in, `PageOnlyGainsConsole`, `CookiesSurvive`, `OneAllowedOrigin` on the way out.

`CliTypeOK`, `PoolTypeOK` and `ExchangeTypeOK` are checked with them. The types of `Relay`
and of `RegistryLocks`, which Rust's own would not let a bug break, are proved only.

**The bounds.** Two connections in `relay_history` are a take-over and a departure
around each pair of a request's reads, and the options of the two run through all
combinations; ids may be drawn twice, which is how a duplicate is refused. That
nothing changes with more connections, ids or requests is not argued but proved
(section 4). In `mobilink_safe` two CLIs take the host over from each other; the three
command lines are one that is understood, one with an unknown mode and one without its
required arguments. Of the history its properties read `owners` alone; `VIEW OwnersOnly`
identifies states that differ in the other history variables only, which no step
and none of these properties looks at. `mobilink_live` has the restart. One is enough:
the state after it is an initial one but for what the CLIs and the old requests
remember, and these are used once. It needs no history, and so it is an instance of
`Mobilink`; what visitors are promised through restarts, two CLIs and more among them,
is proved for any number of each (`PromiseSurvivesRestarts`, section 4). One CLI with one hanging request is also the smallest instance in which a request must
get past another.
In `pool_live` the limit of threads (2) and of each tunnel's streams (2) are reached
with the third request waiting, while one hangs; body lengths are the longest that
fits a frame, the longest the cap admits and one more. As all tunnels share the
threads, a request that waits for a stream in one tunnel holds up those of another,
which is why `OthersFinish` counts hanging requests of all tunnels against both
limits. The case in which the streams are exhausted is `claim_slow`'s. In
`registry_locks` the threads call for ever, so an id is used, closed and used again;
with three threads one can hold both locks, or one lock and wait for the other, while
two more wait. The sequences of `HttpExchange` are as long as it takes for a header to
occur twice around another, for two closing tags with something behind them, and for
an attribute to be repeated with another between; the instance is rich in one part of
an exchange at a time, since no step relates the request's headers to the reply but
the origin, which is varied with any response headers. That longer sequences behave
the same is proved. `MaxHops` is 2 for reqwest's 10.

**Deadlock** is checked in `registry_locks`. In the others connections, requests and
the exchange are used once, so an instance really comes to its end
(`CHECK_DEADLOCK FALSE`); what must not stop early is a liveness property.

**Symmetry** is used for ids, connections, requests and threads in runs that check
safety only, and where no property or constant names one of them.

**Fairness.** `MFairness` assumes weak fairness of each task of the server and of the
CLI: tokio polls every task that is ready, and runs a blocking call on a thread of its
own (whose number is the subject of `ForwardPool`). It assumes that a lost connection
is noticed at each end: the CLI announces an idle timeout of 10 s, which binds both,
and keep-alives every 5 s. It assumes that the network delivers while it is up, and
that the application answers what it answers (`Slow` names the requests it does not).
It assumes of no developer that they start a CLI or stop it, and of no browser that it
asks; neither a loss, nor a kill, nor a restart is fair. Weak fairness is enough: none
of these steps is disabled by another for ever, but for the stream limit, whose
consequences the properties state. `FairSpec` is the same for `Relay` alone and is
used by `claim_slow`. `FairPoolSpec` assumes that the pool runs what is queued, oldest first,
as tokio's does. `FairExchangeSpec` assumes an application that answers every request
it gets; the other modules treat one that does not.

### What the code does not keep

Six runs end in a violation, each of a sentence of the repository:

| Run | The sentence | What happens |
|---|---|---|
| `claim_owner` | `lib.rs:121-122`: the most recent session wins, none only without a tunnel | The newer developer leaves; the older, still connected, does not get the host back. |
| `claim_cleanup` | `quic.rs:160-161`: waits for the connection to close to clean everything up | A loss between Hello and reply leaves session and tunnel behind; the host stays with the dead. |
| `claim_options_other` | `TECHNICAL_GUIDE.md:122-123`: the options are per session | With two tunnels the options read may be the other developer's. |
| `claim_slow` | `cli/tunnel.rs:60-61`: a slow page never blocks the rest | As many hanging pages as streams block everything, and nothing times out. |
| `claim_address` | `USER_GUIDE.md:133-135`: every request reaches the application with `X-Forwarded-Host`; `http.rs:155-156`: what a proxy does not say is filled in | A proxy's `X-Forwarded-Host` that cannot be read hides the `Host` beside it: the application is told no host. |
| `claim_frame` | `USER_GUIDE.md:182`: bodies are capped at 32 MiB | The cap of a body is the cap of a frame: a body close to it is accepted by the server and its frame refused by the CLI, a 502. |

The repository is at a stage with a single developer in mind (one public host), and
`claim_owner` and `claim_options_other` need two; the server does nothing to refuse
the second.

Met while modelling and not turned into a run: the two locks of `active_session` with
a take-over and a close between them give a 404 although the host had an owner at
every moment, which `NotFoundHasACause` admits as a change of hands; the options fall
back to the defaults when the tunnel closes between its response and their reading;
`X-Forwarded-Host` is absent without a `Host` too; redirects of the application are
followed by the CLI's HTTP client and never reach the browser (one to an https address
ends in a 502), although `docs/gherkins/exposing_a_public_http_endpoint.md:16` says that
"the response status and body match what the local server sent"; the application's `Vary` is overwritten; its own `OPTIONS` handlers are never reached;
a host name that resolves to IPv6 addresses only ends the CLI with an error, its
socket being an IPv4 one.

## 4. What is proved

All theorems hold for any sets of connections, ids, requests, threads, options and
command lines, and for headers, pages and cookies of any length. They assume only what
the modules name as assumptions of their constants: `NoId`, `NoConn`, `NoThread` are no
id, connection or thread, `NoHello` and `BadHello` are no options, `Hellos` are
options, among them those a command line can ask for; requests and replies have the
types of their fields, and what `HttpExchange` writes between quotes is a string
(`LiteralsAssumption`), which the provers do not know by themselves.

| Theorem | Says |
|---|---|
| `RelayProofs!TypeCorrect` | `TypeOK`, which no run checks |
| `RelayProofs!OwnerAlwaysOpen`, `TunnelsAlwaysCovered`, `HandlersNeverInterfere`, `OnlyFailedRepliesLeak` | the four invariants of the maps |
| `RelayProofs!HostChangesHandsOnly` | the action property |
| `RelayHistoryProofs!RoutedToAnOwnerAlways`, `NotFoundAlwaysHasACause` | routing |
| `RelayHistoryProofs!PublicPromiseKept` | `RelayHistory` implements `PublicHost` |
| `OwnerProofs!MissingTunnelAlwaysHasACause` | the 502 of a session without a tunnel |
| `OwnerProofs!CalmHostAlwaysServes`, `SoleTunnelOptionsAlwaysHonoured` | a steady owner is served; the options of a sole tunnel |
| `MobilinkProofs!ServerIsTheRelay` | behind real CLIs the server takes the steps of `Relay`, restarts aside |
| `MobilinkProofs!MapsSurviveRestarts` | the invariants of the maps, in the composition and across restarts |
| `MobilinkProofs!CliTypeCorrect`, `ReadyIsReachable`, `ByeAlwaysHeard`, `ExitCodeTrue` | what the CLI says is true |
| `MobilinkProofs!RequestsAreNeverStuck` | a request under way can always get on, or waits for one that can |
| `MobilinkHistoryProofs!PromiseKeptThroughRestarts` | `MobilinkHistory` implements `PublicHost!RestartingSpec`, which no run checks |
| `MobilinkHistoryProofs!RoutingSurvivesRestarts`, `WholeCalmHostServes`, `WholeSoleTunnelOptionsHonoured` | routing, with the causes of both errors, a steady owner and its options behind real CLIs and through restarts |
| `MobilinkHistoryProofs!OnlyOwnersEverSeeRequests` | an application gets only requests of its developer's time, and its answer is the one relayed |
| `ForwardPoolProofs!PoolTypeCorrect`, `NothingOvercommitted`, `PoolAlwaysGoesOn` | the pool's types, its counts, and that it never stalls |
| `HttpExchangeProofs!ExchangeTypeCorrect` | `ExchangeTypeOK` |
| `HttpExchangeProofs!AddressAlwaysLearnt` | one scheme, at most one host, and the first one named if it can be read |
| `HttpExchangeProofs!OthersAlwaysArrive` | the other headers |
| `HttpExchangeProofs!PageAlwaysKept`, `CookiesAlwaysSurvive`, `OriginAlwaysOne` | what the browser receives |
| `RegistryLocksProofs!LocksTypeCorrect` | `LocksTypeOK`, which no run checks |
| `RegistryLocksProofs!RegistryNeverDeadlocks`, `LocksImplementContract` | the mutexes |
| `RegistryLocksProofs!ActiveSessionAlwaysOfItsCall` | what `active_session` returns |

**`TypeInv`** is `TypeOK` with `PickedBeforeLookup`: a request looks up only an id it
has read. Without it the result of the lookup has no type.

**`MapInv`** is the conjunction of `OwnerIsOpen`, `RegistryCoversTunnels`,
`HandlerKeepsItsEntries` and `SessionsAccounted`. None is inductive alone. A handler
that removes `sid[c]` removes its own entry only if no other handler has the same
id, which follows because `sessions[sid[c]] = c` for each of them; that this stays so
when a new session is registered needs the guard of `register_session`; and that an
entry of the tunnel map is covered needs to know who will remove it, and in which
order.

**`RouteInv`** adds to `RoutedToAnOwner` and `NotFoundHasACause` what a request holds
at each of its places: the present owner is recorded in `owners[r]`; the id read
from `current` is registered for somebody in `owners[r]`, or it has been closed and
`owners[r]` shows a cause for a 404. The step that matters is the lookup: the tunnel
found under the id is its session's, by `RegistryCoversTunnels`. A session that is
registered again under an id in a request's hands does no harm, because it becomes
the owner in the same step.

**`CalmInv`** says what a request of a calm host holds: the id it read is still
`current`, the connection it found is the owner's. The lemma `OwnerKeepsSession`
carries it: the owning *developer* staying the same implies that the owning
*session* does, as a handler has only one.

**`BetweenInv`** says of a request that is about to look its tunnel up that the tunnel is
there, or its session has been seen in one map only. A session whose handler is not
between the maps has its tunnel (`RegisteredHasTunnel`); and a tunnel that is removed
leaves its session registered for the moment (`TunnelKeepsSession`), which is when the
history sees it.

**`OptionsInv`** says that `front` is an entry of the map, or nothing when it is
empty, and that a Hello stands once it has been read. **`SoleInv`** adds that while
`sole[r]` holds the map has the one entry, so `front` is that entry and the options
read are its developer's.

**`LocksInv`** says which program counters hold which lock and what a call knows of
its session. The refinement maps `current` to `owner` and `sessions` to
`PublishedSessions`: the map as it was before the call whose thread holds its lock,
until that call has also done its work under the second one. A failed call and the
reads are stuttering steps. **`ReadsInv`** adds that a call of `active_session` has
always recorded the present look at the registry; and that, once it has read an id, the
session that is published for that id is among the looks recorded, or, when there is
none, the reason for it. An id that is registered anew owns the host in the same step,
and one that is closed has owned it during the call and does so no longer
(`LookupFollows`).

**`PublicPromiseKept`** needs, besides `RouteInv`, what a request at each place has been
given and answered (`AskedInv`), and that the recorded owners are connections or
nobody (`OwnersType`). Most steps of `Relay` are stutters; the one that gives a request
away is `FindTunnel`, and `RouteInv` says that whoever it finds is in `seen`.

**`MInv`** of the composition is `TypeInv`, `CliTypeOK`, `MapInv` and `EndsInv`, the
agreement of the two ends: `ConnOK` says what the server holds of a connection for
each place of the CLI's process, `JobOK` what it holds of the stream for each place of
a CLI task. It is needed because the guards of `Relay`'s CLI actions are about the
server's variables and those of `CliAgent` about its own: that a CLI that writes an
answer answers a stream the server has sent is `JobOK`, that a process which serves has
a session is `ConnOK`. The lemma `StepOfRelay` shows with it that each step of `MNext`
is a step of `Relay`, a restart or a stutter. `MapInv` is then preserved by the lemmas
of `RelayProofs` as they stand, and by a restart because it empties the maps.

**`WaitInv`** says of everybody a request may wait for that they are there. `AliveOK`
is about connections: a process that is no longer there, or a handler that has given
up, has a link that is not up; a process that is there holds the end of the connection
its place calls for, and a connection it has closed has its close frame queued or sent;
a handler past the Hello has understood it. `ServedOK` is about
requests: one that waits for an answer waits on a stream it has opened; the tunnel it
has found has a handler that is at its reply or serves, or its end is known; what is
still awaited has not been delivered, and a task that has failed belongs to a
connection that is no longer open. `RequestsNeverStuck` follows by cases on the
place of the CLI and of the task (`StreamGetsOn`). A request that waits for a stream
needs a count as well: fewer requests hang than a tunnel has streams, so that among
those that hold all of them one does not hang (`SomeStreamComesBack`); for this the
property presupposes that `Slow` is finite.

**`WholeInv`** is `MInv`, `RouteInv`, `AskedInv` and `OwnersType` together. The lemma
`StepOfHistory` reduces a step of `MHNext` to one of two: a step of `HNext`, which the
step lemmas of `RelayHistoryProofs` and `OwnerProofs` are about as they stand, or a
restart that is recorded. Only the second is new: it is `PublicHost!ServerStops`
(`RestartIsAStop`); it keeps `RouteInv`, because the host without an owner is a cause
for whatever 404 is left; `CalmInv` and `SoleInv`, because no host is calm, and no
tunnel the only one, while the maps are emptied. `FrameInv` follows a frame from the
task that delivers it to the browser, which `RouteInv` cannot see.

**`PoolInv`** is `PoolTypeOK` and `PoolAccounted`, with `Running` finite and the host
owned by a tunnel that has been opened. The two counts are kept by the guards of the
steps that give a thread or a stream out, and by subsets for the others; the queue by
lemmas on `Append` and `Tail` of a sequence without repetitions. `PoolNeverStalls`
follows: with a thread to spare the head of the queue can start; if all are taken, one
of their holders does not hang, and it can open a stream, or another holder of its
tunnel's streams can end.

**`HttpExchange`** is about filters of sequences, and each of its theorems rests on
facts about `Keep` that hold by induction on the sequence (`KeepConcat`, `KeepTwice`,
`KeepSame`, ...). The induction theorems of the library take a predicate and cannot be
used with the provers here; `SequenceInduction` therefore states induction for a *set*
of sequences: one that contains the empty sequence and with each sequence its
extensions contains them all. It is proved from the least number principle, which in
turn is the library's theorem that the natural numbers are well-founded under `<`. The inductive
invariant `ExchangeTypeInv` adds `Progress` to the types: what there is of the exchange
at each place, and that the application's headers are a function of the request's.
The two theorems about the way in follow from it and from `NamedAtLocal`, which says
of every header name what the application receives under it; those about the way out
are invariants of `TreatResponse` and `AddCors`.

The temporal step of each theorem combines an initial and a step lemma with PTL.

**Only model-checked:** the liveness properties (`RequestsAnswered`,
`LostTunnelForgotten`, `CleanShutdown`, `CliFollowsServer`, `OthersFinish`,
`ThreadsComeBack`, `RedirectsEnd`), since fairness and `ENABLED` are beyond the prover.
Of two of them the safety half is proved: `RequestsNeverStuck` says for
`RequestsAnswered`, and `PoolNeverStalls` for `OthersFinish`, that the steps which
fairness speaks of are possible when they are needed; that they lead to the end
remains with TLC. Every invariant and every action property of the passing runs is
stated by a theorem. Conversely `TypeOK`, `LocksTypeOK` and `PromiseSurvivesRestarts` are
proved and not checked.

## 5. Not modelled, and why

* TLS, certificates and their skipped verification in the CLI, QUIC itself: external;
  what they promise is in `link`, `conn` and `stream`.
* The bytes of the wire format, which the bincode library makes: a frame decodes or
  does not, and is longer than its body.
* What clap does to split words into arguments, its help texts; the QR code and the
  log lines: no state, and nothing in the program depends on them.
* A poisoned mutex or a panicking blocking task: nothing panics while it holds a mutex
  or within the pipeline.
* The answers 500 of `proxy_handler`: encoding a request into memory does not fail,
  and the blocking task neither panics nor is cancelled.
* `build_response` with a header that is not valid or a status out of range: the
  headers come out of the CLI's HTTP client, which has validated them.
* Caches between browser and server: `http.rs:101` replaces the application's `Vary`,
  which only a cache could notice.
* The lifetime of a browser's connection, HTTP/1.1 and HTTP/2: axum's and hyper's.

## 6. What remains

The modules of the original plan are all there. What could still be added:

1. `ForwardPool` as a refinement of `Relay` with the pool's queue, so that its steps
   need not be kept in line with `Relay`'s by hand; `OthersFinish` needs three
   requests, which makes the steps of `Relay` costly for TLC.
2. Several browsers' requests in one `HttpExchange`, should the server come to keep
   anything between them; today it keeps nothing.
