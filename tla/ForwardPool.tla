----------------------------- MODULE ForwardPool -----------------------------
(***************************************************************************)
(* What a public request occupies while it is under way (proxy_handler and *)
(* QuicTunnelForwarder): a place in the queue of the runtime's blocking    *)
(* pool, one of its threads for as long as the pipeline runs, a stream of  *)
(* one tunnel; and the sizes the two ends of the tunnel accept.            *)
(*                                                                         *)
(* Relay has every step of the pipeline, and what the browser gets, but no *)
(* bound on the threads; here looking up the tunnel is one step, and all   *)
(* tunnels share one pool.                                                 *)
(***************************************************************************)
EXTENDS Wire, FiniteSets, Naturals, Sequences

CONSTANTS
  Threads,      \* the threads of the blocking pool (tokio: 512)
  MaxStreams,   \* the streams a CLI lets the server have open (quinn: 100)
  MaxBody,      \* MAX_BODY_BYTES
  MaxFrame,     \* MAX_FRAME_BYTES
  Overhead,     \* what a frame holds besides the body
  Bodies        \* how long a body may be

ASSUME SizesAssumption ==
  /\ {Threads, MaxStreams, Overhead} \subseteq Nat \ {0}
  /\ {MaxBody, MaxFrame} \cup Bodies \subseteq Nat

VARIABLES
  link,    \* link[c]: the tunnel of c, as the server knows it
  host,    \* the tunnel the public host leads to
  queue,   \* the requests that wait for a thread
  at,      \* at[r]: where request r is
  size,    \* size[r]: the length of its body
  via,     \* via[r]: the tunnel it travels by
  gone     \* gone[r]: its browser has left

network == <<link, host>>
pvars == <<network, queue, at, size, via, gone>>

PoolTypeOK ==
  /\ link  \in [Conns -> {"none", "up", "down"}]
  /\ host  \in Conns \cup {NoConn}
  /\ queue \in Seq(Reqs)
  /\ at    \in [Reqs -> {"idle", "queued", "open", "sent", "answered", "refused"}]
  /\ size  \in [Reqs -> {b \in Bodies : b <= MaxBody} \cup {0}]
  /\ via   \in [Reqs -> Conns \cup {NoConn}]
  /\ gone  \in [Reqs -> BOOLEAN]

PoolInit ==
  /\ link  = [c \in Conns |-> "none"]
  /\ host  = NoConn
  /\ queue = <<>>
  /\ at    = [r \in Reqs |-> "idle"]
  /\ size  = [r \in Reqs |-> 0]
  /\ via   = [r \in Reqs |-> NoConn]
  /\ gone  = [r \in Reqs |-> FALSE]

\* The requests that hold a thread, and those that hold a stream of c.
Running == {r \in Reqs : at[r] \in {"open", "sent"}}
Streaming(c) == {r \in Reqs : at[r] = "sent" /\ via[r] = c}

UnderWay(r) == at[r] \in {"queued", "open", "sent"}
Ended(r) == at[r] \in {"answered", "refused"}

Fits(body) == body + Overhead <= MaxFrame

\* A request the application never answers and that is short enough to reach it.
Hangs(r) == r \in Slow /\ Fits(size[r])

\* The pipeline returns: its thread is free, whether or not anybody still
\* waits for the answer.
Finish(r, how) ==
  /\ at' = [at EXCEPT ![r] = how]
  /\ size' = [size EXCEPT ![r] = 0]
  /\ via' = [via EXCEPT ![r] = NoConn]
  /\ gone' = [gone EXCEPT ![r] = FALSE]
-----------------------------------------------------------------------------
\* The newest tunnel gets the host; a lost one keeps it until the server has
\* cleaned up.
TunnelOpens(c) ==
  /\ link[c] = "none"
  /\ link' = [link EXCEPT ![c] = "up"]
  /\ host' = c
  /\ UNCHANGED <<queue, at, size, via, gone>>

TunnelCloses(c) ==
  /\ link[c] = "up"
  /\ link' = [link EXCEPT ![c] = "down"]
  /\ UNCHANGED <<host, queue, at, size, via, gone>>

HostFreed ==
  /\ host # NoConn
  /\ link[host] = "down"
  /\ host' = NoConn
  /\ UNCHANGED <<link, queue, at, size, via, gone>>

\* The browser hangs up and its handler is dropped; what was handed to
\* spawn_blocking goes on, also when no thread has begun with it.
BrowserLeaves(r) ==
  /\ UnderWay(r)
  /\ ~gone[r]
  /\ gone' = [gone EXCEPT ![r] = TRUE]
  /\ UNCHANGED <<network, queue, at, size, via>>

RequestReadWhole(r) ==
  /\ at[r] = "idle"
  /\ \E b \in Bodies : size' = [size EXCEPT ![r] = b]
  /\ at' = [at EXCEPT ![r] = "queued"]
  /\ queue' = Append(queue, r)
  /\ UNCHANGED <<network, via, gone>>

\* to_bytes, up to MAX_BODY_BYTES (or a 413), then spawn_blocking
RequestRead(r) ==
  /\ at[r] = "idle"
  /\ \E b \in Bodies :
       IF b > MaxBody
         THEN Finish(r, "answered") /\ UNCHANGED queue
         ELSE /\ at' = [at EXCEPT ![r] = "queued"]
              /\ size' = [size EXCEPT ![r] = b]
              /\ queue' = Append(queue, r)
              /\ UNCHANGED <<via, gone>>
  /\ UNCHANGED network

\* A thread takes the oldest request of the queue and finds its tunnel, or is
\* done with it when there is none.
Begin(r) ==
  /\ queue' = Tail(queue)
  /\ IF host = NoConn
       THEN Finish(r, "answered")
       ELSE /\ at' = [at EXCEPT ![r] = "open"]
            /\ via' = [via EXCEPT ![r] = host]
            /\ UNCHANGED <<size, gone>>
  /\ UNCHANGED network

CanStartLeavingOne(r) ==
  /\ at[r] = "queued"
  /\ Head(queue) = r
  /\ Cardinality(Running) + 1 < Threads

CanStartOneMore(r) ==
  /\ at[r] = "queued"
  /\ Head(queue) = r
  /\ Cardinality(Running) <= Threads

CanStart(r) ==
  /\ at[r] = "queued"
  /\ Head(queue) = r
  /\ Cardinality(Running) < Threads

StartThread(r) == CanStart(r) /\ Begin(r)

\* open_bi, which waits for a stream, and write_all
CanOpen(r) ==
  /\ at[r] = "open"
  /\ link[via[r]] = "up"
  /\ Cardinality(Streaming(via[r])) < MaxStreams

OpenStream(r) ==
  /\ CanOpen(r)
  /\ at' = [at EXCEPT ![r] = "sent"]
  /\ UNCHANGED <<network, queue, size, via, gone>>

FailIfAwaited(r) ==
  /\ r \in Running
  /\ link[via[r]] = "down"
  /\ ~gone[r]
  /\ Finish(r, "answered")
  /\ UNCHANGED <<network, queue>>

\* Each await of the forwarder fails once the connection is closed.
Fail(r) ==
  /\ r \in Running
  /\ link[via[r]] = "down"
  /\ Finish(r, "answered")
  /\ UNCHANGED <<network, queue>>

\* handle_stream: a frame that is too long for read_to_end is an error, and
\* the stream ends before the application has seen the request.  The browser
\* gets a 502.
Refuse(r) ==
  /\ at[r] = "sent"
  /\ link[via[r]] = "up"
  /\ ~Fits(size[r])
  /\ Finish(r, "refused")
  /\ UNCHANGED <<network, queue>>

\* The application answers.  The forwarder reads a frame, or gives up on one
\* that is too long, which is a 502; it is finished in both cases.
Respond(r) ==
  /\ at[r] = "sent"
  /\ link[via[r]] = "up"
  /\ Fits(size[r])
  /\ r \notin Slow
  /\ Finish(r, "answered")
  /\ UNCHANGED <<network, queue>>
-----------------------------------------------------------------------------
Work(r) == StartThread(r) \/ OpenStream(r) \/ Fail(r) \/ Refuse(r) \/ Respond(r)

PoolNext ==
  \/ \E c \in Conns : TunnelOpens(c) \/ TunnelCloses(c)
  \/ HostFreed
  \/ \E r \in Reqs : BrowserLeaves(r) \/ RequestRead(r) \/ Work(r)

PoolSpec == PoolInit /\ [][PoolNext]_pvars

\* The pool runs what is queued, the runtime polls what is ready, and the
\* application answers what it answers.
FairPoolSpec == PoolSpec /\ \A r \in Reqs : WF_pvars(Work(r))
-----------------------------------------------------------------------------
\* The queue holds each request that waits for a thread, once; the threads and
\* the streams that are out are not more than there are; and a request that
\* holds one travels by a tunnel the server has had, so that its end shows.
PoolAccounted ==
  /\ \A r \in Reqs : at[r] = "queued" <=> \E i \in DOMAIN queue : queue[i] = r
  /\ \A i, j \in DOMAIN queue : queue[i] = queue[j] => i = j
  /\ Cardinality(Running) <= Threads
  /\ \A c \in Conns : Cardinality(Streaming(c)) <= MaxStreams
  /\ \A r \in Running : via[r] \in Conns /\ link[via[r]] # "none"

\* A step of Work(r) is possible: it starts, opens its stream, fails with its
\* tunnel, or the CLI ends its stream.
CanWork(r) ==
  \/ CanStart(r)
  \/ CanOpen(r)
  \/ r \in Running /\ link[via[r]] = "down"
  \/ at[r] = "sent" /\ link[via[r]] = "up" /\ ~Hangs(r)

\* No request waits for ever on the others: while one that does not hang is
\* under way, and the hanging ones hold fewer threads than there are, and than
\* a tunnel has streams, some request can take a step.
PoolNeverStalls ==
  LET hanging == Cardinality({q \in Running : Hangs(q)}) IN
  (\E r \in Reqs : UnderWay(r) /\ ~Hangs(r)) /\ hanging < Threads /\ hanging < MaxStreams =>
    \E r \in Reqs : CanWork(r)

\* As long as fewer requests hang than there are threads, and than a tunnel
\* has streams, everything else that is handed to the pool is finished:
\* whichever tunnel they hang in, whoever has left, whatever the sizes are.
OthersFinish ==
  \A r \in Reqs : (at[r] = "queued" /\ ~Hangs(r)) ~>
    LET hanging == Cardinality({q \in Reqs : UnderWay(q) /\ Hangs(q)})
    IN  Ended(r) \/ hanging >= Threads \/ hanging >= MaxStreams

\* A tunnel that closes gives back every thread that waits on it, also those
\* of browsers that have left.
ThreadsComeBack ==
  \A r \in Reqs : (r \in Running /\ link[via[r]] = "down") ~> Ended(r)

\* docs/USER_GUIDE.md: "Request and response bodies are capped at 32 MiB": a
\* request whose body is not longer than that is not refused for its length.
CappedBodiesTravel ==
  [][\A r \in Reqs : at'[r] = "refused" => at[r] = "refused" \/ size[r] > MaxBody]_pvars
=============================================================================
