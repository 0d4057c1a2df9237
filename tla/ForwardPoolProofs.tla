-------------------------- MODULE ForwardPoolProofs -------------------------
(***************************************************************************)
(* Proofs about the threads and the streams that requests occupy, for any  *)
(* number of requests, tunnels, threads and streams.                       *)
(***************************************************************************)
EXTENDS ForwardPool, FiniteSetTheorems, TLAPS

\* PoolAccounted is inductive together with the types; that the set of those
\* who hold a thread is finite, without which a cardinality says nothing; and
\* that the host leads to a tunnel the server has had.
PoolInv ==
  /\ PoolTypeOK
  /\ PoolAccounted
  /\ IsFiniteSet(Running)
  /\ host # NoConn => link[host] # "none"


-----------------------------------------------------------------------------
(***************************************************************************)
(* The queue.                                                              *)
(***************************************************************************)
LEMMA AppendQueues ==
  ASSUME NEW S, NEW q \in Seq(S), NEW x \in S, NEW p, p = Append(q, x),
         \A i \in DOMAIN q : q[i] # x,
         \A i, j \in DOMAIN q : q[i] = q[j] => i = j
  PROVE  /\ p \in Seq(S)
         /\ \A y : (\E i \in DOMAIN p : p[i] = y) <=> y = x \/ \E i \in DOMAIN q : q[i] = y
         /\ \A i, j \in DOMAIN p : p[i] = p[j] => i = j
<1>1. /\ p \in Seq(S) /\ Len(p) = Len(q) + 1 /\ Len(q) \in Nat
      /\ DOMAIN p = 1 .. Len(q) + 1 /\ DOMAIN q = 1 .. Len(q)
      /\ p[Len(q) + 1] = x /\ \A i \in 1 .. Len(q) : p[i] = q[i]
  OBVIOUS
<1>. QED BY <1>1

-----------------------------------------------------------------------------
(***************************************************************************)
(* The steps.                                                              *)
(***************************************************************************)

\* A step that moves no request, and takes no tunnel back.
LEMMA PoolStands ==
  ASSUME PoolInv, UNCHANGED <<queue, at, size, via>>,
         link' \in [Conns -> {"none", "up", "down"}],
         host' \in Conns \cup {NoConn}, gone' \in [Reqs -> BOOLEAN],
         \A c \in Conns : link[c] # "none" => link'[c] # "none",
         host' # NoConn => link'[host'] # "none"
  PROVE  PoolInv'
<1>1. PoolTypeOK'
  BY DEF PoolInv, PoolTypeOK
<1>2. Running' = Running /\ \A c \in Conns : Streaming(c)' = Streaming(c)
  BY DEF Running, Streaming
<1>3. \A r \in Running' : via'[r] \in Conns /\ link'[via'[r]] # "none"
  BY <1>2 DEF PoolInv, PoolAccounted
<1>4. PoolAccounted'
  BY <1>2, <1>3 DEF PoolInv, PoolAccounted
<1>. QED BY <1>1, <1>2, <1>4 DEF PoolInv

\* What a request that is finished gives back.
LEMMA FinishGivesBack ==
  ASSUME PoolInv, NEW r \in Reqs, NEW how \in {"answered", "refused"}, Finish(r, how),
         UNCHANGED network
  PROVE  /\ at'[r] = how /\ \A q \in Reqs \ {r} : at'[q] = at[q]
         /\ (queue' \in Seq(Reqs) => PoolTypeOK')
         /\ IsFiniteSet(Running')
         /\ Cardinality(Running') <= Threads
         /\ \A c \in Conns : Cardinality(Streaming(c)') <= MaxStreams
         /\ \A q \in Running' : via'[q] \in Conns /\ link'[via'[q]] # "none"
<1>1. at'[r] = how /\ \A q \in Reqs \ {r} : at'[q] = at[q] /\ via'[q] = via[q]
  BY DEF PoolInv, PoolTypeOK, Finish
<1>2. queue' \in Seq(Reqs) => PoolTypeOK'
  BY DEF PoolInv, PoolTypeOK, Finish, network
<1>3. Running' = Running \ {r} /\ \A c \in Conns : Streaming(c)' = Streaming(c) \ {r}
  BY <1>1 DEF Running, Streaming
<1>4. IsFiniteSet(Running') /\ Cardinality(Running') <= Threads
  <2>1. IsFiniteSet(Running) /\ Cardinality(Running) <= Threads /\ Running' \in SUBSET Running
    BY <1>3 DEF PoolInv, PoolAccounted
  <2>. QED BY <2>1, FS_Subset, FS_CardinalityType, SizesAssumption
<1>5. ASSUME NEW c \in Conns PROVE Cardinality(Streaming(c)') <= MaxStreams
  <2>1. IsFiniteSet(Streaming(c)) /\ Cardinality(Streaming(c)) <= MaxStreams
    <3>1. Streaming(c) \in SUBSET Running
      BY DEF Streaming, Running
    <3>. QED BY <3>1, FS_Subset DEF PoolInv, PoolAccounted
  <2>2. Streaming(c)' \in SUBSET Streaming(c)
    BY <1>3
  <2>. QED BY <2>1, <2>2, FS_Subset, FS_CardinalityType, SizesAssumption
<1>6. \A q \in Running' : via'[q] \in Conns /\ link'[via'[q]] # "none"
  BY <1>1, <1>3 DEF PoolInv, PoolAccounted, network, Running
<1>. QED BY <1>1, <1>2, <1>3, <1>4, <1>5, <1>6

\* A request that did not wait in the queue is finished.
LEMMA FinishStep ==
  ASSUME PoolInv, NEW r \in Reqs, NEW how \in {"answered", "refused"}, Finish(r, how),
         at[r] # "queued", UNCHANGED <<network, queue>>
  PROVE  PoolInv'
<1>1. /\ at'[r] # "queued" /\ \A q \in Reqs \ {r} : at'[q] = at[q]
      /\ PoolTypeOK' /\ IsFiniteSet(Running') /\ Cardinality(Running') <= Threads
      /\ \A c \in Conns : Cardinality(Streaming(c)') <= MaxStreams
      /\ \A q \in Running' : via'[q] \in Conns /\ link'[via'[q]] # "none"
  BY FinishGivesBack DEF PoolInv, PoolTypeOK
<1>2. PoolAccounted'
  BY <1>1 DEF PoolInv, PoolAccounted
<1>3. host' # NoConn => link'[host'] # "none"
  BY DEF PoolInv, network
<1>. QED BY <1>1, <1>2, <1>3 DEF PoolInv

\* A request is handed to the pool.
LEMMA QueueStep ==
  ASSUME PoolInv, NEW r \in Reqs, NEW b \in Bodies, b <= MaxBody, at[r] = "idle",
         at' = [at EXCEPT ![r] = "queued"], size' = [size EXCEPT ![r] = b],
         queue' = Append(queue, r), UNCHANGED <<network, via, gone>>
  PROVE  PoolInv'
<1>1. /\ at'[r] = "queued" /\ \A q \in Reqs \ {r} : at'[q] = at[q]
      /\ \A i \in DOMAIN queue : queue[i] # r
  BY DEF PoolInv, PoolTypeOK, PoolAccounted
<1>2. /\ queue' \in Seq(Reqs)
      /\ \A q : (\E i \in DOMAIN queue' : queue'[i] = q)
                  <=> q = r \/ \E i \in DOMAIN queue : queue[i] = q
      /\ \A i, j \in DOMAIN queue' : queue'[i] = queue'[j] => i = j
  <2> DEFINE p == queue'
  <2> HIDE DEF p
  <2>1. queue \in Seq(Reqs) /\ p = Append(queue, r)
        /\ \A i, j \in DOMAIN queue : queue[i] = queue[j] => i = j
    BY DEF p, PoolInv, PoolTypeOK, PoolAccounted
  <2>2. /\ p \in Seq(Reqs)
        /\ \A q : (\E i \in DOMAIN p : p[i] = q) <=> q = r \/ \E i \in DOMAIN queue : queue[i] = q
        /\ \A i, j \in DOMAIN p : p[i] = p[j] => i = j
    BY <1>1, <2>1, AppendQueues
  <2>. QED BY <2>2 DEF p
<1>3. PoolTypeOK'
  BY <1>2 DEF PoolInv, PoolTypeOK, network
<1>4. Running' = Running /\ \A c \in Conns : Streaming(c)' = Streaming(c)
  BY <1>1 DEF Running, Streaming
<1>5. \A q \in Running' : via'[q] \in Conns /\ link'[via'[q]] # "none"
  BY <1>4 DEF PoolInv, PoolAccounted, network
<1>6. \A q \in Reqs : at'[q] = "queued" <=> \E i \in DOMAIN queue' : queue'[i] = q
  BY <1>1, <1>2 DEF PoolInv, PoolAccounted
<1>7. PoolAccounted'
  BY <1>2, <1>4, <1>5, <1>6 DEF PoolInv, PoolAccounted
<1>. QED BY <1>3, <1>4, <1>7 DEF PoolInv, network

\* A thread takes the first request of the queue.
LEMMA StartStep ==
  ASSUME PoolInv, NEW r \in Reqs, StartThread(r)
  PROVE  PoolInv'
<1>1. at[r] = "queued" /\ Head(queue) = r /\ Cardinality(Running) < Threads /\ r \notin Running
  BY DEF StartThread, CanStart, Running
<1>2. /\ queue' \in Seq(Reqs)
      /\ \A q : (\E i \in DOMAIN queue' : queue'[i] = q)
                  <=> q # r /\ \E i \in DOMAIN queue : queue[i] = q
      /\ \A i, j \in DOMAIN queue' : queue'[i] = queue'[j] => i = j
  <2> DEFINE p == queue'
  <2> HIDE DEF p
  <2>1. queue \in Seq(Reqs) /\ p = Tail(queue) /\ r = Head(queue)
        /\ \A i, j \in DOMAIN queue : queue[i] = queue[j] => i = j
    BY <1>1 DEF p, PoolInv, PoolTypeOK, PoolAccounted, StartThread, Begin
  <2>2. queue # <<>>
    BY <1>1 DEF PoolInv, PoolAccounted
  <2>3. /\ p \in Seq(Reqs) /\ Len(p) = Len(queue) - 1 /\ Len(queue) \in Nat
        /\ DOMAIN p = 1 .. Len(queue) - 1 /\ DOMAIN queue = 1 .. Len(queue)
        /\ r = queue[1] /\ \A i \in 1 .. Len(queue) - 1 : p[i] = queue[i + 1]
    BY <2>1, <2>2
  <2>4. ASSUME NEW i \in DOMAIN p PROVE p[i] # r /\ \E j \in DOMAIN queue : queue[j] = p[i]
    BY <2>1, <2>3
  <2>5. ASSUME NEW i \in DOMAIN queue, queue[i] # r PROVE \E j \in DOMAIN p : p[j] = queue[i]
    <3>1. i - 1 \in DOMAIN p /\ p[i - 1] = queue[i]
      BY <2>3, <2>5
    <3>. QED BY <3>1
  <2>6. \A i, j \in DOMAIN p : p[i] = p[j] => i = j
    BY <2>1, <2>3
  <2>. QED BY <2>3, <2>4, <2>5, <2>6 DEF p
<1>3. UNCHANGED network
  BY DEF StartThread, Begin
<1>4. host' # NoConn => link'[host'] # "none"
  BY <1>3 DEF PoolInv, network
<1>5. CASE host = NoConn
  <2>1. Finish(r, "answered")
    BY <1>5 DEF StartThread, Begin
  <2>2. /\ at'[r] # "queued" /\ \A q \in Reqs \ {r} : at'[q] = at[q]
        /\ PoolTypeOK' /\ IsFiniteSet(Running') /\ Cardinality(Running') <= Threads
        /\ \A c \in Conns : Cardinality(Streaming(c)') <= MaxStreams
        /\ \A q \in Running' : via'[q] \in Conns /\ link'[via'[q]] # "none"
    BY <1>2, <1>3, <2>1, FinishGivesBack
  <2>3. \A q \in Reqs : at'[q] = "queued" <=> \E i \in DOMAIN queue' : queue'[i] = q
    BY <1>2, <2>2 DEF PoolInv, PoolAccounted
  <2>4. PoolAccounted'
    BY <1>2, <2>2, <2>3 DEF PoolAccounted
  <2>. QED BY <1>4, <2>2, <2>4 DEF PoolInv
<1>6. CASE host # NoConn
  <2>1. /\ at' = [at EXCEPT ![r] = "open"] /\ via' = [via EXCEPT ![r] = host]
        /\ UNCHANGED <<size, gone>>
    BY <1>6 DEF StartThread, Begin
  <2>2. /\ at'[r] = "open" /\ via'[r] = host
        /\ \A q \in Reqs \ {r} : at'[q] = at[q] /\ via'[q] = via[q]
    BY <2>1 DEF PoolInv, PoolTypeOK
  <2>3. PoolTypeOK'
    BY <1>2, <1>3, <2>1 DEF PoolInv, PoolTypeOK, network
  <2>4. Running' = Running \cup {r} /\ \A c \in Conns : Streaming(c)' = Streaming(c)
    BY <1>1, <2>2 DEF Running, Streaming
  <2>5. IsFiniteSet(Running') /\ Cardinality(Running') <= Threads
    <3>1. IsFiniteSet(Running) /\ Cardinality(Running) \in Nat
      BY FS_CardinalityType DEF PoolInv
    <3>2. IsFiniteSet(Running') /\ Cardinality(Running') = Cardinality(Running) + 1
      BY <1>1, <2>4, <3>1, FS_AddElement
    <3>. QED BY <1>1, <3>1, <3>2, SizesAssumption
  <2>6. \A q \in Running' : via'[q] \in Conns /\ link'[via'[q]] # "none"
    BY <1>3, <1>6, <2>2, <2>4 DEF PoolInv, PoolTypeOK, PoolAccounted, network, Running
  <2>7. \A q \in Reqs : at'[q] = "queued" <=> \E i \in DOMAIN queue' : queue'[i] = q
    BY <1>2, <2>2 DEF PoolInv, PoolAccounted
  <2>8. PoolAccounted'
    BY <1>2, <2>4, <2>5, <2>6, <2>7 DEF PoolInv, PoolAccounted
  <2>. QED BY <1>4, <2>3, <2>5, <2>8 DEF PoolInv
<1>. QED BY <1>5, <1>6

\* A request that holds a thread gets a stream too.
LEMMA OpenStep ==
  ASSUME PoolInv, NEW r \in Reqs, OpenStream(r)
  PROVE  PoolInv'
<1>1. /\ at[r] = "open" /\ at'[r] = "sent" /\ \A q \in Reqs \ {r} : at'[q] = at[q]
      /\ UNCHANGED <<network, queue, size, via, gone>>
      /\ Cardinality(Streaming(via[r])) < MaxStreams
  BY DEF OpenStream, CanOpen, PoolInv, PoolTypeOK
<1>2. PoolTypeOK'
  BY <1>1 DEF OpenStream, PoolInv, PoolTypeOK, network
<1>3. Running' = Running
  BY <1>1 DEF Running
<1>4. ASSUME NEW c \in Conns PROVE Cardinality(Streaming(c)') <= MaxStreams
  <2>1. CASE c # via[r]
    <3>1. Streaming(c)' = Streaming(c)
      BY <1>1, <2>1 DEF Streaming
    <3>. QED BY <3>1 DEF PoolInv, PoolAccounted
  <2>2. CASE c = via[r]
    <3>1. Streaming(c)' = Streaming(c) \cup {r} /\ r \notin Streaming(c)
      BY <1>1, <2>2 DEF Streaming
    <3>2. Streaming(c) \in SUBSET Running
      BY DEF Streaming, Running
    <3>3. IsFiniteSet(Streaming(c)) /\ Cardinality(Streaming(c)) \in Nat
      BY <3>2, FS_Subset, FS_CardinalityType DEF PoolInv
    <3>4. Cardinality(Streaming(c)') = Cardinality(Streaming(c)) + 1
      BY <3>1, <3>3, FS_AddElement
    <3>. QED BY <1>1, <2>2, <3>3, <3>4, SizesAssumption
  <2>. QED BY <2>1, <2>2
<1>5. \A q \in Reqs : at'[q] = "queued" <=> at[q] = "queued"
  BY <1>1
<1>6. PoolAccounted'
  BY <1>1, <1>3, <1>4, <1>5 DEF PoolInv, PoolAccounted, network
<1>. QED BY <1>1, <1>2, <1>3, <1>6 DEF PoolInv, network
-----------------------------------------------------------------------------
\* PoolInv holds in every reachable state.
THEOREM PoolInvariant == PoolSpec => []PoolInv
<1>1. PoolInit => PoolInv
  <2> SUFFICES ASSUME PoolInit PROVE PoolInv
    OBVIOUS
  <2>1. PoolTypeOK
    BY DEF PoolInit, PoolTypeOK
  <2>2. Running = {} /\ \A c \in Conns : Streaming(c) = {}
    BY DEF PoolInit, Running, Streaming
  <2>3. IsFiniteSet(Running) /\ Cardinality(Running) = 0
        /\ \A c \in Conns : Cardinality(Streaming(c)) = 0
    BY <2>2, FS_EmptySet
  <2>4. PoolAccounted
    BY <2>2, <2>3, SizesAssumption DEF PoolInit, PoolAccounted
  <2>. QED BY <2>1, <2>3, <2>4 DEF PoolInv, PoolInit
<1>2. PoolInv /\ [PoolNext]_pvars => PoolInv'
  <2> SUFFICES ASSUME PoolInv, [PoolNext]_pvars PROVE PoolInv'
    OBVIOUS
  <2>1. ASSUME NEW c \in Conns, TunnelOpens(c) \/ TunnelCloses(c) PROVE PoolInv'
    BY <2>1, PoolStands, NoConnAssumption DEF TunnelOpens, TunnelCloses, PoolInv, PoolTypeOK
  <2>2. CASE HostFreed
    BY <2>2, PoolStands DEF HostFreed, PoolInv, PoolTypeOK
  <2>3. ASSUME NEW r \in Reqs, BrowserLeaves(r) PROVE PoolInv'
    BY <2>3, PoolStands DEF BrowserLeaves, network, PoolInv, PoolTypeOK
  <2>4. ASSUME NEW r \in Reqs, RequestRead(r) PROVE PoolInv'
    <3>1. PICK b \in Bodies : IF b > MaxBody
                                THEN Finish(r, "answered") /\ UNCHANGED queue
                                ELSE /\ at' = [at EXCEPT ![r] = "queued"]
                                     /\ size' = [size EXCEPT ![r] = b]
                                     /\ queue' = Append(queue, r)
                                     /\ UNCHANGED <<via, gone>>
      BY <2>4 DEF RequestRead
    <3>2. at[r] = "idle" /\ UNCHANGED network
      BY <2>4 DEF RequestRead
    <3>3. CASE b > MaxBody
      BY <3>1, <3>2, <3>3, FinishStep
    <3>4. CASE ~(b > MaxBody)
      <4>1. b <= MaxBody
        BY <3>4, SizesAssumption
      <4>. QED BY <3>1, <3>2, <3>4, <4>1, QueueStep
    <3>. QED BY <3>3, <3>4
  <2>5. ASSUME NEW r \in Reqs, StartThread(r) \/ OpenStream(r) PROVE PoolInv'
    BY <2>5, StartStep, OpenStep
  <2>6. ASSUME NEW r \in Reqs, Fail(r) \/ Refuse(r) \/ Respond(r) PROVE PoolInv'
    BY <2>6, FinishStep DEF Fail, Refuse, Respond, Running
  <2>7. CASE UNCHANGED pvars
    BY <2>7, PoolStands DEF pvars, network, PoolInv, PoolTypeOK
  <2>. QED BY <2>1, <2>2, <2>3, <2>4, <2>5, <2>6, <2>7 DEF PoolNext, Work
<1>. QED BY <1>1, <1>2, PTL DEF PoolSpec

\* Every variable keeps to its type.
THEOREM PoolTypeCorrect == PoolSpec => []PoolTypeOK
<1>1. PoolInv => PoolTypeOK
  BY DEF PoolInv
<1>. QED BY <1>1, PoolInvariant, PTL

\* No request is lost from the queue or runs twice, and neither the threads nor
\* the streams of a tunnel are ever given out twice.
THEOREM NothingOvercommitted == PoolSpec => []PoolAccounted
<1>1. PoolInv => PoolAccounted
  BY DEF PoolInv
<1>. QED BY <1>1, PoolInvariant, PTL

\* Among the requests that hold a stream of one tunnel there is one that does
\* not hang, when they are more than all that hang.
LEMMA SomeStreamEnds ==
  ASSUME PoolInv, NEW c \in Conns,
         Cardinality({q \in Running : Hangs(q)}) < MaxStreams,
         ~(Cardinality(Streaming(c)) < MaxStreams)
  PROVE  \E q \in Streaming(c) : ~Hangs(q)
<1> DEFINE H == {q \in Running : Hangs(q)}
<1> SUFFICES ASSUME \A q \in Streaming(c) : Hangs(q) PROVE FALSE
  OBVIOUS
<1>1. IsFiniteSet(H) /\ Cardinality(H) \in Nat
  <2>1. H \in SUBSET Running
    OBVIOUS
  <2>. QED BY <2>1, FS_Subset, FS_CardinalityType DEF PoolInv
<1>2. Streaming(c) \in SUBSET H
  BY DEF Streaming, Running
<1> HIDE DEF H
<1>3. Cardinality(Streaming(c)) \in Nat /\ Cardinality(Streaming(c)) <= Cardinality(H)
  BY <1>1, <1>2, FS_Subset, FS_CardinalityType
<1>4. Cardinality(H) < MaxStreams /\ ~(Cardinality(Streaming(c)) < MaxStreams)
  BY DEF H
<1>. QED BY <1>1, <1>3, <1>4, SizesAssumption

\* However many tunnels, threads and streams there are, and whichever requests
\* hang: as long as these leave a thread and a stream, the pool can go on.
THEOREM PoolAlwaysGoesOn == PoolSpec => []PoolNeverStalls
<1>1. PoolInv => PoolNeverStalls
  <2> SUFFICES ASSUME PoolInv, NEW r \in Reqs, UnderWay(r), ~Hangs(r),
                      Cardinality({q \in Running : Hangs(q)}) < Threads,
                      Cardinality({q \in Running : Hangs(q)}) < MaxStreams
               PROVE  \E q \in Reqs : CanWork(q)
    BY DEF PoolNeverStalls
  <2>1. ASSUME NEW q \in Running, ~Hangs(q) PROVE \E p \in Reqs : CanWork(p)
    <3>1. q \in Reqs /\ at[q] \in {"open", "sent"} /\ via[q] \in Conns
          /\ link[via[q]] \in {"up", "down"}
      BY <2>1 DEF Running, PoolInv, PoolTypeOK, PoolAccounted
    <3>2. CASE link[via[q]] = "down" \/ at[q] = "sent"
      BY <2>1, <3>1, <3>2 DEF CanWork
    <3>3. CASE /\ link[via[q]] = "up" /\ at[q] = "open"
               /\ Cardinality(Streaming(via[q])) < MaxStreams
      BY <3>1, <3>3 DEF CanWork, CanOpen
    <3>4. CASE /\ link[via[q]] = "up" /\ at[q] = "open"
               /\ ~(Cardinality(Streaming(via[q])) < MaxStreams)
      <4>1. PICK p \in Streaming(via[q]) : ~Hangs(p)
        BY <3>1, <3>4, SomeStreamEnds
      <4>2. p \in Reqs /\ at[p] = "sent" /\ link[via[p]] = "up"
        BY <3>4 DEF Streaming
      <4>. QED BY <4>1, <4>2 DEF CanWork
    <3>. QED BY <3>1, <3>2, <3>3, <3>4
  <2>2. CASE \A q \in Running : Hangs(q)
    <3>1. {q \in Running : Hangs(q)} = Running
      BY <2>2
    <3>2. Cardinality(Running) < Threads
      BY <3>1
    <3>3. r \in Reqs /\ at[r] = "queued"
      BY <2>2 DEF UnderWay, Running
    <3>4. queue \in Seq(Reqs) /\ queue # <<>>
      BY <3>3 DEF PoolInv, PoolTypeOK, PoolAccounted
    <3>5. 1 \in DOMAIN queue /\ Head(queue) = queue[1] /\ Head(queue) \in Reqs
      BY <3>4
    <3>6. at[Head(queue)] = "queued"
      BY <3>5 DEF PoolInv, PoolAccounted
    <3>7. CanWork(Head(queue))
      BY <3>2, <3>6 DEF CanWork, CanStart
    <3>. QED BY <3>5, <3>7
  <2>. QED BY <2>1, <2>2
<1>. QED BY <1>1, PoolInvariant, PTL
=============================================================================
