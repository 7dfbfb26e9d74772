------------------------- MODULE TestClient_proofs -------------------------
(***************************************************************************)
(* For every number of segments and tiles and all ratios: the priorities   *)
(* of the test client's requests are in proportion at any time, and the    *)
(* goroutines of a run keep what their semaphore, map, pacing and          *)
(* condition variable are there for.                                       *)
(***************************************************************************)
EXTENDS TestClient, FiniteSetTheorems, TLAPS

SharesInv ==
  /\ counter \in Nat
  /\ counterHighPriority \in Nat
  /\ counterMediumPriority \in Nat
  /\ counter = 0 => counterHighPriority = 0 /\ counterMediumPriority = 0
  /\ PriorityShares

\* One request more for a class of requests that was, or was not, below its ratio:
\* c of n requests become d of n + 1.
LEMMA UpperShare ==
  ASSUME NEW c \in Nat, NEW n \in Nat \ {0}, NEW w \in Nat \ {0}, NEW s \in 0 .. w,
         NEW d \in Nat,
         \/ d = c + 1 /\ c * w < s * n
         \/ d = c /\ w * c < s * (n - 1) + w
  PROVE  w * d < s * n + w
<1>1. w * (c + 1) = c * w + w /\ s * (n - 1) = s * n - s
  BY SMT
<1>2. w * c \in Int /\ s * n \in Int /\ s \in Nat /\ w \in Nat
  BY SMT
<1>3. QED
  BY <1>1, <1>2, SMT

LEMMA LowerShare ==
  ASSUME NEW c \in Nat, NEW n \in Nat \ {0}, NEW w \in Nat \ {0}, NEW s \in 0 .. w,
         NEW d \in Nat,
         s * (n - 1) <= w * c,
         \/ d = c + 1
         \/ d = c /\ ~(c * w < s * n)
  PROVE  s * n <= w * d
<1>1. w * (c + 1) = w * c + w /\ s * (n - 1) = s * n - s /\ c * w = w * c
  BY SMT
<1>2. w * c \in Int /\ s * n \in Int /\ s <= w /\ s \in Int
  BY SMT
<1>3. QED
  BY <1>1, <1>2, SMT

\* Nothing but ChoosePriority changes the counters.
LEMMA SharesStep ==
  ASSUME SharesInv, ChoosePriority
  PROVE  SharesInv'
<1> USE DEF SharesInv, PriorityShares
<1> HighShare \in 0 .. Whole /\ MediumShare \in 0 .. Whole /\ Whole \in Nat \ {0}
  BY ConstantsAssumption
<1>1. /\ counter' = counter + 1 /\ counter \in Nat
      /\ counterHighPriority \in Nat /\ counterMediumPriority \in Nat
  BY DEF ChoosePriority
<1>2. /\ counterHighPriority' \in Nat
      /\ counterMediumPriority' \in Nat
  BY <1>1 DEF ChoosePriority
<1>3. CASE counter = 0
  <2>1. counterHighPriority' = 0 /\ counterMediumPriority' = 0
    BY <1>3 DEF ChoosePriority, BelowRatio
  <2>2. counter' = 1
    BY <1>1, <1>3
  <2>3. /\ HighShare * 0 = 0 /\ MediumShare * 0 = 0 /\ Whole * 0 = 0
    BY SMT
  <2>4. counter' - 1 = 0
    BY <2>2
  <2>5. PriorityShares'
    <3> SUFFICES /\ HighShare * 0 <= Whole * 0
                 /\ Whole * 0 < HighShare * 0 + Whole
                 /\ Whole * 0 < MediumShare * 0 + Whole
                 /\ 0 + 0 <= 0
      BY <2>1, <2>4
    <3> QED
      BY <2>3
  <2>6. QED
    BY <1>2, <2>1, <2>5, <1>1, <2>2
<1>4. CASE counter # 0
  <2> DEFINE h == counterHighPriority
             m == counterMediumPriority
             n == counter
  <2>1. n \in Nat \ {0} /\ counter' - 1 = n
    BY <1>1, <1>4
  <2>2. /\ HighShare * (n - 1) <= Whole * h
        /\ Whole * h < HighShare * (n - 1) + Whole
        /\ Whole * m < MediumShare * (n - 1) + Whole
        /\ h + m <= n - 1
    BY <1>4
  <2>3. \/ h' = h + 1 /\ m' = m /\ h * Whole < HighShare * n
        \/ h' = h /\ m' = m + 1 /\ ~(h * Whole < HighShare * n) /\ m * Whole < MediumShare * n
        \/ h' = h /\ m' = m /\ ~(h * Whole < HighShare * n)
    BY <1>4 DEF ChoosePriority, BelowRatio
  <2>4. Whole * h' < HighShare * n + Whole
    <3>1. \/ h' = h + 1 /\ h * Whole < HighShare * n
          \/ h' = h /\ Whole * h < HighShare * (n - 1) + Whole
      BY <2>2, <2>3
    <3>2. QED
      BY <1>1, <1>2, <2>1, <3>1, UpperShare
  <2>5. HighShare * n <= Whole * h'
    <3>1. \/ h' = h + 1
          \/ h' = h /\ ~(h * Whole < HighShare * n)
      BY <2>3
    <3>2. QED
      BY <1>1, <1>2, <2>1, <2>2, <3>1, LowerShare
  <2>6. Whole * m' < MediumShare * n + Whole
    <3>1. \/ m' = m + 1 /\ m * Whole < MediumShare * n
          \/ m' = m /\ Whole * m < MediumShare * (n - 1) + Whole
      BY <2>2, <2>3
    <3>2. QED
      BY <1>1, <1>2, <2>1, <3>1, UpperShare
  <2>7. h' + m' <= n
    BY <1>1, <2>1, <2>2, <2>3
  <2>8. PriorityShares'
    BY <2>1, <2>4, <2>5, <2>6, <2>7
  <2>9. counter' \in Nat /\ counter' # 0
    BY <1>1
  <2>10. QED
    BY <1>2, <2>8, <2>9
<1>5. QED
  BY <1>3, <1>4

\* HIGH gets its ratio of the requests after the first, rounded up, and MEDIUM no
\* more than its own, for every number of requests and all ratios
\* (test_client.go:77-85).
THEOREM SharesCorrect == Spec => []PriorityShares
<1>1. Init => SharesInv
  BY DEF Init, SharesInv, PriorityShares
<1>2. SharesInv /\ [Next]_vars => SharesInv'
  <2> SUFFICES ASSUME SharesInv, [Next]_vars PROVE SharesInv'
    OBVIOUS
  <2>1. CASE UNCHANGED counters
    BY <2>1 DEF SharesInv, PriorityShares, counters
  <2>2. CASE StartRequest
    BY <2>2, SharesStep DEF StartRequest
  <2>3. CASE UNCHANGED vars
    BY <2>1, <2>3 DEF vars, pacing
  <2>4. CASE WatchPlayback \/ Join
    BY <2>1, <2>4 DEF WatchPlayback, Join
  <2>5. CASE Player \/ Tick
    BY <2>1, <2>5 DEF Player, PlaySegment, PlayBroadcast, Tick, pacing
  <2>6. ASSUME NEW id \in Ids, Request(id)
        PROVE  UNCHANGED counters
    BY <2>6 DEF Request, Begin, OpenFails, Register, Write, WriteFails, Unregister, Await,
                TakeResponse, Timeout, Check, Panic, Finish, pacing
  <2>7. ASSUME NEW id \in Ids, ReadResponse(id)
        PROVE  UNCHANGED counters
    BY <2>7 DEF ReadResponse, pacing
  <2>8. CASE Environment
    BY <2>1, <2>8 DEF Environment, Answer, LoseConnection, pacing
  <2>9. QED
    BY <2>1, <2>2, <2>3, <2>4, <2>5, <2>6, <2>7, <2>8 DEF Next, Goroutines, Main
<1>3. SharesInv => PriorityShares
  BY DEF SharesInv
<1>4. QED
  BY <1>1, <1>2, <1>3, PTL DEF Spec

-----------------------------------------------------------------------------
(* The run: types, the semaphore, the pacing and the map                   *)

\* The requests whose goroutines run.
Busy == {id \in Ids : request[id] \notin {"none", "done"}}

\* Main has not come to this request.
Ahead(id) ==
  \/ Segment(id) > next[1]
  \/ main = "request" /\ Segment(id) = next[1] /\ id[2] >= next[2]

\* Main starts requests in their order, and none before the playback has come to
\* the segment before its own.
PacingInv ==
  /\ \A id \in Ids : Ahead(id) => request[id] = "none"
  /\ next[1] <= currentPlaybackSegment + 1

\* A request is registered before it is written, what is under way was written, and
\* is either with the server or back; a write fails only without a connection.
MapInv ==
  /\ \A id \in Ids :
       /\ outcome[id] = "none" <=>
            request[id] \in {"none", "begin", "open", "write", "sent", "unregister", "wait"}
       /\ request[id] = "write" => id \in waiting
       /\ id \in received \cup arrived =>
            request[id] \notin {"none", "begin", "open", "write", "unregister"}
       /\ request[id] = "unregister" => ~connected
  /\ received \cap arrived = {}

RunInv ==
  /\ TypeOK
  /\ ParallelismHolds
  /\ PacingInv
  /\ MapInv
  /\ ResponseFindsRequest
  /\ NeverSkippedEarly
  /\ MapIsGuarded

\* What RunInv says of numbers and ids.
LEMMA IdFacts ==
  /\ LastSegment \in Nat /\ TileCount \in Nat /\ Parallelism \in Nat
  /\ IsFiniteSet(Ids)
  /\ \A id \in Ids : /\ Segment(id) \in 1 .. LastSegment /\ id[1] = Segment(id)
                     /\ id[2] \in 1 .. TileCount
                     /\ id \in Streams /\ id # PipelineStream
  /\ \A i \in 1 .. LastSegment : \A j \in 1 .. TileCount :
       <<i, j>> \in Ids /\ <<i, j>>[1] = i /\ <<i, j>>[2] = j
  /\ \A id \in Ids : id = <<id[1], id[2]>>
  /\ \A id \in Ids : StreamOf(id) \in Streams
<1>1. LastSegment \in Nat \ {0} /\ TileCount \in Nat \ {0} /\ Parallelism \in Nat
      /\ PipelineStream \notin Ids
  BY ConstantsAssumption
<1>2. IsFiniteSet(1 .. LastSegment) /\ IsFiniteSet(1 .. TileCount)
  BY <1>1, FS_Interval
<1>3. IsFiniteSet(Ids)
  BY <1>2, FS_Product DEF Ids, Segments
<1>4. \A id \in Ids : /\ Segment(id) \in 1 .. LastSegment /\ id[1] = Segment(id)
                      /\ id[2] \in 1 .. TileCount
                      /\ id \in Streams /\ id # PipelineStream
  BY <1>1 DEF Ids, Segments, Segment, Streams
<1>5. \A i \in 1 .. LastSegment : \A j \in 1 .. TileCount :
        <<i, j>> \in Ids /\ <<i, j>>[1] = i /\ <<i, j>>[2] = j
  BY DEF Ids, Segments
<1>6. \A id \in Ids : id = <<id[1], id[2]>>
  BY DEF Ids
<1>7. \A id \in Ids : StreamOf(id) \in Streams
  BY DEF StreamOf, Streams
<1>8. QED
  BY <1>1, <1>3, <1>4, <1>5, <1>6, <1>7

LEMMA BusyCount ==
  /\ IsFiniteSet(Busy) /\ Cardinality(Busy) \in Nat
  /\ \A id \in Ids : /\ id \in Busy => Cardinality(Busy \ {id}) = Cardinality(Busy) - 1
                     /\ id \notin Busy => Cardinality(Busy \cup {id}) = Cardinality(Busy) + 1
  /\ \A id \in Busy : Cardinality(Busy) > 0
<1>1. IsFiniteSet(Busy)
  BY IdFacts, FS_Subset DEF Busy
<1>2. Cardinality(Busy) \in Nat
  BY <1>1, FS_CardinalityType
<1>3. \A id \in Ids : /\ id \in Busy => Cardinality(Busy \ {id}) = Cardinality(Busy) - 1
                      /\ id \notin Busy => Cardinality(Busy \cup {id}) = Cardinality(Busy) + 1
  BY <1>1, FS_AddElement, FS_RemoveElement
<1>4. \A id \in Busy : Cardinality(Busy) > 0
  BY <1>1, <1>2, FS_EmptySet
<1>5. QED
  BY <1>1, <1>2, <1>3, <1>4

\* Steps that start and end no request.
LEMMA BusyUnchanged ==
  ASSUME ParallelismHolds, UNCHANGED semaphore,
         \A id \in Ids : request'[id] \in {"none", "done"} <=> request[id] \in {"none", "done"}
  PROVE  ParallelismHolds'
<1>1. Busy' = Busy
  BY DEF Busy
<1>2. QED
  BY <1>1 DEF ParallelismHolds, Busy

\* Steps of anyone but main.
LEMMA PacingUnchanged ==
  ASSUME PacingInv, UNCHANGED next,
         main' = "request" <=> main = "request",
         next[1] <= currentPlaybackSegment' + 1,
         \A id \in Ids : request[id] = "none" => request'[id] = "none"
  PROVE  PacingInv'
BY DEF PacingInv, Ahead

\* Steps that leave requests and their responses alone.
LEMMA RequestsUnchanged ==
  ASSUME MapInv, ResponseFindsRequest, UNCHANGED <<requests, received, arrived, offered>>,
         connected' => connected
  PROVE  MapInv' /\ ResponseFindsRequest'
BY DEF MapInv, ResponseFindsRequest, requests

-----------------------------------------------------------------------------
(* The playback, main and the environment                                  *)

LEMMA PlaybackKeepsRun ==
  ASSUME RunInv, Player \/ Tick
  PROVE  RunInv'
<1>1. /\ UNCHANGED <<next, semaphore, requests, received, arrived, offered, connected, crashed>>
      /\ main' = "request" <=> main = "request"
  BY DEF Player, Tick, PlaySegment, PlayBroadcast, pacing, network, ends
<1>2. /\ clock \in Int /\ clock' \in Int /\ clock' >= clock
      /\ currentPlaybackSegment' >= currentPlaybackSegment
      /\ currentPlaybackSegment \in Int /\ currentPlaybackSegment' \in Int
  BY DEF RunInv, TypeOK, Player, Tick, PlaySegment, PlayBroadcast, playback
<1>3. TypeOK'
  <2>1. LastSegment \in Nat
    BY IdFacts
  <2>2. CASE Tick
    BY <2>1, <2>2 DEF RunInv, TypeOK, Tick, pacing, counters, requests, network, ends
  <2>3. CASE PlaySegment
    BY <2>1, <2>3 DEF RunInv, TypeOK, PlaySegment, pacing, counters, requests, network, ends
  <2>4. CASE PlayBroadcast
    BY <2>1, <2>4 DEF RunInv, TypeOK, PlayBroadcast, counters, requests, network, ends
  <2>5. QED
    BY <2>2, <2>3, <2>4 DEF Player
<1>4. ParallelismHolds'
  BY <1>1, BusyUnchanged DEF RunInv, requests
<1>5. PacingInv'
  <2>1. next \in Ids /\ next[1] <= currentPlaybackSegment + 1
    BY DEF RunInv, TypeOK, PacingInv
  <2>2. next[1] <= currentPlaybackSegment' + 1
    BY <1>2, <2>1, IdFacts
  <2>3. QED
    BY <1>1, <2>2, PacingUnchanged DEF RunInv, requests
<1>6. MapInv' /\ ResponseFindsRequest'
  BY <1>1, RequestsUnchanged DEF RunInv
<1>7. NeverSkippedEarly'
  BY <1>1, <1>2, IdFacts DEF RunInv, NeverSkippedEarly, requests
<1>8. MapIsGuarded'
  BY <1>1 DEF RunInv, MapIsGuarded
<1>9. QED
  BY <1>3, <1>4, <1>5, <1>6, <1>7, <1>8 DEF RunInv

LEMMA EnvironmentKeepsRun ==
  ASSUME RunInv, Environment
  PROVE  RunInv'
<1>1. /\ UNCHANGED <<main, next, semaphore, requests, offered, currentPlaybackSegment, clock,
                     crashed>>
      /\ connected' => connected
  BY DEF Environment, Answer, LoseConnection, pacing, ends, playback
<1>2. /\ received' \subseteq received
      /\ received' \cup arrived' \subseteq received \cup arrived
      /\ received' \cap arrived' = {}
  BY DEF Environment, Answer, LoseConnection, RunInv, MapInv
<1>3. TypeOK'
  BY <1>1, <1>2 DEF RunInv, TypeOK, Environment, Answer, LoseConnection, pacing, counters,
                    requests, ends, playback
<1>4. ParallelismHolds'
  BY <1>1, BusyUnchanged DEF RunInv, requests
<1>5. PacingInv'
  BY <1>1 DEF RunInv, PacingInv, Ahead, requests
<1>6. MapInv'
  BY <1>1, <1>2 DEF RunInv, MapInv, requests
<1>7. ResponseFindsRequest'
  BY <1>1, <1>2 DEF RunInv, ResponseFindsRequest, requests
<1>8. NeverSkippedEarly' /\ MapIsGuarded'
  BY <1>1 DEF RunInv, NeverSkippedEarly, MapIsGuarded, requests
<1>9. QED
  BY <1>3, <1>4, <1>5, <1>6, <1>7, <1>8 DEF RunInv

LEMMA WatchKeepsRun ==
  ASSUME RunInv, WatchPlayback \/ Join
  PROVE  RunInv'
<1>1. /\ UNCHANGED <<pipelined, counters, semaphore, requests, network, ends, playback>>
      /\ main # "request"
  BY DEF WatchPlayback, Join
<1>2. /\ next \in Ids /\ currentPlaybackSegment \in Nat
      /\ next[1] \in 1 .. LastSegment /\ next[2] \in 1 .. TileCount
      /\ LastSegment \in Nat /\ TileCount \in Nat \ {0}
  BY IdFacts, ConstantsAssumption DEF RunInv, TypeOK
\* The next request is the first of the segment after one that is played.
<1>3. \/ next' = next /\ main' # "request"
      \/ /\ main' = "request" /\ next' = <<next[1] + 1, 1>> /\ next[1] < LastSegment
         /\ currentPlaybackSegment >= next[1]
  BY DEF WatchPlayback, Join, HasStarted
<1>4. next' \in Ids /\ next'[1] <= currentPlaybackSegment + 1
  <2>1. CASE next' = next
    BY <1>2, <2>1 DEF RunInv, PacingInv
  <2>2. CASE next' = <<next[1] + 1, 1>> /\ next[1] < LastSegment
             /\ currentPlaybackSegment >= next[1]
    <3>1. next[1] + 1 \in 1 .. LastSegment /\ 1 \in 1 .. TileCount
      BY <1>2, <2>2
    <3>2. <<next[1] + 1, 1>> \in Ids /\ <<next[1] + 1, 1>>[1] = next[1] + 1
      BY <3>1, IdFacts
    <3>3. QED
      BY <1>2, <2>2, <3>2
  <2>3. QED
    BY <1>3, <2>1, <2>2
<1>5. TypeOK'
  <2>1. main' \in {"request", "watch", "asleep", "join", "done"}
    BY DEF WatchPlayback, Join
  <2>2. QED
    BY <1>1, <1>4, <2>1 DEF RunInv, TypeOK, counters, requests, network, ends, playback
<1>6. ParallelismHolds'
  BY <1>1, BusyUnchanged DEF RunInv, requests
<1>7. PacingInv'
  <2>1. \A id \in Ids : Ahead(id)' => Ahead(id)
    <3>1. CASE next' = next /\ main' # "request"
      BY <3>1 DEF Ahead
    <3>2. CASE next' = <<next[1] + 1, 1>>
      <4>1. next'[1] = next[1] + 1
        BY <3>2
      <4>2. \A id \in Ids : Segment(id) > next[1] + 1 \/ Segment(id) = next[1] + 1
                              => Segment(id) > next[1]
        BY <1>2, IdFacts
      <4>3. QED
        BY <4>1, <4>2 DEF Ahead
    <3>3. QED
      BY <1>3, <3>1, <3>2
  <2>2. QED
    BY <1>1, <1>4, <2>1 DEF RunInv, PacingInv, requests, playback
<1>8. MapInv' /\ ResponseFindsRequest'
  BY <1>1, RequestsUnchanged DEF RunInv, network
<1>9. NeverSkippedEarly' /\ MapIsGuarded'
  BY <1>1 DEF RunInv, NeverSkippedEarly, MapIsGuarded, requests, network, ends, playback
<1>10. QED
  BY <1>5, <1>6, <1>7, <1>8, <1>9 DEF RunInv

LEMMA StartKeepsRun ==
  ASSUME RunInv, StartRequest
  PROVE  RunInv'
<1>1. /\ main = "request" /\ semaphore < Parallelism /\ semaphore' = semaphore + 1
      /\ request' = [request EXCEPT ![next] = "begin"]
      /\ UNCHANGED <<pipelined, outcome, waiting, network, ends, playback>>
      /\ IF next[2] < TileCount
         THEN next' = [next EXCEPT ![2] = next[2] + 1] /\ main' = main
         ELSE main' = "watch" /\ next' = next
  BY DEF StartRequest, MayAcquire
<1>2. /\ next \in Ids /\ next[1] \in 1 .. LastSegment /\ next[2] \in 1 .. TileCount
      /\ next = <<next[1], next[2]>> /\ Segment(next) = next[1]
      /\ LastSegment \in Nat /\ TileCount \in Nat /\ Parallelism \in Nat
      /\ DOMAIN request = Ids /\ semaphore \in Nat
  BY IdFacts DEF RunInv, TypeOK
<1>3. request[next] = "none"
  BY <1>1, <1>2 DEF RunInv, PacingInv, Ahead
<1>4. /\ request'[next] = "begin"
      /\ \A id \in Ids \ {next} : request'[id] = request[id]
  BY <1>1, <1>2
<1>5. \/ next' = next /\ main' = "watch"
      \/ next' = <<next[1], next[2] + 1>> /\ next[2] + 1 \in 1 .. TileCount
           /\ main' = "request"
  BY <1>1, <1>2
<1>6. next' \in Ids /\ next'[1] = next[1]
  <2>1. CASE next' = <<next[1], next[2] + 1>> /\ next[2] + 1 \in 1 .. TileCount
    BY <1>2, <2>1, IdFacts
  <2>2. QED
    BY <1>2, <1>5, <2>1
<1>7. TypeOK'
  <2>1. /\ counter' \in Nat /\ counterHighPriority' \in Nat /\ counterMediumPriority' \in Nat
    BY DEF RunInv, TypeOK, StartRequest, ChoosePriority
  <2>2. semaphore' \in 0 .. Parallelism
    BY <1>1, <1>2
  <2>3. main' \in {"request", "watch", "asleep", "join", "done"}
    BY <1>5
  <2>4. request' \in [Ids -> {"none", "begin", "open", "write", "sent",
                              "unregister", "wait", "check", "release", "done"}]
    BY <1>1 DEF RunInv, TypeOK
  <2>5. QED
    BY <1>1, <1>6, <2>1, <2>2, <2>3, <2>4 DEF RunInv, TypeOK, network, ends, playback
<1>8. ParallelismHolds'
  <2>1. Busy' = Busy \cup {next} /\ next \notin Busy
    BY <1>2, <1>3, <1>4 DEF Busy
  <2>2. Cardinality(Busy \cup {next}) = Cardinality(Busy) + 1
    BY <1>2, <2>1, BusyCount
  <2>3. semaphore = Cardinality(Busy)
    BY DEF RunInv, ParallelismHolds, Busy
  <2>4. semaphore' = Cardinality(Busy')
    BY <1>1, <2>1, <2>2, <2>3
  <2>5. QED
    BY <2>4 DEF ParallelismHolds, Busy
<1>9. PacingInv'
  <2>1. \A id \in Ids : Ahead(id)' => Ahead(id) /\ id # next
    <3> TAKE id \in Ids
    <3>1. /\ id = <<id[1], id[2]>> /\ Segment(id) = id[1] /\ id[2] \in 1 .. TileCount
          /\ id[1] \in 1 .. LastSegment
      BY IdFacts
    <3>2. CASE Segment(id) > next[1]
      BY <1>2, <3>1, <3>2 DEF Ahead
    <3>3. CASE main' = "request" /\ Segment(id) = next[1] /\ id[2] >= next'[2]
      <4>1. next'[2] = next[2] + 1
        BY <1>5, <3>3
      <4>2. id[2] > next[2]
        BY <1>2, <3>1, <3>3, <4>1
      <4>3. QED
        BY <1>1, <1>2, <3>1, <3>3, <4>2 DEF Ahead
    <3>4. QED
      BY <1>6, <3>2, <3>3 DEF Ahead
  <2>2. QED
    BY <1>1, <1>4, <1>6, <2>1 DEF RunInv, PacingInv, playback
<1>10. MapInv' /\ ResponseFindsRequest'
  BY <1>1, <1>3, <1>4 DEF RunInv, MapInv, ResponseFindsRequest, network
<1>11. NeverSkippedEarly' /\ MapIsGuarded'
  BY <1>1 DEF RunInv, NeverSkippedEarly, MapIsGuarded, network, ends, playback
<1>12. QED
  BY <1>7, <1>8, <1>9, <1>10, <1>11 DEF RunInv

-----------------------------------------------------------------------------
(* The readers                                                             *)

LEMMA ReadKeepsRun ==
  ASSUME RunInv, NEW id \in Ids, ReadResponse(id)
  PROVE  RunInv'
<1>1. /\ UNCHANGED <<pipelined, pacing, request, outcome, received, connected, playback>>
      /\ id \in arrived /\ arrived' = arrived \ {id} /\ waiting' = waiting \ {id}
      /\ AccessMap
  BY DEF ReadResponse
<1>2. /\ offered' = IF id \in waiting THEN offered \cup {id} ELSE offered
      /\ \/ reader' = reader
         \/ reader' = [reader EXCEPT ![StreamOf(id)] = "sending"]
  BY DEF ReadResponse, Deliver
<1>3. TypeOK'
  BY <1>1, <1>2 DEF RunInv, TypeOK, AccessMap, pacing, counters, playback
<1>4. ParallelismHolds'
  BY <1>1, BusyUnchanged DEF RunInv, pacing
<1>5. PacingInv'
  BY <1>1 DEF RunInv, PacingInv, Ahead, pacing, playback
\* The request whose response is read was written, and its response is not under way
\* a second time.
<1>6. request[id] # "write" /\ id \notin received' \cup arrived'
  BY <1>1 DEF RunInv, MapInv
<1>7. MapInv'
  BY <1>1, <1>6 DEF RunInv, MapInv
<1>8. ResponseFindsRequest'
  BY <1>1, <1>2, <1>6 DEF RunInv, ResponseFindsRequest
<1>9. NeverSkippedEarly'
  BY <1>1 DEF RunInv, NeverSkippedEarly, playback
<1>10. MapIsGuarded'
  BY <1>1 DEF RunInv, MapInv, MapIsGuarded, AccessMap
<1>11. QED
  BY <1>3, <1>4, <1>5, <1>7, <1>8, <1>9, <1>10 DEF RunInv

-----------------------------------------------------------------------------
(* A request                                                               *)

\* What every step of a request but the panic has in common.
LEMMA RequestEffect ==
  ASSUME RunInv, NEW id \in Ids, Request(id), ~Panic(id)
  PROVE  /\ \E pc \in {"open", "write", "sent", "unregister", "wait", "check", "release", "done"} :
              request' = [request EXCEPT ![id] = pc]
         /\ request[id] \in {"begin", "open", "write", "sent", "unregister", "wait", "check",
                             "release"}
         /\ request'[id] # "none"
         /\ \A other \in Ids \ {id} : request'[other] = request[other]
         /\ outcome' = [outcome EXCEPT ![id] = outcome'[id]]
         /\ \A other \in Ids \ {id} : outcome'[other] = outcome[other]
         /\ UNCHANGED <<pipelined, main, next, counters, arrived, connected, panicked, playback>>
<1>1. /\ DOMAIN request = Ids /\ DOMAIN outcome = Ids
      /\ outcome = [outcome EXCEPT ![id] = outcome[id]]
  BY DEF RunInv, TypeOK
<1>2. /\ \E pc \in {"open", "write", "sent", "unregister", "wait", "check", "release", "done"} :
           request' = [request EXCEPT ![id] = pc]
      /\ request[id] \in {"begin", "open", "write", "sent", "unregister", "wait", "check",
                          "release"}
  BY DEF Request, Begin, OpenFails, Register, Write, WriteFails, Unregister, Await,
         TakeResponse, Timeout, Check, Finish, Goto
<1>3. \/ outcome' = outcome
      \/ \E value : outcome' = [outcome EXCEPT ![id] = value]
  BY DEF Request, Begin, OpenFails, Register, Write, WriteFails, Unregister, Await,
         TakeResponse, Timeout, Check, Finish
<1>4. /\ outcome' = [outcome EXCEPT ![id] = outcome'[id]]
      /\ \A other \in Ids \ {id} : outcome'[other] = outcome[other]
  BY <1>1, <1>3
<1>5. UNCHANGED <<pipelined, main, next, counters, arrived, connected, panicked, playback>>
  BY DEF Request, Begin, OpenFails, Register, Write, WriteFails, Unregister, Await,
         TakeResponse, Timeout, Check, Finish, pacing, network, ends, AccessMap
<1>6. QED
  BY <1>1, <1>2, <1>4, <1>5

LEMMA RequestKeepsTypes ==
  ASSUME RunInv, NEW id \in Ids, Request(id), ~Panic(id)
  PROVE  TypeOK' /\ ParallelismHolds'
<1>1. /\ request' \in [Ids -> {"none", "begin", "open", "write", "sent",
                               "unregister", "wait", "check", "release", "done"}]
      /\ UNCHANGED <<pipelined, main, next, counters, arrived, connected, panicked, playback>>
  BY RequestEffect DEF RunInv, TypeOK
<1>2. outcome' \in [Ids -> {"none", "skipped", "timedOut", "answered", "ok", "late"}]
  BY DEF RunInv, TypeOK, Request, Begin, OpenFails, Register, Write, WriteFails, Unregister,
         Await, TakeResponse, Timeout, Check, Finish
<1>3. waiting' \subseteq Ids /\ offered' \subseteq Ids /\ received' \subseteq Ids
  BY DEF RunInv, TypeOK, Request, Begin, OpenFails, Register, Write, WriteFails, Unregister,
         Await, TakeResponse, Timeout, Check, Finish, network
<1>4. reader' \in [Streams -> {"none", "reading", "sending"}]
  BY IdFacts DEF RunInv, TypeOK, Request, Begin, OpenFails, Register, Write, WriteFails, Unregister,
         Await, TakeResponse, Timeout, Check, Finish, network
<1>5. crashed' \in BOOLEAN
  BY DEF RunInv, TypeOK, Request, Begin, OpenFails, Register, Write, WriteFails, Unregister,
         Await, TakeResponse, Timeout, Check, Finish, AccessMap, ends
<1>6. semaphore' \in 0 .. Parallelism /\ ParallelismHolds'
  <2>1. semaphore \in 0 .. Parallelism /\ Parallelism \in Nat /\ semaphore = Cardinality(Busy)
    BY IdFacts DEF RunInv, TypeOK, ParallelismHolds, Busy
  <2>2. CASE Finish(id)
    <3>1. /\ request[id] = "release" /\ request'[id] = "done"
          /\ semaphore' = semaphore - 1
      BY <2>2 DEF Finish, Goto, RunInv, TypeOK
    <3>2. id \in Busy /\ Busy' = Busy \ {id}
      BY <3>1, RequestEffect DEF Busy
    <3>3. Cardinality(Busy \ {id}) = Cardinality(Busy) - 1 /\ Cardinality(Busy) > 0
      BY <3>2, BusyCount
    <3>4. semaphore' = Cardinality(Busy')
      BY <2>1, <3>1, <3>2, <3>3
    <3>5. semaphore' \in 0 .. Parallelism
      BY <2>1, <3>1, <3>3
    <3>6. QED
      BY <3>4, <3>5 DEF ParallelismHolds, Busy
  <2>3. CASE ~Finish(id)
    <3>1. request'[id] # "done" /\ semaphore' = semaphore
      BY <2>3 DEF RunInv, TypeOK, Request, Begin, OpenFails, Register, Write, WriteFails,
                  Unregister, Await, TakeResponse, Timeout, Check, Goto, pacing
    <3>2. \A other \in Ids : request'[other] \in {"none", "done"}
                               <=> request[other] \in {"none", "done"}
      BY <3>1, RequestEffect
    <3>3. QED
      BY <2>1, <3>1, <3>2, BusyUnchanged DEF RunInv
  <2>4. QED
    BY <2>2, <2>3
<1>7. QED
  BY <1>1, <1>2, <1>3, <1>4, <1>5, <1>6 DEF RunInv, TypeOK, counters, playback

LEMMA RequestKeepsMap ==
  ASSUME RunInv, NEW id \in Ids, Request(id), ~Panic(id)
  PROVE  MapInv' /\ ResponseFindsRequest'
<1>1. /\ DOMAIN request = Ids /\ DOMAIN outcome = Ids
      /\ MapInv /\ ResponseFindsRequest
      /\ \A other \in Ids \ {id} : request'[other] = request[other]
                                   /\ outcome'[other] = outcome[other]
      /\ UNCHANGED <<arrived, connected>>
  BY RequestEffect DEF RunInv, TypeOK
<1> USE <1>1 DEF MapInv, ResponseFindsRequest, Goto
<1>2. CASE Begin(id)
  BY <1>2 DEF Begin, network, requests
<1>3. CASE OpenFails(id)
  BY <1>3 DEF OpenFails, network, requests
<1>4. CASE Register(id)
  BY <1>4 DEF Register, network, requests
<1>5. CASE Write(id)
  BY <1>5 DEF Write, network, requests
<1>6. CASE WriteFails(id)
  BY <1>6 DEF WriteFails, network, requests
<1>7. CASE Unregister(id)
  BY <1>7 DEF Unregister, network, requests
<1>8. CASE Await(id)
  BY <1>8 DEF Await, network, requests
<1>9. CASE TakeResponse(id)
  BY <1>9 DEF TakeResponse, network, requests
<1>10. CASE Timeout(id)
  BY <1>10 DEF Timeout, network, requests
<1>11. CASE Check(id)
  BY <1>11 DEF Check, network, requests
<1>12. CASE Finish(id)
  BY <1>12 DEF Finish, network, requests
<1>13. QED
  BY <1>2, <1>3, <1>4, <1>5, <1>6, <1>7, <1>8, <1>9, <1>10, <1>11, <1>12 DEF Request

\* A request that is skipped was not ahead of the playback, and the map is accessed by
\* two goroutines at once only while one of them deletes the key of a failed write.
LEMMA RequestKeepsGuards ==
  ASSUME RunInv, NEW id \in Ids, Request(id), ~Panic(id)
  PROVE  PacingInv' /\ NeverSkippedEarly' /\ MapIsGuarded'
<1>1. /\ request[id] # "none"
      /\ request'[id] # "none"
      /\ \A other \in Ids \ {id} : request'[other] = request[other]
                                   /\ outcome'[other] = outcome[other]
      /\ UNCHANGED <<main, next, clock, currentPlaybackSegment, connected>>
  BY RequestEffect DEF playback
<1>2. PacingInv'
  <2>1. \A other \in Ids : request[other] = "none" => request'[other] = "none"
    BY <1>1
  <2>2. next[1] <= currentPlaybackSegment' + 1
    BY <1>1 DEF RunInv, PacingInv
  <2>3. QED
    BY <1>1, <2>1, <2>2, PacingUnchanged DEF RunInv
<1>3. NeverSkippedEarly'
  <2>1. /\ next \in Ids /\ currentPlaybackSegment \in 0 .. clock /\ clock \in Nat
        /\ next[1] <= currentPlaybackSegment + 1
        /\ outcome \in [Ids -> {"none", "skipped", "timedOut", "answered", "ok", "late"}]
    BY IdFacts DEF RunInv, TypeOK, PacingInv
  <2>2. Segment(id) \in Nat /\ Segment(id) <= next[1] /\ next[1] \in Nat
    <3>1. ~Ahead(id)
      BY <1>1 DEF RunInv, PacingInv
    <3>2. QED
      BY <2>1, <3>1, IdFacts DEF Ahead
  <2>3. outcome'[id] = "skipped" => outcome[id] = "skipped" \/ ~TimeLeft(Segment(id))
    BY <2>1 DEF Request, Begin, OpenFails, Register, Write, WriteFails, Unregister, Await,
            TakeResponse, Timeout, Check, Finish
  <2>4. ~TimeLeft(Segment(id)) => clock >= Segment(id)
    BY <2>1, <2>2 DEF TimeLeft
  <2>5. outcome'[id] = "skipped" => clock >= Segment(id)
    BY <2>3, <2>4 DEF RunInv, NeverSkippedEarly
  <2>6. QED
    BY <1>1, <2>5 DEF RunInv, NeverSkippedEarly
<1>4. MapIsGuarded'
  <2>1. UNCHANGED crashed \/ AccessMap
    BY DEF Request, Begin, OpenFails, Register, Write, WriteFails, Unregister, Await,
           TakeResponse, Timeout, Check, Finish, ends
  <2>2. CASE UNCHANGED crashed
    BY <1>1, <2>2 DEF RunInv, MapIsGuarded
  <2>3. CASE AccessMap
    BY <1>1, <2>3 DEF RunInv, MapInv, MapIsGuarded, AccessMap
  <2>4. QED
    BY <2>1, <2>2, <2>3
<1>5. QED
  BY <1>2, <1>3, <1>4

LEMMA PanicKeepsRun ==
  ASSUME RunInv, NEW id \in Ids, Panic(id)
  PROVE  RunInv'
<1>1. panicked' = TRUE
      /\ UNCHANGED <<pipelined, pacing, requests, network, crashed, playback>>
  BY DEF Panic
<1>2. TypeOK'
  BY <1>1 DEF RunInv, TypeOK, pacing, counters, requests, network, playback
<1>3. ParallelismHolds' /\ PacingInv'
  BY <1>1 DEF RunInv, ParallelismHolds, PacingInv, Ahead, pacing, requests, playback
<1>4. MapInv' /\ ResponseFindsRequest'
  BY <1>1, RequestsUnchanged DEF RunInv, network
<1>5. NeverSkippedEarly' /\ MapIsGuarded'
  BY <1>1 DEF RunInv, NeverSkippedEarly, MapIsGuarded, requests, network, playback
<1>6. QED
  BY <1>2, <1>3, <1>4, <1>5 DEF RunInv

-----------------------------------------------------------------------------
LEMMA InitRun ==
  ASSUME Init
  PROVE  RunInv
<1>1. /\ <<1, 1>> \in Ids /\ <<1, 1>>[1] = 1 /\ Parallelism \in Nat /\ LastSegment \in Nat
  BY IdFacts, ConstantsAssumption
<1>2. TypeOK
  <2>1. /\ pipelined \in BOOLEAN /\ next \in Ids
        /\ request \in [Ids -> {"none"}] /\ outcome \in [Ids -> {"none"}]
        /\ reader \in [Streams -> {"none", "reading"}]
    BY <1>1 DEF Init
  <2>2. clock = 0 /\ currentPlaybackSegment = 0 /\ semaphore = 0
    BY DEF Init
  <2>3. /\ clock \in 0 .. LastSegment /\ currentPlaybackSegment \in 0 .. clock
        /\ semaphore \in 0 .. Parallelism
    BY <1>1, <2>2
  <2>4. QED
    BY <2>1, <2>3 DEF Init, TypeOK
<1>3. ParallelismHolds
  <2>1. {id \in Ids : request[id] \notin {"none", "done"}} = {}
    BY DEF Init
  <2>2. QED
    BY <2>1, FS_EmptySet DEF Init, ParallelismHolds
<1>4. PacingInv
  BY <1>1 DEF Init, PacingInv
<1>5. MapInv /\ ResponseFindsRequest /\ NeverSkippedEarly /\ MapIsGuarded
  BY DEF Init, MapInv, ResponseFindsRequest, NeverSkippedEarly, MapIsGuarded
<1>6. QED
  BY <1>2, <1>3, <1>4, <1>5 DEF RunInv

LEMMA NextRun ==
  ASSUME RunInv, [Next]_vars
  PROVE  RunInv'
<1>1. CASE UNCHANGED vars
  BY <1>1 DEF RunInv, TypeOK, ParallelismHolds, PacingInv, Ahead, MapInv,
              ResponseFindsRequest, NeverSkippedEarly, MapIsGuarded, vars, pacing, counters,
              requests, network, ends, playback
<1>2. CASE Main
  BY <1>2, StartKeepsRun, WatchKeepsRun DEF Main
<1>3. CASE Player \/ Tick
  BY <1>3, PlaybackKeepsRun
<1>4. CASE Environment
  BY <1>4, EnvironmentKeepsRun
<1>5. ASSUME NEW id \in Ids, Request(id) \/ ReadResponse(id)
      PROVE  RunInv'
  <2>1. CASE ReadResponse(id)
    BY <2>1, ReadKeepsRun
  <2>2. CASE Panic(id)
    BY <2>2, PanicKeepsRun
  <2>3. CASE Request(id) /\ ~Panic(id)
    BY <2>3, RequestKeepsTypes, RequestKeepsMap, RequestKeepsGuards DEF RunInv
  <2>4. QED
    BY <1>5, <2>1, <2>2, <2>3
<1>6. QED
  BY <1>1, <1>2, <1>3, <1>4, <1>5 DEF Next, Goroutines

\* The variables of the test client keep their types, for every number of segments and
\* tiles and every capacity of the semaphore: no more requests than that run at a time.
THEOREM TypeCorrect == Spec => []TypeOK
<1>1. RunInv => TypeOK
  BY DEF RunInv
<1>2. QED
  BY <1>1, InitRun, NextRun, PTL DEF Spec

\* The semaphore counts the requests whose goroutines run, whichever way they end
\* (test_client.go:87-92).
THEOREM ParallelismCorrect == Spec => []ParallelismHolds
<1>1. RunInv => ParallelismHolds
  BY DEF RunInv
<1>2. QED
  BY <1>1, InitRun, NextRun, PTL DEF Spec

\* No response gets lost between the network, the map and the channel of a request that
\* has not given up (client.go:103-173).
THEOREM ResponsesCorrect == Spec => []ResponseFindsRequest
<1>1. RunInv => ResponseFindsRequest
  BY DEF RunInv
<1>2. QED
  BY <1>1, InitRun, NextRun, PTL DEF Spec

\* GetTimeToReceive's 0 for a segment too far ahead never makes a request be skipped,
\* since main is never that far ahead (playback_simulator.go:73-91).
THEOREM PacingCorrect == Spec => []NeverSkippedEarly
<1>1. RunInv => NeverSkippedEarly
  BY DEF RunInv
<1>2. QED
  BY <1>1, InitRun, NextRun, PTL DEF Spec

\* Only once the connection is lost do two goroutines access the map at a time
\* (client.go:121).
THEOREM MapCorrect == Spec => []MapIsGuarded
<1>1. RunInv => MapIsGuarded
  BY DEF RunInv
<1>2. QED
  BY <1>1, InitRun, NextRun, PTL DEF Spec

\* Main, asleep although its segment is being played, is about to be woken: the
\* playback is between its Unlock and its Broadcast (playback_simulator.go:57-60).
THEOREM WakeupsCorrect == Spec => []NoLostWakeup
<1>1. Init => NoLostWakeup
  BY DEF Init, NoLostWakeup
<1>2. NoLostWakeup /\ [Next]_vars => NoLostWakeup'
  <2> SUFFICES ASSUME NoLostWakeup, [Next]_vars
               PROVE  NoLostWakeup'
    OBVIOUS
  <2> USE DEF NoLostWakeup, HasStarted
  <2>1. CASE UNCHANGED <<main, next, currentPlaybackSegment, player>>
    BY <2>1
  <2>2. CASE StartRequest
    BY <2>2 DEF StartRequest
  <2>3. CASE WatchPlayback \/ Join
    BY <2>3 DEF WatchPlayback, Join, playback
  <2>4. CASE PlaySegment \/ PlayBroadcast
    BY <2>4 DEF PlaySegment, PlayBroadcast
  <2>5. CASE Tick \/ Environment \/ UNCHANGED vars
    BY <2>1, <2>5 DEF Tick, Environment, Answer, LoseConnection, pacing, playback, vars
  <2>6. ASSUME NEW id \in Ids, Request(id) \/ ReadResponse(id)
        PROVE  UNCHANGED <<main, next, currentPlaybackSegment, player>>
    BY <2>6 DEF ReadResponse, Request, Begin, OpenFails, Register, Write, WriteFails,
                Unregister, Await, TakeResponse, Timeout, Check, Panic, Finish, pacing, playback
  <2>7. QED
    BY <2>1, <2>2, <2>3, <2>4, <2>5, <2>6 DEF Next, Goroutines, Main, Player
<1>3. QED
  BY <1>1, <1>2, PTL DEF Spec
=============================================================================
