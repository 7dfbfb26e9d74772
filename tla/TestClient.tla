----------------------------- MODULE TestClient -----------------------------
(***************************************************************************)
(* The test client's run: the main goroutine paces requests by a semaphore *)
(* and by the playback, a goroutine per request waits for its response or  *)
(* its time-out, a goroutine per stream reads responses and hands them to  *)
(* the request they belong to, and one goroutine simulates the playback.   *)
(* The server and the connection are the environment.                      *)
(*                                                                         *)
(* Time is what the playback makes of it: clock is the last segment whose  *)
(* playback time has come.  A request's time-out is the time left until    *)
(* its segment is played.  Of a response's data only whether there is any  *)
(* counts.  The quotients of the counters are compared with the ratios     *)
(* exactly here; in the code they are rounded to 53 bits.                  *)
(***************************************************************************)
EXTENDS Integers, FiniteSets

CONSTANTS
  LastSegment,   \* bound: the segments played, 1 to LastSegment
  TileCount,     \* bound: the tiles of a segment
  Parallelism,   \* the semaphore's capacity
  PipelineStream, \* the stream all requests share if pipelining
  Whole,         \* the ratios of requests of HIGH and of MEDIUM priority are
  HighShare,     \* HighShare / Whole
  MediumShare    \* and MediumShare / Whole

Segments == 1 .. LastSegment
Ids == Segments \X (1 .. TileCount)
Streams == Ids \cup {PipelineStream}

ASSUME ConstantsAssumption ==
  /\ LastSegment \in Nat \ {0}
  /\ TileCount \in Nat \ {0}
  /\ Parallelism \in Nat \ {0}
  /\ PipelineStream \notin Ids
  /\ Whole \in Nat \ {0}
  /\ HighShare \in 0 .. Whole
  /\ MediumShare \in 0 .. Whole

VARIABLES
  pipelined,  \* Options.Pipeline
  main,       \* "request", "watch", "asleep", "join" or "done"
  next,       \* the id main requests next
  counter, counterHighPriority, counterMediumPriority,
  semaphore,  \* the elements in the semaphore's channel
  request,    \* per id, where its goroutine is
  outcome,    \* per id, what became of it
  waiting,    \* the keys of waitingResponses; each id has one channel
  reader,     \* per stream, its reader: "none", "reading" or "sending"
  offered,    \* the ids on whose channel a reader sends
  received,   \* the requests the server has and may answer
  arrived,    \* the ids of the responses that have arrived and are not read
  connected,
  crashed,    \* the runtime found concurrent accesses to the map
  panicked,   \* a response had no data
  clock,      \* the last segment whose playback time has come
  currentPlaybackSegment,
  player      \* the playback goroutine: "sleep", "broadcast" or "done"

counters == <<counter, counterHighPriority, counterMediumPriority>>
ends == <<crashed, panicked>>
pacing == <<main, next, counters, semaphore>>
requests == <<request, outcome, waiting>>
network == <<reader, offered, received, arrived, connected>>
playback == <<clock, currentPlaybackSegment, player>>
vars == <<pipelined, pacing, requests, network, ends, playback>>

Segment(id) == id[1]
StreamOf(id) == IF pipelined THEN PipelineStream ELSE id

Init ==
  /\ pipelined \in BOOLEAN
  /\ main = "request"
  /\ next = <<1, 1>>
  /\ counter = 0
  /\ counterHighPriority = 0
  /\ counterMediumPriority = 0
  /\ semaphore = 0
  /\ request = [id \in Ids |-> "none"]
  /\ outcome = [id \in Ids |-> "none"]
  /\ waiting = {}
  /\ reader = [s \in Streams |->
                 IF pipelined /\ s = PipelineStream THEN "reading" ELSE "none"]
  /\ offered = {}
  /\ received = {}
  /\ arrived = {}
  /\ connected = TRUE
  /\ crashed = FALSE
  /\ panicked = FALSE
  /\ clock = 0
  /\ currentPlaybackSegment = 0
  /\ player = "sleep"
-----------------------------------------------------------------------------
(* Playback                                                                *)

\* The playback time of the next segment comes.
Tick ==
  /\ clock < LastSegment
  /\ clock' = clock + 1
  /\ UNCHANGED <<pipelined, pacing, requests, network, ends,
                 currentPlaybackSegment, player>>

\* Mutant of PlaySegment: nobody is told.
PlaySegmentSilently ==
  /\ player = "sleep"
  /\ clock > currentPlaybackSegment
  /\ currentPlaybackSegment' = currentPlaybackSegment + 1
  /\ player' = IF currentPlaybackSegment' = LastSegment THEN "done" ELSE "sleep"
  /\ UNCHANGED <<pipelined, pacing, requests, network, ends, clock>>

\* The playback goroutine wakes up, perhaps late, and plays its next segment.
PlaySegment ==
  /\ player = "sleep"
  /\ clock > currentPlaybackSegment
  /\ currentPlaybackSegment' = currentPlaybackSegment + 1
  /\ player' = "broadcast"
  /\ UNCHANGED <<pipelined, pacing, requests, network, ends, clock>>

PlayBroadcast ==
  /\ player = "broadcast"
  /\ main' = IF main = "asleep" THEN "watch" ELSE main
  /\ player' = IF currentPlaybackSegment = LastSegment THEN "done" ELSE "sleep"
  /\ UNCHANGED <<pipelined, next, counters, semaphore, requests, network, ends, clock,
                 currentPlaybackSegment>>

\* GetTimeToReceive is positive: the segment is the next to be played and its
\* time has not come.
TimeLeft(segment) == segment = currentPlaybackSegment + 1 /\ clock < segment
-----------------------------------------------------------------------------
(* The main goroutine                                                      *)

\* Mutant of MayAcquire: the channel is one longer.
MayAcquireOneMore == semaphore <= Parallelism

MayAcquire == semaphore < Parallelism

\* Mutant of BelowRatio: the first quotient counts as zero.
BelowRatioOrFirst(count, share) == count * Whole < share * (counter + 1)

\* count / counter is below the ratio.  The first quotient is 0/0, a NaN, for which
\* the comparison is false.
BelowRatio(count, share) == counter # 0 /\ count * Whole < share * counter

\* The request's priority: HIGH if that is below its ratio, or else MEDIUM if that
\* is, or else LOW.
ChoosePriority ==
  /\ counter' = counter + 1
  /\ IF BelowRatio(counterHighPriority, HighShare)
     THEN /\ counterHighPriority' = counterHighPriority + 1
          /\ UNCHANGED counterMediumPriority
     ELSE /\ counterMediumPriority' =
                IF BelowRatio(counterMediumPriority, MediumShare)
                THEN counterMediumPriority + 1 ELSE counterMediumPriority
          /\ UNCHANGED counterHighPriority

\* Choose the next request's priority, acquire the semaphore and start the
\* request's goroutine.
StartRequest ==
  /\ main = "request"
  /\ MayAcquire
  /\ ChoosePriority
  /\ semaphore' = semaphore + 1
  /\ request' = [request EXCEPT ![next] = "begin"]
  /\ IF next[2] < TileCount
     THEN /\ next' = [next EXCEPT ![2] = @ + 1]
          /\ UNCHANGED main
     ELSE /\ main' = "watch"
          /\ UNCHANGED next
  /\ UNCHANGED <<pipelined, outcome, waiting, network, ends, playback>>

\* Mutant of HasStarted: main runs a segment ahead of the playback.
StartsNext(segment) == currentPlaybackSegment + 1 >= segment

HasStarted(segment) == currentPlaybackSegment >= segment

\* WaitForPlaybackStart, with its mutex: on to the next segment once this one
\* is being played, and to sleep until then.
WatchPlayback ==
  /\ main = "watch"
  /\ IF HasStarted(next[1])
     THEN IF next[1] < LastSegment
          THEN main' = "request" /\ next' = <<next[1] + 1, 1>>
          ELSE main' = "join" /\ UNCHANGED next
     ELSE main' = "asleep" /\ UNCHANGED next
  /\ UNCHANGED <<pipelined, counters, semaphore, requests, network, ends, playback>>

\* wg.Wait; the process ends after it.
Join ==
  /\ main = "join"
  /\ \A id \in Ids : request[id] = "done"
  /\ main' = "done"
  /\ UNCHANGED <<pipelined, next, counters, semaphore, requests, network, ends, playback>>
-----------------------------------------------------------------------------
(* A request                                                               *)

\* An access to the map while another goroutine deletes from it without the
\* lock may be noticed by the runtime, which ends the process, or not.
AccessMap ==
  /\ crashed' \in IF \E id \in Ids : request[id] = "unregister"
                   THEN BOOLEAN ELSE {FALSE}
  /\ UNCHANGED panicked

Goto(id, pc) == request' = [request EXCEPT ![id] = pc]

Begin(id) ==
  /\ request[id] = "begin"
  /\ IF TimeLeft(Segment(id))
     THEN /\ Goto(id, "open")
          /\ UNCHANGED outcome
     ELSE /\ Goto(id, "release")
          /\ outcome' = [outcome EXCEPT ![id] = "skipped"]
  /\ UNCHANGED <<pipelined, pacing, waiting, network, ends, playback>>

\* Without pipelining a request needs a stream of its own.
OpenFails(id) ==
  /\ request[id] = "open"
  /\ ~pipelined
  /\ ~connected
  /\ outcome' = [outcome EXCEPT ![id] = "timedOut"]
  /\ Goto(id, "release")
  /\ UNCHANGED <<pipelined, pacing, waiting, network, ends, playback>>

\* Open the stream, whose reader has nothing to read yet, and register the
\* request in the map.
Register(id) ==
  /\ request[id] = "open"
  /\ pipelined \/ connected
  /\ reader' = IF pipelined THEN reader ELSE [reader EXCEPT ![id] = "reading"]
  /\ AccessMap
  /\ waiting' = waiting \cup {id}
  /\ Goto(id, "write")
  /\ UNCHANGED <<pipelined, pacing, outcome, offered, received, arrived, connected,
                 playback>>

Write(id) ==
  /\ request[id] = "write"
  /\ connected
  /\ received' = received \cup {id}
  /\ Goto(id, "sent")
  /\ UNCHANGED <<pipelined, pacing, outcome, waiting, reader, offered, arrived,
                 connected, ends, playback>>

\* The write fails, and the goroutine starts to delete its key.
WriteFails(id) ==
  /\ request[id] = "write"
  /\ ~connected
  /\ AccessMap
  /\ Goto(id, "unregister")
  /\ UNCHANGED <<pipelined, pacing, outcome, waiting, network, playback>>

Unregister(id) ==
  /\ request[id] = "unregister"
  /\ waiting' = waiting \ {id}
  /\ outcome' = [outcome EXCEPT ![id] = "timedOut"]
  /\ Goto(id, "release")
  /\ UNCHANGED <<pipelined, pacing, network, ends, playback>>

\* The select, with its timer.
Await(id) ==
  /\ request[id] = "sent"
  /\ Goto(id, "wait")
  /\ UNCHANGED <<pipelined, pacing, outcome, waiting, network, ends, playback>>

\* The channel has no buffer: its reader goes on as the request receives.  (That
\* Request closes the stream of its own for writing as it returns, and the
\* server then ends it, releases its reader; nothing else depends on it.)
TakeResponse(id) ==
  /\ request[id] = "wait"
  /\ id \in offered
  /\ offered' = offered \ {id}
  /\ reader' = [reader EXCEPT ![StreamOf(id)] = "reading"]
  /\ outcome' = [outcome EXCEPT ![id] = "answered"]
  /\ Goto(id, "check")
  /\ UNCHANGED <<pipelined, pacing, waiting, received, arrived, connected,
                 ends, playback>>

\* Mutant of Timeout: the key is deleted the way a failed write does.
TimeoutUnregisters(id) ==
  /\ request[id] = "wait"
  /\ clock >= Segment(id)
  /\ AccessMap
  /\ Goto(id, "unregister")
  /\ UNCHANGED <<pipelined, pacing, outcome, waiting, network, playback>>

\* The key stays in the map.
Timeout(id) ==
  /\ request[id] = "wait"
  /\ clock >= Segment(id)
  /\ outcome' = [outcome EXCEPT ![id] = "timedOut"]
  /\ Goto(id, "release")
  /\ UNCHANGED <<pipelined, pacing, waiting, network, ends, playback>>

\* A response counts only if its segment is still to be played.
Check(id) ==
  /\ request[id] = "check"
  /\ outcome' = [outcome EXCEPT ![id] = IF TimeLeft(Segment(id)) THEN "ok" ELSE "late"]
  /\ Goto(id, "release")
  /\ UNCHANGED <<pipelined, pacing, waiting, network, ends, playback>>

\* A response without data, that of a file the server cannot read, ends the process.
Panic(id) ==
  /\ request[id] = "check"
  /\ panicked' = TRUE
  /\ UNCHANGED <<pipelined, pacing, requests, network, crashed, playback>>

\* Mutant of Finish: a skipped request returns before it releases.
FinishUnlessSkipped(id) ==
  /\ request[id] = "release"
  /\ semaphore' = IF outcome[id] = "skipped" THEN semaphore ELSE semaphore - 1
  /\ Goto(id, "done")
  /\ UNCHANGED <<pipelined, main, next, counters, outcome, waiting, network, ends,
                 playback>>

\* The deferred Release and wg.Done.
Finish(id) ==
  /\ request[id] = "release"
  /\ semaphore' = semaphore - 1
  /\ Goto(id, "done")
  /\ UNCHANGED <<pipelined, main, next, counters, outcome, waiting, network, ends,
                 playback>>
-----------------------------------------------------------------------------
(* The readers                                                             *)

\* Mutant of Deliver: a send that does not wait for its receiver.
DeliverOrDrop(s, id) ==
  IF request[id] = "wait"
  THEN reader' = [reader EXCEPT ![s] = "sending"] /\ offered' = offered \cup {id}
  ELSE UNCHANGED <<reader, offered>>

\* The reader sends on the channel of the response's request.
Deliver(s, id) ==
  /\ reader' = [reader EXCEPT ![s] = "sending"]
  /\ offered' = offered \cup {id}

\* Read a response, and take its request out of the map.
ReadResponse(id) ==
  LET s == StreamOf(id)
  IN
  /\ reader[s] = "reading"
  /\ id \in arrived
  /\ arrived' = arrived \ {id}
  /\ AccessMap
  /\ waiting' = waiting \ {id}
  /\ IF id \in waiting THEN Deliver(s, id) ELSE UNCHANGED <<reader, offered>>
  /\ UNCHANGED <<pipelined, pacing, request, outcome, received, connected, playback>>
-----------------------------------------------------------------------------
(* The server and the connection                                           *)

\* The server answers its requests in any order, each at most once, so that the
\* order in which a stream keeps them tells nothing.  It never answers one that
\* has expired or whose level is full.
Answer(id) ==
  /\ id \in received
  /\ received' = received \ {id}
  /\ arrived' = arrived \cup {id}
  /\ UNCHANGED <<pipelined, pacing, requests, reader, offered, connected, ends, playback>>

\* What has not arrived is lost; what has may still be read.  (If it is not,
\* its reader returns, which is no different from never going on.)
LoseConnection ==
  /\ connected
  /\ connected' = FALSE
  /\ received' = {}
  /\ UNCHANGED <<pipelined, pacing, requests, reader, offered, arrived, ends, playback>>
-----------------------------------------------------------------------------
Main == StartRequest \/ WatchPlayback \/ Join

Player == PlaySegment \/ PlayBroadcast

Request(id) ==
  \/ Begin(id) \/ OpenFails(id) \/ Register(id)
  \/ Write(id) \/ WriteFails(id) \/ Unregister(id)
  \/ Await(id) \/ TakeResponse(id) \/ Timeout(id)
  \/ Check(id) \/ Panic(id) \/ Finish(id)

Environment ==
  \/ \E id \in Ids : Answer(id)
  \/ LoseConnection

\* The process has ended, and every goroutine with it.
Ended == main = "done" \/ crashed \/ panicked

Goroutines ==
  \/ Main
  \/ Player
  \/ \E id \in Ids : Request(id) \/ ReadResponse(id)

Next ==
  \/ ~Ended /\ (Goroutines \/ Tick \/ Environment)
  \/ Ended /\ UNCHANGED vars

Spec == Init /\ [][Next]_vars

\* Time passes, and some goroutine runs while any can.  No more is needed, as
\* none of them can run for ever; the server need not answer.
Fairness == WF_vars(~Ended /\ (Goroutines \/ Tick))

FairSpec == Spec /\ Fairness
-----------------------------------------------------------------------------
TypeOK ==
  /\ pipelined \in BOOLEAN
  /\ main \in {"request", "watch", "asleep", "join", "done"}
  /\ next \in Ids
  /\ counter \in Nat
  /\ counterHighPriority \in Nat
  /\ counterMediumPriority \in Nat
  /\ semaphore \in 0 .. Parallelism
  /\ request \in [Ids -> {"none", "begin", "open", "write", "sent",
                          "unregister", "wait", "check", "release", "done"}]
  /\ outcome \in [Ids -> {"none", "skipped", "timedOut", "answered", "ok", "late"}]
  /\ waiting \subseteq Ids
  /\ reader \in [Streams -> {"none", "reading", "sending"}]
  /\ offered \subseteq Ids
  /\ received \subseteq Ids
  /\ arrived \subseteq Ids
  /\ connected \in BOOLEAN
  /\ crashed \in BOOLEAN
  /\ panicked \in BOOLEAN
  /\ clock \in 0 .. LastSegment
  /\ currentPlaybackSegment \in 0 .. clock
  /\ player \in {"sleep", "broadcast", "done"}

\* The semaphore counts the requests whose goroutines run, on every way out of
\* a request: skipped, failed, timed out or answered (test_client.go:87-92).
ParallelismHolds ==
  semaphore = Cardinality({id \in Ids : request[id] \notin {"none", "done"}})

\* A response finds its request: while it is under way, the request that has
\* not given up is in the map, whatever the two goroutines do in between
\* (it registers before it writes), and one that waits is in the map or has
\* its reader about to send to it.
ResponseFindsRequest ==
  \A id \in Ids : outcome[id] = "none" =>
    /\ id \in received \cup arrived => id \in waiting
    /\ request[id] \in {"sent", "wait"} => id \in waiting \cup offered

\* Main sleeps while its segment is being played only if the playback goroutine
\* is between its Unlock and its Broadcast (playback_simulator.go:57-60).
NoLostWakeup ==
  main = "asleep" /\ HasStarted(next[1]) => player = "broadcast"

\* A request is skipped only because its segment's time has come, never because
\* it is ahead of the playback, for which GetTimeToReceive returns 0 as well
\* (playback_simulator.go:75-81).
NeverSkippedEarly ==
  \A id \in Ids : outcome[id] = "skipped" => clock >= Segment(id)

\* The map is accessed by two goroutines at once only after a write failed
\* (client.go:121 deletes without the lock).
MapIsGuarded == crashed => ~connected

\* The first request is LOW whatever the ratios.  Of those after it HIGH gets exactly
\* its ratio, rounded up, at any time, and MEDIUM never more than its own
\* (test_client.go:77-85).
PriorityShares ==
  LET others == counter - 1
  IN counter = 0 \/
       /\ HighShare * others <= Whole * counterHighPriority
       /\ Whole * counterHighPriority < HighShare * others + Whole
       /\ Whole * counterMediumPriority < MediumShare * others + Whole
       /\ counterHighPriority + counterMediumPriority <= others

\* The run ends: neither a server that does not answer, nor a lost connection,
\* nor readers stuck with late responses keep it from playing to the end.
RunEnds == <>Ended
=============================================================================
