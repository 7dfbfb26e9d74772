--------------------------- MODULE OriginalClient ---------------------------
(***************************************************************************)
(* The original client (client/client.go): the producer adds requests to   *)
(* ints, handleStream takes them from it and starts a goroutine for each,  *)
(* as many at a time as the semaphore allows, and the consumer takes their *)
(* responses from responseBuffer2.  The server is the environment.         *)
(*                                                                         *)
(* Requests are the numbers 1 to Total, in the order in which they are     *)
(* added; ints is never empty: a zero request stands in it for none.       *)
(* Appending and taking are done under the locks mu and receiveLock, a     *)
(* step each.  Everything else is read without a lock.  The flags are only *)
(* ever set, so that a test which reads a flag first and data after it is  *)
(* one step; one that reads two pieces of data, or a flag last, is two.    *)
(***************************************************************************)
EXTENDS ClientConfig, FiniteSets

CONSTANTS
  ConfigFiles,  \* the contents configFile.txt may have, << >> for no file
  Initial,      \* bounds: the requests in ints at the start (5 in the code),
  FirstBatch,   \* those added first (12),
  SecondBatch,  \* and those added then (120)
  Watermark     \* the length the consumer looks for (4)

ASSUME ConstantsAssumption ==
  /\ Initial \in Nat \ {0}
  /\ FirstBatch \in Nat \ {0}
  /\ SecondBatch \in Nat \ {0}
  /\ Watermark \in Nat

\* The field is an int, whatever the file says.
ASSUME ConfigAssumption ==
  \A lines \in ConfigFiles : ReadFile(lines).semaphoreCount \in Int

Total == Initial + FirstBatch + SecondBatch
Requests == 1 .. Total

zaroreq == 0  \* the zero request

VARIABLES
  semaphoreCount,  \* from the configuration
  connected,       \* DialAddr has succeeded, and the connection is up
  crashed,         \* a goroutine has panicked
  ints,
  counter, counter2, producer,
  bufferFinished, addFinish, streamFinished,
  stream, req,     \* handleStream: where it is, and the request it has taken
  request,         \* per request: where its goroutine is
  responses,       \* the length of responseBuffer2
  consumer, flag1,
  consumed         \* history: the responses the consumer has taken

producing == <<counter, counter2, producer, bufferFinished, addFinish>>
streaming == <<stream, req, streamFinished>>
consuming == <<consumer, flag1, consumed>>
vars == <<semaphoreCount, connected, crashed, ints, producing, streaming, request,
          responses, consuming>>

Init ==
  /\ \E lines \in ConfigFiles : semaphoreCount = ReadFile(lines).semaphoreCount
  /\ connected \in BOOLEAN  \* the error of DialAddr is ignored
  /\ crashed = FALSE
  /\ ints = [i \in 1 .. Initial |-> i]
  /\ counter = FirstBatch
  /\ counter2 = 1
  /\ producer = "add"
  /\ bufferFinished = FALSE
  /\ addFinish = FALSE
  /\ streamFinished = FALSE
  /\ stream = "make"
  /\ req = zaroreq
  /\ request = [r \in Requests |-> "none"]
  /\ responses = 0
  /\ consumer = "test"
  /\ flag1 = TRUE
  /\ consumed = 0
-----------------------------------------------------------------------------
(* The producer, addBuffer                                                 *)

\* The request that is added when these counters are reached.
NextAdded == Total + 1 - counter - counter2 * SecondBatch

Add ==
  /\ producer = "add"
  /\ ints' = Append(ints, NextAdded)
  /\ IF counter > 1
     THEN counter' = counter - 1 /\ UNCHANGED <<counter2, producer>>
     ELSE IF counter2 = 0
     THEN counter' = 0 /\ producer' = "first" /\ UNCHANGED counter2
     ELSE counter' = SecondBatch /\ counter2' = counter2 - 1 /\ UNCHANGED producer
  /\ UNCHANGED <<semaphoreCount, connected, crashed, bufferFinished, addFinish,
                 streaming, request, responses, consuming>>

\* The loop until nothing is left.  It looks at the first request, and goes round
\* while that is not zero,
LookAtFirst ==
  /\ producer = "first"
  /\ ints[1] = zaroreq
  /\ producer' = "length"
  /\ UNCHANGED <<semaphoreCount, connected, crashed, ints, counter, counter2,
                 bufferFinished, addFinish, streaming, request, responses, consuming>>

\* Mutant of LookAtLength: it does not look at the length.
LookAtFirstOnly ==
  /\ producer = "length"
  /\ bufferFinished' = TRUE
  /\ producer' = "finish"
  /\ UNCHANGED <<semaphoreCount, connected, crashed, ints, counter, counter2, addFinish,
                 streaming, request, responses, consuming>>

\* and then at the length, by which time the first may be another.
LookAtLength ==
  /\ producer = "length"
  /\ IF Len(ints) = 1
     THEN bufferFinished' = TRUE /\ producer' = "finish"
     ELSE producer' = "first" /\ UNCHANGED bufferFinished
  /\ UNCHANGED <<semaphoreCount, connected, crashed, ints, counter, counter2, addFinish,
                 streaming, request, responses, consuming>>

SetAddFinish ==
  /\ producer = "finish"
  /\ addFinish' = TRUE
  /\ producer' = "done"
  /\ UNCHANGED <<semaphoreCount, connected, crashed, ints, counter, counter2,
                 bufferFinished, streaming, request, responses, consuming>>
-----------------------------------------------------------------------------
(* handleStream                                                            *)

\* make(chan struct{}, semaphoreCount) panics if it is negative.
MakeSemaphore ==
  /\ stream = "make"
  /\ stream' = "test"
  /\ crashed' = (semaphoreCount < 0)
  /\ UNCHANGED <<semaphoreCount, connected, ints, producing, req, streamFinished, request,
                 responses, consuming>>

Test ==
  /\ stream = "test"
  /\ stream' = IF bufferFinished /\ ints[1] = zaroreq THEN "join" ELSE "take"
  /\ UNCHANGED <<semaphoreCount, connected, crashed, ints, producing, req, streamFinished,
                 request, responses, consuming>>

\* Mutant of Take: the last request is taken like any other.
TakeLast ==
  /\ stream = "take"
  /\ req' = ints[1]
  /\ ints' = Tail(ints)
  /\ stream' = IF req' = zaroreq THEN "test" ELSE "acquire"
  /\ UNCHANGED <<semaphoreCount, connected, crashed, producing, streamFinished, request,
                 responses, consuming>>

\* The list never becomes empty.
Take ==
  /\ stream = "take"
  /\ req' = ints[1]
  /\ ints' = IF Len(ints) = 1 THEN <<zaroreq>> ELSE Tail(ints)
  /\ stream' = IF req' = zaroreq THEN "test" ELSE "acquire"
  /\ UNCHANGED <<semaphoreCount, connected, crashed, producing, streamFinished, request,
                 responses, consuming>>

\* The goroutines that are between their acquire and their release.
InSemaphore == {r \in Requests : request[r] \notin {"none", "done"}}

\* With a semaphoreCount of 0 the channel has no buffer, and nobody receives.
Acquire ==
  /\ stream = "acquire"
  /\ Cardinality(InSemaphore) < semaphoreCount
  /\ request' = [request EXCEPT ![req] = "open"]
  /\ stream' = "test"
  /\ UNCHANGED <<semaphoreCount, connected, crashed, ints, producing, req, streamFinished,
                 responses, consuming>>

\* wg2.Wait.
Join ==
  /\ stream = "join"
  /\ InSemaphore = {}
  /\ streamFinished' = TRUE
  /\ stream' = "done"
  /\ UNCHANGED <<semaphoreCount, connected, crashed, ints, producing, req, request,
                 responses, consuming>>
-----------------------------------------------------------------------------
(* The goroutine of a request                                              *)

Goto(r, from, to) ==
  /\ request[r] = from
  /\ request' = [request EXCEPT ![r] = to]

\* An error is ignored, and the nil stream or connection used: a panic.
Open(r) ==
  /\ Goto(r, "open", "receive")
  /\ crashed' = ~connected
  /\ UNCHANGED <<semaphoreCount, connected, ints, producing, streaming, responses, consuming>>

\* The server's answer has come, or the stream has failed: either way there is a
\* response, in the second case an empty one, and it is appended.
Receive(r) ==
  /\ Goto(r, "receive", "store")
  /\ responses' = responses + 1
  /\ UNCHANGED <<semaphoreCount, connected, crashed, ints, producing, streaming, consuming>>

\* Mutant of Store: the semaphore is released only once the file is written.
StoreOrReturn(r) ==
  \E to \in {"done", "storeFailed"} :
    /\ Goto(r, "store", to)
    /\ UNCHANGED <<semaphoreCount, connected, crashed, ints, producing, streaming,
                   responses, consuming>>

\* The file is written, or cannot be: the deferred function releases.
Store(r) ==
  /\ Goto(r, "store", "done")
  /\ UNCHANGED <<semaphoreCount, connected, crashed, ints, producing, streaming,
                 responses, consuming>>
-----------------------------------------------------------------------------
(* The consumer                                                            *)

Consume(from, to) ==
  /\ consumer = from
  /\ consumer' = to
  /\ UNCHANGED <<semaphoreCount, connected, crashed, ints, producing, streaming, request>>

\* Mutant of LookAtBuffer: an empty buffer is enough.
LookAtBufferOnly ==
  /\ \/ Consume("test", IF responses = 0 THEN "confirm" ELSE "loop")
     \/ Consume("retest", IF responses = 0 THEN "reconfirm" ELSE "take")
  /\ UNCHANGED <<responses, flag1, consumed>>

\* The test on every tick, and again after the loop that follows it: nothing is
\* left to add and nothing in the buffer, and
LookAtBuffer ==
  /\ \/ Consume("test", IF addFinish /\ responses = 0 THEN "confirm" ELSE "loop")
     \/ Consume("retest", IF addFinish /\ responses = 0 THEN "reconfirm" ELSE "take")
  /\ UNCHANGED <<responses, flag1, consumed>>

\* then the stream has finished, by which time the buffer may not be empty.
LookAtStream ==
  /\ \/ Consume("confirm", IF streamFinished THEN "done" ELSE "loop")
     \/ Consume("reconfirm", IF streamFinished THEN "done" ELSE "take")
  /\ UNCHANGED <<responses, flag1, consumed>>

\* The inner loop, which goes round while the producer has yet to set addFinish.
Loop ==
  LET again == flag1 /\ responses <= Watermark /\ streamFinished
  IN
  /\ Consume("loop", IF again /\ ~addFinish THEN "loop" ELSE "retest")
  /\ flag1' = (flag1 /\ ~(again /\ responses = Watermark))
  /\ UNCHANGED <<responses, consumed>>

TakeResponse ==
  /\ Consume("take", "test")
  /\ IF responses # 0
     THEN responses' = responses - 1 /\ consumed' = consumed + 1 /\ UNCHANGED flag1
     ELSE flag1' = TRUE /\ UNCHANGED <<responses, consumed>>
-----------------------------------------------------------------------------
LoseConnection ==
  /\ connected
  /\ connected' = FALSE
  /\ UNCHANGED <<semaphoreCount, crashed, ints, producing, streaming, request, responses,
                 consuming>>

Producer == Add \/ LookAtFirst \/ LookAtLength \/ SetAddFinish
Stream == MakeSemaphore \/ Test \/ Take \/ Acquire \/ Join
Request(r) == Open(r) \/ Receive(r) \/ Store(r)
Consumer == LookAtBuffer \/ LookAtStream \/ Loop \/ TakeResponse

\* wg.Wait in Start, or a panic.
Ended ==
  \/ crashed
  \/ producer = "done" /\ stream = "done" /\ consumer = "done"

Next ==
  \/ /\ ~Ended
     /\ Producer \/ Stream \/ (\E r \in Requests : Request(r)) \/ Consumer \/ LoseConnection
  \/ Ended /\ UNCHANGED vars

Spec == Init /\ [][Next]_vars

\* Every goroutine runs.  A request's Receive ends because the connection times
\* out when no answer comes.
Fairness ==
  /\ WF_vars(~Ended /\ Producer)
  /\ WF_vars(~Ended /\ Stream)
  /\ \A r \in Requests : WF_vars(~Ended /\ Request(r))
  /\ WF_vars(~Ended /\ Consumer)

FairSpec == Spec /\ Fairness
-----------------------------------------------------------------------------
TypeOK ==
  /\ semaphoreCount \in Int
  /\ connected \in BOOLEAN
  /\ crashed \in BOOLEAN
  /\ ints \in Seq(Requests \cup {zaroreq}) \ {<< >>}
  /\ counter \in 0 .. FirstBatch + SecondBatch
  /\ counter2 \in {0, 1}
  /\ producer \in {"add", "first", "length", "finish", "done"}
  /\ bufferFinished \in BOOLEAN
  /\ addFinish \in BOOLEAN
  /\ streamFinished \in BOOLEAN
  /\ stream \in {"make", "test", "take", "acquire", "join", "done"}
  /\ req \in Requests \cup {zaroreq}
  /\ request \in [Requests -> {"none", "open", "receive", "store", "done"}]
  /\ responses \in 0 .. Total
  /\ consumer \in {"test", "confirm", "loop", "retest", "reconfirm", "take", "done"}
  /\ flag1 \in BOOLEAN
  /\ consumed \in 0 .. Total

\* The requests that have been taken.
Started == {r \in Requests : request[r] # "none"}
Taken == Started \cup ({req} \ {zaroreq})

\* The requests in ints: only its first can be a zero request.
Left == IF ints[1] = zaroreq THEN Tail(ints) ELSE ints

\* Requests are taken in order and each once, and handleStream leaves its loop only
\* when all have been, although it and the producer look at ints without the lock
\* and the producer may find the list finished with a request in it
\* (client.go:174, 292).
NoRequestIsLeftBehind ==
  /\ \E taken \in 0 .. Total :
       /\ Taken = 1 .. taken
       /\ Left = [i \in 1 .. Len(Left) |-> taken + i]
  /\ stream \in {"join", "done"} => Started = Requests

\* The consumer ends only when every request has its response, but may leave some
\* of them in the buffer, having found it empty before the stream finished
\* (client.go:318, 329): no more than were under way when it did.
ConsumerLeavesFew ==
  consumer = "done" =>
    /\ consumed + responses = Total
    /\ responses <= semaphoreCount + 2

\* With room in the semaphore the client finishes, or crashes: neither its lists
\* polled without locks nor files that cannot be written keep it.
ClientFinishes == semaphoreCount # 0 ~> Ended
=============================================================================
