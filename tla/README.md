# Verification of the TccQuic tile server

TLA+ models of the server that answers requests for video tiles over QUIC, of the
client that tests it and of the client it was first written for: TLC configurations that check them on small instances,
and theorems that TLAPS proves for instances of every size.

Paths below leave out the leading `src/` of the repository: `server/...` is
`src/server/...`, `docs/...` is `docs/...` beside it.

## 1. The system and its parts

A client opens QUIC streams and writes requests on them: a segment, a tile, a
priority (HIGH 0, MEDIUM 1, LOW 2) and a time-out. The server has one *stream
handler* per connection. Each stream gets a *listener* goroutine, which reads
requests and passes a closure for each to a *task scheduler*; one *worker*
goroutine per connection takes closures from there, and each reads its file and
writes the response. The order in which the worker takes them is the *queue
policy*: FIFO, strict priority (sp) or weighted fair queueing (wfq).

| Part | State | Operations | Used by | What is hard |
| --- | --- | --- | --- | --- |
| Circular queue, `server/datastructures/circular_queue.go` | slice, head, length | Enqueue, Dequeue, IsEmpty | FIFO scheduler, the groups of the task scheduler | indices wrap; a full and an empty queue have equal indices |
| Priority queue, `priority_queue.go` | a binary heap over a slice | Enqueue, Dequeue | sp and wfq schedulers | sift loops at the edge of the heap; ties; slots that keep a popped entry alive |
| Schedulers, `stream_handler/scheduler/` | a heap or a queue of entries; per entry its priority, virtual finish time and mark | CreateEntry, SetPriority, Enqueue, Dequeue | task schedulers, under their mutex | virtual time of entries that come and go; a priority that changes while an entry is queued |
| Priority task scheduler, `stream_handler/task_scheduler.go:108-241` | per level a group (queue of tasks, scheduler entry), `isStopped`, mutex, condition variable | Enqueue, Stop, Run | stream handler | group and scheduler must agree; unlock and broadcast are separate; a return that keeps the mutex |
| FIFO task scheduler, `task_scheduler.go:37-104` | FIFO scheduler, `isStopped`, mutex, condition variable | Enqueue, Stop, Run | stream handler | lost wakeups; Stop against a worker that sleeps or executes |
| Stream handler, `stream_handler.go` | per stream `usageCount` | HandleStream, listen, handleRequest, Start, Stop | acceptor | `usageCount` is shared by two goroutines without a lock; refusals; the end of a stream |
| Acceptor, `server.go` | a goroutine per connection | accept streams, stop | -- | the context is looked at after AcceptStream has returned; Stop at any moment of the worker |
| Wire format, `model/video-packet.go` | none | Read and Write of requests and responses | server and test client | framing without marks between messages; early ends; lines that are none |
| Test client, `test_client/client.go`, `test_client.go`, `semaphore.go` | map of waiting responses, semaphore, wait group, counters of priorities | Request, the readers, the main loop | -- | time-outs against late responses; an unlocked change of the map; priorities by ratio |
| Playback simulator, `playback_simulator.go` | segment being played, condition variable | Start, WaitForPlaybackStart, GetTimeToReceive | test client | lost wakeups; a counter that is behind the clock |
| Statistics, `statistics.go` | a file | Log | test client | -- |
| Original client, `client/client.go` | a list of requests, a buffer of responses, flags, a semaphore | addBuffer, handleStream, consumeBuffer, a goroutine per request | -- | loops that poll what others change without a common lock; three goroutines that end by each other's flags |
| Its configuration, `client/buffer.go` | a record | ReadFile | original client | an error ends the reading and is ignored |
| Second client, TLS set-up, `main.go`, scripts | -- | -- | -- | not logic of the system |

How they interact: the acceptor calls the stream handler; listeners call the task
scheduler's Enqueue and get a bool back; the worker runs inside the task
scheduler's Run and calls the closures; the task scheduler calls a scheduler under
its mutex, and the scheduler its heap or queue. Below the mutex everything is
sequential; above it everything is concurrent. The models are cut along that line.

What makes each part correct:

* queues: what comes out is what went in, in order (of age, or of key), up to the
  bound, and nothing given up is kept alive;
* schedulers: the greatest key first; under wfq, service in proportion to the
  weights;
* task schedulers: every task is decided once, truthfully; accepted tasks run once,
  in order within their level, one at a time; none begins after Stop; nobody sleeps
  while there is work;
* stream handler: responses in the order of the requests, each request settled, a
  stream closed when nothing of it is pending;
* wire format: what one side writes the other reads, message after message, and of
  a stream that is cut only whole messages;
* test client: a response in time finds its request, requests are paced by the
  playback, their priorities keep their ratios, the run ends;
* original client: each request is taken once and in order, none is left behind, and
  the three goroutines end.

## 2. Modules

Bottom up; "implements" is a refinement checked by TLC and, where section 6 says so,
proved.

| Module | Stands for | Remarks |
| --- | --- | --- |
| `BoundedFifo` | what a bounded queue promises | abstract |
| `CircularQueue` | the wrapped slice, one action per return of each method | implements `BoundedFifo` |
| `MaxPool` | what a priority queue promises: *some* greatest item | abstract; ties are open |
| `PriorityQueue` | the heap; every turn of `container/heap`'s loops is a step | implements `MaxPool` |
| `DataStructures` | package datastructures: a behaviour uses the queue or the heap | root of their run |
| `Scheduler` | sp and wfq as functions on a state: a method is an operator that returns the state after the call | no variables; `First` is what `MaxPool` leaves open |
| `SchedulerApi` | a user that calls the methods in any order | for the finding on SetPriority |
| `SchedulerShare` | a user that always puts an entry back, as the documentation's example does | wfq only |
| `TaskPool` | what the stream handler relies on | abstract; the order between levels is open |
| `TaskScheduler` | `priorityTaskScheduler`, for sp and wfq | INSTANCEs `Scheduler`; implements `TaskPool` |
| `FifoTaskScheduler` | `fifoTaskScheduler` with `fifoScheduler` | implements `TaskPool` with one level |
| `StreamHandler` | acceptor, listeners and worker of a connection | INSTANCEs `TaskPool` for the task scheduler; a request arrives as one |
| `VideoPacket` | writing and reading of requests and responses, as operators on sequences of lines and data | no variables |
| `WiredStream` | the same connection with the bytes on it: listeners that read line by line, responses with the contents of files | implements `StreamHandler` |
| `TestClient` | one run of the test client, with the server as environment | |
| `ClientConfig` | ReadFile of the original client's configuration | no variables |
| `OriginalClient` | one run of the original client, with the server as environment | |
| `MCStreamHandler`, `MCOriginalClient` | files and configurations for TLC | |
| `DataStructures_proofs`, `SchedulerShare_proofs`, `TaskScheduler_proofs`, `TaskSchedulerGuarantees_proofs`, `FifoTaskScheduler_proofs`, `StreamHandler_proofs`, `TestClient_proofs`, `OriginalClient_proofs` | theorems | section 6 |

### State and actions against the code

**TaskScheduler.** `tasks[l]` is `groups[l].tasks`, `sched.entry[l]` is
`groups[l].entry` with the scheduler's own record of it, `sched.queue` the
scheduler's heap. `mutex` is `Free` or the submitter that returned with it
locked. A critical section blocks nowhere except in `cond.Wait`, so it is one step
that needs `mutex = Free`; the steps of `Enqueue` are the call (`EnqueueCall`), the
critical section (`EnqueueInvalid` or `EnqueueLocked`) and the broadcast after the
unlock (`EnqueueBroadcast`). `Stop` is cut the same way. `Run` is `RunExit`,
`RunWait`, `RunTask` (dequeue an entry and a task, put the entry back or drop it,
unlock) and `RunTaskDone` (the task has returned and the mutex is taken again).
`EnqueueInvalid` leaves `mutex` with its caller because the code returns without
unlocking (`task_scheduler.go:187-193`). The branch of `RunTask` for an empty group
is in the code and in the model; `EntryMatchesGroup` shows that it is never taken.

**Scheduler.** Virtual times are whole numbers of 1/`VirtualUnit`, with a unit that
every priority divides, so that the reciprocals are exact. The code computes in
float32; what rounding does is not modelled.

**DataStructures.** Queue and heap share no variable, so their product would show
nothing that each alone does not: `inUse` says which of the two a behaviour uses.

**StreamHandler.** A change of `usageCount` is a load and a store, as it is a plain
`int` that two goroutines change; the test for zero may use the stored value or read
the variable again. Requests have valid priorities here; what an invalid one does
is the business of `TaskScheduler`. The file read and the response are one step.
A request may be ignored as expired at any time (`IgnoreExpired`).

A connection ends in two steps, as in quic-go: its streams fail (`Disconnect`), and
its context is done (`EndContext`). The acceptor gets a stream (`AcceptStream`), or an
error, and only then looks at the context: it hands the stream over (`HandleStream`)
or stops (`StopOnDisconnect`, with the stream it holds dropped). While AcceptStream
fails and the context is live it goes round, which changes nothing. A listener
reads through a buffer, so it may still find whole requests after the connection is
lost.

**WiredStream.** `wire[s]` is what a client has written on a stream and the listener
has not read: a sequence of tokens, each a line that has ended or a unit of data,
which may look like a line. `WireReadLine` is one turn of the loop in
`ReadVideoPacketRequest`, `WireRead` the turn that finds the empty line, and `packet`
what has been filled in so far. The client writes a request at once, and the reader
sees it line by line; where packets cut a line makes no difference to a reader that
waits for its end. A stream ends (`Endings`) cleanly, in the middle of a request, with
a line without a colon or with a value that is no number. `out[s]` is what the worker
has written; it flushes a whole response at once. `inbox` is a history variable here.

**TestClient.** `clock` is the last segment whose playback time has come; a request's
timer fires once its segment's time has come, since it is set to the time left until
then. The playback goroutine's counter `currentPlaybackSegment` follows `clock` late.
`waiting` is the key set of the map; each key is used once, so it stands for its
channel. A reader that sends on a channel is in `sending` until its request receives:
the channel has no buffer. A failed write deletes its key without the lock in a step
of its own (`Unregister`), and any access to the map meanwhile may end the process
(`crashed`), as the runtime checks for concurrent map writes without promising to
find them. A response without data, which is what the server makes of a file it
cannot read, ends it too (`panicked`). The ratios of priorities are `HighShare` and
`MediumShare` of `Whole`; quotients are compared exactly, and 0/0 is below nothing.

**OriginalClient.** Requests are numbered in the order in which they are added, and
0 is the zero request, which stands in `ints` when nothing else does. Appending and
taking are done under locks and are a step each. All else is read without a lock, and
such a read is taken to return the variable's value at that moment: gc loads a global
anew in every turn of a loop, and although a slice header is several words, every mix of
an old and a new one has the old or the new first request, or length. Flags are only ever set, so a test that reads a flag and then data is one
step; a test that reads two pieces of data, or a flag last, is two (`LookAtFirst` and
`LookAtLength`, `LookAtBuffer` and `LookAtStream`). The goroutine of a request opens a
stream, and panics if there is no connection (`Open`), waits for the answer or the
stream's failure and appends a response either way (`Receive`), and writes it to its
file or fails to (`Store`); the deferred release is part of the last step.
`ClientConfig` reads the configuration file, whose errors the client ignores.

## 3. Runs

| Run | Module, configuration | Asks | Shows |
| --- | --- | --- | --- |
| `data_structures` | `DataStructures.cfg` | does the wrapped slice behave as a bounded FIFO, and does the heap return a greatest item through every push and pop? | yes, with three slots and three items, and for up to five items of three keys |
| `scheduler_share` | `SchedulerShare.cfg` | is wfq service in proportion to the priorities? | yes, to within one service, for every assignment of priorities 1 to 4 to three entries and every way to break ties |
| `scheduler_wfq_priority_change` | `SchedulerPriorityChange.cfg` | is the priority fixed once an entry is enqueued? | **no** (finding 2) |
| `tasks_sp` | `TaskSchedulerSP.cfg` | types, agreement of groups and scheduler, wakeups, answers, urgency, refinement | all hold, requests of an invalid priority included |
| `tasks_wfq` | `TaskSchedulerWFQ.cfg` | fairness of wfq, and liveness | all hold |
| `tasks_stop_returns` | `TaskSchedulerStop.cfg` | does Stop return? | **no** (finding 1) |
| `tasks_fifo` | `FifoTaskScheduler.cfg` | the same of the FIFO policy, and that Stop returns | all hold |
| `stream_handler` | `MCStreamHandler`, `StreamHandler.cfg` | order and framing of responses, stopping when the connection ends, every request settled, and that reading line by line is reading requests | all hold |
| `stream_count_race` | `StreamCountRace.cfg` | does `usageCount` count what is pending? | **no** (finding 3) |
| `stream_refusal` | `StreamRefusal.cfg` | is a refused request left out of the count? | **no** (finding 4) |
| `test_client` | `TestClient.cfg` | types, semaphore, map, wakeups, pacing, shares of priorities, end of the run | all hold |
| `original_client` | `MCOriginalClient`, `OriginalClient.cfg` | is every request taken, does the consumer take every response, does the client end? | every request is; the consumer may leave as many responses as the semaphore has room for, and two more; it ends if the semaphore has room at all |

The properties worth reading first:

* `EntryMatchesGroup` (`TaskScheduler`): two data structures that only the order of
  calls in `Enqueue` and `Run` keeps together.
* `NoLostWakeup` (`TaskScheduler`, `FifoTaskScheduler`, `TestClient`): the unlock and
  the broadcast are separate, so a waiter may go to sleep in between. It may only do
  so if somebody is about to wake it.
* `FairSpread` (`TaskScheduler`): the virtual times of the levels with tasks, and the
  scheduler's clock, stay within one service of the smallest weight of each other,
  whenever levels fall idle and come back. Service in proportion to the weights
  follows, and no level hoards credit or debt.
* `AnswerIsHonest`: the bool that Enqueue returns, on which the listener's accounting
  depends, although it is overwritten by the result of a second Enqueue.
* `ImplementsPool`, `ServesPool`: the refinement that lets `StreamHandler` use
  `TaskPool` instead of the task scheduler.
* `RepliesInOrder`, `EveryRequestIsSettled` (`StreamHandler`): end to end.
* `ImplementsHandler` (`WiredStream`): whatever follows the complete requests on a
  stream, the listener finds exactly these, and every step of the detailed connection
  is one of the abstract one or stutters. It is a safety property; `DisconnectStops` and
  `EveryRequestIsSettled` are checked of the detailed connection itself.
* `ResponsesAreFramed` (`WiredStream`): a reader gets back from a stream what was
  written, also when a file looks like headers or is empty; and from any prefix of it
  only whole responses.
* `DisconnectStops` (`StreamHandler`): the worker is stopped once the connection is
  lost, at whatever point of its loop the acceptor learns of it.
* `PriorityShares` (`TestClient`): after any number of requests HIGH has its ratio
  rounded up and MEDIUM no more than its own.
* `NoRequestIsLeftBehind` (`OriginalClient`): the producer may declare the list
  finished with a request in it, and handleStream must not leave that one.
* `ConsumerLeavesFew` (`OriginalClient`): what the order of two tests in the
  consumer can cost; the bound is tight.
* `ResponseFindsRequest` (`TestClient`): the map, the network and the channel between
  them never lose a response whose request has not given up.

Each property also has a mutant: a change to one definition, of the kind a slip in
the code would be, under which TLC finds the property violated. Mutants are written
beside the definition they replace and named in `PROJECT.json`.

### Findings

1. `task_scheduler.go:187-193`: Enqueue returns for a priority out of range while it
   holds the mutex. Every later Enqueue, Run and Stop blocks for ever, against
   "`Start` and `Stop` are non-blocking." (`docs/server/stream_handler.md:24`). Any
   integer a request carries reaches this line.
2. `scheduler/wfq_scheduler.go:65-67`: SetPriority on an entry that is enqueued
   changes what it is charged, against "Once the entry is enqueued, changing the
   priority has no effect." (`docs/server/stream_handler.md:64`).
3. `stream_handler.go:54-58,77`: `usageCount` is changed by listener and worker
   without synchronisation and can lose an update, against "Increased for each
   pending request" (`stream_handler.go:50`); the stream is closed too early or never.
4. `stream_handler.go:77-85`: a refused request stays counted, against the same line,
   and the stream is never closed.

Seen while modelling, contradicted by no document: the high priority has the
smallest weight under wfq (49 against 100 for LOW, so it is served half as often as
LOW while both have tasks); a task enqueued after Stop is accepted and never runs; in
the test client a request that times out leaves its key in the map, so that its late
response blocks the stream's reader for ever, which with pipelining is the reader of
all requests.
No property excludes this, nor the crash and the panic of the test client:
`RunEnds` counts both as ends of the run, and `MapIsGuarded` says only that the crash
needs a connection that is lost.

Of the original client and its server: the client writes its requests as JSON, which the
server reads as a header with an unknown key, so it waits for more and never answers; a
request of this client ends when the connection times out, and its response is empty.
The file of its configuration is in the repository as `configFile.txt.txt` and is read
as `configFile.txt`; without it `semaphoreCount` is 0 and the first request blocks
handleStream for ever. The consumer can end with responses left in the buffer. A file
the server cannot read becomes a response without data, at which the test client panics.

## 4. Bounds

| Bound | Why it is enough |
| --- | --- |
| `DataStructures`: the queue's Capacity 3, three items | every head position with every length, wrap in both directions |
| `DataStructures`: HeapCapacity 5, six HeapValues of three HeapPriorities | three levels with a node of one child and a node of two; ties |
| `SchedulerShare`: 3 entries, MaxRounds 12 | one common period of the priorities 1 to 4 is VirtualUnit 12 services of one entry |
| `TaskScheduler` sp: 2 submitters, MaxCalls 2, levels {0,1,2,3}, 2 tasks per level | a level can fill up and refuse; a level can empty and return; 3 is out of range |
| `TaskScheduler` wfq: the same with levels {0,2} | the largest and the smallest weight; liveness is checked, and level 3 would end all progress by finding 1 |
| `FifoTaskScheduler`: 2 submitters, MaxCalls 3, MaxTasks 3 | full queue and refusals with tasks left to submit |
| `StreamHandler`: 1 stream, MaxRequests 2, 2 levels, Capacity 1 | a request executing and one waiting, of one level or of two; a refusal; every ending of the stream after none or one request in hand; an empty file and one that looks like headers |
| `StreamRefusal`: 2 streams, 2 requests, 1 level | the second stream fills the level |
| `TestClient`: 2 segments, 2 tiles, Parallelism 2 | main blocks on the semaphore and on the playback; two requests share the pipelined stream's reader; a request outlives its segment; four requests with ratios 0.3 and 0.5 give each of the three priorities a turn |
| `OriginalClient`: Initial 2, FirstBatch 1, SecondBatch 2, Watermark 1 | the list runs empty before, between and after the batches; more requests than the semaphore has room for; the inner loop meets its length |
| `MCConfigFiles` | no file, an error before the line that counts and after it, an unknown name, and counts -1, 0, 1 and 2 |

The code's own bounds are constants of the modules: `MaxTasksPerLevel` for
`maxTasksPerPriorityLevel`, `HeapCapacity` for the capacity both schedulers are
created with, `Parallelism` for the command line's. Section 6 removes the bounds
for all that it proves.

Deadlock is checked except in `tasks_sp` and `tasks_stop_returns`, where an invalid
priority does stop everything (finding 1), and in the runs of `SchedulerShare` and
`StreamHandler`, which end at their bound or when the client falls silent. In
`OriginalClient` a configuration without room in the semaphore stops handleStream, but
the consumer goes on polling.

## 5. Fairness

* Task schedulers: weak fairness of Run, of each submitter's critical section and
  broadcast, and of Stop's. The Go runtime runs each runnable goroutine, and its
  mutex hands itself to a waiter that has waited for long (starvation mode), so none
  is passed over for ever. Calls are not fair: nobody need submit or stop.
* Stream handler: weak fairness of each listener, of the worker, of the acceptor, and
  of quic-go's ending the context of a connection that is lost. The client is assumed
  to read its responses; it need not send, end streams or disconnect.
* Test client: time passes and some goroutine runs while one can, no more. No
  goroutine of it can run for ever, so this is enough for `RunEnds`. The server need
  not answer and the connection may be lost.
* Original client: weak fairness of each goroutine; loops that poll do run. A request's
  answer, or the failure of its stream, comes: nothing keeps an idle connection from
  timing out.

## 6. Theorems

All are proved for every value of the constants that the modules' named assumptions
allow. `tlapm M.tla` checks module M.

| Module | Theorem | States |
| --- | --- | --- |
| `DataStructures_proofs` | `TypeCorrect` | of the circular queue: head and length in range |
| | `VacatedCorrect` | slots outside the window are clear |
| | `Refinement` | the slice implements `BoundedFifo`, capacity 0 included |
| | `QueueInStructures` | the three above, for `StructuresSpec` |
| | `HeapTypeCorrect` | of the heap: slots, cursor and length in range at every turn of the loops |
| | `HeapOrderCorrect` | `HeapOrdered` |
| | `HeapSlotsCorrect` | `HeapSlotsAreCleared` |
| | `HeapRefinement` | the heap implements `MaxPool` |
| `SchedulerShare_proofs` | `SharesCorrect` | `SharesAreProportional` |
| `TaskScheduler_proofs` | `TypeCorrect` | types, and the bound of every group |
| | `EntriesCorrect` | `EntryMatchesGroup` |
| `TaskSchedulerGuarantees_proofs` | `WakeupsCorrect` | `NoLostWakeup` |
| | `AnswersCorrect` | `AnswerIsHonest` |
| | `UrgencyCorrect` | `PicksMostUrgent`, for the sp policy |
| | `FairnessCorrect` | `FairSpread`, for the wfq policy |
| | `Refinement` | `ImplementsPool` |
| `FifoTaskScheduler_proofs` | `TypeCorrect` | types, and the bound of the queue |
| | `WakeupsCorrect` | `NoLostWakeup` |
| | `Refinement` | `Pool!Spec`: `TaskPool` with one level |
| `StreamHandler_proofs` | `RepliesCorrect` | `RepliesInOrder` |
| | `TypeCorrect` | types, and the bounds of counts and numbers |
| | `WireRefinement` | the connection with its wires implements `StreamHandler` (its `Spec`) |
| | `WiredRepliesCorrect` | so `TypeOK` and `RepliesInOrder` hold of it too |
| | `FramingCorrect` | `ResponsesAreFramed`, whatever the files hold |
| `TestClient_proofs` | `SharesCorrect` | `PriorityShares`, for all ratios |
| | `TypeCorrect` | types; at most `Parallelism` requests run |
| | `ParallelismCorrect` | `ParallelismHolds` |
| | `ResponsesCorrect` | `ResponseFindsRequest` |
| | `PacingCorrect` | `NeverSkippedEarly` |
| | `MapCorrect` | `MapIsGuarded` |
| | `WakeupsCorrect` | `NoLostWakeup` |
| `OriginalClient_proofs` | `NoneLeftBehind` | `NoRequestIsLeftBehind`, for batches of any size |
| | `TypeCorrect` | types; no more responses than requests |
| | `FewLeft` | `ConsumerLeavesFew`, for every configuration |

**The argument for the task scheduler.** `IInv == TypeOK /\ EntryMatchesGroup` is
inductive; neither part is alone. `TypeOK` needs the agreement: only because a group
with tasks has a marked entry of its level's weight is `Dequeue` applied to an entry
at all, and only because an empty group has none is a new one created with the
scheduler's clock and accepted by the heap, whose capacity is the number of levels
(`RoomForLevel` counts: without level l at most two items are queued). Two lemmas say
what the code's nested calls amount to: `ScheduleEffect` (CreateEntry, SetPriority,
Enqueue for a group that was empty) and `ServeEffect` (Dequeue, then Enqueue or the
dropped entry). `EnqueueEffect` and `RunTaskEffect` lift them to the two actions that
change the groups, and everything after them uses only these two.

* `NoLostWakeup` is inductive given `IInv`: the worker waits only if the scheduler is
  empty, which by the agreement means that no group has a task; and whoever changes
  that is left with a broadcast to do.
* `AnswerIsHonest`: the second Enqueue, whose result overwrites the first one's,
  cannot fail.
* `PicksMostUrgent`: the item served has a greatest key; keys are weights, and the
  weights of sp fall from level to level.
* `FairSpread` is inductive given `IInv`: the item served has the least virtual
  finish time f, so all others lie in f .. f + m, m the longest service; the clock and
  the entry move to f + w with w <= m. A level that returns starts at the clock.
* `Refinement`: `EnqueueLocked` is `Accept` or `Refuse`, `EnqueueInvalid` is `Refuse`,
  `RunTask` is `Begin`, `RunTaskDone` is `Finish`, `StopLocked` is `Stop`; the calls
  and the broadcasts stutter.

The FIFO task scheduler is argued for in the same way, with a queue in the place of
groups and scheduler.

**The argument for the heap.** `HeapInv` is `HeapTypeOK`, `HeapOrdered`,
`HeapSlotsAreCleared` and two facts more. `HeapOrdered` is already in the form that the
loops need: one item is on the move, it may be out of place with its parent (going up)
or with its children (going down), and what lies below it is in order with what lies
above it, so that a swap moves the exception one level and leaves nothing else behind.
`ChildIsGreatest` says that the child `down` looks at is the greater of the two, without
which the other one would be left above its parent. `ValuesDiffer` makes removing a slot
the removal of its item. `SetAsideIsGreatest` is what `TakeGreatest` asks for when the
call returns; it is true because the root of a heap in order is a greatest item
(`RootIsGreatest`). That is an induction over the slots, done with a least
counterexample: a slot above the root in priority has a parent before it that is above
the root as well. `LeastMember`, that every set of naturals that is not empty has a least
member, is the well-foundedness of "<". In the
refinement a Push or Pop takes effect when it returns, and the turns of the loops
permute the slots and stutter.

**The argument for wfq.** `ShareInv`: each entry's virtual finish time is the service it
has had (rounds times inverse weight), and the heap has exactly one item for it, keyed
by it. The entry served has the least service, so after one service more it is at most
that service ahead of any other, which is what `SharesAreProportional` says; that
property is itself needed as a part, since it bounds the entries that were ahead before.
The heap has room for an item again because it has just given one up (`RoomAgain`).

**The argument for the responses.** `OrderInv` of `StreamHandler_proofs`: of one stream
and priority, the responses come before the task that runs, that before the pending
ones, those before the request that the listener holds, and that before the unread ones,
all by their numbers. The link between the two goroutines is `Passed`, the number of
requests that the listener is done with: unread requests and the one it holds are
numbered on from it, and everything beyond the listener is at most it. A task that runs
is not yet before the responses once it has been answered, so that part holds only while
the worker is at `"handle"`. Refused, ignored and unanswered requests leave gaps, which
is why the order is the strongest thing to hold.

**The argument for the wire.** `WireInv`: what is on the wire of a stream is the requests
that are unread, each of them six lines, without the first k lines of the first one, and
then what is left of the client's last words; and the packet that the listener has filled
in is what those k lines make (`Framing`). `LinesAreGood` says that no line of a request
is an error and only its sixth is empty, so a listener completes a packet exactly when a
request ends, with exactly its values (`PartGrows`); `Remains` is closed under taking a
line off and never has an empty line that is reached, so what follows the last request
never passes for one. Then `WireRead` is `ReadRequest` of `StreamHandler`,
`WireReadFails` its counterpart, and `WireReadLine` stutters.

**The argument for the framing.** `OutInv`: the tokens of a stream can be cut at places
`starts` such that the lines and the data of the i-th response stand between the i-th
place and the next (`LaidOut`); a write adds one place at the end (`ResponseLaidOut`). A
reader that stands at such a place finds no empty line and no error among the five lines
before the empty one (`HeaderLines`), so it takes that one for the end of the header, has
the length of the data from it, and stands at the next place when it has read them,
whatever they look like; if they have not all come it returns nothing (`ReadWritten`,
`ReadsOne`). So of the first k tokens it reads the responses that end within them, and
of all tokens all responses (`ReadsBack`). `ReadAll` and `FoldLeft` are recursive
functions. What is used of them, that there is a function that satisfies the recursive
equation and what it returns at each place, is shown with the least number for which it
might fail (`FoldExists`, `ReaderExists`, `ReadsBack`), since the library's induction
rules cannot be applied; `ReaderExists` is true because each response that is read ends
after the place where it began (`ReadMoves`), which a negative Content-Length would break.

**The argument for the original client's order.** `OrderInv` of `OriginalClient_proofs`: `ints`
lists, in order, what has been added and not taken, behind a zero request if nothing
else was there; so what has been taken is 1 .. `Count`. The producer finds the list
finished only when everything has been added, and the list has length 1 from then on.
If handleStream sees the flag, that one item is the zero request, or one it takes first:
nothing is left.

**The argument for the original client's end.** `ClientInv` adds to it that the responses
in the buffer and those consumed are as many as the requests that have been answered
(`AnswersInv`), that the goroutines in the semaphore are at most `semaphoreCount`
unless the process has crashed (`SemaphoreInv`; a negative count crashes it at once),
and that the stream finishes with the semaphore empty, so with every request answered.
The bound on what is left comes from `EndInv`: when the consumer finds the buffer empty
and everything added, the list has length 1, so the requests still unanswered are in the
semaphore but for the one in the list and the one that handleStream holds
(`FewUnanswered`); from then on responses plus unanswered requests stay as many, since
the consumer takes none before it has looked at `streamFinished`.

**The argument for the run of the test client.** `RunInv`. The semaphore's count is the
number of `Busy` requests: a request enters that set where the count goes up and leaves
it where it goes down, on each of its ways out. `PacingInv`: requests are started in
order and none before the playback has come to the segment before its own; so
GetTimeToReceive is never asked about a segment further ahead, for which it returns 0,
and a 0 means that the segment's time has come. `MapInv` ties the place of a request
to its outcome: it is in the map before it is written, a response is under way only for
one that was written, is with the server or back and not both, and the request that
deletes its entry without the lock does so because its write failed, that is without a
connection. `NoLostWakeup` is inductive by itself: main looks at the segment and goes
to sleep in one critical section.

**The argument for the shares of the test client.** `PriorityShares` alone is not inductive: the first
request is counted but takes no share, since 0/0 is below nothing, so the invariant
`SharesInv` adds that both counters are 0 while no request has been made. A request made
while a class is below its ratio adds one to a count that was less than the ratio
(`UpperShare`); one made otherwise leaves a count that was not (`LowerShare`). HIGH is
asked first, so it has both bounds; MEDIUM gets what HIGH leaves, so it has the upper
one only. No other action changes the counters.

Assumptions used: `ConstantsAssumption` (a positive bound per level, finite counts of
calls, streams and requests, batches that are not empty, `NoTask` and `Free` distinct
from what they could be confused with), `NilAssumption` (a nil entry is no entry),
`ShareAssumption` (no more entries than the heap holds), `PrioritiesAssumption` (every
priority divides `VirtualUnit`), `HeapAssumption` (priorities are numbers, the capacity is
positive), `WiredAssumption` (natural numbers, and the values of a request that the
client writes, are what Atoi accepts), `FilesAssumption` (a file is any sequence of
tokens, those included that look like header lines, good or bad) and `ConfigAssumption`
(the `semaphoreCount` that `ReadFile` returns is an int, whatever the file holds).

**Only model-checked**

* Liveness (`ServesPool`, `AcceptedTasksRun`, `StopEndsRun`, `StopReturns`,
  `DisconnectStops`, `EveryRequestIsSettled`, `RunEnds`, `ClientFinishes`), which is
  beyond the prover.
* `SchedulerApi`, whose run is for the finding on SetPriority.

## 7. Not modelled

* float32 virtual times: once `lastVirtualFinish` is large, adding a reciprocal no
  longer changes it.
* The transport: flow control, stream limits, loss and order of packets. QUIC
  delivers each stream in order or not at all, which is what the models assume. A
  client that stops reading, and so blocks the one worker, is therefore not there.
* Statistics and logging, which nothing reads; the command line and TLS, which have no
  state; the scripts.
* The listener loop of `Server.Start`: it starts a goroutine per connection, and
  connections share nothing.
* In `client/buffer.go` RequestBufferImpl and ResponseBufferImpl, and the setters and
  getters of ConfigurableImpl: nothing in the repository calls them.
* `client2.go`, which does not compile.

## 8. Plan

Order of what is left, the most important first:

1. **Rounding**: wfq with a virtual clock of bounded precision, and the point from
   which the order of service freezes.
2. **Flow control**: a client that reads some of its streams only.

Abstract specifications still worth stating: a map of futures for the test client's
waiting responses (each key completed or abandoned once), and a counter of references
for `usageCount`, which the code as it is does not implement.
