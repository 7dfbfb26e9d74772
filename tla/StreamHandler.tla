--------------------------- MODULE StreamHandler ---------------------------
(***************************************************************************)
(* The server's side of one connection (server.go, stream_handler.go): the *)
(* acceptor goroutine, one listener goroutine per stream, which reads      *)
(* requests and enqueues them, and the worker goroutine, which handles     *)
(* them.  The task scheduler between them is module TaskPool, which        *)
(* modules TaskScheduler and FifoTaskScheduler implement.                  *)
(*                                                                         *)
(* Requests here carry valid priorities, so that a refusal means that the  *)
(* level is full; module TaskScheduler shows what an invalid one does.     *)
(*                                                                         *)
(* stream.usageCount is a plain int that the stream's listener and the     *)
(* worker both change without a lock.  A change is a load and a store in   *)
(* steps of their own, and the test for zero that follows may look at the  *)
(* variable again or at the value that was stored: the build decides.      *)
(***************************************************************************)
EXTENDS Integers, Sequences, FiniteSets

CONSTANTS
  Streams,      \* the streams the client opens
  MaxRequests,  \* bound: the requests it sends on each of them
  Levels,       \* the priority levels
  Capacity,     \* the most tasks waiting at one level
  NoTask        \* the worker is between tasks

\* The n-th request of a stream, of some priority.
Request == [stream : Streams, n : 1 .. MaxRequests, priority : Levels]

ASSUME ConstantsAssumption ==
  /\ IsFiniteSet(Streams)
  /\ MaxRequests \in Nat
  /\ Capacity \in Nat \ {0}
  /\ NoTask \notin Request

VARIABLES
  connected,  \* the connection is up
  contextDone, \* its context is done, which quic-go sees to after it has ended
  held,       \* the stream AcceptStream has returned and the acceptor holds
  inbox,      \* per stream: the requests sent and not yet read
  sent,       \* per stream: how many the client has sent
  eof,        \* per stream: nothing more comes after the inbox
  listenPc,   \* per stream: where its listener is
  reading,    \* per stream: the request its listener has read last
  workerPc,   \* where the worker is in the closure it executes
  loaded,     \* per stream and goroutine: the value of usageCount it holds
  usageCount, \* per stream
  closed,     \* the streams the server has closed
  replies,    \* per stream: the responses written to it
  refused,    \* history: the requests for which Enqueue returned false
  pending, running, decided, stopped  \* the task scheduler

client == <<inbox, sent, eof>>
acceptor == <<contextDone, held>>
pool == <<pending, running, decided, stopped>>
counting == <<loaded, usageCount, closed>>
vars == <<connected, acceptor, client, listenPc, reading, workerPc, counting, replies,
          refused, pool>>

Pool == INSTANCE TaskPool WITH Tasks <- Request

Listener == "listener"
Worker == "worker"

Init ==
  /\ connected = TRUE
  /\ contextDone = FALSE
  /\ held = {}
  /\ inbox = [s \in Streams |-> << >>]
  /\ sent = [s \in Streams |-> 0]
  /\ eof = [s \in Streams |-> FALSE]
  /\ listenPc = [s \in Streams |-> "new"]
  /\ reading = [s \in Streams |-> NoTask]
  /\ workerPc = "idle"
  /\ loaded = [s \in Streams |-> [g \in {Listener, Worker} |-> 0]]
  /\ usageCount = [s \in Streams |-> 0]
  /\ closed = {}
  /\ replies = [s \in Streams |-> << >>]
  /\ refused = {}
  /\ Pool!Init
-----------------------------------------------------------------------------
(* The client and the connection                                           *)

SendRequest(s, l) ==
  /\ connected
  /\ sent[s] < MaxRequests
  /\ ~eof[s]
  /\ sent' = [sent EXCEPT ![s] = @ + 1]
  /\ inbox' = [inbox EXCEPT ![s] =
                 Append(@, [stream |-> s, n |-> sent[s] + 1, priority |-> l])]
  /\ UNCHANGED <<connected, acceptor, eof, listenPc, reading, workerPc, counting,
                 replies, refused, pool>>

\* The client closes its side of the stream, or sends what is not a request.
EndRequests(s) ==
  /\ connected
  /\ sent[s] > 0
  /\ ~eof[s]
  /\ eof' = [eof EXCEPT ![s] = TRUE]
  /\ UNCHANGED <<connected, acceptor, inbox, sent, listenPc, reading, workerPc, counting,
                 replies, refused, pool>>

\* The peer closes the connection, or it times out.
Disconnect ==
  /\ connected
  /\ connected' = FALSE
  /\ UNCHANGED <<acceptor, client, listenPc, reading, workerPc, counting,
                 replies, refused, pool>>

\* The connection fails its streams first and ends its context after that.
EndContext ==
  /\ ~connected
  /\ ~contextDone
  /\ contextDone' = TRUE
  /\ UNCHANGED <<connected, held, client, listenPc, reading, workerPc, counting,
                 replies, refused, pool>>
-----------------------------------------------------------------------------
(* The acceptor                                                            *)

\* AcceptStream returns a stream, on which the client has sent something.
AcceptStream(s) ==
  /\ connected
  /\ ~stopped
  /\ held = {}
  /\ listenPc[s] = "new"
  /\ sent[s] > 0
  /\ held' = {s}
  /\ UNCHANGED <<connected, contextDone, client, listenPc, reading, workerPc,
                 counting, replies, refused, pool>>

\* The context is found live: the stream gets its listener.
HandleStream(s) ==
  /\ s \in held
  /\ ~contextDone
  /\ held' = {}
  /\ listenPc' = [listenPc EXCEPT ![s] = "start"]
  /\ UNCHANGED <<connected, contextDone, client, reading, workerPc, counting,
                 replies, refused, pool>>

\* Mutant of StopOnDisconnect: the context is looked at only when AcceptStream
\* has failed, while the acceptor still holds a stream.
StopOnlyWithStream ==
  /\ contextDone
  /\ held # {}
  /\ Pool!Stop
  /\ held' = {}
  /\ UNCHANGED <<connected, contextDone, client, listenPc, reading, workerPc,
                 counting, replies, refused>>

\* The context is found done, after AcceptStream has returned a stream, which is
\* dropped, or has failed.  (While it fails and the context is live, the acceptor
\* calls it again at once, and nothing changes.)
StopOnDisconnect ==
  /\ contextDone
  /\ held # {} \/ ~connected
  /\ Pool!Stop
  /\ held' = {}
  /\ UNCHANGED <<connected, contextDone, client, listenPc, reading, workerPc,
                 counting, replies, refused>>
-----------------------------------------------------------------------------
(* usageCount                                                              *)

Load(s, g) ==
  /\ loaded' = [loaded EXCEPT ![s][g] = usageCount[s]]
  /\ UNCHANGED <<usageCount, closed>>

Store(s, g, change) ==
  /\ usageCount' = [usageCount EXCEPT ![s] = loaded[s][g] + change]
  /\ loaded' = [loaded EXCEPT ![s][g] = @ + change]
  /\ UNCHANGED closed

CloseIfZero(s, g) ==
  \E value \in {usageCount[s], loaded[s][g]} :
    /\ closed' = IF value = 0 THEN closed \cup {s} ELSE closed
    /\ loaded' = [loaded EXCEPT ![s][g] = 0]
    /\ UNCHANGED usageCount
-----------------------------------------------------------------------------
(* listen                                                                  *)

\* The listener of s moves from one place to another.
Listen(s, from, to) ==
  /\ listenPc[s] = from
  /\ listenPc' = [listenPc EXCEPT ![s] = to]
  /\ UNCHANGED <<connected, acceptor, sent, eof, workerPc, replies>>

\* s.usageCount++ on entry, and for each request.
CountLoad(s) ==
  /\ \/ Listen(s, "start", "starting")
     \/ Listen(s, "got", "counting")
  /\ Load(s, Listener)
  /\ UNCHANGED <<inbox, reading, refused, pool>>

CountStore(s) ==
  /\ \/ Listen(s, "starting", "read")
     \/ Listen(s, "counting", "enqueue")
  /\ Store(s, Listener, 1)
  /\ UNCHANGED <<inbox, reading, refused, pool>>

\* Once the connection is lost a request is still read if the stream's
\* bufio.Reader holds it: the next one may be read, or ReadNothing happens.
ReadRequest(s) ==
  /\ Listen(s, "read", "got")
  /\ inbox[s] # << >>
  /\ reading' = [reading EXCEPT ![s] = Head(inbox[s])]
  /\ inbox' = [inbox EXCEPT ![s] = Tail(@)]
  /\ UNCHANGED <<counting, refused, pool>>

\* The stream ended or failed: the deferred decreaseUsageCount runs.
ReadNothing(s) ==
  /\ Listen(s, "read", "leave")
  /\ ~connected \/ (eof[s] /\ inbox[s] = << >>)
  /\ UNCHANGED <<inbox, reading, counting, refused, pool>>

EnqueueAccepted(s) ==
  /\ Listen(s, "enqueue", "read")
  /\ Pool!Accept(reading[s], reading[s].priority)
  /\ UNCHANGED <<inbox, reading, counting, refused>>

\* The level is full: the listener returns, with the request still counted.
EnqueueRefused(s) ==
  /\ Listen(s, "enqueue", "leave")
  /\ Len(pending[reading[s].priority]) = Capacity
  /\ Pool!Refuse(reading[s])
  /\ refused' = refused \cup {reading[s]}
  /\ UNCHANGED <<inbox, reading, counting>>

UncountLoad(s) ==
  /\ Listen(s, "leave", "uncount")
  /\ Load(s, Listener)
  /\ UNCHANGED <<inbox, reading, refused, pool>>

UncountStore(s) ==
  /\ Listen(s, "uncount", "test")
  /\ Store(s, Listener, -1)
  /\ UNCHANGED <<inbox, reading, refused, pool>>

UncountTest(s) ==
  /\ Listen(s, "test", "ended")
  /\ CloseIfZero(s, Listener)
  /\ UNCHANGED <<inbox, reading, refused, pool>>

ListenBetweenReads(s) ==
  \/ CountLoad(s)
  \/ CountStore(s)
  \/ EnqueueAccepted(s)
  \/ EnqueueRefused(s)
  \/ UncountLoad(s)
  \/ UncountStore(s)
  \/ UncountTest(s)

ListenStep(s) == ReadRequest(s) \/ ReadNothing(s) \/ ListenBetweenReads(s)
-----------------------------------------------------------------------------
(* The closure that is enqueued                                            *)

\* The worker moves from one place in the closure to another.
Work(from, to) ==
  /\ workerPc = from
  /\ workerPc' = to
  /\ UNCHANGED <<connected, acceptor, client, listenPc, reading, refused>>

BeginTask ==
  /\ Work("idle", "handle")
  /\ \E l \in Levels : Pool!Begin(l)
  /\ UNCHANGED <<counting, replies>>

\* Mutant of Respond: the response is written, and flushed again.
RespondTwice ==
  /\ Work("handle", "uncount")
  /\ replies' = [replies EXCEPT ![running.stream] = @ \o <<running, running>>]
  /\ UNCHANGED <<counting, pool>>

\* handleRequest writes the response, if the stream still takes it.
Respond ==
  /\ Work("handle", "uncount")
  /\ LET s == running.stream
     IN replies' = IF connected /\ s \notin closed
                   THEN [replies EXCEPT ![s] = Append(@, running)] ELSE replies
  /\ UNCHANGED <<counting, pool>>

\* "Ignoring request (timed out)": any request may have waited too long.
IgnoreExpired ==
  /\ Work("handle", "uncount")
  /\ UNCHANGED <<counting,
                 replies, refused, pool>>

DoneLoad ==
  /\ Work("uncount", "store")
  /\ Load(running.stream, Worker)
  /\ UNCHANGED <<replies, pool>>

DoneStore ==
  /\ Work("store", "test")
  /\ Store(running.stream, Worker, -1)
  /\ UNCHANGED <<replies, pool>>

\* Mutant of DoneTest: the closure does not return.
DoneTestKeepsTask ==
  /\ Work("test", "idle")
  /\ CloseIfZero(running.stream, Worker)
  /\ UNCHANGED <<replies, pool>>

DoneTest ==
  /\ Work("test", "idle")
  /\ CloseIfZero(running.stream, Worker)
  /\ Pool!Finish
  /\ UNCHANGED replies

WorkerStep ==
  \/ BeginTask
  \/ Respond
  \/ IgnoreExpired
  \/ DoneLoad
  \/ DoneStore
  \/ DoneTest
-----------------------------------------------------------------------------
Next ==
  \/ \E s \in Streams :
       \/ \E l \in Levels : SendRequest(s, l)
       \/ EndRequests(s)
       \/ AcceptStream(s)
       \/ HandleStream(s)
       \/ ListenStep(s)
  \/ Disconnect
  \/ EndContext
  \/ StopOnDisconnect
  \/ WorkerStep

\* Every goroutine that can run does; the client may stop sending, or never
\* disconnect.  A response can be written because the client reads.
Fairness ==
  /\ \A s \in Streams :
       WF_vars(AcceptStream(s) \/ HandleStream(s)) /\ WF_vars(ListenStep(s))
  /\ WF_vars(WorkerStep)
  /\ WF_vars(EndContext)
  /\ WF_vars(StopOnDisconnect)

Spec == Init /\ [][Next]_vars
FairSpec == Spec /\ Fairness
-----------------------------------------------------------------------------
TypeOK ==
  /\ connected \in BOOLEAN
  /\ contextDone \in BOOLEAN
  /\ contextDone => ~connected
  /\ \A s \in held : held = {s} /\ listenPc[s] = "new"
  /\ held \subseteq Streams
  /\ held # {} => ~stopped
  /\ inbox \in [Streams -> Seq(Request)]
  /\ sent \in [Streams -> 0 .. MaxRequests]
  /\ eof \in [Streams -> BOOLEAN]
  /\ listenPc \in [Streams -> {"new", "start", "starting", "read", "got", "counting",
                               "enqueue", "leave", "uncount", "test", "ended"}]
  /\ reading \in [Streams -> Request \cup {NoTask}]
  /\ workerPc \in {"idle", "handle", "uncount", "store", "test"}
  /\ loaded \in [Streams -> [{Listener, Worker} -> Int]]
  /\ usageCount \in [Streams -> Int]
  /\ closed \subseteq Streams
  /\ replies \in [Streams -> Seq(Request)]
  /\ pending \in [Levels -> Seq(Request)]
  /\ running \in Request \cup {NoTask}
  /\ (running # NoTask) <=> (workerPc # "idle")
  /\ decided \subseteq Request
  /\ refused \subseteq decided
  /\ stopped \in BOOLEAN

\* The requests of s that were accepted and are not handled to the end.
InPool(s) ==
  {r \in Request : /\ r.stream = s
                   /\ \/ \E l \in Levels : \E i \in 1 .. Len(pending[l]) : pending[l][i] = r
                      \/ r = running}

\* A stream's responses to requests of one priority come in the order of the
\* requests, and no request is answered twice, whatever listeners and worker
\* interleave and however many requests are ignored.
RepliesInOrder ==
  \A s \in Streams : \A i, j \in 1 .. Len(replies[s]) :
    i < j /\ replies[s][i].priority = replies[s][j].priority
      => replies[s][i].n < replies[s][j].n

\* When the connection ends the stream handler is stopped, and its worker runs no
\* task after that, although the acceptor may hold a stream then or spin on an
\* AcceptStream that fails while the context is live (server.go:62-74).
DisconnectStops == ~connected ~> [](stopped /\ running = NoTask)

\* Every request that is sent is read and then handled to the end, unless its
\* stream's listener or the connection has ended first.
EveryRequestIsSettled ==
  \A s \in Streams : \A n \in 1 .. MaxRequests :
    sent[s] >= n ~>
      \/ ~connected
      \/ listenPc[s] = "ended"
      \/ \E r \in decided : r.stream = s /\ r.n = n /\ r \notin InPool(s)

\* No change of the count of s is under way.
CountAtRest(s) ==
  /\ listenPc[s] \in {"new", "start", "read", "got", "ended"}
  /\ running # NoTask /\ running.stream = s => workerPc = "handle"

\* usageCount is "increased for each pending request" (stream_handler.go:50):
\* with no change of it under way it is the number of the stream's pending
\* requests, and one for a listener that has not ended.
UsageCountsPending ==
  \A s \in Streams : CountAtRest(s) =>
    usageCount[s] = Cardinality(InPool(s))
                      + (IF listenPc[s] \in {"read", "got"} THEN 1 ELSE 0)

\* A refused request is not pending (stream_handler.go:50 and 82): a stream
\* none of whose requests was accepted is closed by the time its listener ends.
RefusedIsNotCounted ==
  \A s \in Streams :
    /\ listenPc[s] = "ended"
    /\ \A r \in decided : r.stream = s => r \in refused
    => s \in closed
=============================================================================
