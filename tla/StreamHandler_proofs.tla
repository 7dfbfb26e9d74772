------------------------ MODULE StreamHandler_proofs ------------------------
(***************************************************************************)
(* For every number of streams, requests and levels and every capacity:    *)
(* a stream's responses of one priority come in the order of its requests, *)
(* the handler's state stays well formed, the connection does the same     *)
(* with its wires as when requests arrive whole, and a reader finds in     *)
(* what has come of a stream the responses that were written to it.        *)
(***************************************************************************)
EXTENDS WiredStream, SequenceTheorems, WellFoundedInduction, TLAPS

\* The listener holds a request that is not enqueued yet.
Holds(s) == listenPc[s] \in {"got", "counting", "enqueue"}

\* How many requests of s its listener is done with: those sent but the unread
\* ones, and but the one it holds.
Passed(s) == sent[s] - Len(inbox[s]) - (IF Holds(s) THEN 1 ELSE 0)

Types ==
  /\ inbox \in [Streams -> Seq(Request)]
  /\ sent \in [Streams -> Nat]
  /\ DOMAIN listenPc = Streams
  /\ \A s \in held : listenPc[s] = "new"
  /\ DOMAIN reading = Streams
  /\ replies \in [Streams -> Seq(Request)]
  /\ pending \in [Levels -> Seq(Request)]
  /\ running \in Request \cup {NoTask}
  /\ workerPc = "idle" <=> running = NoTask

\* The unread requests, and the one the listener holds, are numbered on from those
\* it is done with.
UnreadInOrder ==
  \A s \in Streams :
    /\ \A i \in 1 .. Len(inbox[s]) :
         /\ inbox[s][i].stream = s
         /\ inbox[s][i].n = sent[s] - Len(inbox[s]) + i
    /\ Holds(s) => /\ reading[s] \in Request
                   /\ reading[s].stream = s
                   /\ reading[s].n = Passed(s) + 1

\* Of one stream and priority, the pending requests are in order,
PendingInOrder ==
  \A l \in Levels : \A i \in 1 .. Len(pending[l]) :
    /\ pending[l][i].priority = l
    /\ pending[l][i].n <= Passed(pending[l][i].stream)
    /\ \A j \in 1 .. Len(pending[l]) :
         i < j /\ pending[l][i].stream = pending[l][j].stream
           => pending[l][i].n < pending[l][j].n

\* the one that runs comes before them,
RunningInOrder ==
  running # NoTask =>
    /\ running.n <= Passed(running.stream)
    /\ \A l \in Levels : \A i \in 1 .. Len(pending[l]) :
         running.stream = pending[l][i].stream /\ running.priority = l
           => running.n < pending[l][i].n

\* and the responses before these and, until there is a response to it, before the
\* one that runs.
RepliesAreEarlier ==
  \A s \in Streams : \A k \in 1 .. Len(replies[s]) :
    /\ replies[s][k].n <= Passed(s)
    /\ \A l \in Levels : \A i \in 1 .. Len(pending[l]) :
         pending[l][i].stream = s /\ replies[s][k].priority = l
           => replies[s][k].n < pending[l][i].n
    /\ workerPc = "handle" /\ running.stream = s
         /\ replies[s][k].priority = running.priority
         => replies[s][k].n < running.n

OrderInv ==
  /\ Types
  /\ UnreadInOrder
  /\ PendingInOrder
  /\ RunningInOrder
  /\ RepliesAreEarlier
  /\ RepliesInOrder

LEMMA RequestFields ==
  ASSUME NEW r \in Request
  PROVE  r.stream \in Streams /\ r.n \in Nat /\ r.priority \in Levels /\ r # NoTask
BY ConstantsAssumption DEF Request

LEMMA PassedInt ==
  ASSUME Types, NEW s \in Streams
  PROVE  Passed(s) \in Int /\ Len(inbox[s]) \in Nat /\ sent[s] \in Nat
BY DEF Types, Passed

LEMMA InitOrder ==
  ASSUME Init
  PROVE  OrderInv
<1>1. Types
  BY DEF Init, Types, Pool!Init
<1>2. UnreadInOrder
  BY DEF Init, UnreadInOrder, Holds
<1>3. PendingInOrder /\ RunningInOrder
  BY DEF Init, PendingInOrder, RunningInOrder, Pool!Init
<1>4. RepliesAreEarlier /\ RepliesInOrder
  BY DEF Init, RepliesAreEarlier, RepliesInOrder
<1>5. QED
  BY <1>1, <1>2, <1>3, <1>4 DEF OrderInv

-----------------------------------------------------------------------------
(* What depends on what                                                    *)

\* A step that leaves the queues alone keeps them in order, if no listener takes
\* back what it was done with.
LEMMA QueuesUnchanged ==
  ASSUME OrderInv, Types', UNCHANGED <<pending, running, replies>>,
         workerPc' = "handle" => workerPc = "handle",
         \A s \in Streams : Passed(s) <= Passed(s)'
  PROVE  PendingInOrder' /\ RunningInOrder' /\ RepliesAreEarlier' /\ RepliesInOrder'
<1>1. \A s \in Streams : Passed(s) \in Int /\ Passed(s)' \in Int
  BY PassedInt DEF OrderInv, Types, Passed
<1>2. \A r \in Request : r.n <= Passed(r.stream) => r.n <= Passed(r.stream)'
  BY <1>1, RequestFields
<1>3. /\ \A l \in Levels : \A i \in 1 .. Len(pending[l]) : pending[l][i] \in Request
      /\ \A s \in Streams : \A k \in 1 .. Len(replies[s]) : replies[s][k] \in Request
      /\ running # NoTask => running \in Request
  BY DEF OrderInv, Types
<1>4. PendingInOrder'
  BY <1>2, <1>3 DEF OrderInv, PendingInOrder
<1>5. RunningInOrder'
  BY <1>2, <1>3 DEF OrderInv, RunningInOrder
<1>6. RepliesAreEarlier'
  <2>1. \A s \in Streams : \A k \in 1 .. Len(replies[s]) : replies[s][k].n <= Passed(s)'
    BY <1>1, <1>3, RequestFields DEF OrderInv, RepliesAreEarlier
  <2>2. QED
    BY <2>1 DEF OrderInv, RepliesAreEarlier
<1>7. RepliesInOrder'
  BY DEF OrderInv, RepliesInOrder
<1>8. QED
  BY <1>4, <1>5, <1>6, <1>7

\* A step that reads and enqueues nothing.
LEMMA ListenersUnchanged ==
  ASSUME UnreadInOrder, UNCHANGED <<inbox, sent, reading>>,
         \A s \in Streams : Holds(s)' <=> Holds(s)
  PROVE  UnreadInOrder' /\ \A s \in Streams : Passed(s)' = Passed(s)
BY DEF UnreadInOrder, Passed

\* A step that does neither, and answers nothing.
LEMMA QuietKeepsOrder ==
  ASSUME OrderInv, UNCHANGED <<inbox, sent, reading, pending, running, replies>>,
         DOMAIN listenPc' = Streams,
         \A s \in held' : listenPc'[s] = "new",
         \A s \in Streams : Holds(s)' <=> Holds(s),
         workerPc' = "idle" <=> workerPc = "idle",
         workerPc' = "handle" => workerPc = "handle"
  PROVE  OrderInv'
<1>1. Types'
  BY DEF OrderInv, Types
<1>2. UnreadInOrder' /\ \A s \in Streams : Passed(s)' = Passed(s)
  BY ListenersUnchanged DEF OrderInv
<1>3. \A s \in Streams : Passed(s) <= Passed(s)'
  BY <1>2, PassedInt DEF OrderInv
<1>4. QED
  BY <1>1, <1>2, <1>3, QueuesUnchanged DEF OrderInv

LEMMA ListenEffect ==
  ASSUME OrderInv, NEW s \in Streams, NEW from, NEW to, from # "new", Listen(s, from, to)
  PROVE  /\ listenPc[s] = from /\ listenPc'[s] = to
         /\ \A t \in Streams \ {s} : listenPc'[t] = listenPc[t]
         /\ DOMAIN listenPc' = Streams
         /\ \A t \in held' : listenPc'[t] = "new"
         /\ UNCHANGED <<sent, workerPc, replies, held>>
<1>1. /\ listenPc[s] = from
      /\ listenPc' = [listenPc EXCEPT ![s] = to]
      /\ UNCHANGED <<sent, workerPc, replies, held>>
      /\ DOMAIN listenPc = Streams
      /\ \A t \in held : listenPc[t] = "new"
  BY DEF Listen, OrderInv, Types, acceptor
<1>2. QED
  BY <1>1

-----------------------------------------------------------------------------
(* The client, the connection and the acceptor                             *)

LEMMA QuietActions ==
  ASSUME OrderInv,
         \/ \E s \in Streams : EndRequests(s) \/ AcceptStream(s) \/ HandleStream(s)
         \/ Disconnect \/ EndContext \/ StopOnDisconnect
         \/ IgnoreExpired \/ DoneLoad \/ DoneStore
         \/ UNCHANGED vars
  PROVE  OrderInv'
<1>1. UNCHANGED <<inbox, sent, reading, pending, running, replies>>
  BY DEF EndRequests, AcceptStream, HandleStream, Disconnect, EndContext, StopOnDisconnect,
         IgnoreExpired, DoneLoad, DoneStore, Work, vars, client, pool, counting, Pool!Stop
<1>2. /\ workerPc' = "idle" <=> workerPc = "idle"
      /\ workerPc' = "handle" => workerPc = "handle"
  BY DEF EndRequests, AcceptStream, HandleStream, Disconnect, EndContext, StopOnDisconnect,
         IgnoreExpired, DoneLoad, DoneStore, Work, vars
<1>3. /\ DOMAIN listenPc' = Streams
      /\ \A t \in held' : listenPc'[t] = "new"
      /\ \A t \in Streams : Holds(t)' <=> Holds(t)
  <2>1. DOMAIN listenPc = Streams /\ \A t \in held : listenPc[t] = "new"
    BY DEF OrderInv, Types
  <2>2. CASE \E s \in Streams : HandleStream(s)
    BY <2>1, <2>2 DEF HandleStream, Holds
  <2>3. CASE \E s \in Streams : AcceptStream(s)
    BY <2>1, <2>3 DEF AcceptStream, Holds
  <2>4. CASE StopOnDisconnect
    BY <2>1, <2>4 DEF StopOnDisconnect, Holds
  <2>5. CASE ~(\E s \in Streams : HandleStream(s) \/ AcceptStream(s)) /\ ~StopOnDisconnect
    <3>1. UNCHANGED <<listenPc, held>>
      BY <2>5 DEF EndRequests, Disconnect, EndContext, IgnoreExpired, DoneLoad, DoneStore,
                  Work, vars, acceptor
    <3>2. QED
      BY <2>1, <3>1 DEF Holds
  <2>6. QED
    BY <2>2, <2>3, <2>4, <2>5
<1>4. QED
  BY <1>1, <1>2, <1>3, QuietKeepsOrder

\* A request that is sent is numbered on from the others.
LEMMA SendKeepsOrder ==
  ASSUME OrderInv, NEW s \in Streams, NEW l \in Levels, SendRequest(s, l)
  PROVE  OrderInv'
<1> DEFINE r == [stream |-> s, n |-> sent[s] + 1, priority |-> l]
<1>1. /\ inbox \in [Streams -> Seq(Request)] /\ sent \in [Streams -> Nat]
      /\ inbox' = [inbox EXCEPT ![s] = Append(inbox[s], r)]
      /\ sent' = [sent EXCEPT ![s] = sent[s] + 1]
      /\ sent[s] < MaxRequests
      /\ UNCHANGED <<listenPc, held, reading, workerPc, pending, running, replies>>
  BY DEF SendRequest, OrderInv, Types, acceptor, pool
<1>2. r \in Request /\ r.stream = s /\ r.n = sent[s] + 1
  BY <1>1, ConstantsAssumption DEF Request
<1> HIDE DEF r
<1>3. /\ sent'[s] = sent[s] + 1 /\ inbox'[s] \in Seq(Request)
      /\ Len(inbox'[s]) = Len(inbox[s]) + 1
      /\ \A i \in 1 .. Len(inbox[s]) : inbox'[s][i] = inbox[s][i]
      /\ inbox'[s][Len(inbox[s]) + 1] = r
      /\ \A t \in Streams \ {s} : inbox'[t] = inbox[t] /\ sent'[t] = sent[t]
  BY <1>1, <1>2
<1>4. Types'
  BY <1>1, <1>2 DEF OrderInv, Types
<1>5. \A t \in Streams : Passed(t)' = Passed(t) /\ Passed(t) \in Int
  <2>1. sent[s] \in Nat /\ Len(inbox[s]) \in Nat
    BY <1>1
  <2>2. Passed(s)' = Passed(s)
    BY <1>1, <1>3, <2>1 DEF Passed, Holds
  <2>3. \A t \in Streams \ {s} : Passed(t)' = Passed(t)
    BY <1>1, <1>3 DEF Passed, Holds
  <2>4. QED
    BY <2>2, <2>3, PassedInt DEF OrderInv
<1>6. UnreadInOrder'
  <2>1. \A i \in 1 .. Len(inbox'[s]) :
          inbox'[s][i].stream = s /\ inbox'[s][i].n = sent'[s] - Len(inbox'[s]) + i
    <3> TAKE i \in 1 .. Len(inbox'[s])
    <3>1. sent[s] \in Nat /\ Len(inbox[s]) \in Nat
      BY <1>1
    <3>2. CASE i = Len(inbox[s]) + 1
      <4>1. inbox'[s][i] = r
        BY <1>3, <3>2
      <4>2. sent'[s] - Len(inbox'[s]) + i = sent[s] + 1
        BY <1>3, <3>1, <3>2
      <4>3. QED
        BY <1>2, <4>1, <4>2
    <3>3. CASE i \in 1 .. Len(inbox[s])
      <4>1. inbox[s][i].stream = s /\ inbox[s][i].n = sent[s] - Len(inbox[s]) + i
        BY <3>3 DEF OrderInv, UnreadInOrder
      <4>2. inbox'[s][i] = inbox[s][i]
        BY <1>3, <3>3
      <4>3. sent'[s] - Len(inbox'[s]) + i = sent[s] - Len(inbox[s]) + i
        BY <1>3, <3>1
      <4>4. QED
        BY <4>1, <4>2, <4>3
    <3>4. QED
      BY <1>3, <3>1, <3>2, <3>3
  <2>2. \A t \in Streams : Holds(t)' <=> Holds(t)
    BY <1>1 DEF Holds
  <2>3. \A t \in Streams : Holds(t)' =>
          reading'[t] \in Request /\ reading'[t].stream = t /\ reading'[t].n = Passed(t)' + 1
    BY <1>1, <1>5, <2>2 DEF OrderInv, UnreadInOrder
  <2>4. \A t \in Streams \ {s} : \A i \in 1 .. Len(inbox'[t]) :
          inbox'[t][i].stream = t /\ inbox'[t][i].n = sent'[t] - Len(inbox'[t]) + i
    BY <1>3 DEF OrderInv, UnreadInOrder
  <2>5. QED
    BY <2>1, <2>3, <2>4 DEF UnreadInOrder
<1>7. QED
  BY <1>1, <1>4, <1>5, <1>6, QueuesUnchanged DEF OrderInv

-----------------------------------------------------------------------------
(* The listener                                                            *)

\* Counting, and leaving.
LEMMA CountingKeepsOrder ==
  ASSUME OrderInv, NEW s \in Streams,
         \/ CountLoad(s) \/ CountStore(s) \/ ReadNothing(s)
         \/ UncountLoad(s) \/ UncountStore(s) \/ UncountTest(s)
  PROVE  OrderInv'
<1>1. UNCHANGED <<inbox, reading, pending, running>>
  BY DEF CountLoad, CountStore, ReadNothing, UncountLoad, UncountStore, UncountTest, pool
<1>2. PICK from, to :
        /\ Listen(s, from, to)
        /\ <<from, to>> \in {<<"start", "starting">>, <<"got", "counting">>,
                             <<"starting", "read">>, <<"counting", "enqueue">>,
                             <<"read", "leave">>, <<"leave", "uncount">>,
                             <<"uncount", "test">>, <<"test", "ended">>}
  BY DEF CountLoad, CountStore, ReadNothing, UncountLoad, UncountStore, UncountTest
<1>3. /\ listenPc[s] = from /\ listenPc'[s] = to
      /\ \A t \in Streams \ {s} : listenPc'[t] = listenPc[t]
      /\ DOMAIN listenPc' = Streams
      /\ \A t \in held' : listenPc'[t] = "new"
      /\ UNCHANGED <<sent, workerPc, replies>>
  BY <1>2, ListenEffect
<1>4. Holds(s)' <=> Holds(s)
  BY <1>2, <1>3 DEF Holds
<1>5. \A t \in Streams : Holds(t)' <=> Holds(t)
  BY <1>3, <1>4 DEF Holds
<1>6. QED
  BY <1>1, <1>3, <1>5, QuietKeepsOrder

\* The first unread request becomes the one that is held.
LEMMA ReadKeepsOrder ==
  ASSUME OrderInv, NEW s \in Streams, ReadRequest(s)
  PROVE  OrderInv'
<1>1. /\ inbox \in [Streams -> Seq(Request)] /\ sent \in [Streams -> Nat]
      /\ DOMAIN reading = Streams
      /\ inbox[s] # << >>
      /\ reading' = [reading EXCEPT ![s] = Head(inbox[s])]
      /\ inbox' = [inbox EXCEPT ![s] = Tail(inbox[s])]
      /\ UNCHANGED <<pending, running>>
  BY DEF ReadRequest, OrderInv, Types, pool
<1>2. /\ listenPc[s] = "read" /\ listenPc'[s] = "got"
      /\ \A t \in Streams \ {s} : listenPc'[t] = listenPc[t]
      /\ DOMAIN listenPc' = Streams
      /\ \A t \in held' : listenPc'[t] = "new"
      /\ UNCHANGED <<sent, workerPc, replies>>
  BY ListenEffect DEF ReadRequest
<1>3. /\ ~Holds(s) /\ Holds(s)'
      /\ \A t \in Streams \ {s} : Holds(t)' <=> Holds(t)
  BY <1>2 DEF Holds
<1>4. /\ inbox'[s] \in Seq(Request) /\ Len(inbox[s]) \in Nat
      /\ Len(inbox'[s]) = Len(inbox[s]) - 1
      /\ \A i \in 1 .. Len(inbox'[s]) : inbox'[s][i] = inbox[s][i + 1]
      /\ reading'[s] = inbox[s][1] /\ 1 \in 1 .. Len(inbox[s])
      /\ reading'[s] \in Request
      /\ \A t \in Streams \ {s} : inbox'[t] = inbox[t] /\ reading'[t] = reading[t]
  BY <1>1
<1>5. Types'
  BY <1>1, <1>2, <1>4 DEF OrderInv, Types
<1>6. \A t \in Streams : Passed(t)' = Passed(t) /\ Passed(t) \in Int
  <2>1. sent[s] \in Nat
    BY <1>1
  <2>2. Passed(s)' = Passed(s)
    BY <1>2, <1>3, <1>4, <2>1 DEF Passed
  <2>3. \A t \in Streams \ {s} : Passed(t)' = Passed(t)
    BY <1>2, <1>3, <1>4 DEF Passed
  <2>4. QED
    BY <2>2, <2>3, PassedInt DEF OrderInv
<1>7. UnreadInOrder'
  <2>1. sent[s] \in Nat /\ sent'[s] = sent[s]
    BY <1>1, <1>2
  <2>2. \A i \in 1 .. Len(inbox[s]) :
          inbox[s][i].stream = s /\ inbox[s][i].n = sent[s] - Len(inbox[s]) + i
    BY DEF OrderInv, UnreadInOrder
  <2>3. \A i \in 1 .. Len(inbox'[s]) :
          inbox'[s][i].stream = s /\ inbox'[s][i].n = sent'[s] - Len(inbox'[s]) + i
    <3> TAKE i \in 1 .. Len(inbox'[s])
    <3>1. i + 1 \in 1 .. Len(inbox[s]) /\ inbox'[s][i] = inbox[s][i + 1]
      BY <1>4
    <3>2. inbox[s][i + 1].stream = s
          /\ inbox[s][i + 1].n = sent[s] - Len(inbox[s]) + (i + 1)
      BY <2>2, <3>1
    <3>3. sent[s] - Len(inbox[s]) + (i + 1) = sent'[s] - Len(inbox'[s]) + i
      <4>1. \A a, b \in Nat : a - b + (i + 1) = a - (b - 1) + i
        OBVIOUS
      <4>2. QED
        BY <1>4, <2>1, <4>1
    <3>4. QED
      BY <3>1, <3>2, <3>3
  <2>4. reading'[s].stream = s /\ reading'[s].n = Passed(s)' + 1
    <3>1. Passed(s) = sent[s] - Len(inbox[s])
      BY <1>3, <1>4, <2>1 DEF Passed
    <3>2. reading'[s].stream = s /\ reading'[s].n = sent[s] - Len(inbox[s]) + 1
      BY <1>4, <2>2
    <3>3. QED
      BY <1>6, <3>1, <3>2
  <2>5. \A t \in Streams \ {s} :
          /\ \A i \in 1 .. Len(inbox'[t]) :
               inbox'[t][i].stream = t /\ inbox'[t][i].n = sent'[t] - Len(inbox'[t]) + i
          /\ Holds(t)' => /\ reading'[t] \in Request
                          /\ reading'[t].stream = t /\ reading'[t].n = Passed(t)' + 1
    <3> TAKE t \in Streams \ {s}
    <3>1. /\ inbox'[t] = inbox[t] /\ sent'[t] = sent[t] /\ reading'[t] = reading[t]
          /\ Holds(t)' <=> Holds(t)
          /\ Passed(t)' = Passed(t)
      BY <1>2, <1>3, <1>4, <1>6
    <3>2. QED
      BY <3>1 DEF OrderInv, UnreadInOrder
  <2>6. QED
    BY <1>4, <2>3, <2>4, <2>5 DEF UnreadInOrder
<1>8. \A t \in Streams : Passed(t) <= Passed(t)'
  BY <1>6
<1>9. QED
  BY <1>1, <1>2, <1>5, <1>7, <1>8, QueuesUnchanged DEF OrderInv

\* The listener is done with the request it held.
LEMMA EnqueueEffect ==
  ASSUME OrderInv, NEW s \in Streams, EnqueueAccepted(s) \/ EnqueueRefused(s)
  PROVE  /\ UNCHANGED <<inbox, sent, reading, running, workerPc, replies>>
         /\ DOMAIN listenPc' = Streams /\ \A t \in held' : listenPc'[t] = "new"
         /\ reading[s] \in Request /\ reading[s].stream = s
         /\ reading[s].n = Passed(s) + 1
         /\ Passed(s)' = Passed(s) + 1 /\ Passed(s) \in Int
         /\ \A t \in Streams \ {s} : Passed(t)' = Passed(t) /\ Passed(t) \in Int
         /\ UnreadInOrder'
<1>1. UNCHANGED <<inbox, reading, running>>
  BY DEF EnqueueAccepted, EnqueueRefused, Pool!Accept, Pool!Refuse
<1>2. PICK to \in {"read", "leave"} : Listen(s, "enqueue", to)
  BY DEF EnqueueAccepted, EnqueueRefused
<1>3. /\ listenPc[s] = "enqueue" /\ listenPc'[s] = to
      /\ \A t \in Streams \ {s} : listenPc'[t] = listenPc[t]
      /\ DOMAIN listenPc' = Streams /\ \A t \in held' : listenPc'[t] = "new"
      /\ UNCHANGED <<sent, workerPc, replies>>
  BY <1>2, ListenEffect
<1>4. /\ Holds(s) /\ ~Holds(s)'
      /\ \A t \in Streams \ {s} : Holds(t)' <=> Holds(t)
  BY <1>2, <1>3 DEF Holds
<1>5. \A t \in Streams : Passed(t) \in Int /\ Len(inbox[t]) \in Nat /\ sent[t] \in Nat
  BY PassedInt DEF OrderInv
<1>6. /\ Passed(s)' = Passed(s) + 1
      /\ \A t \in Streams \ {s} : Passed(t)' = Passed(t)
  BY <1>1, <1>3, <1>4, <1>5 DEF Passed
<1>7. UnreadInOrder'
  BY <1>1, <1>3, <1>4, <1>6 DEF OrderInv, UnreadInOrder
<1>8. QED
  BY <1>1, <1>3, <1>4, <1>5, <1>6, <1>7 DEF OrderInv, UnreadInOrder

LEMMA RefuseKeepsOrder ==
  ASSUME OrderInv, NEW s \in Streams, EnqueueRefused(s)
  PROVE  OrderInv'
<1>1. UNCHANGED pending
  BY DEF EnqueueRefused, Pool!Refuse
<1>2. Types'
  BY <1>1, EnqueueEffect DEF OrderInv, Types
<1>3. \A t \in Streams : Passed(t) <= Passed(t)'
  BY EnqueueEffect
<1>4. QED
  BY <1>1, <1>2, <1>3, EnqueueEffect, QueuesUnchanged DEF OrderInv

\* It goes behind all that are pending, running or answered.
LEMMA AcceptKeepsOrder ==
  ASSUME OrderInv, NEW s \in Streams, EnqueueAccepted(s)
  PROVE  OrderInv'
<1> DEFINE r == reading[s]
           l == r.priority
<1>1. /\ r \in Request /\ r.stream = s /\ r.n = Passed(s) + 1 /\ r.n \in Nat
      /\ l \in Levels /\ r.priority = l
      /\ pending \in [Levels -> Seq(Request)]
      /\ pending' = [pending EXCEPT ![l] = Append(pending[l], r)]
  BY EnqueueEffect, RequestFields DEF EnqueueAccepted, Pool!Accept, OrderInv, Types
<1>2. /\ Passed(s)' = Passed(s) + 1 /\ Passed(s) \in Int
      /\ \A t \in Streams \ {s} : Passed(t)' = Passed(t) /\ Passed(t) \in Int
      /\ UNCHANGED <<running, workerPc, replies>>
  BY EnqueueEffect
<1> HIDE DEF r, l
<1>3. /\ pending'[l] \in Seq(Request) /\ Len(pending[l]) \in Nat
      /\ Len(pending'[l]) = Len(pending[l]) + 1
      /\ \A i \in 1 .. Len(pending[l]) : pending'[l][i] = pending[l][i]
      /\ pending'[l][Len(pending[l]) + 1] = r
      /\ \A m \in Levels \ {l} : pending'[m] = pending[m]
  BY <1>1
<1>4. Types'
  <2>1. pending' \in [Levels -> Seq(Request)]
    BY <1>1
  <2>2. QED
    BY <2>1, EnqueueEffect DEF OrderInv, Types
\* An item of pending' is the new one or an old one.
<1>5. \A m \in Levels : \A i \in 1 .. Len(pending'[m]) :
        \/ m = l /\ i = Len(pending[l]) + 1 /\ pending'[m][i] = r
        \/ i \in 1 .. Len(pending[m]) /\ pending'[m][i] = pending[m][i]
  <2> TAKE m \in Levels
  <2> TAKE i \in 1 .. Len(pending'[m])
  <2>1. CASE m = l
    BY <1>3, <2>1
  <2>2. CASE m # l
    BY <1>3, <2>2
  <2>3. QED
    BY <2>1, <2>2
<1>6. \A m \in Levels : \A i \in 1 .. Len(pending[m]) :
        /\ pending[m][i] \in Request
        /\ pending[m][i].priority = m
        /\ pending[m][i].n <= Passed(pending[m][i].stream)
  BY <1>1 DEF OrderInv, PendingInOrder
<1>7. \A q \in Request : q.n <= Passed(q.stream) =>
        /\ q.n \in Nat /\ q.n <= Passed(q.stream)'
        /\ q.stream = s => q.n < r.n
  BY <1>1, <1>2, RequestFields
<1>8. PendingInOrder'
  <2>1. \A m \in Levels : \A i \in 1 .. Len(pending'[m]) : \A q \in Request :
          q = pending'[m][i] => q.priority = m /\ q.n <= Passed(q.stream)'
    <3> TAKE m \in Levels
    <3> TAKE i \in 1 .. Len(pending'[m])
    <3>1. \/ m = l /\ pending'[m][i] = r
          \/ i \in 1 .. Len(pending[m]) /\ pending'[m][i] = pending[m][i]
      BY <1>5
    <3>2. \A q \in Request : q = r => q.priority = l /\ q.n <= Passed(q.stream)'
      BY <1>1, <1>2
    <3>3. QED
      BY <1>6, <1>7, <3>1, <3>2
  <2>2. \A m \in Levels : \A i, j \in 1 .. Len(pending'[m]) :
          i < j /\ pending'[m][i].stream = pending'[m][j].stream
            => pending'[m][i].n < pending'[m][j].n
    <3> TAKE m \in Levels
    <3> TAKE i, j \in 1 .. Len(pending'[m])
    <3>1. CASE m = l /\ i = Len(pending[l]) + 1
      BY <1>3, <3>1
    <3>2. CASE i \in 1 .. Len(pending[m]) /\ pending'[m][i] = pending[m][i]
      <4>1. CASE m = l /\ pending'[m][j] = r
        BY <1>1, <1>6, <1>7, <3>2, <4>1
      <4>2. CASE j \in 1 .. Len(pending[m]) /\ pending'[m][j] = pending[m][j]
        BY <3>2, <4>2 DEF OrderInv, PendingInOrder
      <4>3. QED
        BY <1>5, <4>1, <4>2
    <3>3. QED
      BY <1>5, <3>1, <3>2
  <2>3. \A m \in Levels : \A i \in 1 .. Len(pending'[m]) : pending'[m][i] \in Request
    BY <1>4 DEF Types
  <2>4. QED
    BY <2>1, <2>2, <2>3 DEF PendingInOrder
<1>9. RunningInOrder'
  <2>1. CASE running = NoTask
    BY <1>2, <2>1 DEF RunningInOrder
  <2>2. CASE running # NoTask
    <3>1. running \in Request /\ running.n <= Passed(running.stream)
      BY <2>2 DEF OrderInv, Types, RunningInOrder
    <3>2. /\ running.stream = s => running.n < r.n
          /\ \A q \in Request : q = running => q.n <= Passed(q.stream)'
      BY <1>7, <3>1
    <3>3. \A m \in Levels : \A i \in 1 .. Len(pending[m]) :
            running.stream = pending[m][i].stream /\ running.priority = m
              => running.n < pending[m][i].n
      BY <2>2 DEF OrderInv, RunningInOrder
    <3>4. \A m \in Levels : \A i \in 1 .. Len(pending'[m]) :
            running.stream = pending'[m][i].stream /\ running.priority = m
              => running.n < pending'[m][i].n
      BY <1>1, <1>5, <3>2, <3>3
    <3>5. QED
      BY <1>2, <3>1, <3>2, <3>4 DEF RunningInOrder
  <2>3. QED
    BY <2>1, <2>2
<1>10. RepliesAreEarlier'
  <2>1. SUFFICES ASSUME NEW t \in Streams, NEW k \in 1 .. Len(replies[t])
                 PROVE  /\ replies[t][k].n <= Passed(t)'
                        /\ \A m \in Levels : \A i \in 1 .. Len(pending'[m]) :
                             pending'[m][i].stream = t /\ replies[t][k].priority = m
                               => replies[t][k].n < pending'[m][i].n
                        /\ workerPc = "handle" /\ running.stream = t
                             /\ replies[t][k].priority = running.priority
                             => replies[t][k].n < running.n
    BY <1>2 DEF RepliesAreEarlier
  <2>2. /\ replies[t][k].n \in Nat /\ replies[t][k].n <= Passed(t)
        /\ \A m \in Levels : \A i \in 1 .. Len(pending[m]) :
             pending[m][i].stream = t /\ replies[t][k].priority = m
               => replies[t][k].n < pending[m][i].n
        /\ workerPc = "handle" /\ running.stream = t
             /\ replies[t][k].priority = running.priority
             => replies[t][k].n < running.n
    BY <2>1, RequestFields DEF OrderInv, Types, RepliesAreEarlier
  <2>3. replies[t][k].n <= Passed(t)' /\ (t = s => replies[t][k].n < r.n)
    BY <1>1, <1>2, <2>2
  <2>4. QED
    BY <1>1, <1>5, <2>2, <2>3
<1>11. RepliesInOrder'
  BY <1>2 DEF OrderInv, RepliesInOrder
<1>12. QED
  BY <1>4, <1>8, <1>9, <1>10, <1>11, EnqueueEffect DEF OrderInv

-----------------------------------------------------------------------------
(* The worker                                                              *)

LEMMA WorkEffect ==
  ASSUME OrderInv, NEW from, NEW to, Work(from, to)
  PROVE  /\ workerPc = from /\ workerPc' = to
         /\ UNCHANGED <<inbox, sent, listenPc, held, reading>>
         /\ UnreadInOrder'
         /\ \A s \in Streams : Passed(s)' = Passed(s) /\ Passed(s) \in Int
<1>1. /\ workerPc = from /\ workerPc' = to
      /\ UNCHANGED <<inbox, sent, listenPc, held, reading>>
  BY DEF Work, client, acceptor
<1>2. \A s \in Streams : Holds(s)' <=> Holds(s)
  BY <1>1 DEF Holds
<1>3. QED
  BY <1>1, <1>2, ListenersUnchanged, PassedInt DEF OrderInv

\* The first pending request of a level becomes the one that runs.
LEMMA BeginKeepsOrder ==
  ASSUME OrderInv, BeginTask
  PROVE  OrderInv'
<1>1. PICK l \in Levels : Pool!Begin(l)
  BY DEF BeginTask
<1> DEFINE r == Head(pending[l])
<1>2. /\ pending \in [Levels -> Seq(Request)]
      /\ pending[l] # << >>
      /\ pending' = [pending EXCEPT ![l] = Tail(pending[l])]
      /\ running = NoTask /\ running' = r
      /\ UNCHANGED replies
  BY <1>1 DEF Pool!Begin, BeginTask, OrderInv, Types
<1>3. /\ workerPc' = "handle"
      /\ UNCHANGED <<inbox, sent, listenPc, held, reading>>
      /\ UnreadInOrder'
      /\ \A s \in Streams : Passed(s)' = Passed(s) /\ Passed(s) \in Int
  BY WorkEffect DEF BeginTask
<1>4. /\ r = pending[l][1] /\ 1 \in 1 .. Len(pending[l])
      /\ pending'[l] \in Seq(Request)
      /\ Len(pending[l]) \in Nat /\ Len(pending'[l]) = Len(pending[l]) - 1
      /\ \A i \in 1 .. Len(pending'[l]) : pending'[l][i] = pending[l][i + 1]
      /\ \A m \in Levels \ {l} : pending'[m] = pending[m]
  BY <1>2
<1>5. /\ r \in Request /\ r # NoTask /\ r.priority = l /\ r.n <= Passed(r.stream)
      /\ \A i \in 2 .. Len(pending[l]) :
           r.stream = pending[l][i].stream => r.n < pending[l][i].n
  <2>1. r \in Request
    BY <1>2, <1>4
  <2>2. QED
    BY <1>4, <2>1, RequestFields DEF OrderInv, PendingInOrder
<1> HIDE DEF r
<1>6. Types'
  <2>1. pending' \in [Levels -> Seq(Request)]
    BY <1>2
  <2>2. QED
    BY <1>2, <1>3, <1>5, <2>1 DEF OrderInv, Types
\* What is pending was pending before, and not the first of its level.
<1>7. \A m \in Levels : \A i \in 1 .. Len(pending'[m]) :
        \E k \in 1 .. Len(pending[m]) :
          /\ pending'[m][i] = pending[m][k]
          /\ k = (IF m = l THEN i + 1 ELSE i)
  <2> TAKE m \in Levels
  <2> TAKE i \in 1 .. Len(pending'[m])
  <2>1. CASE m = l
    BY <1>4, <2>1
  <2>2. CASE m # l
    BY <1>4, <2>2
  <2>3. QED
    BY <2>1, <2>2
<1>8. \A q \in Request : q.n <= Passed(q.stream) => q.n <= Passed(q.stream)'
  BY <1>3, RequestFields
<1>9. \A m \in Levels : \A i \in 1 .. Len(pending[m]) : pending[m][i] \in Request
  BY <1>2
<1>10. PendingInOrder'
  <2>1. \A m \in Levels : \A i \in 1 .. Len(pending'[m]) : \A q \in Request :
          q = pending'[m][i] => q.priority = m /\ q.n <= Passed(q.stream)'
    <3> TAKE m \in Levels
    <3> TAKE i \in 1 .. Len(pending'[m])
    <3>1. PICK k \in 1 .. Len(pending[m]) : pending'[m][i] = pending[m][k]
      BY <1>7
    <3>2. pending[m][k].priority = m /\ pending[m][k].n <= Passed(pending[m][k].stream)
      BY DEF OrderInv, PendingInOrder
    <3>3. QED
      BY <1>8, <3>1, <3>2
  <2>2. \A m \in Levels : \A i, j \in 1 .. Len(pending'[m]) :
          i < j /\ pending'[m][i].stream = pending'[m][j].stream
            => pending'[m][i].n < pending'[m][j].n
    <3> TAKE m \in Levels
    <3> TAKE i, j \in 1 .. Len(pending'[m])
    <3>1. PICK a \in 1 .. Len(pending[m]) :
            pending'[m][i] = pending[m][a] /\ a = (IF m = l THEN i + 1 ELSE i)
      BY <1>7
    <3>2. PICK b \in 1 .. Len(pending[m]) :
            pending'[m][j] = pending[m][b] /\ b = (IF m = l THEN j + 1 ELSE j)
      BY <1>7
    <3>3. i < j => a < b
      BY <3>1, <3>2
    <3>4. QED
      BY <3>1, <3>2, <3>3 DEF OrderInv, PendingInOrder
  <2>3. \A m \in Levels : \A i \in 1 .. Len(pending'[m]) : pending'[m][i] \in Request
    BY <1>6 DEF Types
  <2>4. QED
    BY <2>1, <2>2, <2>3 DEF PendingInOrder
<1>11. RunningInOrder'
  <2>1. \A q \in Request : q = r => q.n <= Passed(q.stream)'
    BY <1>5, <1>8
  <2>2. \A i \in 1 .. Len(pending'[l]) :
          r.stream = pending'[l][i].stream => r.n < pending'[l][i].n
    <3> TAKE i \in 1 .. Len(pending'[l])
    <3>1. i + 1 \in 2 .. Len(pending[l]) /\ pending'[l][i] = pending[l][i + 1]
      BY <1>4
    <3>2. QED
      BY <1>5, <3>1
  <2>3. QED
    BY <1>2, <1>5, <2>1, <2>2 DEF RunningInOrder
<1>12. RepliesAreEarlier'
  <2>1. \A s \in Streams : \A k \in 1 .. Len(replies[s]) :
          /\ replies[s][k].n <= Passed(s)'
          /\ r.stream = s /\ replies[s][k].priority = r.priority => replies[s][k].n < r.n
          /\ \A m \in Levels : \A i \in 1 .. Len(pending[m]) :
               pending[m][i].stream = s /\ replies[s][k].priority = m
                 => replies[s][k].n < pending[m][i].n
    <3> TAKE s \in Streams
    <3> TAKE k \in 1 .. Len(replies[s])
    <3>1. /\ replies[s][k].n <= Passed(s)
          /\ \A m \in Levels : \A i \in 1 .. Len(pending[m]) :
               pending[m][i].stream = s /\ replies[s][k].priority = m
                 => replies[s][k].n < pending[m][i].n
      BY DEF OrderInv, RepliesAreEarlier
    <3>2. replies[s][k].n <= Passed(s)'
      BY <1>3, <3>1
    <3>3. QED
      BY <1>4, <1>5, <3>1, <3>2
  <2>2. \A s \in Streams : \A k \in 1 .. Len(replies[s]) :
          \A m \in Levels : \A i \in 1 .. Len(pending'[m]) :
            pending'[m][i].stream = s /\ replies[s][k].priority = m
              => replies[s][k].n < pending'[m][i].n
    <3> TAKE s \in Streams
    <3> TAKE k \in 1 .. Len(replies[s])
    <3> TAKE m \in Levels
    <3> TAKE i \in 1 .. Len(pending'[m])
    <3>1. PICK a \in 1 .. Len(pending[m]) : pending'[m][i] = pending[m][a]
      BY <1>7
    <3>2. QED
      BY <2>1, <3>1
  <2>3. \A s \in Streams : \A k \in 1 .. Len(replies'[s]) :
          workerPc' = "handle" /\ running'.stream = s
            /\ replies'[s][k].priority = running'.priority
            => replies'[s][k].n < running'.n
    BY <1>2, <2>1
  <2>4. \A s \in Streams : \A k \in 1 .. Len(replies'[s]) :
          replies'[s][k].n <= Passed(s)'
    BY <1>2, <2>1
  <2>5. \A s \in Streams : \A k \in 1 .. Len(replies'[s]) :
          \A m \in Levels : \A i \in 1 .. Len(pending'[m]) :
            pending'[m][i].stream = s /\ replies'[s][k].priority = m
              => replies'[s][k].n < pending'[m][i].n
    BY <1>2, <2>2
  <2>6. QED
    BY <2>3, <2>4, <2>5 DEF RepliesAreEarlier
<1>13. RepliesInOrder'
  BY <1>2 DEF OrderInv, RepliesInOrder
<1>14. QED
  BY <1>3, <1>6, <1>10, <1>11, <1>12, <1>13 DEF OrderInv

\* Its response, if there is one, comes after the others and before those of the
\* requests that wait.
LEMMA RespondKeepsOrder ==
  ASSUME OrderInv, Respond
  PROVE  OrderInv'
<1> DEFINE s == running.stream
<1>1. /\ workerPc = "handle" /\ workerPc' = "uncount"
      /\ UNCHANGED <<inbox, sent, listenPc, held, reading>>
      /\ UnreadInOrder'
      /\ \A t \in Streams : Passed(t)' = Passed(t) /\ Passed(t) \in Int
      /\ UNCHANGED <<pending, running>>
  BY WorkEffect DEF Respond, pool
<1>2. /\ running \in Request /\ running # NoTask /\ s \in Streams
      /\ running.n \in Nat /\ running.priority \in Levels
      /\ replies \in [Streams -> Seq(Request)]
  BY <1>1, RequestFields DEF OrderInv, Types
<1>3. /\ running.n <= Passed(s)
      /\ \A l \in Levels : \A i \in 1 .. Len(pending[l]) :
           s = pending[l][i].stream /\ running.priority = l => running.n < pending[l][i].n
  BY <1>2 DEF OrderInv, RunningInOrder
<1>4. \A k \in 1 .. Len(replies[s]) :
        replies[s][k].priority = running.priority => replies[s][k].n < running.n
  BY <1>1, <1>2 DEF OrderInv, RepliesAreEarlier
<1>5. \/ UNCHANGED replies
      \/ replies' = [replies EXCEPT ![s] = Append(replies[s], running)]
  BY DEF Respond
<1> HIDE DEF s
<1>6. CASE UNCHANGED replies
  <2>1. \A t \in Streams : Holds(t)' <=> Holds(t)
    BY <1>1 DEF Holds
  <2>2. DOMAIN listenPc' = Streams /\ \A t \in held' : listenPc'[t] = "new"
    BY <1>1 DEF OrderInv, Types
  <2>3. QED
    BY <1>1, <1>6, <2>1, <2>2, QuietKeepsOrder
<1>7. CASE replies' = [replies EXCEPT ![s] = Append(replies[s], running)]
  <2>1. /\ replies'[s] \in Seq(Request) /\ Len(replies[s]) \in Nat
        /\ Len(replies'[s]) = Len(replies[s]) + 1
        /\ \A k \in 1 .. Len(replies[s]) : replies'[s][k] = replies[s][k]
        /\ replies'[s][Len(replies[s]) + 1] = running
        /\ \A t \in Streams \ {s} : replies'[t] = replies[t]
        /\ replies' \in [Streams -> Seq(Request)]
    BY <1>2, <1>7
  <2>2. Types'
    BY <1>1, <1>2, <2>1 DEF OrderInv, Types
  <2>3. PendingInOrder' /\ RunningInOrder'
    <3>1. /\ \A q \in Request : q.n <= Passed(q.stream) => q.n <= Passed(q.stream)'
          /\ \A l \in Levels : \A i \in 1 .. Len(pending[l]) : pending[l][i] \in Request
      BY <1>1, RequestFields DEF OrderInv, Types
    <3>2. PendingInOrder'
      BY <1>1, <3>1 DEF OrderInv, PendingInOrder
    <3>3. RunningInOrder'
      BY <1>1, <1>2, <3>1 DEF OrderInv, RunningInOrder
    <3>4. QED
      BY <3>2, <3>3
  \* A response is the new one or an old one.
  <2>4. \A t \in Streams : \A k \in 1 .. Len(replies'[t]) :
          \/ t = s /\ k = Len(replies[s]) + 1 /\ replies'[t][k] = running
          \/ k \in 1 .. Len(replies[t]) /\ replies'[t][k] = replies[t][k]
    <3> TAKE t \in Streams
    <3> TAKE k \in 1 .. Len(replies'[t])
    <3>1. CASE t = s
      BY <2>1, <3>1
    <3>2. CASE t # s
      BY <2>1, <3>2
    <3>3. QED
      BY <3>1, <3>2
  <2>5. RepliesAreEarlier'
    <3>1. \A t \in Streams : \A k \in 1 .. Len(replies'[t]) :
            /\ replies'[t][k].n <= Passed(t)
            /\ \A l \in Levels : \A i \in 1 .. Len(pending[l]) :
                 pending[l][i].stream = t /\ replies'[t][k].priority = l
                   => replies'[t][k].n < pending[l][i].n
      <4> TAKE t \in Streams
      <4> TAKE k \in 1 .. Len(replies'[t])
      <4>1. CASE t = s /\ replies'[t][k] = running
        BY <1>3, <4>1
      <4>2. CASE k \in 1 .. Len(replies[t]) /\ replies'[t][k] = replies[t][k]
        BY <4>2 DEF OrderInv, RepliesAreEarlier
      <4>3. QED
        BY <2>4, <4>1, <4>2
    <3>2. \A t \in Streams : \A k \in 1 .. Len(replies'[t]) : replies'[t][k].n <= Passed(t)'
      BY <1>1, <3>1
    <3>3. QED
      BY <1>1, <3>1, <3>2 DEF RepliesAreEarlier
  <2>6. RepliesInOrder'
    <3>1. \A t \in Streams : \A i, j \in 1 .. Len(replies'[t]) :
            i < j /\ replies'[t][i].priority = replies'[t][j].priority
              => replies'[t][i].n < replies'[t][j].n
      <4> TAKE t \in Streams
      <4> TAKE i, j \in 1 .. Len(replies'[t])
      <4>1. CASE j \in 1 .. Len(replies[t]) /\ replies'[t][j] = replies[t][j]
        <5>1. i < j => i \in 1 .. Len(replies[t])
          BY <1>2, <4>1
        <5>2. i < j => replies'[t][i] = replies[t][i]
          BY <2>1, <2>4, <5>1, <4>1
        <5>3. QED
          BY <4>1, <5>1, <5>2 DEF OrderInv, RepliesInOrder
      <4>2. CASE t = s /\ j = Len(replies[s]) + 1 /\ replies'[t][j] = running
        <5>1. i < j => i \in 1 .. Len(replies[s]) /\ replies'[t][i] = replies[s][i]
          BY <2>1, <4>2
        <5>2. QED
          BY <1>4, <4>2, <5>1
      <4>3. QED
        BY <2>4, <4>1, <4>2
    <3>2. QED
      BY <3>1 DEF RepliesInOrder
  <2>7. QED
    BY <1>1, <2>2, <2>3, <2>5, <2>6 DEF OrderInv
<1>8. QED
  BY <1>5, <1>6, <1>7

LEMMA FinishKeepsOrder ==
  ASSUME OrderInv, DoneTest
  PROVE  OrderInv'
<1>1. /\ workerPc' = "idle"
      /\ UNCHANGED <<inbox, sent, listenPc, held, reading>>
      /\ UnreadInOrder'
      /\ \A s \in Streams : Passed(s)' = Passed(s) /\ Passed(s) \in Int
      /\ running' = NoTask
      /\ UNCHANGED <<pending, replies>>
  BY WorkEffect DEF DoneTest, Pool!Finish
<1>2. Types'
  BY <1>1 DEF OrderInv, Types
<1>3. PendingInOrder'
  <2>1. /\ \A q \in Request : q.n <= Passed(q.stream) => q.n <= Passed(q.stream)'
        /\ \A l \in Levels : \A i \in 1 .. Len(pending[l]) : pending[l][i] \in Request
    BY <1>1, RequestFields DEF OrderInv, Types
  <2>2. QED
    BY <1>1, <2>1 DEF OrderInv, PendingInOrder
<1>4. RunningInOrder'
  BY <1>1 DEF RunningInOrder
<1>5. RepliesAreEarlier'
  <2>1. \A s \in Streams : \A k \in 1 .. Len(replies[s]) : replies[s][k].n <= Passed(s)'
    BY <1>1 DEF OrderInv, RepliesAreEarlier
  <2>2. QED
    BY <1>1, <2>1 DEF OrderInv, RepliesAreEarlier
<1>6. RepliesInOrder'
  BY <1>1 DEF OrderInv, RepliesInOrder
<1>7. QED
  BY <1>1, <1>2, <1>3, <1>4, <1>5, <1>6 DEF OrderInv

-----------------------------------------------------------------------------
LEMMA NextOrder ==
  ASSUME OrderInv, [Next]_vars
  PROVE  OrderInv'
<1>1. CASE \E s \in Streams : \E l \in Levels : SendRequest(s, l)
  BY <1>1, SendKeepsOrder
<1>2. CASE \/ \E s \in Streams : EndRequests(s) \/ AcceptStream(s) \/ HandleStream(s)
           \/ Disconnect \/ EndContext \/ StopOnDisconnect
           \/ UNCHANGED vars
  BY <1>2, QuietActions
<1>3. CASE \E s \in Streams : ListenStep(s)
  BY <1>3, ReadKeepsOrder, CountingKeepsOrder, AcceptKeepsOrder, RefuseKeepsOrder
     DEF ListenStep, ListenBetweenReads
<1>4. CASE WorkerStep
  BY <1>4, BeginKeepsOrder, RespondKeepsOrder, FinishKeepsOrder, QuietActions
     DEF WorkerStep
<1>5. QED
  BY <1>1, <1>2, <1>3, <1>4 DEF Next

\* Whatever the listeners, the worker, the acceptor and the connection do, a
\* stream's responses to requests of one priority are in the order of the requests.
THEOREM RepliesCorrect == Spec => []RepliesInOrder
<1>1. OrderInv => RepliesInOrder
  BY DEF OrderInv
<1>2. QED
  BY <1>1, InitOrder, NextOrder, PTL DEF Spec

-----------------------------------------------------------------------------
(* Types                                                                   *)

\* What the fields other than the queues have to do with.
RestTyped ==
  /\ connected \in BOOLEAN
  /\ contextDone \in BOOLEAN
  /\ contextDone => ~connected
  /\ \A s \in held : held = {s} /\ listenPc[s] = "new"
  /\ held \subseteq Streams
  /\ held # {} => ~stopped
  /\ stopped \in BOOLEAN
  /\ sent \in [Streams -> 0 .. MaxRequests]
  /\ eof \in [Streams -> BOOLEAN]
  /\ listenPc \in [Streams -> {"new", "start", "starting", "read", "got", "counting",
                               "enqueue", "leave", "uncount", "test", "ended"}]
  /\ workerPc \in {"idle", "handle", "uncount", "store", "test"}
  /\ closed \subseteq Streams

CountTyped ==
  /\ loaded \in [Streams -> [{Listener, Worker} -> Int]]
  /\ usageCount \in [Streams -> Int]

DecidedTyped ==
  /\ reading \in [Streams -> Request \cup {NoTask}]
  /\ decided \subseteq Request
  /\ refused \subseteq decided

LEMMA TypeParts ==
  ASSUME OrderInv
  PROVE  TypeOK <=> RestTyped /\ CountTyped /\ DecidedTyped
BY DEF OrderInv, Types, TypeOK, RestTyped, CountTyped, DecidedTyped

\* The three uses of usageCount change it, and what a goroutine holds of it,
\* from one integer to another, and close a stream.
LEMMA CountingTypes ==
  ASSUME CountTyped, closed \subseteq Streams,
         NEW s \in Streams, NEW g \in {Listener, Worker},
         \/ Load(s, g) \/ Store(s, g, 1) \/ Store(s, g, -1) \/ CloseIfZero(s, g)
  PROVE  CountTyped' /\ closed' \subseteq Streams
<1> USE DEF CountTyped
<1>1. usageCount[s] \in Int /\ loaded[s] \in [{Listener, Worker} -> Int]
  OBVIOUS
<1>2. ASSUME NEW v \in Int
      PROVE  [loaded EXCEPT ![s][g] = v] \in [Streams -> [{Listener, Worker} -> Int]]
  <2>1. [loaded[s] EXCEPT ![g] = v] \in [{Listener, Worker} -> Int]
    BY <1>1
  <2>2. [loaded EXCEPT ![s][g] = v] = [loaded EXCEPT ![s] = [loaded[s] EXCEPT ![g] = v]]
    BY DEF CountTyped
  <2>3. QED
    BY <2>1, <2>2
<1>3. CASE Load(s, g)
  BY <1>1, <1>2, <1>3 DEF Load
<1>4. ASSUME NEW c \in {1, -1}, Store(s, g, c)
      PROVE  CountTyped' /\ closed' \subseteq Streams
  <2>1. loaded[s][g] + c \in Int
    BY <1>1
  <2>2. loaded' = [loaded EXCEPT ![s][g] = loaded[s][g] + c]
    BY <1>4 DEF Store
  <2>3. QED
    BY <1>2, <1>4, <2>1, <2>2 DEF Store
<1>5. CASE CloseIfZero(s, g)
  <2>1. /\ closed' = closed \cup {s} \/ closed' = closed
        /\ loaded' = [loaded EXCEPT ![s][g] = 0]
        /\ usageCount' = usageCount
    BY <1>5 DEF CloseIfZero
  <2>2. [loaded EXCEPT ![s][g] = 0] \in [Streams -> [{Listener, Worker} -> Int]]
    <3>1. 0 \in Int
      OBVIOUS
    <3>2. QED
      BY <1>2, <3>1, Zenon
  <2>3. QED
    BY <2>1, <2>2
<1>6. QED
  BY <1>3, <1>4, <1>5

LEMMA ListenTypes ==
  ASSUME RestTyped, NEW s \in Streams,
         NEW from, from # "new",
         NEW to \in {"starting", "read", "got", "counting", "enqueue", "leave",
                     "uncount", "test", "ended"},
         Listen(s, from, to),
         stopped' = stopped, closed' \subseteq Streams
  PROVE  RestTyped'
<1>1. /\ listenPc[s] = from /\ listenPc' = [listenPc EXCEPT ![s] = to]
      /\ UNCHANGED <<connected, contextDone, held, sent, eof, workerPc>>
  BY DEF Listen, acceptor
<1>2. s \notin held
  BY <1>1 DEF RestTyped
<1>3. QED
  BY <1>1, <1>2 DEF RestTyped

LEMMA ListenStepTypes ==
  ASSUME OrderInv, TypeOK, NEW s \in Streams, ListenStep(s)
  PROVE  RestTyped' /\ CountTyped' /\ DecidedTyped'
<1>0. RestTyped /\ CountTyped /\ DecidedTyped /\ closed \subseteq Streams
  BY TypeParts DEF RestTyped
<1>1. CASE CountLoad(s) \/ CountStore(s) \/ UncountLoad(s) \/ UncountStore(s)
           \/ UncountTest(s)
  <2>1. CountTyped' /\ closed' \subseteq Streams
    BY <1>0, <1>1, CountingTypes
       DEF CountLoad, CountStore, UncountLoad, UncountStore, UncountTest
  <2>2. UNCHANGED <<reading, decided, refused, stopped>>
    BY <1>1 DEF CountLoad, CountStore, UncountLoad, UncountStore, UncountTest, pool
  <2>3. RestTyped'
    BY <1>0, <1>1, <2>1, <2>2, ListenTypes
       DEF CountLoad, CountStore, UncountLoad, UncountStore, UncountTest
  <2>4. DecidedTyped'
    BY <1>0, <2>2 DEF DecidedTyped
  <2>5. QED
    BY <2>1, <2>3, <2>4
<1>2. CASE ReadRequest(s) \/ ReadNothing(s)
  <2>1. /\ UNCHANGED <<decided, refused, stopped, loaded, usageCount, closed>>
        /\ \/ reading' = reading
           \/ /\ inbox[s] # << >>
              /\ reading' = [reading EXCEPT ![s] = Head(inbox[s])]
    BY <1>2 DEF ReadRequest, ReadNothing, pool, counting
  <2>2. RestTyped'
    BY <1>0, <1>2, <2>1, ListenTypes DEF ReadRequest, ReadNothing
  <2>3. inbox[s] # << >> => Head(inbox[s]) \in Request
    BY DEF TypeOK
  <2>4. DecidedTyped' /\ CountTyped'
    BY <1>0, <2>1, <2>3 DEF DecidedTyped, CountTyped
  <2>5. QED
    BY <2>2, <2>4
<1>3. CASE EnqueueAccepted(s) \/ EnqueueRefused(s)
  <2>1. /\ UNCHANGED <<reading, stopped, loaded, usageCount, closed>>
        /\ decided' = decided \cup {reading[s]}
        /\ refused' = refused \/ refused' = refused \cup {reading[s]}
    BY <1>3 DEF EnqueueAccepted, EnqueueRefused, Pool!Accept, Pool!Refuse, counting
  <2>2. RestTyped'
    BY <1>0, <1>3, <2>1, ListenTypes DEF EnqueueAccepted, EnqueueRefused
  <2>3. reading[s] \in Request
    BY <1>3, EnqueueEffect
  <2>4. DecidedTyped' /\ CountTyped'
    BY <1>0, <2>1, <2>3 DEF DecidedTyped, CountTyped
  <2>5. QED
    BY <2>2, <2>4
<1>4. QED
  BY <1>1, <1>2, <1>3 DEF ListenStep, ListenBetweenReads

LEMMA WorkerStepTypes ==
  ASSUME OrderInv, TypeOK, WorkerStep
  PROVE  RestTyped' /\ CountTyped' /\ DecidedTyped'
<1>0. RestTyped /\ CountTyped /\ DecidedTyped /\ closed \subseteq Streams
  BY TypeParts DEF RestTyped
<1>1. /\ workerPc' \in {"idle", "handle", "uncount", "store", "test"}
      /\ UNCHANGED <<connected, contextDone, held, sent, eof, listenPc, reading, refused>>
  BY DEF WorkerStep, BeginTask, Respond, IgnoreExpired, DoneLoad, DoneStore, DoneTest,
         Work, acceptor, client
<1>2. UNCHANGED <<decided, stopped>>
  BY DEF WorkerStep, BeginTask, Respond, IgnoreExpired, DoneLoad, DoneStore, DoneTest,
         pool, Pool!Begin, Pool!Finish
<1>3. CountTyped' /\ closed' \subseteq Streams
  <2>1. CASE BeginTask \/ Respond \/ IgnoreExpired
    BY <1>0, <2>1 DEF BeginTask, Respond, IgnoreExpired, counting, CountTyped
  <2>2. CASE DoneLoad \/ DoneStore \/ DoneTest
    <3>1. running.stream \in Streams
      <4>1. workerPc # "idle"
        BY <2>2 DEF DoneLoad, DoneStore, DoneTest, Work
      <4>2. QED
        BY <4>1, RequestFields DEF TypeOK
    <3>2. \/ Load(running.stream, Worker)
          \/ Store(running.stream, Worker, -1)
          \/ CloseIfZero(running.stream, Worker)
      BY <2>2 DEF DoneLoad, DoneStore, DoneTest
    <3>3. QED
      BY <1>0, <3>1, <3>2, CountingTypes
  <2>3. QED
    BY <2>1, <2>2 DEF WorkerStep
<1>4. QED
  BY <1>0, <1>1, <1>2, <1>3 DEF RestTyped, DecidedTyped

LEMMA OtherStepTypes ==
  ASSUME OrderInv, TypeOK,
         \/ \E s \in Streams :
              \/ \E l \in Levels : SendRequest(s, l)
              \/ EndRequests(s) \/ AcceptStream(s) \/ HandleStream(s)
         \/ Disconnect \/ EndContext \/ StopOnDisconnect
         \/ UNCHANGED vars
  PROVE  RestTyped' /\ CountTyped' /\ DecidedTyped'
<1>0. RestTyped /\ CountTyped /\ DecidedTyped
  BY TypeParts
<1>1. UNCHANGED <<loaded, usageCount, closed, reading, decided, refused, workerPc>>
  BY DEF SendRequest, EndRequests, AcceptStream, HandleStream, Disconnect, EndContext,
         StopOnDisconnect, vars, counting, pool, Pool!Stop
<1>2. CountTyped' /\ DecidedTyped'
  BY <1>0, <1>1 DEF CountTyped, DecidedTyped
<1>3. RestTyped'
  <2> USE DEF RestTyped
  <2>1. ASSUME NEW s \in Streams, NEW l \in Levels, SendRequest(s, l)
        PROVE  RestTyped'
    <3>1. sent[s] + 1 \in 0 .. MaxRequests
      BY <1>0, <2>1, ConstantsAssumption DEF SendRequest
    <3>2. QED
      BY <1>0, <1>1, <2>1, <3>1 DEF SendRequest, acceptor, pool
  <2>2. ASSUME NEW s \in Streams, EndRequests(s)
        PROVE  RestTyped'
    BY <1>0, <1>1, <2>2 DEF EndRequests, acceptor, pool
  <2>3. ASSUME NEW s \in Streams, AcceptStream(s)
        PROVE  RestTyped'
    BY <1>0, <1>1, <2>3 DEF AcceptStream, client, pool
  <2>4. ASSUME NEW s \in Streams, HandleStream(s)
        PROVE  RestTyped'
    BY <1>0, <1>1, <2>4 DEF HandleStream, client, pool
  <2>5. CASE Disconnect
    BY <1>0, <1>1, <2>5 DEF Disconnect, acceptor, client, pool
  <2>6. CASE EndContext
    BY <1>0, <1>1, <2>6 DEF EndContext, client, pool
  <2>7. CASE StopOnDisconnect
    BY <1>0, <1>1, <2>7 DEF StopOnDisconnect, client, Pool!Stop
  <2>8. CASE UNCHANGED vars
    BY <1>0, <1>1, <2>8 DEF vars, acceptor, client, pool
  <2>9. QED
    BY <2>1, <2>2, <2>3, <2>4, <2>5, <2>6, <2>7, <2>8
<1>4. QED
  BY <1>2, <1>3

HandlerInv == OrderInv /\ TypeOK

LEMMA InitHandler ==
  ASSUME Init
  PROVE  HandlerInv
<1>1. RestTyped
  <2>1. /\ connected = TRUE /\ contextDone = FALSE /\ held = {} /\ stopped = FALSE
        /\ sent = [s \in Streams |-> 0] /\ eof = [s \in Streams |-> FALSE]
        /\ listenPc = [s \in Streams |-> "new"] /\ workerPc = "idle" /\ closed = {}
    BY DEF Init, Pool!Init
  <2>2. 0 \in 0 .. MaxRequests
    BY ConstantsAssumption
  <2>3. sent \in [Streams -> 0 .. MaxRequests] /\ eof \in [Streams -> BOOLEAN]
    BY <2>1, <2>2
  <2>4. QED
    BY <2>1, <2>3 DEF RestTyped
<1>2. CountTyped /\ DecidedTyped
  BY DEF Init, CountTyped, DecidedTyped, Pool!Init
<1>3. QED
  BY <1>1, <1>2, InitOrder, TypeParts DEF HandlerInv

LEMMA NextHandler ==
  ASSUME HandlerInv, [Next]_vars
  PROVE  HandlerInv'
<1>1. OrderInv'
  BY NextOrder DEF HandlerInv
<1>2. RestTyped' /\ CountTyped' /\ DecidedTyped'
  BY ListenStepTypes, WorkerStepTypes, OtherStepTypes DEF HandlerInv, Next
<1>3. TypeOK'
  BY <1>1, <1>2 DEF OrderInv, Types, TypeOK, RestTyped, CountTyped, DecidedTyped
<1>4. QED
  BY <1>1, <1>3 DEF HandlerInv

\* Of any number of streams the acceptor holds at most one, and only while the
\* handler is not stopped; its listener has not begun; the worker executes a task
\* exactly when it is between BeginTask and DoneTest; only requests that were sent
\* are decided, and only decided ones are refused.
THEOREM TypeCorrect == Spec => []TypeOK
<1>1. HandlerInv => TypeOK
  BY DEF HandlerInv
<1>2. QED
  BY <1>1, InitHandler, NextHandler, PTL DEF Spec

-----------------------------------------------------------------------------
(* The wire                                                                *)

\* The lines of a request, the last one empty,
Line(r, j) == WriteRequest(PacketOf(r))[j]

\* and what a listener has of it after the first k of them.
Part(r, k) ==
  [key \in ToSet(RequestKeys) |->
     IF \E j \in 1 .. k : RequestKeys[j] = key THEN PacketOf(r)[key] ELSE 0]

\* What may be left of a client's last words.
Remains == Endings \cup {<<Header("Segment", 1)>>, <<NotAPair>>}

\* What may be on the wire.
Value == {0, 1, NotANumber} \cup Levels \cup (1 .. MaxRequests) \cup {Bitrate, Tile, Timeout}
Key == {"", "Priority", "Bitrate", "Segment", "Tile", "Timeout", "an unknown key",
        "not a key value pair"}
Token == [key : Key, value : Value]

\* The wire of s holds the unread requests but for the first k lines of the first
\* one, which are in the packet, and an ending.
Framing(s, k, ending) ==
  /\ wire[s] \in Seq(Token)
  /\ Len(wire[s]) = 6 * Len(inbox[s]) - k + Len(ending)
  /\ \A i \in 1 .. Len(inbox[s]) : \A j \in 1 .. 6 :
       6 * (i - 1) + j > k => wire[s][6 * (i - 1) + j - k] = Line(inbox[s][i], j)
  /\ \A e \in 1 .. Len(ending) : wire[s][6 * Len(inbox[s]) - k + e] = ending[e]
  /\ inbox[s] # << >> => packet[s] = Part(inbox[s][1], k)
  /\ inbox[s] = << >> => k = 0 /\ (eof[s] \/ packet[s] = NoLines(RequestKeys))

Framed(s) ==
  \E k \in 0 .. 5 : \E ending \in Remains :
    /\ ending # << >> => eof[s]
    /\ Framing(s, k, ending)

WireInv ==
  /\ DOMAIN wire = Streams
  /\ DOMAIN packet = Streams
  /\ \A s \in Streams : Framed(s)

\* What the client writes for a request, line by line.
LEMMA RequestLines ==
  ASSUME NEW r \in Request
  PROVE  /\ WriteRequest(PacketOf(r)) \in Seq(Token)
         /\ Len(WriteRequest(PacketOf(r))) = 6
         /\ Line(r, 1) = Header("Priority", r.priority)
         /\ Line(r, 2) = Header("Bitrate", Bitrate)
         /\ Line(r, 3) = Header("Segment", r.n)
         /\ Line(r, 4) = Header("Tile", Tile)
         /\ Line(r, 5) = Header("Timeout", Timeout)
         /\ Line(r, 6) = Blank
<1> DEFINE headers == Headers(RequestKeys, PacketOf(r))
<1>1. /\ r.priority \in Value /\ r.n \in Value /\ Bitrate \in Value
      /\ Tile \in Value /\ Timeout \in Value /\ 0 \in Value
  BY DEF Request, Value
<1>2. /\ headers = [i \in 1 .. 5 |-> Header(RequestKeys[i], PacketOf(r)[RequestKeys[i]])]
  BY DEF Headers, RequestKeys
<1>3. /\ PacketOf(r)["Priority"] = r.priority /\ PacketOf(r)["Bitrate"] = Bitrate
      /\ PacketOf(r)["Segment"] = r.n /\ PacketOf(r)["Tile"] = Tile
      /\ PacketOf(r)["Timeout"] = Timeout
  BY DEF PacketOf, ToSet, RequestKeys
<1>4. /\ headers[1] = Header("Priority", r.priority)
      /\ headers[2] = Header("Bitrate", Bitrate)
      /\ headers[3] = Header("Segment", r.n)
      /\ headers[4] = Header("Tile", Tile)
      /\ headers[5] = Header("Timeout", Timeout)
  BY <1>2, <1>3 DEF RequestKeys
<1>5. headers \in Seq(Token) /\ Len(headers) = 5
  <2>0. /\ Header("Priority", r.priority) \in Token /\ Header("Bitrate", Bitrate) \in Token
        /\ Header("Segment", r.n) \in Token /\ Header("Tile", Tile) \in Token
        /\ Header("Timeout", Timeout) \in Token
    BY <1>1 DEF Header, Token, Key
  <2>1. \A i \in 1 .. 5 : headers[i] \in Token
    <3>1. \A i \in 1 .. 5 : i \in {1, 2, 3, 4, 5}
      OBVIOUS
    <3> HIDE DEF headers
    <3>2. QED
      BY <1>4, <2>0, <3>1
  <2>2. headers \in [1 .. 5 -> Token]
    BY <1>2, <2>1
  <2> HIDE DEF headers
  <2>3. PICK n \in Nat : n = 5
    OBVIOUS
  <2>4. headers \in [1 .. n -> Token]
    BY <2>2, <2>3
  <2>5. headers \in Seq(Token) /\ Len(headers) = n
    BY <2>4
  <2>6. QED
    BY <2>3, <2>5
<1> HIDE DEF headers
<1>6. Blank \in Token
  BY <1>1 DEF Blank, Header, Token, Key
<1>7. /\ Append(headers, Blank) \in Seq(Token)
      /\ Len(Append(headers, Blank)) = 6
      /\ \A i \in 1 .. 5 : Append(headers, Blank)[i] = headers[i]
      /\ Append(headers, Blank)[6] = Blank
  <2>1. /\ Append(headers, Blank) \in Seq(Token)
        /\ Len(Append(headers, Blank)) = Len(headers) + 1
        /\ \A i \in 1 .. Len(headers) : Append(headers, Blank)[i] = headers[i]
        /\ Append(headers, Blank)[Len(headers) + 1] = Blank
    <3>1. headers \in Seq(Token)
      BY <1>5
    <3> HIDE DEF Blank
    <3>2. QED
      BY <1>6, <3>1, AppendProperties
  <2>2. QED
    BY <1>5, <2>1
<1>8. WriteRequest(PacketOf(r)) = Append(headers, Blank)
  BY DEF WriteRequest, headers
<1>9. QED
  BY <1>4, <1>7, <1>8 DEF Line

\* No line of a request is one that ends the reading.
LEMMA LinesAreGood ==
  ASSUME NEW r \in Request, NEW j \in 1 .. 6
  PROVE  /\ ~Malformed(RequestKeys, Line(r, j))
         /\ Line(r, j) = Blank <=> j = 6
<1>1. j \in {1, 2, 3, 4, 5, 6}
  OBVIOUS
<1>3. {"Priority", "Bitrate", "Segment", "Tile", "Timeout"} = ToSet(RequestKeys)
  BY DEF ToSet, RequestKeys
<1>2. \A v, w : \A key \in ToSet(RequestKeys) :
        /\ Header(key, v) # Header("", w)
        /\ Header(key, v) # Header("not a key value pair", w)
        /\ Header(key, v).value = v
  <2>1. \A key \in ToSet(RequestKeys) : key # "" /\ key # "not a key value pair"
    BY <1>3
  <2>2. ASSUME NEW v, NEW w, NEW key \in ToSet(RequestKeys)
        PROVE  /\ Header(key, v) # Header("", w)
               /\ Header(key, v) # Header("not a key value pair", w)
               /\ Header(key, v).value = v
    BY <2>1 DEF Header
  <2>3. QED
    BY <2>2
<1>4. /\ r.priority # NotANumber /\ r.n # NotANumber /\ Bitrate # NotANumber
      /\ Tile # NotANumber /\ Timeout # NotANumber
  BY WiredAssumption DEF Request
<1>5. \A key \in ToSet(RequestKeys) : \A v :
        v # NotANumber => ~Malformed(RequestKeys, Header(key, v)) /\ Header(key, v) # Blank
  BY <1>2 DEF Malformed, Blank, NotAPair
<1>6. ~Malformed(RequestKeys, Blank)
  <2>1. Blank.key \notin ToSet(RequestKeys) /\ Blank # NotAPair
    BY <1>3 DEF Blank, NotAPair, Header
  <2>2. QED
    BY <2>1 DEF Malformed
<1>7. CASE j = 6
  BY <1>6, <1>7, RequestLines
<1>8. CASE j # 6
  <2>1. \E key \in {"Priority", "Bitrate", "Segment", "Tile", "Timeout"} :
          \E v : v # NotANumber /\ Line(r, j) = Header(key, v)
    BY <1>1, <1>4, <1>8, RequestLines
  <2>2. QED
    BY <1>3, <1>5, <1>8, <2>1
<1>9. QED
  BY <1>7, <1>8

\* Line by line the packet becomes the request that was written.
LEMMA PartGrows ==
  ASSUME NEW r \in Request
  PROVE  /\ Part(r, 0) = NoLines(RequestKeys)
         /\ \A k \in 0 .. 4 : ReadLine(Part(r, k), Line(r, k + 1)) = Part(r, k + 1)
         /\ Received(r.stream, Part(r, 5)) = r
<1> DEFINE keys == {"Priority", "Bitrate", "Segment", "Tile", "Timeout"}
<1>1. /\ ToSet(RequestKeys) = keys
      /\ RequestKeys[1] = "Priority" /\ RequestKeys[2] = "Bitrate"
      /\ RequestKeys[3] = "Segment" /\ RequestKeys[4] = "Tile"
      /\ RequestKeys[5] = "Timeout"
  BY DEF ToSet, RequestKeys
<1>2. /\ PacketOf(r)["Priority"] = r.priority /\ PacketOf(r)["Bitrate"] = Bitrate
      /\ PacketOf(r)["Segment"] = r.n /\ PacketOf(r)["Tile"] = Tile
      /\ PacketOf(r)["Timeout"] = Timeout
  BY DEF PacketOf, ToSet, RequestKeys
<1>3. Part(r, 0) = NoLines(RequestKeys)
  BY <1>1 DEF Part, NoLines
<1>4. ASSUME NEW k \in 0 .. 4
      PROVE  ReadLine(Part(r, k), Line(r, k + 1)) = Part(r, k + 1)
  <2>1. k \in {0, 1, 2, 3, 4}
    OBVIOUS
  <2>2. PICK key \in keys :
          /\ key = RequestKeys[k + 1]
          /\ Line(r, k + 1) = Header(key, PacketOf(r)[key])
    BY <1>1, <1>2, <2>1, RequestLines
  <2>3. ReadLine(Part(r, k), Line(r, k + 1)) =
          [Part(r, k) EXCEPT ![key] = PacketOf(r)[key]]
    <3>1. Line(r, k + 1).key = key /\ Line(r, k + 1).value = PacketOf(r)[key]
      BY <2>2 DEF Header
    <3>2. DOMAIN Part(r, k) = keys
      BY <1>1 DEF Part
    <3>3. QED
      BY <3>1, <3>2 DEF ReadLine
  <2>4. \A j : j \in 1 .. k + 1 <=> j \in 1 .. k \/ j = k + 1
    OBVIOUS
  <2>5. QED
    BY <1>1, <2>2, <2>3, <2>4 DEF Part
<1>5. Received(r.stream, Part(r, 5)) = r
  <2>1. Part(r, 5)["Segment"] = r.n
    <3>1. 3 \in 1 .. 5 /\ RequestKeys[3] = "Segment"
      BY <1>1
    <3>2. QED
      BY <1>1, <1>2, <3>1 DEF Part
  <2>2. Part(r, 5)["Priority"] = r.priority
    <3>1. 1 \in 1 .. 5 /\ RequestKeys[1] = "Priority"
      BY <1>1
    <3>2. QED
      BY <1>1, <1>2, <3>1 DEF Part
  <2>3. r = [stream |-> r.stream, n |-> r.n, priority |-> r.priority]
    BY DEF Request
  <2>4. QED
    BY <2>1, <2>2, <2>3 DEF Received
<1>6. QED
  BY <1>3, <1>4, <1>5

LEMMA ShortSequences ==
  ASSUME NEW S, NEW a \in S, NEW b \in S
  PROVE  /\ <<a>> \in Seq(S) /\ Head(<<a>>) = a /\ Tail(<<a>>) = << >>
         /\ <<a, b>> \in Seq(S) /\ Head(<<a, b>>) = a /\ Tail(<<a, b>>) = <<b>>
OBVIOUS

\* Of the client's last words each line is skipped or ends the reading: none is
\* taken for a request.
LEMMA RemainsFacts ==
  ASSUME NEW e \in Remains
  PROVE  /\ e \in Seq(Token)
         /\ e # << >> => Head(e) # Blank
         /\ e # << >> /\ ~Malformed(RequestKeys, Head(e)) => Tail(e) \in Remains
<1>1. /\ Header("Priority", 0) \in Token /\ Header("Segment", 1) \in Token
      /\ Header("an unknown key", NotANumber) \in Token
      /\ NotAPair \in Token /\ Header("Timeout", NotANumber) \in Token
      /\ Blank \in Token
  BY DEF Header, NotAPair, Blank, Token, Key, Value
<1>2. /\ Header("Priority", 0) # Blank /\ Header("Segment", 1) # Blank
      /\ Header("an unknown key", NotANumber) # Blank
      /\ NotAPair # Blank /\ Header("Timeout", NotANumber) # Blank
      /\ Malformed(RequestKeys, NotAPair)
      /\ Malformed(RequestKeys, Header("Timeout", NotANumber))
  <2>1. "Timeout" \in ToSet(RequestKeys)
    BY DEF ToSet, RequestKeys
  <2>2. QED
    BY <2>1 DEF Header, Blank, NotAPair, Malformed
<1>3. CASE e = << >>
  BY <1>3
<1>4. CASE e = <<Header("Priority", 0), Header("Segment", 1)>>
  <2>1. e \in Seq(Token) /\ e # << >> /\ Head(e) = Header("Priority", 0)
        /\ Tail(e) = <<Header("Segment", 1)>>
    BY <1>1, <1>4, ShortSequences
  <2>2. QED
    BY <1>2, <2>1 DEF Remains
<1>5. CASE e = <<Header("an unknown key", NotANumber), NotAPair>>
  <2>1. e \in Seq(Token) /\ Head(e) = Header("an unknown key", NotANumber)
        /\ Tail(e) = <<NotAPair>>
    BY <1>1, <1>5, ShortSequences
  <2>2. QED
    BY <1>2, <2>1 DEF Remains
<1>6. CASE e = <<Header("Timeout", NotANumber), Blank>>
  <2>1. e \in Seq(Token) /\ Head(e) = Header("Timeout", NotANumber)
    BY <1>1, <1>6, ShortSequences
  <2>2. QED
    BY <1>2, <2>1
<1>7. CASE e = <<Header("Segment", 1)>>
  <2>1. e \in Seq(Token) /\ Head(e) = Header("Segment", 1) /\ Tail(e) = << >>
    BY <1>1, <1>7, ShortSequences
  <2>2. << >> \in Remains
    BY DEF Remains, Endings
  <2>3. QED
    BY <1>2, <2>1, <2>2
<1>8. CASE e = <<NotAPair>>
  <2>1. e \in Seq(Token) /\ Head(e) = NotAPair
    BY <1>1, <1>8, ShortSequences
  <2>2. QED
    BY <1>2, <2>1
<1>9. QED
  BY <1>3, <1>4, <1>5, <1>6, <1>7, <1>8 DEF Remains, Endings

-----------------------------------------------------------------------------
\* A wire that is not touched stays framed.
LEMMA FramedUnchanged ==
  ASSUME NEW s \in Streams, Framed(s),
         wire'[s] = wire[s], packet'[s] = packet[s],
         inbox'[s] = inbox[s], eof'[s] = eof[s]
  PROVE  Framed(s)'
<1>1. PICK k \in 0 .. 5, ending \in Remains :
        (ending # << >> => eof[s]) /\ Framing(s, k, ending)
  BY DEF Framed
<1>2. Framing(s, k, ending)'
  BY <1>1 DEF Framing
<1>3. QED
  BY <1>1, <1>2 DEF Framed

\* What a listener finds first on its wire.
LEMMA FrontOfWire ==
  ASSUME NEW s \in Streams, inbox[s] \in Seq(Request),
         NEW k \in 0 .. 5, NEW ending \in Remains, Framing(s, k, ending)
  PROVE  /\ inbox[s] = << >> => wire[s] = ending
         /\ inbox[s] # << >> =>
              /\ wire[s] # << >>
              /\ inbox[s][1] \in Request
              /\ Head(wire[s]) = Line(inbox[s][1], k + 1)
<1>1. /\ wire[s] \in Seq(Token) /\ ending \in Seq(Token)
      /\ Len(inbox[s]) \in Nat /\ Len(ending) \in Nat
      /\ Len(wire[s]) = 6 * Len(inbox[s]) - k + Len(ending)
  BY RemainsFacts DEF Framing
<1>2. CASE inbox[s] = << >>
  <2>1. k = 0 /\ Len(inbox[s]) = 0
    BY <1>2 DEF Framing
  <2>2. Len(wire[s]) = Len(ending)
    BY <1>1, <2>1
  <2>3. \A e \in 1 .. Len(ending) : wire[s][6 * Len(inbox[s]) - k + e] = ending[e]
    BY DEF Framing
  <2>4. \A e \in 1 .. Len(ending) : 6 * Len(inbox[s]) - k + e = e
    BY <2>1
  <2>5. \A e \in 1 .. Len(wire[s]) : wire[s][e] = ending[e]
    BY <2>2, <2>3, <2>4
  <2>6. wire[s] = ending
    BY <1>1, <2>2, <2>5, SeqEqual
  <2>7. QED
    BY <1>2, <2>6
<1>3. CASE inbox[s] # << >>
  <2>1. Len(inbox[s]) > 0 /\ inbox[s][1] \in Request
    BY <1>3
  <2>2. Len(wire[s]) > 0
    BY <1>1, <2>1
  <2>3. 1 \in 1 .. Len(inbox[s]) /\ k + 1 \in 1 .. 6 /\ 6 * (1 - 1) + (k + 1) > k
        /\ 6 * (1 - 1) + (k + 1) - k = 1
    BY <1>1, <2>1
  <2>4. wire[s][6 * (1 - 1) + (k + 1) - k] = Line(inbox[s][1], k + 1)
    BY <2>3 DEF Framing
  <2>5. wire[s][1] = Line(inbox[s][1], k + 1)
    BY <2>3, <2>4
  <2>6. QED
    BY <1>1, <1>3, <2>1, <2>2, <2>5
<1>4. QED
  BY <1>2, <1>3

\* The client's request is put behind what is on the wire.
LEMMA RequestIsFramed ==
  ASSUME HandlerInv, WireInv, NEW s \in Streams, NEW l \in Levels, WireRequest(s, l)
  PROVE  Framed(s)'
<1> DEFINE r == [stream |-> s, n |-> sent[s] + 1, priority |-> l]
           lines == WriteRequest(PacketOf(r))
<1>1. /\ inbox \in [Streams -> Seq(Request)] /\ sent \in [Streams -> 0 .. MaxRequests]
      /\ DOMAIN wire = Streams /\ Framed(s) /\ MaxRequests \in Nat
  BY ConstantsAssumption DEF HandlerInv, TypeOK, WireInv
<1>2. /\ inbox' = [inbox EXCEPT ![s] = Append(inbox[s], r)]
      /\ eof' = eof /\ ~eof[s] /\ packet' = packet
      /\ sent[s] < MaxRequests
      /\ wire' = [wire EXCEPT ![s] = wire[s] \o WriteRequest(PacketOf(Last(inbox'[s])))]
  BY DEF WireRequest, SendRequest
<1>3. r \in Request
  BY <1>1, <1>2 DEF Request
<1> HIDE DEF r
<1>4. /\ inbox'[s] = Append(inbox[s], r)
      /\ inbox'[s] \in Seq(Request) /\ Len(inbox'[s]) = Len(inbox[s]) + 1
      /\ \A i \in 1 .. Len(inbox[s]) : inbox'[s][i] = inbox[s][i]
      /\ inbox'[s][Len(inbox[s]) + 1] = r
      /\ Len(inbox[s]) \in Nat
  <2>1. inbox[s] \in Seq(Request) /\ inbox'[s] = Append(inbox[s], r)
    BY <1>1, <1>2
  <2>2. QED
    BY <1>3, <2>1, AppendProperties
<1>5. wire'[s] = wire[s] \o lines
  BY <1>1, <1>2, <1>4 DEF Last
<1>6. PICK k \in 0 .. 5, ending \in Remains :
        (ending # << >> => eof[s]) /\ Framing(s, k, ending)
  BY <1>1 DEF Framed
<1>7. /\ ending = << >> /\ wire[s] \in Seq(Token) /\ Len(wire[s]) \in Nat
      /\ Len(wire[s]) = 6 * Len(inbox[s]) - k
      /\ \A i \in 1 .. Len(inbox[s]) : \A j \in 1 .. 6 :
           6 * (i - 1) + j > k => wire[s][6 * (i - 1) + j - k] = Line(inbox[s][i], j)
      /\ inbox[s] # << >> => packet[s] = Part(inbox[s][1], k)
      /\ inbox[s] = << >> => k = 0 /\ packet[s] = NoLines(RequestKeys)
  <2>1. ending = << >>
    BY <1>2, <1>6
  <2>2. QED
    BY <1>2, <1>4, <1>6, <2>1 DEF Framing
<1>8. lines \in Seq(Token) /\ Len(lines) = 6
  BY <1>3, RequestLines
<1>9. /\ wire'[s] \in Seq(Token) /\ Len(wire'[s]) = Len(wire[s]) + 6
      /\ \A p \in 1 .. Len(wire[s]) : wire'[s][p] = wire[s][p]
      /\ \A j \in 1 .. 6 : wire'[s][Len(wire[s]) + j] = Line(r, j)
  <2>1. /\ wire[s] \o lines \in Seq(Token)
        /\ Len(wire[s] \o lines) = Len(wire[s]) + Len(lines)
        /\ \A p \in 1 .. Len(wire[s]) + Len(lines) :
             (wire[s] \o lines)[p] =
               IF p <= Len(wire[s]) THEN wire[s][p] ELSE lines[p - Len(wire[s])]
    <3> HIDE DEF lines
    <3>1. QED
      BY <1>7, <1>8, ConcatProperties
  <2>2. \A p \in 1 .. Len(wire[s]) : wire'[s][p] = wire[s][p]
    <3> HIDE DEF lines
    <3>1. QED
      BY <1>5, <1>7, <1>8, <2>1
  <2>3. ASSUME NEW j \in 1 .. 6
        PROVE  wire'[s][Len(wire[s]) + j] = Line(r, j)
    <3>1. (wire[s] \o lines)[Len(wire[s]) + j] = lines[j]
      <4> HIDE DEF lines
      <4>1. /\ Len(wire[s]) + j \in 1 .. Len(wire[s]) + Len(lines)
            /\ ~(Len(wire[s]) + j <= Len(wire[s]))
            /\ Len(wire[s]) + j - Len(wire[s]) = j
        <5>1. Len(wire[s]) \in Nat /\ Len(lines) = 6
          BY <1>7, <1>8
        <5>2. QED
          BY <5>1
      <4>2. QED
        BY <2>1, <4>1
    <3>2. QED
      BY <1>5, <3>1 DEF Line
  <2>4. QED
    BY <1>5, <1>8, <2>1, <2>2, <2>3
<1>10. ASSUME NEW i \in 1 .. Len(inbox'[s]), NEW j \in 1 .. 6, 6 * (i - 1) + j > k
       PROVE  wire'[s][6 * (i - 1) + j - k] = Line(inbox'[s][i], j)
  <2>1. CASE i \in 1 .. Len(inbox[s])
    <3>1. 6 * (i - 1) + j - k \in 1 .. Len(wire[s])
      BY <1>4, <1>7, <1>10, <2>1
    <3>2. QED
      BY <1>4, <1>7, <1>9, <1>10, <2>1, <3>1
  <2>2. CASE i = Len(inbox[s]) + 1
    <3>1. 6 * (i - 1) + j - k = Len(wire[s]) + j
      BY <1>4, <1>7, <2>2
    <3>2. QED
      BY <1>4, <1>9, <2>2, <3>1
  <2>3. QED
    BY <1>4, <2>1, <2>2
<1>11. packet'[s] = Part(inbox'[s][1], k)
  <2>1. CASE inbox[s] = << >>
    <3>1. inbox'[s][1] = r
      BY <1>4, <2>1
    <3>2. QED
      BY <1>2, <1>3, <1>7, <2>1, <3>1, PartGrows
  <2>2. CASE inbox[s] # << >>
    <3>1. inbox'[s][1] = inbox[s][1]
      BY <1>1, <1>4, <2>2
    <3>2. QED
      BY <1>2, <1>7, <2>2, <3>1
  <2>3. QED
    BY <2>1, <2>2
<1>12. Len(wire'[s]) = 6 * Len(inbox'[s]) - k + Len(ending)
  <2>1. /\ Len(ending) = 0 /\ Len(inbox[s]) \in Nat
        /\ Len(wire'[s]) = 6 * Len(inbox[s]) - k + 6
        /\ Len(inbox'[s]) = Len(inbox[s]) + 1
    BY <1>4, <1>7, <1>9
  <2>2. QED
    BY <2>1
<1>13. inbox'[s] # << >>
  BY <1>4
<1>14. Framing(s, k, ending)'
  BY <1>7, <1>9, <1>10, <1>11, <1>12, <1>13 DEF Framing
<1>15. QED
  BY <1>7, <1>14 DEF Framed

\* What the client ends its stream with is put behind the requests.
LEMMA EndIsFramed ==
  ASSUME HandlerInv, WireInv, NEW s \in Streams, WireEnd(s)
  PROVE  Framed(s)'
<1>1. /\ inbox \in [Streams -> Seq(Request)] /\ eof \in [Streams -> BOOLEAN]
      /\ DOMAIN wire = Streams /\ Framed(s)
  BY DEF HandlerInv, TypeOK, WireInv
<1>2. PICK ending \in Endings : wire' = [wire EXCEPT ![s] = wire[s] \o ending]
  BY DEF WireEnd
<1>3. /\ inbox' = inbox /\ ~eof[s] /\ eof'[s] = TRUE /\ packet' = packet
  BY <1>1 DEF WireEnd, EndRequests
<1>4. PICK k \in 0 .. 5, old \in Remains : (old # << >> => eof[s]) /\ Framing(s, k, old)
  BY <1>1 DEF Framed
<1>5. /\ wire[s] \in Seq(Token) /\ Len(inbox[s]) \in Nat
      /\ Len(wire[s]) \in Nat /\ Len(wire[s]) = 6 * Len(inbox[s]) - k
      /\ \A i \in 1 .. Len(inbox[s]) : \A j \in 1 .. 6 :
           6 * (i - 1) + j > k => wire[s][6 * (i - 1) + j - k] = Line(inbox[s][i], j)
      /\ inbox[s] # << >> => packet[s] = Part(inbox[s][1], k)
      /\ inbox[s] = << >> => k = 0
  <2>1. old = << >>
    BY <1>3, <1>4
  <2>2. QED
    BY <1>1, <1>3, <1>4, <2>1 DEF Framing
<1>6. ending \in Remains /\ ending \in Seq(Token) /\ Len(ending) \in Nat
  BY RemainsFacts DEF Remains
<1>7. /\ wire'[s] \in Seq(Token) /\ Len(wire'[s]) = Len(wire[s]) + Len(ending)
      /\ \A p \in 1 .. Len(wire[s]) + Len(ending) :
           wire'[s][p] = IF p <= Len(wire[s]) THEN wire[s][p] ELSE ending[p - Len(wire[s])]
  <2>1. wire'[s] = wire[s] \o ending
    BY <1>1, <1>2
  <2>2. wire[s] \in Seq(Token) /\ ending \in Seq(Token)
    BY <1>5, <1>6
  <2>3. QED
    BY <2>1, <2>2, ConcatProperties
<1>8. ASSUME NEW i \in 1 .. Len(inbox[s]), NEW j \in 1 .. 6, 6 * (i - 1) + j > k
      PROVE  wire'[s][6 * (i - 1) + j - k] = Line(inbox[s][i], j)
  <2>1. 6 * (i - 1) + j - k \in 1 .. Len(wire[s])
    BY <1>5, <1>8
  <2>2. wire'[s][6 * (i - 1) + j - k] = wire[s][6 * (i - 1) + j - k]
    <3>1. \A p \in 1 .. Len(wire[s]) :
            p \in 1 .. Len(wire[s]) + Len(ending) /\ p <= Len(wire[s])
      <4>1. Len(wire[s]) \in Nat /\ Len(ending) \in Nat
        BY <1>5, <1>6
      <4>2. QED
        BY <4>1
    <3>2. QED
      BY <1>7, <2>1, <3>1
  <2>3. QED
    BY <1>5, <1>8, <2>2
<1>9. ASSUME NEW e \in 1 .. Len(ending)
      PROVE  wire'[s][6 * Len(inbox[s]) - k + e] = ending[e]
  <2>1. /\ Len(wire[s]) + e \in 1 .. Len(wire[s]) + Len(ending)
        /\ ~(Len(wire[s]) + e <= Len(wire[s]))
        /\ Len(wire[s]) + e - Len(wire[s]) = e
    <3>1. Len(wire[s]) \in Nat /\ Len(ending) \in Nat
      BY <1>5, <1>6
    <3>2. QED
      BY <3>1
  <2>2. 6 * Len(inbox[s]) - k = Len(wire[s])
    BY <1>5
  <2>3. wire'[s][Len(wire[s]) + e] = ending[e]
    BY <1>7, <2>1
  <2>4. QED
    BY <2>2, <2>3
<1>10. Len(wire'[s]) = 6 * Len(inbox[s]) - k + Len(ending)
  BY <1>5, <1>7
<1>11. Framing(s, k, ending)'
  BY <1>3, <1>5, <1>7, <1>8, <1>9, <1>10 DEF Framing
<1>12. QED
  BY <1>3, <1>6, <1>11 DEF Framed

\* What the listener is left with when it takes the first line off the wire.
LEMMA TakeLine ==
  ASSUME NEW s \in Streams, DOMAIN wire = Streams,
         wire[s] \in Seq(Token), wire[s] # << >>,
         wire' = [wire EXCEPT ![s] = Tail(wire[s])]
  PROVE  /\ wire'[s] = Tail(wire[s]) /\ wire'[s] \in Seq(Token)
         /\ Len(wire[s]) \in Nat /\ Len(wire'[s]) = Len(wire[s]) - 1
         /\ \A p \in 1 .. Len(wire[s]) - 1 : wire'[s][p] = wire[s][p + 1]
<1>1. wire'[s] = Tail(wire[s])
  OBVIOUS
<1>2. QED
  BY <1>1, HeadTailProperties

\* A line that is read moves from the wire to the packet.
LEMMA LineIsFramed ==
  ASSUME HandlerInv, WireInv, NEW s \in Streams, WireReadLine(s)
  PROVE  Framed(s)'
<1>1. /\ inbox[s] \in Seq(Request) /\ DOMAIN wire = Streams /\ DOMAIN packet = Streams
      /\ Framed(s)
  BY DEF HandlerInv, TypeOK, WireInv
<1>2. /\ wire[s] # << >> /\ Head(wire[s]) # Blank
      /\ ~Malformed(RequestKeys, Head(wire[s]))
      /\ packet' = [packet EXCEPT ![s] = ReadLine(packet[s], Head(wire[s]))]
      /\ wire' = [wire EXCEPT ![s] = Tail(wire[s])]
      /\ inbox' = inbox /\ eof' = eof
  BY DEF WireReadLine, vars, client
<1>3. PICK k \in 0 .. 5, ending \in Remains :
        (ending # << >> => eof[s]) /\ Framing(s, k, ending)
  BY <1>1 DEF Framed
<1>4. /\ wire'[s] = Tail(wire[s]) /\ wire'[s] \in Seq(Token)
      /\ Len(wire[s]) \in Nat /\ Len(wire'[s]) = Len(wire[s]) - 1
      /\ \A p \in 1 .. Len(wire[s]) - 1 : wire'[s][p] = wire[s][p + 1]
  <2>1. wire[s] \in Seq(Token)
    BY <1>3 DEF Framing
  <2>2. QED
    BY <1>1, <1>2, <2>1, TakeLine
<1>5. CASE inbox[s] = << >>
  <2>1. wire[s] = ending
    BY <1>1, <1>3, <1>5, FrontOfWire
  <2>2. wire'[s] \in Remains /\ eof'[s]
    BY <1>2, <1>3, <1>4, <2>1, RemainsFacts
  <2>3. Len(inbox'[s]) = 0 /\ Len(wire'[s]) \in Nat
    BY <1>2, <1>4, <1>5
  <2>4. \A e \in 1 .. Len(wire'[s]) : wire'[s][6 * Len(inbox'[s]) - 0 + e] = wire'[s][e]
    <3>1. \A e \in 1 .. Len(wire'[s]) : 6 * Len(inbox'[s]) - 0 + e = e
      BY <2>3
    <3>2. QED
      BY <3>1
  <2>5. /\ inbox'[s] = << >>
        /\ \A i \in 1 .. Len(inbox'[s]) : FALSE
        /\ Len(wire'[s]) = 6 * Len(inbox'[s]) - 0 + Len(wire'[s])
    BY <1>2, <1>5, <2>3
  <2>6. PICK left \in Remains : left = wire'[s]
    BY <2>2
  <2>7. Framing(s, 0, left)'
    BY <1>4, <2>2, <2>4, <2>5, <2>6 DEF Framing
  <2>8. 0 \in 0 .. 5
    OBVIOUS
  <2>9. QED
    BY <2>2, <2>7, <2>8 DEF Framed
<1>6. CASE inbox[s] # << >>
  <2> DEFINE r == inbox[s][1]
  <2>1. r \in Request /\ Head(wire[s]) = Line(r, k + 1)
    BY <1>1, <1>3, <1>6, FrontOfWire
  <2>2. k + 1 # 6 /\ k \in 0 .. 4 /\ k + 1 \in 0 .. 5
    <3>1. k + 1 \in 1 .. 6
      OBVIOUS
    <3>2. k + 1 # 6
      <4> HIDE DEF r
      <4>1. QED
        BY <1>2, <2>1, <3>1, LinesAreGood
    <3>3. QED
      BY <3>2
  <2>3. packet[s] = Part(r, k)
    BY <1>3, <1>6 DEF Framing
  <2>4. packet'[s] = Part(r, k + 1)
    <3>1. packet'[s] = ReadLine(Part(r, k), Line(r, k + 1))
      BY <1>1, <1>2, <2>1, <2>3
    <3> HIDE DEF r
    <3>2. QED
      BY <2>1, <2>2, <3>1, PartGrows
  <2>5. /\ Len(inbox[s]) \in Nat /\ Len(ending) \in Nat
        /\ Len(wire[s]) = 6 * Len(inbox[s]) - k + Len(ending)
        /\ \A i \in 1 .. Len(inbox[s]) : \A j \in 1 .. 6 :
             6 * (i - 1) + j > k => wire[s][6 * (i - 1) + j - k] = Line(inbox[s][i], j)
        /\ \A e \in 1 .. Len(ending) : wire[s][6 * Len(inbox[s]) - k + e] = ending[e]
    BY <1>1, <1>3, RemainsFacts DEF Framing
  <2>6. ASSUME NEW i \in 1 .. Len(inbox[s]), NEW j \in 1 .. 6, 6 * (i - 1) + j > k + 1
        PROVE  wire'[s][6 * (i - 1) + j - (k + 1)] = Line(inbox[s][i], j)
    <3>1. /\ 6 * (i - 1) + j - (k + 1) \in 1 .. Len(wire[s]) - 1
          /\ 6 * (i - 1) + j - (k + 1) + 1 = 6 * (i - 1) + j - k
          /\ 6 * (i - 1) + j > k
      <4>1. /\ Len(inbox[s]) \in Nat /\ Len(ending) \in Nat
            /\ Len(wire[s]) = 6 * Len(inbox[s]) - k + Len(ending)
        BY <2>5
      <4>2. 6 * (i - 1) + j <= 6 * Len(inbox[s])
        BY <4>1
      <4>3. QED
        BY <2>6, <4>1, <4>2
    <3>2. QED
      BY <1>4, <2>5, <3>1
  <2>7. ASSUME NEW e \in 1 .. Len(ending)
        PROVE  wire'[s][6 * Len(inbox[s]) - (k + 1) + e] = ending[e]
    <3>1. /\ 6 * Len(inbox[s]) - (k + 1) + e \in 1 .. Len(wire[s]) - 1
          /\ 6 * Len(inbox[s]) - (k + 1) + e + 1 = 6 * Len(inbox[s]) - k + e
      <4>1. Len(inbox[s]) > 0
        BY <1>1, <1>6
      <4>2. QED
        BY <2>2, <2>5, <4>1
    <3>2. QED
      BY <1>4, <2>5, <3>1
  <2>8. Len(wire'[s]) = 6 * Len(inbox[s]) - (k + 1) + Len(ending)
    BY <1>4, <2>5
  <2>9. Framing(s, k + 1, ending)'
    BY <1>2, <1>4, <1>6, <2>4, <2>6, <2>7, <2>8 DEF Framing
  <2>10. QED
    BY <1>2, <1>3, <2>2, <2>9 DEF Framed
<1>7. QED
  BY <1>5, <1>6

\* At the empty line the packet is the first unread request, so what the listener
\* does is ReadRequest, and the wire is framed for the next one.
LEMMA RequestIsRead ==
  ASSUME HandlerInv, WireInv, NEW s \in Streams, WireRead(s)
  PROVE  ReadRequest(s) /\ Framed(s)'
<1>1. /\ inbox \in [Streams -> Seq(Request)] /\ inbox[s] \in Seq(Request)
      /\ DOMAIN wire = Streams /\ DOMAIN packet = Streams
      /\ Framed(s)
  BY DEF HandlerInv, TypeOK, WireInv
<1>2. /\ wire[s] # << >> /\ Head(wire[s]) = Blank
      /\ reading' = [reading EXCEPT ![s] = Received(s, packet[s])]
      /\ packet' = [packet EXCEPT ![s] = NoLines(RequestKeys)]
      /\ wire' = [wire EXCEPT ![s] = Tail(wire[s])]
      /\ inbox' = [inbox EXCEPT ![s] = Tail(inbox[s])] /\ eof' = eof
  BY DEF WireRead, Listen
<1>3. PICK k \in 0 .. 5, ending \in Remains :
        (ending # << >> => eof[s]) /\ Framing(s, k, ending)
  BY <1>1 DEF Framed
<1>4. /\ wire'[s] = Tail(wire[s]) /\ wire'[s] \in Seq(Token)
      /\ Len(wire[s]) \in Nat /\ Len(wire'[s]) = Len(wire[s]) - 1
      /\ \A p \in 1 .. Len(wire[s]) - 1 : wire'[s][p] = wire[s][p + 1]
  <2>1. wire[s] \in Seq(Token)
    BY <1>3 DEF Framing
  <2>2. QED
    BY <1>1, <1>2, <2>1, TakeLine
<1>5. inbox[s] # << >>
  <2>1. ASSUME inbox[s] = << >>
        PROVE  FALSE
    <3>1. wire[s] = ending
      BY <1>1, <1>3, <2>1, FrontOfWire
    <3>2. QED
      BY <1>2, <3>1, RemainsFacts
  <2>2. QED
    BY <2>1
<1> DEFINE r == inbox[s][1]
<1>6. r \in Request /\ Head(wire[s]) = Line(r, k + 1)
  BY <1>1, <1>3, <1>5, FrontOfWire
<1>7. k = 5
  <2>1. k + 1 \in 1 .. 6
    OBVIOUS
  <2> HIDE DEF r
  <2>2. k + 1 = 6
    BY <1>2, <1>6, <2>1, LinesAreGood
  <2>3. QED
    BY <2>2
<1>8. r.stream = s
  <2>1. 1 \in 1 .. Len(inbox[s])
    BY <1>1, <1>5
  <2>2. QED
    BY <2>1 DEF HandlerInv, OrderInv, UnreadInOrder
<1>9. Received(s, packet[s]) = Head(inbox[s])
  <2>1. packet[s] = Part(r, 5)
    BY <1>3, <1>5, <1>7 DEF Framing
  <2>2. Head(inbox[s]) = r
    BY <1>1, <1>5
  <2> HIDE DEF r
  <2>3. Received(s, Part(r, 5)) = r
    BY <1>6, <1>8, PartGrows
  <2>4. QED
    BY <2>1, <2>2, <2>3
<1>10. ReadRequest(s)
  <2>1. Listen(s, "read", "got") /\ UNCHANGED <<counting, refused, pool>>
    BY DEF WireRead
  <2>2. QED
    BY <1>2, <1>5, <1>9, <2>1 DEF ReadRequest
<1>11. /\ inbox'[s] = Tail(inbox[s]) /\ inbox'[s] \in Seq(Request)
       /\ Len(inbox[s]) \in Nat /\ Len(inbox[s]) > 0
       /\ Len(inbox'[s]) = Len(inbox[s]) - 1
       /\ \A i \in 1 .. Len(inbox[s]) - 1 : inbox'[s][i] = inbox[s][i + 1]
  <2>1. inbox'[s] = Tail(inbox[s])
    BY <1>1, <1>2
  <2>2. QED
    BY <1>1, <1>5, <2>1, HeadTailProperties
<1>12. /\ Len(ending) \in Nat
       /\ Len(wire[s]) = 6 * Len(inbox[s]) - 5 + Len(ending)
       /\ \A i \in 1 .. Len(inbox[s]) : \A j \in 1 .. 6 :
            6 * (i - 1) + j > 5 => wire[s][6 * (i - 1) + j - 5] = Line(inbox[s][i], j)
       /\ \A e \in 1 .. Len(ending) : wire[s][6 * Len(inbox[s]) - 5 + e] = ending[e]
  BY <1>3, <1>7, RemainsFacts DEF Framing
<1>13. ASSUME NEW i \in 1 .. Len(inbox'[s]), NEW j \in 1 .. 6
       PROVE  wire'[s][6 * (i - 1) + j - 0] = Line(inbox'[s][i], j)
  <2>1. i + 1 \in 1 .. Len(inbox[s]) /\ i \in 1 .. Len(inbox[s]) - 1
    BY <1>11
  <2>2. /\ 6 * (i - 1) + j - 0 \in 1 .. Len(wire[s]) - 1
        /\ 6 * (i - 1) + j - 0 + 1 = 6 * ((i + 1) - 1) + j - 5
        /\ 6 * ((i + 1) - 1) + j > 5
    BY <1>11, <1>12, <2>1
  <2>3. wire[s][6 * ((i + 1) - 1) + j - 5] = Line(inbox[s][i + 1], j)
    BY <1>12, <2>1, <2>2
  <2>4. QED
    BY <1>4, <1>11, <2>1, <2>2, <2>3
<1>14. ASSUME NEW e \in 1 .. Len(ending)
       PROVE  wire'[s][6 * Len(inbox'[s]) - 0 + e] = ending[e]
  <2>1. /\ 6 * Len(inbox'[s]) - 0 + e \in 1 .. Len(wire[s]) - 1
        /\ 6 * Len(inbox'[s]) - 0 + e + 1 = 6 * Len(inbox[s]) - 5 + e
    BY <1>11, <1>12
  <2>2. QED
    BY <1>4, <1>12, <2>1
<1>15. Len(wire'[s]) = 6 * Len(inbox'[s]) - 0 + Len(ending)
  <2>1. /\ Len(wire'[s]) = Len(wire[s]) - 1 /\ Len(inbox'[s]) = Len(inbox[s]) - 1
        /\ Len(wire[s]) = 6 * Len(inbox[s]) - 5 + Len(ending)
        /\ Len(inbox[s]) \in Nat /\ Len(ending) \in Nat
    BY <1>4, <1>11, <1>12
  <2>2. QED
    BY <2>1
<1>16. packet'[s] = NoLines(RequestKeys)
  BY <1>1, <1>2
<1>17. inbox'[s] # << >> => packet'[s] = Part(inbox'[s][1], 0)
  <2>1. ASSUME inbox'[s] # << >>
        PROVE  inbox'[s][1] \in Request
    BY <1>11, <2>1
  <2>2. QED
    BY <1>16, <2>1, PartGrows
<1>18. Framing(s, 0, ending)'
  BY <1>4, <1>13, <1>14, <1>15, <1>16, <1>17 DEF Framing
<1>19. 0 \in 0 .. 5
  OBVIOUS
<1>20. QED
  BY <1>2, <1>3, <1>10, <1>18, <1>19 DEF Framed

\* A read fails only when no request is left, or with the connection.
LEMMA ReadFailsLate ==
  ASSUME HandlerInv, WireInv, NEW s \in Streams, WireReadFails(s)
  PROVE  ReadNothing(s)
<1>1. inbox[s] \in Seq(Request) /\ Framed(s)
  BY DEF HandlerInv, TypeOK, WireInv
<1>2. PICK k \in 0 .. 5, ending \in Remains :
        (ending # << >> => eof[s]) /\ Framing(s, k, ending)
  BY <1>1 DEF Framed
<1>3. CASE inbox[s] = << >>
  <2>1. wire[s] = ending
    BY <1>1, <1>2, <1>3, FrontOfWire
  <2>2. ~connected \/ eof[s]
    BY <1>2, <2>1 DEF WireReadFails
  <2>3. QED
    BY <1>3, <2>2 DEF WireReadFails, ReadNothing
<1>4. CASE inbox[s] # << >>
  <2>1. /\ wire[s] # << >> /\ inbox[s][1] \in Request
        /\ Head(wire[s]) = Line(inbox[s][1], k + 1)
    BY <1>1, <1>2, <1>4, FrontOfWire
  <2>2. ~Malformed(RequestKeys, Head(wire[s]))
    <3>1. k + 1 \in 1 .. 6
      OBVIOUS
    <3>2. QED
      BY <2>1, <3>1, LinesAreGood
  <2>3. ~connected
    BY <2>1, <2>2 DEF WireReadFails
  <2>4. QED
    BY <2>3 DEF WireReadFails, ReadNothing
<1>5. QED
  BY <1>3, <1>4

-----------------------------------------------------------------------------
\* Every other step leaves the wires, the packets and the unread requests alone.
LEMMA WireUnchanged ==
  ASSUME WireInv, UNCHANGED <<wire, packet, inbox, eof>>
  PROVE  WireInv'
<1>1. /\ DOMAIN wire' = Streams /\ DOMAIN packet' = Streams
      /\ \A s \in Streams : Framed(s)
  BY DEF WireInv
<1>2. ASSUME NEW s \in Streams
      PROVE  Framed(s)'
  BY <1>1, FramedUnchanged
<1>3. QED
  BY <1>1, <1>2 DEF WireInv

\* and a step on one stream those of the others.
LEMMA WireOfOne ==
  ASSUME WireInv, NEW s \in Streams, Framed(s)',
         DOMAIN wire' = Streams, DOMAIN packet' = Streams,
         \A t \in Streams \ {s} :
           /\ wire'[t] = wire[t] /\ packet'[t] = packet[t]
           /\ inbox'[t] = inbox[t] /\ eof'[t] = eof[t]
  PROVE  WireInv'
<1>1. ASSUME NEW t \in Streams \ {s}
      PROVE  Framed(t)'
  BY FramedUnchanged DEF WireInv
<1>2. QED
  BY <1>1 DEF WireInv

LEMMA WiredStepRefines ==
  ASSUME HandlerInv, WireInv, [WiredNext]_wiredVars
  PROVE  [Next]_vars /\ WireInv'
<1>1. /\ inbox \in [Streams -> Seq(Request)] /\ eof \in [Streams -> BOOLEAN]
      /\ sent \in [Streams -> 0 .. MaxRequests]
      /\ DOMAIN wire = Streams /\ DOMAIN packet = Streams
  BY DEF HandlerInv, TypeOK, WireInv
<1>2. ASSUME NEW s \in Streams, NEW l \in Levels, WireRequest(s, l)
      PROVE  [Next]_vars /\ WireInv'
  <2>1. SendRequest(s, l)
    BY <1>2 DEF WireRequest
  <2>2. /\ DOMAIN wire' = Streams /\ DOMAIN packet' = Streams
        /\ \A t \in Streams \ {s} :
             /\ wire'[t] = wire[t] /\ packet'[t] = packet[t]
             /\ inbox'[t] = inbox[t] /\ eof'[t] = eof[t]
    BY <1>1, <1>2 DEF WireRequest, SendRequest
  <2>3. QED
    BY <1>2, <2>1, <2>2, RequestIsFramed, WireOfOne DEF Next
<1>3. ASSUME NEW s \in Streams, WireEnd(s)
      PROVE  [Next]_vars /\ WireInv'
  <2>1. EndRequests(s)
    BY <1>3 DEF WireEnd
  <2>2. /\ DOMAIN wire' = Streams /\ DOMAIN packet' = Streams
        /\ \A t \in Streams \ {s} :
             /\ wire'[t] = wire[t] /\ packet'[t] = packet[t]
             /\ inbox'[t] = inbox[t] /\ eof'[t] = eof[t]
    BY <1>1, <1>3 DEF WireEnd, EndRequests
  <2>3. QED
    BY <1>3, <2>1, <2>2, EndIsFramed, WireOfOne DEF Next
<1>4. ASSUME NEW s \in Streams, WireReadLine(s)
      PROVE  [Next]_vars /\ WireInv'
  <2>1. UNCHANGED vars
    BY <1>4 DEF WireReadLine
  <2>2. /\ DOMAIN wire' = Streams /\ DOMAIN packet' = Streams
        /\ \A t \in Streams \ {s} :
             /\ wire'[t] = wire[t] /\ packet'[t] = packet[t]
             /\ inbox'[t] = inbox[t] /\ eof'[t] = eof[t]
    BY <1>1, <1>4, <2>1 DEF WireReadLine, vars, client
  <2>3. QED
    BY <1>4, <2>1, <2>2, LineIsFramed, WireOfOne
<1>5. ASSUME NEW s \in Streams, WireRead(s)
      PROVE  [Next]_vars /\ WireInv'
  <2>1. ReadRequest(s) /\ Framed(s)'
    BY <1>5, RequestIsRead
  <2>2. /\ DOMAIN wire' = Streams /\ DOMAIN packet' = Streams
        /\ \A t \in Streams \ {s} :
             /\ wire'[t] = wire[t] /\ packet'[t] = packet[t]
             /\ inbox'[t] = inbox[t] /\ eof'[t] = eof[t]
    BY <1>1, <1>5 DEF WireRead, Listen
  <2>3. QED
    BY <2>1, <2>2, WireOfOne DEF Next, ListenStep
<1>6. ASSUME NEW s \in Streams, WireReadFails(s)
      PROVE  [Next]_vars /\ WireInv'
  <2>1. ReadNothing(s)
    BY <1>6, ReadFailsLate
  <2>2. UNCHANGED <<wire, packet, inbox, eof>>
    BY <1>6 DEF WireReadFails, Listen, wiring
  <2>3. QED
    BY <2>1, <2>2, WireUnchanged DEF Next, ListenStep
<1>7. ASSUME NEW s \in Streams, ListenBetweenReads(s), UNCHANGED wiring
      PROVE  [Next]_vars /\ WireInv'
  <2>1. UNCHANGED <<wire, packet, inbox, eof>>
    BY <1>7 DEF ListenBetweenReads, CountLoad, CountStore, EnqueueAccepted,
                EnqueueRefused, UncountLoad, UncountStore, UncountTest, Listen, wiring
  <2>2. QED
    BY <1>7, <2>1, WireUnchanged DEF Next, ListenStep
<1>8. CASE WiredAcceptor \/ ConnectionEnds
  <2>1. UNCHANGED <<wire, packet, inbox, eof>>
    BY <1>8 DEF WiredAcceptor, ConnectionEnds, AcceptStream, HandleStream,
                StopOnDisconnect, Disconnect, EndContext, client, wiring
  <2>2. QED
    BY <1>8, <2>1, WireUnchanged DEF WiredAcceptor, ConnectionEnds, Next
<1>9. CASE WiredWorkerStep
  <2>1. WorkerStep /\ UNCHANGED <<wire, packet>>
    BY <1>9 DEF WiredWorkerStep
  <2>2. UNCHANGED <<inbox, eof>>
    BY <2>1 DEF WorkerStep, BeginTask, Respond, IgnoreExpired, DoneLoad, DoneStore,
                DoneTest, Work, client
  <2>3. QED
    BY <2>1, <2>2, WireUnchanged DEF Next
<1>10. CASE UNCHANGED wiredVars
  <2>1. UNCHANGED <<vars, wire, packet, inbox, eof>>
    BY <1>10 DEF wiredVars, wiring, vars, client
  <2>2. QED
    BY <2>1, WireUnchanged
<1>11. QED
  BY <1>2, <1>3, <1>4, <1>5, <1>6, <1>7, <1>8, <1>9, <1>10
     DEF WiredNext, WiredListenStep

LEMMA InitWire ==
  ASSUME WiredInit
  PROVE  WireInv
<1>1. /\ wire = [s \in Streams |-> << >>] /\ inbox = [s \in Streams |-> << >>]
      /\ packet = [s \in Streams |-> NoLines(RequestKeys)]
  BY DEF WiredInit, Init
<1>2. ASSUME NEW s \in Streams
      PROVE  Framed(s)
  <2>1. Framing(s, 0, << >>)
    <3>1. /\ wire[s] = << >> /\ inbox[s] = << >> /\ packet[s] = NoLines(RequestKeys)
      BY <1>1
    <3>2. << >> \in Seq(Token) /\ Len(<< >>) = 0
      OBVIOUS
    <3>3. \A i \in 1 .. 0 : FALSE
      OBVIOUS
    <3>4. QED
      BY <3>1, <3>2, <3>3 DEF Framing
  <2>2. << >> \in Remains /\ 0 \in 0 .. 5
    BY DEF Remains, Endings
  <2>3. QED
    BY <2>1, <2>2 DEF Framed
<1>3. QED
  BY <1>1, <1>2 DEF WireInv

LEMMA WiredInvHolds == WiredSpec => Spec /\ [](HandlerInv /\ WireInv)
<1>1. WiredInit => Init /\ HandlerInv /\ WireInv
  BY InitHandler, InitWire DEF WiredInit
<1>2. HandlerInv /\ WireInv /\ [WiredNext]_wiredVars
        => [Next]_vars /\ (HandlerInv /\ WireInv)'
  BY WiredStepRefines, NextHandler
<1>3. QED
  BY <1>1, <1>2, PTL DEF WiredSpec, Spec

\* Whatever is on the wire, and wherever the client's stream breaks off, the
\* listeners find in it exactly the requests the client wrote, in order and each
\* once, and end where these end: with its wires the connection does what it does
\* when requests arrive as such.
THEOREM WireRefinement == WiredSpec => ImplementsHandler
<1>1. QED
  BY WiredInvHolds, PTL DEF ImplementsHandler

\* So what is true of the handler is true of it with its wires.
THEOREM WiredRepliesCorrect == WiredSpec => [](TypeOK /\ RepliesInOrder)
<1>1. QED
  BY WiredInvHolds, TypeCorrect, RepliesCorrect, PTL

-----------------------------------------------------------------------------
(* Reading packets.  FoldLeft and ReadAll are recursive functions: that    *)
(* there is one such function, and what it returns, is shown of the least  *)
(* number for which it might not be so.                                    *)

\* "<" among the naturals, as a relation.
NatOrder == OpToRel(<, Nat)

\* A set of naturals that is not empty has a least member.
LEMMA LeastMember ==
  ASSUME NEW T \in SUBSET Nat, T # {}
  PROVE  \E k \in T : \A j \in T : k <= j
<1>1. NatOrder = {ss \in Nat \X Nat : ss[1] < ss[2]}
  BY DEF NatOrder, OpToRel
<1>2. IsWellFoundedOn(NatOrder, Nat)
  BY NatLessThanWellFounded DEF NatOrder
<1>3. PICK k \in T : \A j \in T : <<j, k>> \notin NatOrder
  BY <1>2, WFMin
<1>4. \A j \in T : ~(j < k)
  BY <1>1, <1>3
<1>5. QED
  BY <1>4

\* it is how FoldLeft folds the lines with these indices into a packet.
FoldIs(it, base, lines, S) ==
  it = [s \in SUBSET S |->
          IF s = {} THEN base ELSE ReadLine(it[s \ {Max(s)}], lines[Max(s)])]

LEMMA FoldIsFold ==
  ASSUME NEW base, NEW lines
  PROVE  FoldLeft(ReadLine, base, lines)
           = (CHOOSE it : FoldIs(it, base, lines, DOMAIN lines))[DOMAIN lines]
BY DEF FoldLeft, MapThenFoldSet, FoldIs

\* The greatest element of a set of numbers that is bounded by one of its own.
LEMMA MaxIs ==
  ASSUME NEW n \in Nat, NEW s \in SUBSET (1 .. n), n \in s
  PROVE  Max(s) = n
<1>1. \A y \in s : n >= y
  OBVIOUS
<1>2. \A x \in s : (\A y \in s : x >= y) => x = n
  OBVIOUS
<1>3. QED
  BY <1>1, <1>2 DEF Max

LEMMA FoldExists ==
  ASSUME NEW base, NEW lines, NEW n \in Nat
  PROVE  \E it : FoldIs(it, base, lines, 1 .. n)
<1> DEFINE T == {k \in Nat : ~ \E it : FoldIs(it, base, lines, 1 .. k)}
<1>1. SUFFICES ASSUME T # {} PROVE FALSE
  OBVIOUS
<1>2. PICK k \in T : \A j \in T : k <= j
  <2>1. T \in SUBSET Nat
    OBVIOUS
  <2> HIDE DEF T
  <2>2. QED
    BY <1>1, <2>1, LeastMember
<1>3. k # 0
  <2>1. FoldIs([s \in SUBSET (1 .. 0) |-> base], base, lines, 1 .. 0)
    <3>1. \A s \in SUBSET (1 .. 0) : s = {}
      OBVIOUS
    <3>2. QED
      BY <3>1 DEF FoldIs
  <2>2. QED
    BY <1>2, <2>1
<1>4. k \in Nat /\ k - 1 \in Nat /\ k - 1 \notin T
  <2>1. k \in Nat
    OBVIOUS
  <2>2. k - 1 \in Nat /\ ~(k <= k - 1)
    BY <1>3, <2>1
  <2>3. QED
    BY <1>2, <2>1, <2>2
<1>5. PICK it : FoldIs(it, base, lines, 1 .. k - 1)
  BY <1>4
<1>6. FALSE
  <2> DEFINE more == [s \in SUBSET (1 .. k) |->
                        IF k \in s THEN ReadLine(it[s \ {k}], lines[k]) ELSE it[s]]
  <2>1. ASSUME NEW s \in SUBSET (1 .. k)
        PROVE  more[s] = IF s = {} THEN base
                         ELSE ReadLine(more[s \ {Max(s)}], lines[Max(s)])
    <3>1. CASE k \in s
      <4>1. Max(s) = k /\ s # {}
        BY <1>4, <3>1, MaxIs
      <4>2. s \ {k} \in SUBSET (1 .. k) /\ k \notin s \ {k}
        OBVIOUS
      <4>3. more[s \ {k}] = it[s \ {k}]
        BY <4>2
      <4>4. QED
        BY <3>1, <4>1, <4>3
    <3>2. CASE k \notin s
      <4>1. s \in SUBSET (1 .. k - 1)
        BY <1>4, <3>2
      <4>2. it[s] = IF s = {} THEN base ELSE ReadLine(it[s \ {Max(s)}], lines[Max(s)])
        BY <1>5, <4>1 DEF FoldIs
      <4>3. more[s \ {Max(s)}] = it[s \ {Max(s)}]
        BY <3>2
      <4>4. QED
        BY <3>2, <4>2, <4>3
    <3>3. QED
      BY <3>1, <3>2
  <2>2. DOMAIN more = SUBSET (1 .. k)
    OBVIOUS
  <2>3. more = [s \in SUBSET (1 .. k) |-> more[s]]
    OBVIOUS
  <2> HIDE DEF more
  <2>4. FoldIs(more, base, lines, 1 .. k)
    BY <2>1, <2>3 DEF FoldIs
  <2>5. QED
    BY <1>2, <2>4
<1>7. QED
  BY <1>6

\* Five lines are read one after the other.
LEMMA FoldFive ==
  ASSUME NEW base, NEW lines, DOMAIN lines = 1 .. 5
  PROVE  FoldLeft(ReadLine, base, lines)
           = ReadLine(ReadLine(ReadLine(ReadLine(ReadLine(base,
               lines[1]), lines[2]), lines[3]), lines[4]), lines[5])
<1> DEFINE it == CHOOSE it : FoldIs(it, base, lines, 1 .. 5)
<1>1. FoldIs(it, base, lines, 1 .. 5)
  BY FoldExists
<1>2. FoldLeft(ReadLine, base, lines) = it[1 .. 5]
  BY FoldIsFold
<1> HIDE DEF it
<1>3. it[1 .. 0] = base
  <2>1. 1 .. 0 = {} /\ {} \in SUBSET (1 .. 5)
    OBVIOUS
  <2>2. QED
    BY <1>1, <2>1 DEF FoldIs
<1>4. \A n \in 1 .. 5 : it[1 .. n] = ReadLine(it[1 .. n - 1], lines[n])
  <2> TAKE n \in 1 .. 5
  <2>1. 1 .. n \in SUBSET (1 .. 5) /\ 1 .. n # {} /\ n \in 1 .. n
    OBVIOUS
  <2>2. Max(1 .. n) = n
    BY <2>1, MaxIs
  <2>3. (1 .. n) \ {n} = 1 .. n - 1
    OBVIOUS
  <2>4. it[1 .. n] = ReadLine(it[(1 .. n) \ {Max(1 .. n)}], lines[Max(1 .. n)])
    BY <1>1, <2>1 DEF FoldIs
  <2>5. QED
    BY <2>2, <2>3, <2>4
<1>5. /\ it[1 .. 1] = ReadLine(it[1 .. 0], lines[1])
      /\ it[1 .. 2] = ReadLine(it[1 .. 1], lines[2])
      /\ it[1 .. 3] = ReadLine(it[1 .. 2], lines[3])
      /\ it[1 .. 4] = ReadLine(it[1 .. 3], lines[4])
      /\ it[1 .. 5] = ReadLine(it[1 .. 4], lines[5])
  <2>1. /\ 1 - 1 = 0 /\ 2 - 1 = 1 /\ 3 - 1 = 2 /\ 4 - 1 = 3 /\ 5 - 1 = 4
        /\ {1, 2, 3, 4, 5} \subseteq 1 .. 5
    OBVIOUS
  <2> DEFINE upTo(n) == it[1 .. n]
  <2>2. \A n \in 1 .. 5 : upTo(n) = ReadLine(upTo(n - 1), lines[n])
    BY <1>4
  <2> HIDE DEF upTo
  <2>3. /\ upTo(1) = ReadLine(upTo(0), lines[1])
        /\ upTo(2) = ReadLine(upTo(1), lines[2])
        /\ upTo(3) = ReadLine(upTo(2), lines[3])
        /\ upTo(4) = ReadLine(upTo(3), lines[4])
        /\ upTo(5) = ReadLine(upTo(4), lines[5])
    BY <2>1, <2>2
  <2>4. QED
    BY <2>3 DEF upTo
<1>6. QED
  BY <1>2, <1>3, <1>5

\* What the reader returns that stands after the first n tokens, if f is what it
\* returns from further on.
ReadsFrom(tokens, f, n) ==
  LET read == ReadVideoPacketResponse(tokens, n)
  IN IF read = {} THEN << >>
     ELSE LET r == CHOOSE r \in read : TRUE
          IN <<[packet |-> r.packet, data |-> r.data]>> \o f[r.end]

IsReader(tokens, f, m) == f = [n \in m .. Len(tokens) |-> ReadsFrom(tokens, f, n)]

LEMMA ReadAllIs ==
  ASSUME NEW tokens
  PROVE  ReadAll(tokens) = (CHOOSE f : IsReader(tokens, f, 0))[0]
BY DEF ReadAll, IsReader, ReadsFrom

LEMMA MinIs ==
  ASSUME NEW S \in SUBSET Nat, S # {}
  PROVE  Min(S) \in S /\ \A j \in S : Min(S) <= j
<1>1. \E k \in S : \A j \in S : k <= j
  BY LeastMember
<1>2. QED
  BY <1>1 DEF Min

\* The reader never stands still: what it reads ends after where it begins.
LEMMA ReadMoves ==
  ASSUME NEW tokens, Len(tokens) \in Nat, NEW n \in Nat,
         ReadVideoPacketResponse(tokens, n) # {}
  PROVE  \E r : /\ ReadVideoPacketResponse(tokens, n) = {r}
                /\ r.end \in n + 1 .. Len(tokens)
<1> DEFINE ends == {i \in n + 1 .. Len(tokens) :
                      tokens[i] = Blank \/ Malformed(LengthKeys, tokens[i])}
           last == Min(ends)
           headers == FoldLeft(ReadLine, NoLines(LengthKeys), SubSeq(tokens, n + 1, last - 1))
           end == last + headers["Content-Length"]
           response == [packet |-> Restrict(headers, ToSet(ResponseKeys)),
                        data |-> SubSeq(tokens, last + 1, end),
                        end |-> end]
<1>1. ReadVideoPacketResponse(tokens, n)
        = IF \/ ends = {} \/ tokens[last] # Blank
             \/ headers["Content-Length"] \notin Nat \/ end > Len(tokens)
          THEN {} ELSE {response}
  BY DEF ReadVideoPacketResponse
<1>2. response.end = end
  OBVIOUS
<1>3. ends # {} => last \in n + 1 .. Len(tokens)
  <2>1. ends \in SUBSET Nat /\ ends \in SUBSET (n + 1 .. Len(tokens))
    OBVIOUS
  <2> HIDE DEF ends
  <2>2. QED
    BY <2>1, MinIs
<1> HIDE DEF ends, headers, response, last
<1>4. /\ ReadVideoPacketResponse(tokens, n) = {response}
      /\ ends # {} /\ headers["Content-Length"] \in Nat /\ ~(end > Len(tokens))
  BY <1>1
<1>5. end \in n + 1 .. Len(tokens)
  BY <1>3, <1>4
<1>6. QED
  BY <1>2, <1>4, <1>5

LEMMA ReaderExists ==
  ASSUME NEW tokens, Len(tokens) \in Nat
  PROVE  \E f : IsReader(tokens, f, 0)
<1> DEFINE L == Len(tokens)
           T == {k \in 0 .. L + 1 : ~ \E f : IsReader(tokens, f, L + 1 - k)}
<1>1. SUFFICES ASSUME T # {} PROVE FALSE
  <2>1. L + 1 \in 0 .. L + 1 /\ L + 1 - (L + 1) = 0
    OBVIOUS
  <2>2. QED
    BY <2>1
<1>2. PICK k \in T : \A j \in T : k <= j
  <2>1. T \in SUBSET Nat
    OBVIOUS
  <2> HIDE DEF T
  <2>2. QED
    BY <1>1, <2>1, LeastMember
<1>3. k \in 0 .. L + 1 /\ ~ \E f : IsReader(tokens, f, L + 1 - k)
  OBVIOUS
<1>4. k # 0
  <2>1. IsReader(tokens, [n \in L + 1 .. L |-> << >>], L + 1)
    <3>1. L + 1 .. L = {}
      OBVIOUS
    <3>2. QED
      BY <3>1 DEF IsReader
  <2>2. L + 1 - 0 = L + 1
    OBVIOUS
  <2>3. QED
    BY <1>3, <2>1, <2>2
<1> DEFINE m == L + 1 - k
<1>5. m \in 0 .. L /\ k - 1 \in 0 .. L + 1 /\ ~(k <= k - 1) /\ L + 1 - (k - 1) = m + 1
  BY <1>3, <1>4
<1>6. PICK f : IsReader(tokens, f, m + 1)
  <2>1. k - 1 \notin T
    BY <1>2, <1>5
  <2>2. \E f : IsReader(tokens, f, L + 1 - (k - 1))
    BY <1>5, <2>1
  <2>3. QED
    BY <1>5, <2>2
<1> HIDE DEF T, m
<1> DEFINE more == [n \in m .. L |-> IF n = m THEN ReadsFrom(tokens, f, m) ELSE f[n]]
<1>7. ASSUME NEW n \in m .. L
      PROVE  more[n] = ReadsFrom(tokens, more, n)
  <2>1. n \in Nat /\ m \in Nat /\ L \in Nat
    BY <1>5
  <2>2. more[n] = ReadsFrom(tokens, f, n)
    <3>1. CASE n = m
      BY <3>1
    <3>2. CASE n # m
      <4>1. n \in m + 1 .. Len(tokens)
        BY <2>1, <3>2
      <4>2. f[n] = ReadsFrom(tokens, f, n)
        BY <1>6, <4>1 DEF IsReader
      <4>3. QED
        BY <3>2, <4>2
    <3>3. QED
      BY <3>1, <3>2
  <2>3. ReadsFrom(tokens, more, n) = ReadsFrom(tokens, f, n)
    <3>1. CASE ReadVideoPacketResponse(tokens, n) = {}
      BY <3>1 DEF ReadsFrom
    <3>2. CASE ReadVideoPacketResponse(tokens, n) # {}
      <4>1. PICK r : /\ ReadVideoPacketResponse(tokens, n) = {r}
                     /\ r.end \in n + 1 .. Len(tokens)
        BY <2>1, <3>2, ReadMoves
      <4>2. (CHOOSE q \in ReadVideoPacketResponse(tokens, n) : TRUE) = r
        BY <4>1
      <4>3. r.end \in m .. L /\ r.end # m
        BY <2>1, <4>1
      <4>4. more[r.end] = f[r.end]
        BY <4>3
      <4> HIDE DEF more
      <4>5. \A g : ReadsFrom(tokens, g, n)
                     = <<[packet |-> r.packet, data |-> r.data]>> \o g[r.end]
        BY <3>2, <4>2 DEF ReadsFrom
      <4>6. QED
        BY <4>4, <4>5
    <3>3. QED
      BY <3>1, <3>2
  <2>4. QED
    BY <2>2, <2>3
<1>8. IsReader(tokens, more, m)
  <2>1. more = [n \in m .. L |-> more[n]]
    OBVIOUS
  <2> HIDE DEF more
  <2>2. QED
    BY <1>7, <2>1 DEF IsReader
<1>9. QED
  BY <1>3, <1>8 DEF m

-----------------------------------------------------------------------------
(* The responses                                                           *)

\* What a file may hold,
FileToken == [key : STRING, value : Int \cup {NotANumber}]
\* and what the server writes.
OutToken ==
  FileToken \cup {Header("Priority", l) : l \in Levels}
            \cup {Header("Segment", n) : n \in 1 .. MaxRequests}
            \cup {Header("Content-Length", n) : n \in Nat}
            \cup {Header("Bitrate", Bitrate), Header("Tile", Tile), Blank}

\* The lines of a response and its data.
Written(r, data) == WriteResponse(PacketOf(r), data)

LEMMA ResponseLines ==
  ASSUME NEW r \in Request, NEW data \in Seq(FileToken)
  PROVE  /\ Written(r, data) \in Seq(OutToken)
         /\ Len(Written(r, data)) = 6 + Len(data)
         /\ Written(r, data)[1] = Header("Priority", r.priority)
         /\ Written(r, data)[2] = Header("Bitrate", Bitrate)
         /\ Written(r, data)[3] = Header("Segment", r.n)
         /\ Written(r, data)[4] = Header("Tile", Tile)
         /\ Written(r, data)[5] = Header("Content-Length", Len(data))
         /\ Written(r, data)[6] = Blank
         /\ \A j \in 1 .. Len(data) : Written(r, data)[6 + j] = data[j]
<1> DEFINE headers == Headers(ResponseKeys, PacketOf(r))
           middle == <<Header("Content-Length", Len(data)), Blank>>
<1>1. headers = [i \in 1 .. 4 |-> Header(ResponseKeys[i], PacketOf(r)[ResponseKeys[i]])]
  BY DEF Headers, ResponseKeys
<1>2. /\ PacketOf(r)["Priority"] = r.priority /\ PacketOf(r)["Bitrate"] = Bitrate
      /\ PacketOf(r)["Segment"] = r.n /\ PacketOf(r)["Tile"] = Tile
  BY DEF PacketOf, ToSet, RequestKeys
<1>3. /\ headers[1] = Header("Priority", r.priority)
      /\ headers[2] = Header("Bitrate", Bitrate)
      /\ headers[3] = Header("Segment", r.n)
      /\ headers[4] = Header("Tile", Tile)
  BY <1>1, <1>2 DEF ResponseKeys
<1>4. /\ r.priority \in Levels /\ r.n \in 1 .. MaxRequests /\ Len(data) \in Nat
  BY DEF Request
<1>5. headers \in Seq(OutToken) /\ Len(headers) = 4
  <2>1. /\ Header("Priority", r.priority) \in OutToken /\ Header("Bitrate", Bitrate) \in OutToken
        /\ Header("Segment", r.n) \in OutToken /\ Header("Tile", Tile) \in OutToken
    <3> HIDE DEF headers
    <3>1. QED
      BY <1>4 DEF OutToken
  <2>2. \A i \in 1 .. 4 : headers[i] \in OutToken
    <3>1. \A i \in 1 .. 4 : i \in {1, 2, 3, 4}
      OBVIOUS
    <3> HIDE DEF headers
    <3>2. QED
      BY <1>3, <2>1, <3>1
  <2>3. headers \in [1 .. 4 -> OutToken]
    BY <1>1, <2>2
  <2> HIDE DEF headers
  <2>4. PICK n \in Nat : n = 4
    OBVIOUS
  <2>5. headers \in [1 .. n -> OutToken]
    BY <2>3, <2>4
  <2>6. headers \in Seq(OutToken) /\ Len(headers) = n
    BY <2>5
  <2>7. QED
    BY <2>4, <2>6
<1>6. /\ middle \in Seq(OutToken) /\ Len(middle) = 2
      /\ middle[1] = Header("Content-Length", Len(data)) /\ middle[2] = Blank
  <2>1. Header("Content-Length", Len(data)) \in OutToken /\ Blank \in OutToken
    <3> HIDE DEF headers, middle
    <3>1. QED
      BY <1>4 DEF OutToken
  <2> HIDE DEF headers
  <2>2. QED
    BY <2>1
<1>7. data \in Seq(OutToken)
  <2>1. FileToken \subseteq OutToken
    BY DEF OutToken
  <2>2. \A i \in 1 .. Len(data) : data[i] \in FileToken
    OBVIOUS
  <2>3. QED
    BY <2>1, <2>2
<1>8. Written(r, data) = (headers \o middle) \o data
  BY DEF Written, WriteResponse
<1> HIDE DEF headers, middle
<1>9. /\ headers \o middle \in Seq(OutToken)
      /\ Len(headers \o middle) = 6
      /\ \A i \in 1 .. 4 : (headers \o middle)[i] = headers[i]
      /\ (headers \o middle)[5] = middle[1] /\ (headers \o middle)[6] = middle[2]
  <2>1. PICK four \in Nat, two \in Nat : four = 4 /\ two = 2
    OBVIOUS
  <2>6. Len(headers) = four /\ Len(middle) = two
    BY <1>5, <1>6, <2>1
  <2>7. /\ headers \o middle \in Seq(OutToken)
        /\ Len(headers \o middle) = four + two
        /\ \A i \in 1 .. four + two :
             (headers \o middle)[i] = IF i <= four THEN headers[i] ELSE middle[i - four]
    BY <1>5, <1>6, <2>6, ConcatProperties
  <2>2. \A i \in 1 .. 4 : i \in 1 .. 4 + 2 /\ i <= 4
    OBVIOUS
  <2>3. 5 \in 1 .. 4 + 2 /\ ~(5 <= 4) /\ 5 - 4 = 1 /\ 6 \in 1 .. 4 + 2 /\ ~(6 <= 4) /\ 6 - 4 = 2
    OBVIOUS
  <2>4. QED
    BY <2>1, <2>2, <2>3, <2>7
<1>10. /\ Written(r, data) \in Seq(OutToken)
       /\ Len(Written(r, data)) = 6 + Len(data)
       /\ \A i \in 1 .. 6 : Written(r, data)[i] = (headers \o middle)[i]
       /\ \A j \in 1 .. Len(data) : Written(r, data)[6 + j] = data[j]
  <2> DEFINE head == headers \o middle
  <2> HIDE DEF head
  <2>1. head \in Seq(OutToken) /\ Len(head) = 6
    BY <1>9 DEF head
  <2>2. /\ head \o data \in Seq(OutToken) /\ Len(head \o data) = 6 + Len(data)
        /\ \A i \in 1 .. 6 + Len(data) :
             (head \o data)[i] = IF i <= 6 THEN head[i] ELSE data[i - 6]
    <3>1. PICK six \in Nat : six = 6
      OBVIOUS
    <3>2. Len(head) = six
      BY <2>1, <3>1
    <3>3. /\ head \o data \in Seq(OutToken) /\ Len(head \o data) = six + Len(data)
          /\ \A i \in 1 .. six + Len(data) :
               (head \o data)[i] = IF i <= six THEN head[i] ELSE data[i - six]
      BY <1>4, <1>7, <2>1, <3>2, ConcatProperties
    <3>4. QED
      BY <3>1, <3>3
  <2>3. \A i \in 1 .. 6 : i \in 1 .. 6 + Len(data) /\ i <= 6
    BY <1>4
  <2>4. \A j \in 1 .. Len(data) :
          6 + j \in 1 .. 6 + Len(data) /\ ~(6 + j <= 6) /\ 6 + j - 6 = j
    BY <1>4
  <2>5. Written(r, data) = head \o data
    BY <1>8 DEF head
  <2>6. QED
    BY <2>2, <2>3, <2>4, <2>5 DEF head
<1>11. QED
  BY <1>3, <1>6, <1>9, <1>10

\* A line with a key that is known sets it.
LEMMA LineIsRead ==
  ASSUME NEW h, NEW key \in DOMAIN h, NEW value
  PROVE  /\ DOMAIN ReadLine(h, Header(key, value)) = DOMAIN h
         /\ ReadLine(h, Header(key, value))[key] = value
         /\ \A k \in DOMAIN h : k # key => ReadLine(h, Header(key, value))[k] = h[k]
<1>1. Header(key, value).key = key /\ Header(key, value).value = value
  BY DEF Header
<1>2. ReadLine(h, Header(key, value)) = [h EXCEPT ![key] = value]
  BY <1>1 DEF ReadLine
<1>3. QED
  BY <1>2

\* What the reader makes of the header of a response.
LEMMA HeaderIsRead ==
  ASSUME NEW r \in Request, NEW length \in Nat
  PROVE  LET headers == ReadLine(ReadLine(ReadLine(ReadLine(ReadLine(NoLines(LengthKeys),
                          Header("Priority", r.priority)), Header("Bitrate", Bitrate)),
                          Header("Segment", r.n)), Header("Tile", Tile)),
                          Header("Content-Length", length))
         IN /\ headers["Content-Length"] = length
            /\ Restrict(headers, ToSet(ResponseKeys)) = Restrict(PacketOf(r), ToSet(ResponseKeys))
<1> DEFINE keys == {"Priority", "Bitrate", "Segment", "Tile", "Content-Length"}
           h0 == NoLines(LengthKeys)
           h1 == ReadLine(h0, Header("Priority", r.priority))
           h2 == ReadLine(h1, Header("Bitrate", Bitrate))
           h3 == ReadLine(h2, Header("Segment", r.n))
           h4 == ReadLine(h3, Header("Tile", Tile))
           h5 == ReadLine(h4, Header("Content-Length", length))
<1>1. ToSet(LengthKeys) = keys
  BY DEF ToSet, LengthKeys, ResponseKeys
<1>2. ToSet(ResponseKeys) = {"Priority", "Bitrate", "Segment", "Tile"}
  BY DEF ToSet, ResponseKeys
<1>3. /\ PacketOf(r)["Priority"] = r.priority /\ PacketOf(r)["Bitrate"] = Bitrate
      /\ PacketOf(r)["Segment"] = r.n /\ PacketOf(r)["Tile"] = Tile
  BY DEF PacketOf, ToSet, RequestKeys
<1>5. DOMAIN h0 = keys
  BY <1>1 DEF NoLines
<1>6. keys = {"Priority", "Bitrate", "Segment", "Tile", "Content-Length"}
  OBVIOUS
<1> HIDE DEF h0, keys
<1>7. /\ DOMAIN h1 = keys /\ h1["Priority"] = r.priority
      /\ \A key \in keys : key # "Priority" => h1[key] = h0[key]
  <2>1. "Priority" \in DOMAIN h0
    BY <1>6, <1>5
  <2>2. QED
    BY <1>5, <2>1, LineIsRead
<1> HIDE DEF h1
<1>8. /\ DOMAIN h2 = keys /\ h2["Bitrate"] = Bitrate
      /\ \A key \in keys : key # "Bitrate" => h2[key] = h1[key]
  <2>1. "Bitrate" \in DOMAIN h1
    BY <1>6, <1>7
  <2>2. QED
    BY <1>7, <2>1, LineIsRead
<1> HIDE DEF h2
<1>9. /\ DOMAIN h3 = keys /\ h3["Segment"] = r.n
      /\ \A key \in keys : key # "Segment" => h3[key] = h2[key]
  <2>1. "Segment" \in DOMAIN h2
    BY <1>6, <1>8
  <2>2. QED
    BY <1>8, <2>1, LineIsRead
<1> HIDE DEF h3
<1>10. /\ DOMAIN h4 = keys /\ h4["Tile"] = Tile
      /\ \A key \in keys : key # "Tile" => h4[key] = h3[key]
  <2>1. "Tile" \in DOMAIN h3
    BY <1>6, <1>9
  <2>2. QED
    BY <1>9, <2>1, LineIsRead
<1> HIDE DEF h4
<1>11. /\ DOMAIN h5 = keys /\ h5["Content-Length"] = length
      /\ \A key \in keys : key # "Content-Length" => h5[key] = h4[key]
  <2>1. "Content-Length" \in DOMAIN h4
    BY <1>6, <1>10
  <2>2. QED
    BY <1>10, <2>1, LineIsRead
<1> HIDE DEF h5
<1>12. /\ h5["Priority"] = r.priority /\ h5["Bitrate"] = Bitrate /\ h5["Segment"] = r.n
       /\ h5["Tile"] = Tile /\ h5["Content-Length"] = length
  BY <1>6, <1>7, <1>8, <1>9, <1>10, <1>11
<1>13. Restrict(h5, ToSet(ResponseKeys)) = Restrict(PacketOf(r), ToSet(ResponseKeys))
  BY <1>2, <1>3, <1>12 DEF Restrict
<1>14. QED
  BY <1>12, <1>13 DEF h0, h1, h2, h3, h4, h5
\* The lines before the empty one of a header.
LEMMA HeaderLines ==
  ASSUME NEW r \in Request, NEW data \in Seq(FileToken), NEW j \in 1 .. 5
  PROVE  Written(r, data)[j] # Blank /\ ~Malformed(LengthKeys, Written(r, data)[j])
<1> DEFINE line == Written(r, data)[j]
<1>1. /\ r.priority \in Levels /\ r.n \in 1 .. MaxRequests /\ Len(data) \in Nat
      /\ r.n \in Nat
  BY ConstantsAssumption DEF Request
<1>2. \E key \in {"Priority", "Bitrate", "Segment", "Tile", "Content-Length"} :
        \E value \in Nat \cup Levels \cup {Bitrate, Tile, Timeout} : line = Header(key, value)
  <2>1. j \in {1, 2, 3, 4, 5}
    OBVIOUS
  <2> HIDE DEF line
  <2>2. /\ j = 1 => line = Header("Priority", r.priority)
        /\ j = 2 => line = Header("Bitrate", Bitrate)
        /\ j = 3 => line = Header("Segment", r.n)
        /\ j = 4 => line = Header("Tile", Tile)
        /\ j = 5 => line = Header("Content-Length", Len(data))
    BY ResponseLines DEF line
  <2>3. QED
    BY <1>1, <2>1, <2>2
<1> HIDE DEF line
<1>3. PICK key \in {"Priority", "Bitrate", "Segment", "Tile", "Content-Length"},
           value \in Nat \cup Levels \cup {Bitrate, Tile, Timeout} : line = Header(key, value)
  BY <1>2
<1>4. line.key = key /\ line.value = value /\ value # NotANumber
  BY <1>3, WiredAssumption DEF Header
<1>5. Blank.key = "" /\ NotAPair.key = "not a key value pair"
  BY DEF Blank, NotAPair, Header
<1>6. line # Blank /\ line # NotAPair
  BY <1>3, <1>4, <1>5
<1>7. QED
  BY <1>4, <1>6 DEF Malformed, line

\* The reader at the start of a response that has arrived in part or in full.
LEMMA ReadWritten ==
  ASSUME NEW tokens \in Seq(OutToken), NEW n \in Nat,
         NEW r \in Request, NEW data \in Seq(FileToken),
         \A j \in 1 .. 6 + Len(data) :
           n + j <= Len(tokens) => tokens[n + j] = Written(r, data)[j]
  PROVE  ReadVideoPacketResponse(tokens, n)
           = IF n + 6 + Len(data) <= Len(tokens)
             THEN {[packet |-> Restrict(PacketOf(r), ToSet(ResponseKeys)),
                    data |-> data,
                    end |-> n + 6 + Len(data)]}
             ELSE {}
<1> DEFINE ends == {i \in n + 1 .. Len(tokens) :
                      tokens[i] = Blank \/ Malformed(LengthKeys, tokens[i])}
           last == Min(ends)
           lines == SubSeq(tokens, n + 1, last - 1)
           headers == FoldLeft(ReadLine, NoLines(LengthKeys), lines)
           end == last + headers["Content-Length"]
           response == [packet |-> Restrict(headers, ToSet(ResponseKeys)),
                        data |-> SubSeq(tokens, last + 1, end),
                        end |-> end]
<1>1. ReadVideoPacketResponse(tokens, n)
        = IF \/ ends = {} \/ tokens[last] # Blank
             \/ headers["Content-Length"] \notin Nat \/ end > Len(tokens)
          THEN {} ELSE {response}
  BY DEF ReadVideoPacketResponse
<1>2. Len(data) \in Nat /\ Len(tokens) \in Nat
  OBVIOUS
<1>3. \A i \in ends : n + 6 <= i
  <2> SUFFICES ASSUME NEW i \in n + 1 .. Len(tokens), ~(n + 6 <= i),
                      tokens[i] = Blank \/ Malformed(LengthKeys, tokens[i])
               PROVE  FALSE
    BY <1>2
  <2>1. i - n \in 1 .. 5 /\ i - n \in 1 .. 6 + Len(data) /\ n + (i - n) = i /\ i <= Len(tokens)
    BY <1>2
  <2>2. tokens[i] = Written(r, data)[i - n]
    BY <2>1
  <2>3. QED
    BY <2>1, <2>2, HeaderLines
<1>4. CASE ~(n + 6 <= Len(tokens))
  <2>1. ends = {}
    <3>1. \A i \in ends : i <= Len(tokens) /\ i \in Nat
      BY <1>2
    <3>2. QED
      BY <1>2, <1>3, <1>4, <3>1
  <2>2. ~(n + 6 + Len(data) <= Len(tokens))
    BY <1>2, <1>4
  <2> HIDE DEF ends, last, headers, end, response
  <2>3. QED
    BY <1>1, <2>1, <2>2
<1>5. CASE n + 6 <= Len(tokens)
  <2>1. tokens[n + 6] = Blank
    <3>1. 6 \in 1 .. 6 + Len(data)
      BY <1>2
    <3>2. QED
      BY <1>5, <3>1, ResponseLines
  <2>2. n + 6 \in ends
    BY <1>2, <1>5, <2>1
  <2>3. last = n + 6
    <3>1. ends \in SUBSET Nat
      BY <1>2
    <3> HIDE DEF ends
    <3>2. last \in ends /\ last <= n + 6
      BY <2>2, <3>1, MinIs
    <3> HIDE DEF last
    <3>3. last \in Nat /\ n + 6 <= last
      BY <1>3, <3>1, <3>2
    <3>4. QED
      BY <3>2, <3>3
  <2> HIDE DEF ends, last
  <2>4. DOMAIN lines = 1 .. 5 /\ \A j \in 1 .. 5 : lines[j] = Written(r, data)[j]
    <3>1. lines = [j \in 1 .. 5 |-> tokens[n + j]]
      <4>1. lines = SubSeq(tokens, n + 1, n + 5)
        BY <2>3
      <4>2. SubSeq(tokens, n + 1, n + 5)
              = [j \in 1 .. (1 + (n + 5)) - (n + 1) |-> tokens[((n + 1) + j) - 1]]
        BY <1>2
      <4>3. (1 + (n + 5)) - (n + 1) = 5 /\ \A j \in 1 .. 5 : ((n + 1) + j) - 1 = n + j
        OBVIOUS
      <4> HIDE DEF lines
      <4>4. QED
        BY <4>1, <4>2, <4>3
    <3> HIDE DEF lines
    <3>2. \A j \in 1 .. 5 : j \in 1 .. 6 + Len(data) /\ n + j <= Len(tokens)
      BY <1>2, <1>5
    <3>3. \A j \in 1 .. 5 : tokens[n + j] = Written(r, data)[j]
      BY <3>2
    <3>4. QED
      BY <3>1, <3>3
  <2> HIDE DEF lines
  <2>5. /\ headers["Content-Length"] = Len(data)
        /\ Restrict(headers, ToSet(ResponseKeys)) = Restrict(PacketOf(r), ToSet(ResponseKeys))
    <3>1. /\ 1 \in 1 .. 5 /\ 2 \in 1 .. 5 /\ 3 \in 1 .. 5 /\ 4 \in 1 .. 5 /\ 5 \in 1 .. 5
      OBVIOUS
    <3>2. /\ lines[1] = Header("Priority", r.priority)
          /\ lines[2] = Header("Bitrate", Bitrate)
          /\ lines[3] = Header("Segment", r.n)
          /\ lines[4] = Header("Tile", Tile)
          /\ lines[5] = Header("Content-Length", Len(data))
      BY <2>4, <3>1, ResponseLines
    <3>3. headers = ReadLine(ReadLine(ReadLine(ReadLine(ReadLine(NoLines(LengthKeys),
                      lines[1]), lines[2]), lines[3]), lines[4]), lines[5])
      BY <2>4, FoldFive
    <3> HIDE DEF headers
    <3>4. QED
      BY <1>2, <3>2, <3>3, HeaderIsRead
  <2> HIDE DEF headers
  <2>6. end = n + 6 + Len(data)
    BY <1>2, <2>3, <2>5
  <2> HIDE DEF end
  <2>7. end <= Len(tokens) => SubSeq(tokens, last + 1, end) = data
    <3>1. SUFFICES ASSUME n + 6 + Len(data) <= Len(tokens)
                   PROVE  SubSeq(tokens, n + 7, n + 6 + Len(data)) = data
      <4>1. last + 1 = n + 7
        BY <2>3
      <4>2. QED
        BY <2>6, <4>1
    <3>2. SubSeq(tokens, n + 7, n + 6 + Len(data))
            = [j \in 1 .. (1 + (n + 6 + Len(data))) - (n + 7) |-> tokens[((n + 7) + j) - 1]]
      BY <1>2
    <3>3. /\ (1 + (n + 6 + Len(data))) - (n + 7) = Len(data)
          /\ \A j \in 1 .. Len(data) : ((n + 7) + j) - 1 = n + (6 + j)
      BY <1>2
    <3>4. \A j \in 1 .. Len(data) : tokens[n + (6 + j)] = data[j]
      <4> TAKE j \in 1 .. Len(data)
      <4>1. 6 + j \in 1 .. 6 + Len(data) /\ n + (6 + j) <= Len(tokens)
        BY <1>2, <3>1
      <4>2. tokens[n + (6 + j)] = Written(r, data)[6 + j]
        BY <4>1
      <4>3. QED
        BY <4>2, ResponseLines
    <3>5. SubSeq(tokens, n + 7, n + 6 + Len(data)) = [j \in 1 .. Len(data) |-> data[j]]
      BY <3>2, <3>3, <3>4
    <3>6. data = [j \in 1 .. Len(data) |-> data[j]]
      OBVIOUS
    <3>7. QED
      BY <3>5, <3>6
  <2>8. ends # {} /\ tokens[last] = Blank /\ headers["Content-Length"] \in Nat
    BY <1>2, <2>1, <2>2, <2>3, <2>5
  <2>9. ReadVideoPacketResponse(tokens, n) = IF end > Len(tokens) THEN {} ELSE {response}
    <3> HIDE DEF response
    <3>1. QED
      BY <1>1, <2>8
  <2>10. (end > Len(tokens)) = ~(n + 6 + Len(data) <= Len(tokens))
    BY <1>2, <2>6
  <2>11. end <= Len(tokens) =>
           response = [packet |-> Restrict(PacketOf(r), ToSet(ResponseKeys)),
                       data |-> data,
                       end |-> n + 6 + Len(data)]
    BY <2>5, <2>6, <2>7
  <2> HIDE DEF response
  <2>12. CASE n + 6 + Len(data) <= Len(tokens)
    BY <2>6, <2>9, <2>10, <2>11, <2>12
  <2>13. CASE ~(n + 6 + Len(data) <= Len(tokens))
    BY <2>9, <2>10, <2>13
  <2>14. QED
    BY <2>12, <2>13
<1>6. QED
  BY <1>4, <1>5
\* Where the responses in o begin and end: the i-th begins after starts[i].
Layout(o, rs, starts) ==
  /\ starts \in [1 .. Len(rs) + 1 -> 0 .. Len(o)]
  /\ starts[1] = 0
  /\ starts[Len(rs) + 1] = Len(o)
  /\ \A i \in 1 .. Len(rs) :
       /\ starts[i + 1] = starts[i] + 6 + Len(readFile(rs[i]))
       /\ \A j \in 1 .. 6 + Len(readFile(rs[i])) :
            o[starts[i] + j] = Written(rs[i], readFile(rs[i]))[j]

LaidOut(o, rs) == o \in Seq(OutToken) /\ \E starts : Layout(o, rs, starts)

OutInv == DOMAIN out = Streams /\ \A s \in Streams : LaidOut(out[s], replies[s])

LEMMA FilesAreTokens ==
  ASSUME NEW r \in Request
  PROVE  readFile(r) \in Seq(FileToken)
BY FilesAssumption DEF readFile, Request, FileToken

LEMMA NothingLaidOut == LaidOut(<< >>, << >>)
<1>1. Layout(<< >>, << >>, [i \in 1 .. 1 |-> 0])
  BY DEF Layout
<1>2. << >> \in Seq(OutToken)
  OBVIOUS
<1>3. QED
  BY <1>1, <1>2 DEF LaidOut

LEMMA ResponseLaidOut ==
  ASSUME NEW o, NEW rs \in Seq(Request), LaidOut(o, rs), NEW r \in Request
  PROVE  LaidOut(o \o Written(r, readFile(r)), Append(rs, r))
<1> DEFINE w == Written(r, readFile(r))
           len(q) == 6 + Len(readFile(q))
           N == Len(rs)
           rs2 == Append(rs, r)
<1>1. PICK starts : Layout(o, rs, starts)
  BY DEF LaidOut
<1>2. o \in Seq(OutToken) /\ Len(o) \in Nat /\ N \in Nat
  BY DEF LaidOut
<1>3. /\ w \in Seq(OutToken) /\ Len(w) = len(r) /\ len(r) \in Nat
  BY FilesAreTokens, ResponseLines
<1>4. /\ starts \in [1 .. N + 1 -> 0 .. Len(o)]
      /\ starts[1] = 0 /\ starts[N + 1] = Len(o)
      /\ \A i \in 1 .. N :
           /\ starts[i + 1] = starts[i] + len(rs[i])
           /\ \A j \in 1 .. len(rs[i]) :
                o[starts[i] + j] = Written(rs[i], readFile(rs[i]))[j]
  <2>1. \A i \in 1 .. N : starts[i] \in Nat /\ Len(readFile(rs[i])) \in Nat
    <3> TAKE i \in 1 .. N
    <3>1. rs[i] \in Request /\ i \in 1 .. N + 1
      BY <1>2
    <3>2. starts[i] \in 0 .. Len(o)
      BY <1>1, <3>1 DEF Layout
    <3>3. readFile(rs[i]) \in Seq(FileToken)
      BY <3>1, FilesAreTokens
    <3>4. QED
      BY <1>2, <3>2, <3>3
  <2>2. QED
    BY <1>1, <2>1 DEF Layout
<1>5. Len(rs2) = N + 1 /\ rs2[N + 1] = r /\ \A i \in 1 .. N : rs2[i] = rs[i]
  OBVIOUS
<1>6. \A i \in 1 .. N : len(rs[i]) \in Nat
  <2> TAKE i \in 1 .. N
  <2>1. rs[i] \in Request
    BY <1>2
  <2>2. QED
    BY <2>1, FilesAreTokens
<1> HIDE DEF w, len, N, rs2
<1>7. /\ o \o w \in Seq(OutToken) /\ Len(o \o w) = Len(o) + len(r)
      /\ \A k \in 1 .. Len(o) : (o \o w)[k] = o[k]
      /\ \A j \in 1 .. len(r) : (o \o w)[Len(o) + j] = w[j]
  <2>1. /\ o \o w \in Seq(OutToken) /\ Len(o \o w) = Len(o) + Len(w)
        /\ \A k \in 1 .. Len(o) + Len(w) :
             (o \o w)[k] = IF k <= Len(o) THEN o[k] ELSE w[k - Len(o)]
    BY <1>2, <1>3, ConcatProperties
  <2>2. \A k \in 1 .. Len(o) : k \in 1 .. Len(o) + Len(w) /\ k <= Len(o)
    BY <1>2, <1>3
  <2>3. \A j \in 1 .. len(r) : /\ Len(o) + j \in 1 .. Len(o) + Len(w)
                               /\ ~(Len(o) + j <= Len(o)) /\ (Len(o) + j) - Len(o) = j
    BY <1>2, <1>3
  <2>4. QED
    BY <1>3, <2>1, <2>2, <2>3
<1> DEFINE all == Len(o) + len(r)
           starts2 == [i \in 1 .. (N + 1) + 1 |-> IF i = N + 2 THEN all ELSE starts[i]]
<1>8. all \in Nat /\ Len(o) <= all
  BY <1>2, <1>3
<1>9. /\ \A i \in 1 .. N + 1 : starts2[i] = starts[i]
      /\ starts2[(N + 1) + 1] = all
  BY <1>2
<1>10. starts2 \in [1 .. (N + 1) + 1 -> 0 .. all]
  <2>1. \A i \in 1 .. (N + 1) + 1 : i # N + 2 => i \in 1 .. N + 1
    BY <1>2
  <2>2. \A i \in 1 .. N + 1 : starts[i] \in 0 .. Len(o)
    BY <1>4
  <2>3. 0 .. Len(o) \subseteq 0 .. all /\ all \in 0 .. all
    BY <1>2, <1>8
  <2> HIDE DEF all
  <2>4. QED
    BY <2>1, <2>2, <2>3
<1> HIDE DEF starts2
<1>11. ASSUME NEW i \in 1 .. N + 1
       PROVE  /\ starts2[i + 1] = starts2[i] + len(rs2[i])
              /\ \A j \in 1 .. len(rs2[i]) :
                   (o \o w)[starts2[i] + j] = Written(rs2[i], readFile(rs2[i]))[j]
  <2>1. CASE i = N + 1
    <3>1. starts2[i] = Len(o) /\ starts2[i + 1] = all /\ rs2[i] = r
      BY <1>2, <1>4, <1>5, <1>9, <2>1
    <3>2. \A j \in 1 .. len(r) : (o \o w)[Len(o) + j] = w[j]
      BY <1>7
    <3>3. QED
      BY <3>1, <3>2 DEF w
  <2>2. CASE i # N + 1
    <3>1. i \in 1 .. N /\ i + 1 \in 1 .. N + 1
      BY <1>2, <2>2
    <3>2. starts2[i] = starts[i] /\ starts2[i + 1] = starts[i + 1] /\ rs2[i] = rs[i]
      BY <1>5, <1>9, <3>1
    <3>3. /\ starts[i] \in Nat /\ starts[i + 1] <= Len(o)
          /\ starts[i + 1] = starts[i] + len(rs[i]) /\ len(rs[i]) \in Nat
      <4>1. i \in 1 .. N + 1
        BY <1>2, <3>1
      <4>2. starts[i] \in 0 .. Len(o) /\ starts[i + 1] \in 0 .. Len(o)
        BY <1>4, <3>1, <4>1
      <4>3. starts[i + 1] = starts[i] + len(rs[i]) /\ len(rs[i]) \in Nat
        BY <1>4, <1>6, <3>1
      <4>4. QED
        BY <1>2, <4>2, <4>3
    <3>4. \A j \in 1 .. len(rs[i]) : starts[i] + j \in 1 .. Len(o)
      BY <1>2, <3>3
    <3>5. \A j \in 1 .. len(rs[i]) :
            (o \o w)[starts[i] + j] = Written(rs[i], readFile(rs[i]))[j]
      BY <1>4, <1>7, <3>1, <3>4
    <3>6. QED
      BY <3>2, <3>3, <3>5
  <2>3. QED
    BY <2>1, <2>2
<1>12. starts2[1] = 0
  <2>1. 1 \in 1 .. N + 1
    BY <1>2
  <2>2. QED
    BY <1>4, <1>9, <2>1
<1>13. Layout(o \o w, rs2, starts2)
  <2>1. \A i \in 1 .. N + 1 : starts2[i + 1] = starts2[i] + 6 + Len(readFile(rs2[i]))
    <3> TAKE i \in 1 .. N + 1
    <3>1. starts2[i] \in Int
      <4>1. i \in 1 .. (N + 1) + 1
        BY <1>2
      <4>2. 0 .. all \subseteq Int
        BY <1>8
      <4> HIDE DEF all
      <4>3. QED
        BY <1>10, <4>1, <4>2
    <3>2. len(rs2[i]) = 6 + Len(readFile(rs2[i])) /\ Len(readFile(rs2[i])) \in Nat
      <4>1. rs2[i] \in Request
        <5>1. rs2 \in Seq(Request)
          BY DEF rs2
        <5>2. QED
          BY <1>5, <5>1
      <4>2. readFile(rs2[i]) \in Seq(FileToken)
        BY <4>1, FilesAreTokens
      <4>3. QED
        BY <4>2 DEF len
    <3>3. starts2[i + 1] = starts2[i] + len(rs2[i])
      BY <1>11
    <3> HIDE DEF all
    <3>4. QED
      BY <3>1, <3>2, <3>3
  <2>2. \A i \in 1 .. N + 1 : \A j \in 1 .. 6 + Len(readFile(rs2[i])) :
          (o \o w)[starts2[i] + j] = Written(rs2[i], readFile(rs2[i]))[j]
    BY <1>11 DEF len
  <2>3. Len(rs2) = N + 1 /\ Len(o \o w) = all
    BY <1>5, <1>7
  <2> HIDE DEF all
  <2>4. QED
    BY <1>9, <1>10, <1>12, <2>1, <2>2, <2>3 DEF Layout
<1>14. QED
  BY <1>7, <1>13 DEF LaidOut, w, rs2
\* The responses to these requests, as the client is to see them.
AsSeen(rs) ==
  [i \in DOMAIN rs |-> [packet |-> Restrict(PacketOf(rs[i]), ToSet(ResponseKeys)),
                        data |-> readFile(rs[i])]]

LEMMA LayoutFacts ==
  ASSUME NEW o, NEW rs \in Seq(Request), NEW starts, o \in Seq(OutToken),
         Layout(o, rs, starts), NEW i \in 1 .. Len(rs)
  PROVE  /\ rs[i] \in Request /\ readFile(rs[i]) \in Seq(FileToken)
         /\ Len(readFile(rs[i])) \in Nat
         /\ starts[i] \in Nat /\ starts[i + 1] \in Nat /\ starts[i + 1] <= Len(o)
         /\ starts[i + 1] = starts[i] + 6 + Len(readFile(rs[i]))
<1>1. rs[i] \in Request /\ Len(rs) \in Nat /\ Len(o) \in Nat
  OBVIOUS
<1>2. readFile(rs[i]) \in Seq(FileToken)
  BY <1>1, FilesAreTokens
<1>3. Len(readFile(rs[i])) \in Nat
  BY <1>2
<1>4. i \in 1 .. Len(rs) + 1 /\ i + 1 \in 1 .. Len(rs) + 1
  BY <1>1
<1>5. starts[i] \in 0 .. Len(o) /\ starts[i + 1] \in 0 .. Len(o)
  BY <1>4 DEF Layout
<1>6. starts[i + 1] = starts[i] + 6 + Len(readFile(rs[i]))
  BY DEF Layout
<1>7. QED
  BY <1>1, <1>2, <1>3, <1>5, <1>6

\* What one reader finds in the first k tokens, where each response begins: the
\* response if it is there in full, and nothing if it is not.
LEMMA ReadsOne ==
  ASSUME NEW o \in Seq(OutToken), NEW rs \in Seq(Request), NEW starts,
         Layout(o, rs, starts), NEW k \in 0 .. Len(o), NEW i \in 1 .. Len(rs),
         NEW f
  PROVE  ReadsFrom(SubSeq(o, 1, k), f, starts[i])
           = IF starts[i + 1] <= k THEN <<AsSeen(rs)[i]>> \o f[starts[i + 1]] ELSE << >>
<1> DEFINE tokens == SubSeq(o, 1, k)
           data == readFile(rs[i])
           read == ReadVideoPacketResponse(tokens, starts[i])
           response == [packet |-> Restrict(PacketOf(rs[i]), ToSet(ResponseKeys)),
                        data |-> data, end |-> starts[i + 1]]
<1>1. k \in Nat /\ Len(o) \in Nat /\ k <= Len(o)
  OBVIOUS
<1>2. tokens \in Seq(OutToken) /\ Len(tokens) = k /\ \A j \in 1 .. k : tokens[j] = o[j]
  BY <1>1
<1>3. /\ rs[i] \in Request /\ data \in Seq(FileToken) /\ Len(data) \in Nat
      /\ starts[i] \in Nat /\ starts[i + 1] = starts[i] + 6 + Len(data)
  BY LayoutFacts
<1> HIDE DEF tokens
<1>4. \A j \in 1 .. 6 + Len(data) :
        starts[i] + j <= Len(tokens) => tokens[starts[i] + j] = Written(rs[i], data)[j]
  <2> SUFFICES ASSUME NEW j \in 1 .. 6 + Len(data), starts[i] + j <= k
               PROVE  tokens[starts[i] + j] = Written(rs[i], data)[j]
    BY <1>2
  <2>1. starts[i] + j \in 1 .. k
    BY <1>1, <1>3
  <2>2. o[starts[i] + j] = Written(rs[i], data)[j]
    BY DEF Layout
  <2>3. QED
    BY <1>2, <2>1, <2>2
<1>5. read = IF starts[i + 1] <= k THEN {response} ELSE {}
  <2> HIDE DEF data
  <2>1. read = IF starts[i] + 6 + Len(data) <= Len(tokens)
               THEN {[packet |-> Restrict(PacketOf(rs[i]), ToSet(ResponseKeys)),
                      data |-> data, end |-> starts[i] + 6 + Len(data)]}
               ELSE {}
    BY <1>2, <1>3, <1>4, ReadWritten
  <2>2. QED
    BY <1>2, <1>3, <2>1
<1>6. CASE starts[i + 1] <= k
  <2>1. AsSeen(rs)[i] = [packet |-> response.packet, data |-> response.data]
    BY DEF AsSeen
  <2>2. response.end = starts[i + 1]
    OBVIOUS
  <2> HIDE DEF response, read
  <2>3. read # {} /\ (CHOOSE r \in read : TRUE) = response
    BY <1>5, <1>6
  <2>4. ReadsFrom(tokens, f, starts[i])
          = <<[packet |-> response.packet, data |-> response.data]>> \o f[response.end]
    BY <2>3 DEF ReadsFrom, read
  <2>5. QED
    BY <1>6, <2>1, <2>2, <2>4 DEF tokens
<1>7. CASE ~(starts[i + 1] <= k)
  <2>1. read = {}
    BY <1>5, <1>7
  <2>2. ReadsFrom(tokens, f, starts[i]) = << >>
    BY <2>1 DEF ReadsFrom
  <2>3. QED
    BY <1>7, <2>2 DEF tokens
<1>8. QED
  BY <1>6, <1>7
\* Past the last token there is nothing to read.
LEMMA ReadsNothingMore ==
  ASSUME NEW tokens \in Seq(OutToken), NEW f
  PROVE  ReadsFrom(tokens, f, Len(tokens)) = << >>
<1> DEFINE n == Len(tokens)
           ends == {i \in n + 1 .. n : tokens[i] = Blank \/ Malformed(LengthKeys, tokens[i])}
<1>1. n + 1 .. n = {}
  <2>1. n \in Nat
    OBVIOUS
  <2>2. QED
    BY <2>1
<1>2. ends = {}
  BY <1>1
<1>3. ReadVideoPacketResponse(tokens, n) = {}
  BY <1>2 DEF ReadVideoPacketResponse
<1>4. QED
  BY <1>3 DEF ReadsFrom

\* From any part of a stream that has arrived one reader reads the first so many of
\* its responses, and from all of it all of them.
LEMMA ReadsBack ==
  ASSUME NEW o, NEW rs \in Seq(Request), LaidOut(o, rs), NEW k \in 0 .. Len(o)
  PROVE  \E m \in 0 .. Len(rs) : /\ ReadAll(SubSeq(o, 1, k)) = SubSeq(AsSeen(rs), 1, m)
                                 /\ k = Len(o) => m = Len(rs)
<1> DEFINE N == Len(rs)
           tokens == SubSeq(o, 1, k)
<1>1. o \in Seq(OutToken) /\ Len(o) \in Nat /\ N \in Nat /\ k \in Nat /\ k <= Len(o)
  BY DEF LaidOut
<1>2. PICK starts : Layout(o, rs, starts)
  BY DEF LaidOut
<1>3. tokens \in Seq(OutToken) /\ Len(tokens) = k
  BY <1>1
<1> HIDE DEF tokens
<1> DEFINE missing == {i \in 0 .. N : i < N => ~(starts[i + 2] <= k)}
<1>4. PICK m \in missing : \A i \in missing : m <= i
  <2>1. missing \in SUBSET Nat
    BY <1>1
  <2>2. N \in missing
    BY <1>1
  <2> HIDE DEF missing
  <2>3. QED
    BY <2>1, <2>2, LeastMember
<1>5. m \in 0 .. N /\ (m < N => ~(starts[m + 2] <= k))
  OBVIOUS
<1>6. \A i \in 1 .. m : starts[i + 1] <= k
  <2> TAKE i \in 1 .. m
  <2>1. i - 1 \in 0 .. N /\ i - 1 < N /\ ~(m <= i - 1) /\ i - 1 + 2 = i + 1
    BY <1>1, <1>5
  <2>2. i - 1 \notin missing
    <3> HIDE DEF missing
    <3>1. QED
      BY <1>4, <2>1
  <2>3. QED
    BY <2>1, <2>2
<1> HIDE DEF missing
<1>7. k = Len(o) => m = N
  <2> SUFFICES ASSUME k = Len(o), m # N PROVE FALSE
    OBVIOUS
  <2>1. m < N /\ m + 1 \in 1 .. Len(rs) /\ m + 2 = (m + 1) + 1
    BY <1>1, <1>5
  <2>2. starts[(m + 1) + 1] <= Len(o)
    BY <1>1, <1>2, <2>1, LayoutFacts
  <2>3. QED
    BY <1>5, <2>1, <2>2
<1>8. starts[m + 1] <= k /\ starts[m + 1] \in Nat
  <2>1. CASE m = 0
    BY <1>1, <1>2, <2>1 DEF Layout
  <2>2. CASE m # 0
    <3>1. m \in 1 .. m /\ m \in 1 .. Len(rs)
      BY <1>1, <1>5, <2>2
    <3>2. QED
      BY <1>1, <1>2, <1>6, <3>1, LayoutFacts
  <2>3. QED
    BY <2>1, <2>2
<1> DEFINE f == CHOOSE f : IsReader(tokens, f, 0)
<1>9. f = [n \in 0 .. k |-> ReadsFrom(tokens, f, n)]
  <2>1. IsReader(tokens, f, 0)
    BY <1>1, <1>3, ReaderExists
  <2> HIDE DEF f
  <2>2. QED
    BY <1>3, <2>1 DEF IsReader
<1>10. ReadAll(tokens) = f[0]
  BY ReadAllIs
<1> HIDE DEF f
<1> DEFINE seen == AsSeen(rs)
           S == {seen[i] : i \in 1 .. N}
<1>11. seen \in Seq(S) /\ Len(seen) = N
  <2>1. DOMAIN seen = 1 .. N /\ seen = [i \in DOMAIN seen |-> seen[i]]
    BY DEF AsSeen
  <2> HIDE DEF seen
  <2>2. seen \in [1 .. N -> S]
    BY <2>1
  <2> HIDE DEF S, N
  <2>3. QED
    BY <1>1, <2>2
<1> HIDE DEF seen, S, N
<1>12. f[starts[m + 1]] = SubSeq(seen, m + 1, m)
  <2>1. f[starts[m + 1]] = ReadsFrom(tokens, f, starts[m + 1])
    <3>1. starts[m + 1] \in 0 .. k
      BY <1>1, <1>8
    <3>2. QED
      BY <1>9, <3>1
  <2>2. ReadsFrom(tokens, f, starts[m + 1]) = << >>
    <3>1. CASE m = N
      <4>1. starts[m + 1] = k
        BY <1>1, <1>2, <1>8, <3>1 DEF Layout, N
      <4>2. QED
        BY <1>3, <4>1, ReadsNothingMore
    <3>2. CASE m # N
      <4>1. m < N /\ m + 1 \in 1 .. Len(rs) /\ m + 2 = (m + 1) + 1
        BY <1>1, <1>5, <3>2 DEF N
      <4>2. ~(starts[(m + 1) + 1] <= k)
        BY <1>5, <4>1
      <4>3. QED
        BY <1>1, <1>2, <4>1, <4>2, ReadsOne DEF tokens
    <3>3. QED
      BY <3>1, <3>2
  <2>3. SubSeq(seen, m + 1, m) = << >>
    BY <1>1, <1>5, SubSeqEmpty
  <2>4. QED
    BY <2>1, <2>2, <2>3
<1>13. ASSUME NEW i \in 1 .. m, f[starts[i + 1]] = SubSeq(seen, i + 1, m)
       PROVE  f[starts[i]] = SubSeq(seen, i, m)
  <2>1. i \in 1 .. Len(rs) /\ i \in Nat /\ i <= m /\ m \in Nat /\ m <= N
    BY <1>1, <1>5 DEF N
  <2>2. starts[i] \in 0 .. k
    <3>1. /\ starts[i] \in Nat /\ Len(readFile(rs[i])) \in Nat
          /\ starts[i + 1] = starts[i] + 6 + Len(readFile(rs[i]))
      BY <1>1, <1>2, <2>1, LayoutFacts
    <3>2. starts[i + 1] <= k
      BY <1>6
    <3>3. QED
      BY <1>1, <3>1, <3>2
  <2>3. f[starts[i]] = ReadsFrom(tokens, f, starts[i])
    BY <1>9, <2>2
  <2>4. f[starts[i]] = <<seen[i]>> \o f[starts[i + 1]]
    BY <1>1, <1>2, <1>6, <2>1, <2>3, ReadsOne DEF tokens, seen
  <2>5. SubSeq(seen, i, m) = <<seen[i]>> \o SubSeq(seen, i + 1, m)
    BY <1>11, <2>1
  <2>6. QED
    BY <1>13, <2>4, <2>5
<1> DEFINE C == {d \in 0 .. m : f[starts[m + 1 - d]] # SubSeq(seen, m + 1 - d, m)}
<1>14. C = {}
  <2> SUFFICES ASSUME C # {} PROVE FALSE
    OBVIOUS
  <2>1. PICK d \in C : \A e \in C : d <= e
    <3>1. C \in SUBSET Nat
      OBVIOUS
    <3> HIDE DEF C
    <3>2. QED
      BY <3>1, LeastMember
  <2>2. d \in 0 .. m /\ f[starts[m + 1 - d]] # SubSeq(seen, m + 1 - d, m)
    OBVIOUS
  <2>3. d # 0
    <3>1. m + 1 - 0 = m + 1
      BY <1>1, <1>5
    <3>2. QED
      BY <1>12, <2>2, <3>1
  <2>4. d - 1 \in 0 .. m /\ ~(d <= d - 1) /\ m + 1 - (d - 1) = (m + 1 - d) + 1
        /\ m + 1 - d \in 1 .. m
    BY <1>1, <1>5, <2>2, <2>3
  <2>5. d - 1 \notin C
    <3> HIDE DEF C
    <3>1. QED
      BY <2>1, <2>4
  <2>6. f[starts[(m + 1 - d) + 1]] = SubSeq(seen, (m + 1 - d) + 1, m)
    BY <2>4, <2>5
  <2>7. QED
    BY <1>13, <2>2, <2>4, <2>6
<1>15. f[0] = SubSeq(seen, 1, m)
  <2>1. m \in 0 .. m /\ m + 1 - m = 1
    BY <1>1, <1>5
  <2>2. f[starts[1]] = SubSeq(seen, 1, m)
    BY <1>14, <2>1
  <2>3. QED
    BY <1>2, <2>2 DEF Layout
<1>16. QED
  BY <1>5, <1>7, <1>10, <1>15 DEF tokens, seen, N
LEMMA OutUnchanged ==
  ASSUME OutInv, UNCHANGED <<replies, out>>
  PROVE  OutInv'
BY DEF OutInv, LaidOut

LEMMA WorkerLaysOut ==
  ASSUME TypeOK, OutInv, WiredWorkerStep
  PROVE  OutInv'
<1>1. /\ replies \in [Streams -> Seq(Request)]
      /\ workerPc = "handle" => running \in Request
  BY DEF TypeOK
<1>2. DOMAIN out' = Streams
      /\ \A s \in Streams :
           out'[s] = IF replies'[s] = replies[s] THEN out[s]
                     ELSE out[s] \o Written(running, readFile(running))
  BY DEF WiredWorkerStep, Written
<1>3. CASE UNCHANGED replies
  <2>1. \A s \in Streams : LaidOut(out'[s], replies'[s])
    BY <1>2, <1>3 DEF OutInv
  <2>2. QED
    BY <1>2, <2>1 DEF OutInv, LaidOut, Layout, readFile
<1>4. CASE ~ UNCHANGED replies
  <2>1. Respond
    BY <1>4 DEF WiredWorkerStep, WorkerStep, BeginTask, IgnoreExpired, DoneLoad, DoneStore,
                DoneTest
  <2>2. running \in Request /\ running.stream \in Streams
    BY <1>1, <2>1 DEF Respond, Work, Request
  <2>3. replies' = [replies EXCEPT ![running.stream] = Append(@, running)]
    BY <1>4, <2>1 DEF Respond
  <2>4. ASSUME NEW s \in Streams
        PROVE  LaidOut(out'[s], replies'[s])
    <3>1. CASE s = running.stream
      <4>1. replies[s] \in Seq(Request) /\ replies'[s] = Append(replies[s], running)
        BY <1>1, <2>3, <3>1
      <4>2. replies'[s] # replies[s]
        <5>1. Len(Append(replies[s], running)) = Len(replies[s]) + 1 /\ Len(replies[s]) \in Nat
          BY <2>2, <4>1
        <5>2. QED
          BY <4>1, <5>1
      <4>3. out'[s] = out[s] \o Written(running, readFile(running))
        BY <1>2, <4>2
      <4>4. LaidOut(out[s], replies[s])
        BY DEF OutInv
      <4>5. QED
        BY <2>2, <4>1, <4>3, <4>4, ResponseLaidOut
    <3>2. CASE s # running.stream
      BY <1>1, <1>2, <2>3, <3>2 DEF OutInv
    <3>3. QED
      BY <3>1, <3>2
  <2>5. QED
    BY <1>2, <2>4 DEF OutInv, LaidOut, Layout, readFile
<1>5. QED
  BY <1>3, <1>4

LEMMA WiredStepLaysOut ==
  ASSUME TypeOK, OutInv, [WiredNext]_wiredVars
  PROVE  OutInv'
<1>1. ASSUME NEW s \in Streams, NEW l \in Levels, WireRequest(s, l)
      PROVE  OutInv'
  BY <1>1, OutUnchanged DEF WireRequest, SendRequest
<1>2. ASSUME NEW s \in Streams, WireEnd(s)
      PROVE  OutInv'
  BY <1>2, OutUnchanged DEF WireEnd, EndRequests
<1>3. ASSUME NEW s \in Streams, WiredListenStep(s)
      PROVE  OutInv'
  <2>1. UNCHANGED <<replies, out>>
    <3>1. CASE WireReadLine(s)
      BY <3>1 DEF WireReadLine, vars
    <3>2. CASE WireRead(s) \/ WireReadFails(s)
      BY <3>2 DEF WireRead, WireReadFails, Listen, wiring
    <3>3. CASE ListenBetweenReads(s) /\ UNCHANGED wiring
      BY <3>3 DEF ListenBetweenReads, CountLoad, CountStore, EnqueueAccepted,
                  EnqueueRefused, UncountLoad, UncountStore, UncountTest, Listen, wiring
    <3>4. QED
      BY <1>3, <3>1, <3>2, <3>3 DEF WiredListenStep
  <2>2. QED
    BY <2>1, OutUnchanged
<1>4. CASE WiredAcceptor \/ ConnectionEnds
  <2>1. UNCHANGED <<replies, out>>
    BY <1>4 DEF WiredAcceptor, ConnectionEnds, AcceptStream, HandleStream,
                StopOnDisconnect, Disconnect, EndContext, wiring
  <2>2. QED
    BY <2>1, OutUnchanged
<1>5. CASE WiredWorkerStep
  BY <1>5, WorkerLaysOut
<1>6. CASE UNCHANGED wiredVars
  BY <1>6, OutUnchanged DEF wiredVars, wiring, vars
<1>7. QED
  BY <1>1, <1>2, <1>3, <1>4, <1>5, <1>6 DEF WiredNext

LEMMA InitOut ==
  ASSUME WiredInit
  PROVE  OutInv
<1>1. out = [s \in Streams |-> << >>] /\ replies = [s \in Streams |-> << >>]
  BY DEF WiredInit, Init
<1>2. QED
  BY <1>1, NothingLaidOut DEF OutInv

LEMMA ResponsesAreLaidOut ==
  ASSUME TypeOK, OutInv
  PROVE  ResponsesAreFramed
<1> SUFFICES ASSUME NEW s \in Streams
             PROVE  /\ ReadAll(out[s]) = Responses(s)
                    /\ \A k \in 0 .. Len(out[s]) :
                         IsPrefix(ReadAll(SubSeq(out[s], 1, k)), Responses(s))
  BY DEF ResponsesAreFramed
<1> DEFINE o == out[s]
           rs == replies[s]
           seen == AsSeen(rs)
           S == {seen[i] : i \in 1 .. Len(rs)}
<1>1. rs \in Seq(Request) /\ LaidOut(o, rs) /\ o \in Seq(OutToken)
      /\ Len(rs) \in Nat /\ Len(o) \in Nat
  BY DEF TypeOK, OutInv, LaidOut
<1>2. Responses(s) = seen
  BY DEF Responses, AsSeen
<1>3. seen \in Seq(S) /\ Len(seen) = Len(rs)
  <2>1. DOMAIN seen = 1 .. Len(rs) /\ seen = [i \in DOMAIN seen |-> seen[i]]
    BY <1>1 DEF AsSeen
  <2> HIDE DEF seen, rs
  <2>2. seen \in [1 .. Len(rs) -> S]
    BY <2>1
  <2> HIDE DEF S
  <2>3. QED
    BY <1>1, <2>2
<1> HIDE DEF o, rs, seen, S
<1>4. ReadAll(o) = seen
  <2>1. Len(o) \in 0 .. Len(o) /\ SubSeq(o, 1, Len(o)) = o
    BY <1>1
  <2>2. ReadAll(o) = SubSeq(seen, 1, Len(rs))
    <3>1. \E m \in 0 .. Len(rs) :
            /\ ReadAll(SubSeq(o, 1, Len(o))) = SubSeq(seen, 1, m)
            /\ Len(o) = Len(o) => m = Len(rs)
      BY <1>1, <2>1, ReadsBack DEF seen
    <3>2. QED
      BY <2>1, <3>1
  <2>3. SubSeq(seen, 1, Len(seen)) = seen
    BY <1>3
  <2>4. QED
    BY <1>3, <2>2, <2>3
<1>5. ASSUME NEW k \in 0 .. Len(o)
      PROVE  IsPrefix(ReadAll(SubSeq(o, 1, k)), seen)
  <2>1. PICK m \in 0 .. Len(rs) : ReadAll(SubSeq(o, 1, k)) = SubSeq(seen, 1, m)
    BY <1>1, ReadsBack DEF seen
  <2>2. Len(SubSeq(seen, 1, m)) = m /\ m <= Len(seen)
    BY <1>1, <1>3
  <2>3. SubSeq(SubSeq(seen, 1, m), 1, m) = SubSeq(seen, 1, m)
    BY <1>1, <1>3
  <2>4. QED
    BY <2>1, <2>2, <2>3 DEF IsPrefix
<1>6. QED
  BY <1>2, <1>4, <1>5 DEF o

\* A reader of any part of what has come of a stream, whatever the files hold,
\* finds whole responses and these in the order they were written; once all has
\* come it finds all of them, with their headers and data.
THEOREM FramingCorrect == WiredSpec => []ResponsesAreFramed
<1>1. WiredInit => OutInv
  BY InitOut
<1>2. TypeOK /\ OutInv /\ [WiredNext]_wiredVars => OutInv'
  BY WiredStepLaysOut
<1>3. TypeOK /\ OutInv => ResponsesAreFramed
  BY ResponsesAreLaidOut
<1>4. QED
  BY <1>1, <1>2, <1>3, WiredRepliesCorrect, PTL DEF WiredSpec
=============================================================================
