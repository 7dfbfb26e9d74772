------------------------ MODULE OriginalClient_proofs ------------------------
(***************************************************************************)
(* For every number of requests and every configuration: the original      *)
(* client takes each request once and in order, and leaves none behind;    *)
(* every answer is counted, and the consumer ends only when all are there, *)
(* leaving a bounded number of them in the buffer.                         *)
(***************************************************************************)
EXTENDS OriginalClient, FiniteSetTheorems, TLAPS

\* The requests added so far, whether ints begins with a zero request, and the
\* requests taken so far, as ints shows them.
Added == NextAdded - 1
Zeros == IF ints[1] = zaroreq THEN 1 ELSE 0
Count == Added - Len(ints) + Zeros

\* The producer: it finds the list finished only once everything has been added,
\* and then the list stays as short as it was found.
ProducerInv ==
  /\ counter \in Nat
  /\ counter2 \in {0, 1}
  /\ Added \in 0 .. Total
  /\ producer = "add" => counter # 0
  /\ producer # "add" => Added = Total
  /\ bufferFinished => producer \in {"finish", "done"}
  /\ producer \in {"finish", "done"} => Len(ints) = 1

\* The list: what has been added and not taken, in order.
ListInv ==
  /\ ints \in Seq(Nat) \ {<< >>}
  /\ Count \in Nat
  /\ ints[1] # zaroreq => ints[1] = Count + 1
  /\ \A i \in 2 .. Len(ints) : ints[i] = Count + i - Zeros

\* handleStream: what it has taken it has started, but for the request it holds.
StreamInv ==
  /\ request \in [Requests -> {"none", "open", "receive", "store", "done"}]
  /\ Taken = 1 .. Count
  /\ stream = "acquire" => req = Count /\ req \in Requests /\ request[req] = "none"
  /\ stream # "acquire" => req \in Started \cup {zaroreq}
  /\ stream \in {"join", "done"} => Started = Requests

OrderInv == ProducerInv /\ ListInv /\ StreamInv

LEMMA Numbers ==
  /\ Initial \in Nat \ {0} /\ FirstBatch \in Nat \ {0} /\ SecondBatch \in Nat \ {0}
  /\ Total \in Nat /\ Total = Initial + FirstBatch + SecondBatch
  /\ Requests = 1 .. Total
  /\ zaroreq = 0
  /\ 0 * SecondBatch = 0 /\ 1 * SecondBatch = SecondBatch
  /\ \A b \in {0, 1} : b * SecondBatch \in Nat
BY ConstantsAssumption DEF Total, Requests, zaroreq

-----------------------------------------------------------------------------
(* What depends on what                                                    *)

\* Actions that leave the list and the producer's counters alone.
LEMMA ListUnchanged ==
  ASSUME UNCHANGED <<ints, counter, counter2>>
  PROVE  /\ Added' = Added /\ Zeros' = Zeros /\ Count' = Count
         /\ ListInv' <=> ListInv
BY DEF Added, NextAdded, Zeros, Count, ListInv

LEMMA StreamUnchanged ==
  ASSUME UNCHANGED <<request, streaming>>, Count' = Count
  PROVE  StreamInv' <=> StreamInv
BY DEF StreamInv, streaming, Taken, Started

LEMMA InitOrder ==
  ASSUME Init
  PROVE  OrderInv
<1>1. /\ ints = [i \in 1 .. Initial |-> i]
      /\ counter = FirstBatch /\ counter2 = 1
      /\ producer = "add" /\ ~bufferFinished
      /\ stream = "make" /\ req = 0
      /\ request = [r \in Requests |-> "none"]
  BY Numbers DEF Init
<1>2. Added = Initial
  BY <1>1, Numbers DEF Added, NextAdded
<1>3. /\ ints \in Seq(Nat)
      /\ Len(ints) = Initial
      /\ \A i \in 1 .. Initial : ints[i] = i
  BY <1>1, Numbers
<1>4. Zeros = 0 /\ Count = 0
  BY <1>2, <1>3, Numbers DEF Zeros, Count
<1>5. ProducerInv
  BY <1>1, <1>2, Numbers DEF ProducerInv
<1>6. ListInv
  BY <1>3, <1>4, Numbers DEF ListInv
<1>7. Started = {} /\ Taken = {}
  BY <1>1, Numbers DEF Started, Taken
<1>8. StreamInv
  BY <1>1, <1>4, <1>7, Numbers DEF StreamInv
<1>9. QED
  BY <1>5, <1>6, <1>8 DEF OrderInv

-----------------------------------------------------------------------------
(* The producer                                                            *)

LEMMA AddKeepsOrder ==
  ASSUME OrderInv, Add
  PROVE  OrderInv'
<1>1. /\ producer = "add" /\ ~bufferFinished
      /\ counter \in Nat \ {0} /\ counter2 \in {0, 1} /\ Added \in 0 .. Total
  BY DEF Add, OrderInv, ProducerInv
<1>2. ints' = Append(ints, Added + 1)
  <2>1. Added = NextAdded - 1 /\ NextAdded \in Int
    BY <1>1, Numbers DEF Added, NextAdded
  <2>2. QED
    BY <2>1 DEF Add
<1>3. /\ ints \in Seq(Nat) /\ Len(ints) \in Nat \ {0}
      /\ ints' \in Seq(Nat)
      /\ Len(ints') = Len(ints) + 1
      /\ \A i \in 1 .. Len(ints) : ints'[i] = ints[i]
      /\ ints'[Len(ints) + 1] = Added + 1
  BY <1>1, <1>2, Numbers DEF OrderInv, ListInv
<1>4. /\ counter' \in Nat /\ counter2' \in {0, 1}
      /\ Added' = Added + 1
      /\ producer' = "add" => counter' # 0
      /\ producer' # "add" => Added' = Total /\ producer' = "first"
  <2>1. Added = Total - counter - counter2 * SecondBatch
    BY <1>1, Numbers DEF Added, NextAdded
  <2>2. Added' = Total - counter' - counter2' * SecondBatch
            \/ counter' \notin Nat \/ counter2' \notin {0, 1}
    BY Numbers DEF Added, NextAdded
  <2>3. CASE counter > 1
    BY <1>1, <2>1, <2>2, <2>3, Numbers DEF Add
  <2>4. CASE counter = 1 /\ counter2 = 0
    BY <1>1, <2>1, <2>2, <2>4, Numbers DEF Add
  <2>5. CASE counter = 1 /\ counter2 = 1
    BY <1>1, <2>1, <2>2, <2>5, Numbers DEF Add
  <2>6. QED
    BY <1>1, <2>3, <2>4, <2>5
<1>5. Added' <= Total
  <2>1. Added' = Total - counter' - counter2' * SecondBatch
    BY <1>4, Numbers DEF Added, NextAdded
  <2>2. counter2' * SecondBatch \in Nat
    BY <1>4, Numbers, Zenon
  <2>3. counter' \in Nat
    BY <1>4
  <2>4. QED
    BY <2>1, <2>2, <2>3, Numbers
<1>6. Zeros' = Zeros /\ Zeros \in {0, 1}
  BY <1>3 DEF Zeros
<1>7. Count' = Count /\ Count = Added - Len(ints) + Zeros
  BY <1>1, <1>3, <1>4, <1>6 DEF Count
<1>8. ProducerInv'
  <2>1. ~bufferFinished' /\ producer' \in {"add", "first"}
    BY <1>1, <1>4 DEF Add
  <2>2. QED
    BY <1>1, <1>4, <1>5, <2>1, Numbers DEF ProducerInv
<1>9. ListInv'
  <2>1. Count \in Nat /\ (ints[1] # zaroreq => ints[1] = Count + 1)
    BY DEF OrderInv, ListInv
  <2>2. \A i \in 2 .. Len(ints') : ints'[i] = Count + i - Zeros
    <3> TAKE i \in 2 .. Len(ints')
    <3>1. CASE i <= Len(ints)
      BY <1>3, <3>1 DEF OrderInv, ListInv
    <3>2. CASE i = Len(ints) + 1
      BY <1>1, <1>3, <1>6, <1>7, <3>2
    <3>3. QED
      BY <1>3, <3>1, <3>2
  <2>3. ints' # << >> /\ ints'[1] = ints[1]
    BY <1>3
  <2>4. QED
    BY <1>3, <1>6, <1>7, <2>1, <2>2, <2>3 DEF ListInv, zaroreq
<1>10. StreamInv'
  BY <1>7, StreamUnchanged DEF Add, OrderInv
<1>11. QED
  BY <1>8, <1>9, <1>10 DEF OrderInv

LEMMA ProducerKeepsOrder ==
  ASSUME OrderInv, Producer
  PROVE  OrderInv'
<1>1. CASE Add
  BY <1>1, AddKeepsOrder
<1>2. CASE LookAtFirst \/ LookAtLength \/ SetAddFinish
  <2>1. UNCHANGED <<ints, counter, counter2, request, streaming>>
    BY <1>2 DEF LookAtFirst, LookAtLength, SetAddFinish
  <2>2. ProducerInv'
    <3>1. producer # "add" /\ producer' # "add"
      BY <1>2 DEF LookAtFirst, LookAtLength, SetAddFinish
    <3>2. bufferFinished' => producer' \in {"finish", "done"}
      BY <1>2 DEF LookAtFirst, LookAtLength, SetAddFinish, OrderInv, ProducerInv
    <3>3. producer' \in {"finish", "done"} => Len(ints') = 1
      BY <1>2 DEF LookAtFirst, LookAtLength, SetAddFinish, OrderInv, ProducerInv
    <3>4. QED
      BY <2>1, <3>1, <3>2, <3>3, ListUnchanged DEF OrderInv, ProducerInv
  <2>3. QED
    BY <2>1, <2>2, ListUnchanged, StreamUnchanged DEF OrderInv
<1>3. QED
  BY <1>1, <1>2 DEF Producer

-----------------------------------------------------------------------------
(* handleStream                                                            *)

\* Nothing but Take changes the list.
LEMMA ProducerUnchanged ==
  ASSUME OrderInv, UNCHANGED <<ints, producing>>
  PROVE  ProducerInv' /\ ListInv' /\ Count' = Count
<1>1. ProducerInv'
  BY ListUnchanged DEF producing, OrderInv, ProducerInv
<1>2. QED
  BY <1>1, ListUnchanged DEF producing, OrderInv

\* When handleStream leaves its loop all requests have been added, and the list is
\* one zero request: the others have been taken, and what has been taken is started.
LEMMA TestKeepsOrder ==
  ASSUME OrderInv, Test
  PROVE  OrderInv'
<1>1. ProducerInv' /\ ListInv' /\ Count' = Count
  BY ProducerUnchanged DEF Test
<1>2. /\ request' = request /\ req' = req
      /\ Started' = Started /\ Taken' = Taken
  BY DEF Test, Started, Taken
<1>3. stream' = "join" => Started = Requests
  <2>1. SUFFICES ASSUME bufferFinished, ints[1] = zaroreq
                 PROVE  Started = Requests
    BY DEF Test
  <2>2. Len(ints) = 1 /\ Added = Total
    BY <2>1 DEF OrderInv, ProducerInv
  <2>3. Count = Total
    BY <2>1, <2>2, Numbers DEF Count, Zeros
  <2>4. Taken = Started
    BY DEF OrderInv, StreamInv, Taken, Test
  <2>5. QED
    BY <2>3, <2>4, Numbers DEF OrderInv, StreamInv
<1>4. stream' \in {"join", "take"} /\ stream = "test"
  BY DEF Test
<1>5. StreamInv'
  BY <1>1, <1>2, <1>3, <1>4 DEF StreamInv, OrderInv
<1>6. QED
  BY <1>1, <1>5 DEF OrderInv

LEMMA TakeKeepsOrder ==
  ASSUME OrderInv, Take
  PROVE  OrderInv'
<1>1. /\ ints \in Seq(Nat) /\ Len(ints) \in Nat \ {0} /\ ints[1] \in Nat
      /\ Added \in 0 .. Total
      /\ Count \in Nat /\ Zeros \in {0, 1}
  BY DEF OrderInv, ListInv, ProducerInv, Zeros
<1>2. /\ ints' \in Seq(Nat) \ {<< >>}
      /\ Added' = Added
      /\ Len(ints) = 1 => ints' = <<zaroreq>>
      /\ Len(ints) # 1 => /\ Len(ints') = Len(ints) - 1
                          /\ \A i \in 1 .. Len(ints') : ints'[i] = ints[i + 1]
  <2>1. Added' = Added
    BY DEF Take, producing, Added, NextAdded
  <2>2. CASE Len(ints) = 1
    BY <2>1, <2>2, Numbers DEF Take
  <2>3. CASE Len(ints) # 1
    <3>1. ints' = Tail(ints) /\ ints # << >>
      BY <1>1, <2>3 DEF Take
    <3>2. /\ ints' \in Seq(Nat)
          /\ Len(ints') = Len(ints) - 1
          /\ \A i \in 1 .. Len(ints') : ints'[i] = ints[i + 1]
      BY <1>1, <3>1
    <3>3. ints' # << >>
      BY <1>1, <2>3, <3>2
    <3>4. QED
      BY <2>1, <2>3, <3>2, <3>3
  <2>4. QED
    BY <2>2, <2>3
<1>3. Zeros' = IF Len(ints) = 1 THEN 1 ELSE 0
  <2>1. CASE Len(ints) = 1
    BY <1>2, <2>1 DEF Zeros
  <2>2. CASE Len(ints) # 1
    <3>1. ints'[1] = ints[2] /\ 2 \in 2 .. Len(ints)
      BY <1>1, <1>2, <2>2
    <3>2. ints[2] = Count + 2 - Zeros
      BY <3>1 DEF OrderInv, ListInv
    <3>3. ints'[1] # 0
      BY <1>1, <3>1, <3>2
    <3>4. QED
      BY <2>2, <3>3, Numbers DEF Zeros
  <2>3. QED
    BY <2>1, <2>2
<1>4. Count' = Count + 1 - Zeros
  <2>1. Count = Added - Len(ints) + Zeros /\ Count' = Added - Len(ints') + Zeros'
    BY <1>2 DEF Count
  <2>2. CASE Len(ints) = 1
    <3>1. Len(ints') = 1
      BY <1>2, <2>2
    <3>2. Zeros' = 1
      BY <1>3, <2>2
    <3>3. Count = Added - 1 + Zeros /\ Count' = Added - 1 + 1
      BY <2>1, <2>2, <3>1, <3>2
    <3>4. QED
      BY <1>1, <3>3, Numbers
  <2>3. CASE Len(ints) # 1
    <3>1. Len(ints') = Len(ints) - 1 /\ Zeros' = 0
      BY <1>2, <1>3, <2>3
    <3>2. QED
      BY <1>1, <2>1, <3>1, Numbers
  <2>4. QED
    BY <2>2, <2>3
<1>5. ListInv'
  <2>1. CASE Len(ints) = 1
    <3>1. ints' = <<0>> /\ ints'[1] = 0 /\ Len(ints') = 1
      BY <1>2, <2>1, Numbers
    <3>2. Count' \in Nat
      BY <1>1, <1>4
    <3>3. QED
      BY <1>2, <3>1, <3>2, Numbers DEF ListInv
  <2>2. CASE Len(ints) # 1
    <3>1. \A i \in 1 .. Len(ints') : ints'[i] = Count' + i - Zeros'
      <4> TAKE i \in 1 .. Len(ints')
      <4>1. ints'[i] = ints[i + 1] /\ i + 1 \in 2 .. Len(ints)
        BY <1>1, <1>2, <2>2
      <4>2. ints[i + 1] = Count + (i + 1) - Zeros
        BY <4>1 DEF OrderInv, ListInv
      <4>3. QED
        BY <1>1, <1>3, <1>4, <2>2, <4>1, <4>2
    <3>2. 1 \in 1 .. Len(ints') /\ Zeros' = 0 /\ Count' \in Nat
      BY <1>1, <1>2, <1>3, <1>4, <2>2
    <3>3. ints'[1] = Count' + 1
      BY <3>1, <3>2
    <3>4. QED
      BY <1>2, <3>1, <3>2, <3>3 DEF ListInv
  <2>3. QED
    BY <2>1, <2>2
<1>6. ProducerInv'
  <2>1. Len(ints) = 1 => Len(ints') = 1
    BY <1>2
  <2>2. QED
    BY <1>2, <2>1 DEF Take, producing, OrderInv, ProducerInv
<1>7. StreamInv'
  <2>1. Started = 1 .. Count
    BY DEF OrderInv, StreamInv, Taken, Take
  <2>2. /\ request' = request /\ Started' = Started /\ req' = ints[1]
        /\ stream' = IF ints[1] = zaroreq THEN "test" ELSE "acquire"
    BY DEF Take, Started
  <2>3. CASE ints[1] = zaroreq
    <3>1. Count' = Count /\ Taken' = Started
      BY <1>1, <1>4, <2>2, <2>3 DEF Zeros, Taken
    <3>2. QED
      BY <2>1, <2>2, <2>3, <3>1 DEF OrderInv, StreamInv
  <2>4. CASE ints[1] # zaroreq
    <3>1. Count' = Count + 1 /\ req' = Count + 1
      BY <1>1, <1>4, <2>2, <2>4 DEF Zeros, OrderInv, ListInv
    <3>2. Count' \in 1 .. Total
      <4>1. Count' <= Total
        BY <1>1, <1>2, <1>3, <2>4, <3>1, Numbers DEF Count, Zeros
      <4>2. QED
        BY <1>1, <3>1, <4>1, Numbers
    <3>3. Taken' = 1 .. Count'
      BY <1>1, <2>1, <2>2, <3>1, Numbers DEF Taken
    <3>4. request[req'] = "none"
      BY <1>1, <2>1, <3>1, <3>2, Numbers DEF Started
    <3>5. QED
      BY <2>2, <2>4, <3>1, <3>2, <3>3, <3>4, Numbers DEF OrderInv, StreamInv
  <2>5. QED
    BY <2>3, <2>4
<1>8. QED
  BY <1>5, <1>6, <1>7 DEF OrderInv

LEMMA AcquireKeepsOrder ==
  ASSUME OrderInv, Acquire
  PROVE  OrderInv'
<1>1. ProducerInv' /\ ListInv' /\ Count' = Count
  BY ProducerUnchanged DEF Acquire
<1>2. /\ req \in Requests /\ request' = [request EXCEPT ![req] = "open"]
      /\ req' = req /\ stream' = "test"
      /\ request \in [Requests -> {"none", "open", "receive", "store", "done"}]
  BY DEF Acquire, OrderInv, StreamInv
<1>3. Started' = Started \cup {req}
  BY <1>2 DEF Started
<1>4. Taken' = Taken
  <2>1. req # zaroreq
    BY <1>2, Numbers
  <2>2. QED
    BY <1>2, <1>3, <2>1 DEF Taken
<1>5. StreamInv'
  <2>1. request' \in [Requests -> {"none", "open", "receive", "store", "done"}]
    BY <1>2
  <2>2. QED
    BY <1>1, <1>2, <1>3, <1>4, <2>1 DEF StreamInv, OrderInv
<1>6. QED
  BY <1>1, <1>5 DEF OrderInv

LEMMA StreamKeepsOrder ==
  ASSUME OrderInv, Stream
  PROVE  OrderInv'
<1>1. CASE MakeSemaphore \/ Join
  <2>1. ProducerInv' /\ ListInv' /\ Count' = Count
    BY <1>1, ProducerUnchanged DEF MakeSemaphore, Join
  <2>2. /\ request' = request /\ req' = req
        /\ \/ stream = "make" /\ stream' = "test"
           \/ stream = "join" /\ stream' = "done"
    BY <1>1 DEF MakeSemaphore, Join
  <2>3. Started' = Started /\ Taken' = Taken
    BY <2>2 DEF Started, Taken
  <2>4. StreamInv'
    BY <2>1, <2>2, <2>3 DEF StreamInv, OrderInv
  <2>5. QED
    BY <2>1, <2>4 DEF OrderInv
<1>2. QED
  BY <1>1, TestKeepsOrder, TakeKeepsOrder, AcquireKeepsOrder DEF Stream

-----------------------------------------------------------------------------
(* Everything else                                                         *)

\* The goroutine of a request is one that has been started, and stays so.
LEMMA RequestKeepsOrder ==
  ASSUME OrderInv, NEW r \in Requests, Request(r)
  PROVE  OrderInv'
<1>1. /\ UNCHANGED <<ints, producing, stream, req>>
      /\ request[r] # "none"
      /\ \E to \in {"receive", "store", "done"} : request' = [request EXCEPT ![r] = to]
  BY DEF Request, Open, Receive, Store, Goto, streaming
<1>2. ProducerInv' /\ ListInv' /\ Count' = Count
  BY <1>1, ProducerUnchanged
<1>3. /\ request \in [Requests -> {"none", "open", "receive", "store", "done"}]
      /\ request' \in [Requests -> {"none", "open", "receive", "store", "done"}]
      /\ \A q \in Requests : request'[q] = "none" <=> request[q] = "none"
  BY <1>1 DEF OrderInv, StreamInv
<1>4. Started' = Started /\ Taken' = Taken
  BY <1>1, <1>3 DEF Started, Taken
<1>5. StreamInv'
  BY <1>1, <1>2, <1>3, <1>4 DEF StreamInv, OrderInv
<1>6. QED
  BY <1>2, <1>5 DEF OrderInv

LEMMA NextOrder ==
  ASSUME OrderInv, [Next]_vars
  PROVE  OrderInv'
<1>1. ASSUME UNCHANGED <<ints, producing, streaming, request>>
      PROVE  OrderInv'
  <2>1. ProducerInv' /\ ListInv' /\ Count' = Count
    BY <1>1, ProducerUnchanged
  <2>2. QED
    BY <1>1, <2>1, StreamUnchanged DEF OrderInv
<1>2. CASE Consumer
  BY <1>1, <1>2 DEF Consumer, LookAtBuffer, LookAtStream, Loop, TakeResponse, Consume
<1>3. CASE LoseConnection
  BY <1>1, <1>3 DEF LoseConnection
<1>4. CASE UNCHANGED vars
  BY <1>1, <1>4 DEF vars
<1>5. QED
  BY <1>2, <1>3, <1>4, ProducerKeepsOrder, StreamKeepsOrder, RequestKeepsOrder DEF Next

LEMMA OrderSuffices ==
  ASSUME OrderInv
  PROVE  NoRequestIsLeftBehind
<1>1. /\ ints \in Seq(Nat) /\ Len(ints) \in Nat \ {0}
      /\ Added \in Int /\ Added <= Total
      /\ Count \in Nat /\ Zeros \in {0, 1}
  BY Numbers DEF OrderInv, ListInv, ProducerInv, Zeros
<1>2. Count \in 0 .. Total
  BY <1>1, Numbers DEF Count
<1>3. Left = [i \in 1 .. Len(Left) |-> Count + i]
  <2>1. CASE ints[1] = zaroreq
    <3>1. Left = Tail(ints) /\ Zeros = 1
      BY <2>1 DEF Left, Zeros
    <3>2. /\ Left = [i \in 1 .. Len(Left) |-> Left[i]]
          /\ Len(Left) = Len(ints) - 1
          /\ \A i \in 1 .. Len(Left) : Left[i] = ints[i + 1]
      <4>1. ints # << >>
        BY <1>1
      <4>2. /\ Tail(ints) \in Seq(Nat)
            /\ Len(Tail(ints)) = Len(ints) - 1
            /\ \A i \in 1 .. Len(Tail(ints)) : Tail(ints)[i] = ints[i + 1]
        BY <1>1, <4>1
      <4>3. \A s \in Seq(Nat) : s = [i \in 1 .. Len(s) |-> s[i]]
        OBVIOUS
      <4>4. QED
        BY <3>1, <4>2, <4>3
    <3>3. \A i \in 1 .. Len(Left) : Left[i] = Count + i
      <4> TAKE i \in 1 .. Len(Left)
      <4>1. i + 1 \in 2 .. Len(ints) /\ Left[i] = ints[i + 1]
        BY <1>1, <3>2
      <4>2. ints[i + 1] = Count + (i + 1) - 1
        BY <3>1, <4>1 DEF OrderInv, ListInv
      <4>3. QED
        BY <1>1, <4>1, <4>2
    <3>4. QED
      BY <3>2, <3>3
  <2>2. CASE ints[1] # zaroreq
    <3>1. Left = ints /\ Zeros = 0
      BY <2>2 DEF Left, Zeros
    <3>2. \A i \in 1 .. Len(ints) : ints[i] = Count + i
      <4> TAKE i \in 1 .. Len(ints)
      <4>1. CASE i = 1
        BY <2>2, <4>1 DEF OrderInv, ListInv
      <4>2. CASE i # 1
        <5>1. i \in 2 .. Len(ints)
          BY <1>1, <4>2
        <5>2. QED
          BY <1>1, <3>1, <5>1 DEF OrderInv, ListInv
      <4>3. QED
        BY <4>1, <4>2
    <3>3. ints = [i \in 1 .. Len(ints) |-> ints[i]]
      BY <1>1
    <3>4. QED
      BY <3>1, <3>2, <3>3
  <2>3. QED
    BY <2>1, <2>2
<1>4. QED
  BY <1>2, <1>3 DEF NoRequestIsLeftBehind, OrderInv, StreamInv

\* Requests are taken in order and each once, and when handleStream leaves its loop
\* all have been, whatever the order in which it, the producer and the goroutines
\* of the requests run (client.go:174, 292).
THEOREM NoneLeftBehind ==
  Spec => []NoRequestIsLeftBehind
<1>1. OrderInv /\ [Next]_vars => OrderInv'
  BY NextOrder
<1>2. QED
  BY <1>1, InitOrder, OrderSuffices, PTL DEF Spec

-----------------------------------------------------------------------------
(* Types, and answers                                                      *)

\* The types of what is not a list or a number of responses.
FlagTypes ==
  /\ semaphoreCount \in Int
  /\ connected \in BOOLEAN
  /\ crashed \in BOOLEAN
  /\ counter <= FirstBatch + SecondBatch
  /\ producer \in {"add", "first", "length", "finish", "done"}
  /\ bufferFinished \in BOOLEAN
  /\ addFinish \in BOOLEAN
  /\ streamFinished \in BOOLEAN
  /\ stream \in {"make", "test", "take", "acquire", "join", "done"}
  /\ req \in Requests \cup {zaroreq}
  /\ consumer \in {"test", "confirm", "loop", "retest", "reconfirm", "take", "done"}
  /\ flag1 \in BOOLEAN

\* The requests that have had their response, and those that have not.
Answered == {r \in Requests : request[r] \in {"store", "done"}}
Unanswered == Requests \ Answered

\* A response is in the buffer or has been consumed.
AnswersInv ==
  /\ responses \in Nat
  /\ consumed \in Nat
  /\ responses + consumed = Cardinality(Answered)

\* The goroutines of the requests are as many as the semaphore allows.
SemaphoreInv ==
  /\ stream = "make" => Taken = {}
  /\ stream # "make" /\ ~crashed => Cardinality(InSemaphore) <= semaphoreCount

\* The consumer that has found the buffer empty can be overtaken by no more
\* responses than there are requests without one: those in the semaphore, the
\* one that handleStream holds and the one in the list.
EndInv ==
  /\ addFinish => producer = "done"
  /\ streamFinished => stream = "done" /\ InSemaphore = {}
  /\ consumer = "done" => streamFinished
  /\ consumer \in {"confirm", "reconfirm", "done"} =>
       responses + Cardinality(Unanswered) <= semaphoreCount + 2

ClientInv == OrderInv /\ FlagTypes /\ AnswersInv /\ SemaphoreInv /\ EndInv

LEMMA SetOfRequests ==
  ASSUME NEW S \in SUBSET Requests
  PROVE  /\ IsFiniteSet(S)
         /\ Cardinality(S) \in 0 .. Total
         /\ S = Requests => Cardinality(S) = Total
<1>1. 1 \in Int /\ Total \in Int
  BY Numbers
<1>2. /\ IsFiniteSet(1 .. Total)
      /\ Cardinality(1 .. Total) = IF 1 > Total THEN 0 ELSE Total - 1 + 1
  BY <1>1, FS_Interval, Zenon
<1>3. IsFiniteSet(Requests) /\ Cardinality(Requests) = Total
  BY <1>2, Numbers
<1>4. IsFiniteSet(S) /\ Cardinality(S) <= Cardinality(Requests)
  BY <1>3, FS_Subset
<1>5. Cardinality(S) \in Nat
  BY <1>4, FS_CardinalityType
<1>6. QED
  BY <1>3, <1>4, <1>5, Numbers

\* One request more, and one less.
LEMMA OneRequest ==
  ASSUME NEW S \in SUBSET Requests, NEW r \in Requests
  PROVE  /\ r \notin S => Cardinality(S \cup {r}) = Cardinality(S) + 1
         /\ r \in S => Cardinality(S \ {r}) = Cardinality(S) - 1
BY SetOfRequests, FS_AddElement, FS_RemoveElement

LEMMA SetsOfRequests ==
  /\ InSemaphore \in SUBSET Requests /\ Cardinality(InSemaphore) \in 0 .. Total
  /\ Answered \in SUBSET Requests /\ Cardinality(Answered) \in 0 .. Total
  /\ Unanswered \in SUBSET Requests /\ Cardinality(Unanswered) \in 0 .. Total
<1>1. InSemaphore \in SUBSET Requests /\ Answered \in SUBSET Requests
  BY DEF InSemaphore, Answered
<1>2. Unanswered \in SUBSET Requests
  BY DEF Unanswered
<1>3. QED
  BY <1>1, <1>2, SetOfRequests

LEMMA ListBounds ==
  ASSUME OrderInv
  PROVE  /\ ints \in Seq(Requests \cup {zaroreq}) \ {<< >>}
         /\ ints[1] \in Requests \cup {zaroreq}
<1>1. /\ ints \in Seq(Nat) /\ Len(ints) \in Nat \ {0} /\ ints # << >>
      /\ Added \in Nat /\ Added <= Total
      /\ Count \in Nat /\ Zeros \in {0, 1}
      /\ Count = Added - Len(ints) + Zeros
  BY Numbers DEF OrderInv, ListInv, ProducerInv, Zeros, Count
<1>2. \A i \in 1 .. Len(ints) : ints[i] \in Requests \cup {zaroreq}
  <2> TAKE i \in 1 .. Len(ints)
  <2>1. CASE i = 1
    <3>1. CASE ints[1] = zaroreq
      BY <2>1, <3>1
    <3>2. CASE ints[1] # zaroreq
      <4>1. ints[1] = Count + 1 /\ Zeros = 0
        BY <3>2 DEF OrderInv, ListInv, Zeros
      <4>2. QED
        BY <1>1, <2>1, <4>1, Numbers
    <3>3. QED
      BY <3>1, <3>2
  <2>2. CASE i # 1
    <3>1. i \in 2 .. Len(ints)
      BY <1>1, <2>2
    <3>2. ints[i] = Count + i - Zeros
      BY <3>1 DEF OrderInv, ListInv
    <3>3. QED
      BY <1>1, <3>1, <3>2, Numbers
  <2>3. QED
    BY <2>1, <2>2
<1>3. ints \in Seq(Requests \cup {zaroreq})
  BY <1>1, <1>2
<1>4. QED
  BY <1>1, <1>2, <1>3

LEMMA InitClient ==
  ASSUME Init
  PROVE  ClientInv
<1>1. OrderInv
  BY InitOrder
<1>2. /\ request = [r \in Requests |-> "none"]
      /\ req = zaroreq /\ stream = "make"
      /\ responses = 0 /\ consumed = 0
      /\ consumer = "test" /\ ~addFinish /\ ~streamFinished
  BY DEF Init
<1>3. FlagTypes
  <2>1. semaphoreCount \in Int
    BY ConfigAssumption DEF Init
  <2>2. counter = FirstBatch
    BY DEF Init
  <2>3. counter <= FirstBatch + SecondBatch
    BY <2>2, Numbers
  <2>4. /\ connected \in BOOLEAN /\ crashed \in BOOLEAN /\ bufferFinished \in BOOLEAN
        /\ addFinish \in BOOLEAN /\ streamFinished \in BOOLEAN /\ flag1 \in BOOLEAN
        /\ producer = "add"
    BY DEF Init
  <2>5. QED
    BY <1>2, <2>1, <2>3, <2>4 DEF FlagTypes
<1>4. AnswersInv
  <2>1. Answered = {}
    BY <1>2 DEF Answered
  <2>2. QED
    BY <1>2, <2>1, FS_EmptySet DEF AnswersInv
<1>5. SemaphoreInv
  <2>1. Taken = {}
    BY <1>2 DEF Taken, Started
  <2>2. QED
    BY <1>2, <2>1 DEF SemaphoreInv
<1>6. EndInv
  BY <1>2 DEF EndInv
<1>7. QED
  BY <1>1, <1>3, <1>4, <1>5, <1>6 DEF ClientInv

-----------------------------------------------------------------------------
(* The producer and handleStream                                           *)

\* What the sets of requests depend on.
LEMMA SetsUnchanged ==
  ASSUME UNCHANGED request
  PROVE  /\ Started' = Started /\ InSemaphore' = InSemaphore
         /\ Answered' = Answered /\ Unanswered' = Unanswered
BY DEF Started, InSemaphore, Answered, Unanswered

LEMMA ProducerKeepsClient ==
  ASSUME ClientInv, Producer
  PROVE  (FlagTypes /\ AnswersInv /\ SemaphoreInv /\ EndInv)'
<1>1. UNCHANGED <<semaphoreCount, connected, crashed, stream, req, streamFinished, request,
                  responses, consumer, flag1, consumed>>
  BY DEF Producer, Add, LookAtFirst, LookAtLength, SetAddFinish, streaming, consuming
<1>2. FlagTypes'
  <2>1. counter' <= FirstBatch + SecondBatch
    <3>1. counter \in Nat /\ counter <= FirstBatch + SecondBatch
      BY DEF ClientInv, FlagTypes, OrderInv, ProducerInv
    <3>2. CASE Add
      <4>1. \/ counter > 1 /\ counter' = counter - 1
            \/ counter' = 0
            \/ counter' = SecondBatch
        BY <3>2 DEF Add
      <4>2. QED
        BY <3>1, <4>1, Numbers
    <3>3. CASE LookAtFirst \/ LookAtLength \/ SetAddFinish
      BY <3>1, <3>3 DEF LookAtFirst, LookAtLength, SetAddFinish
    <3>4. QED
      BY <3>2, <3>3 DEF Producer
  <2>2. /\ producer' \in {"add", "first", "length", "finish", "done"}
        /\ bufferFinished' \in BOOLEAN /\ addFinish' \in BOOLEAN
    <3>1. /\ producer \in {"add", "first", "length", "finish", "done"}
          /\ bufferFinished \in BOOLEAN /\ addFinish \in BOOLEAN
      BY DEF ClientInv, FlagTypes
    <3>2. CASE Add
      BY <3>1, <3>2 DEF Add
    <3>3. CASE LookAtFirst \/ LookAtLength \/ SetAddFinish
      BY <3>1, <3>3 DEF LookAtFirst, LookAtLength, SetAddFinish
    <3>4. QED
      BY <3>2, <3>3 DEF Producer
  <2>3. QED
    BY <1>1, <2>1, <2>2 DEF ClientInv, FlagTypes
<1>3. AnswersInv'
  BY <1>1, SetsUnchanged DEF ClientInv, AnswersInv
<1>4. SemaphoreInv'
  BY <1>1, SetsUnchanged DEF ClientInv, SemaphoreInv, Taken
<1>5. EndInv'
  <2>1. addFinish' => producer' = "done"
    <3>1. addFinish => producer = "done"
      BY DEF ClientInv, EndInv
    <3>2. CASE Add
      BY <3>1, <3>2 DEF Add
    <3>3. CASE LookAtFirst \/ LookAtLength \/ SetAddFinish
      BY <3>1, <3>3 DEF LookAtFirst, LookAtLength, SetAddFinish
    <3>4. QED
      BY <3>2, <3>3 DEF Producer
  <2>2. QED
    BY <1>1, <2>1, SetsUnchanged DEF ClientInv, EndInv
<1>6. QED
  BY <1>2, <1>3, <1>4, <1>5

LEMMA StreamKeepsClient ==
  ASSUME ClientInv, ~crashed, Stream
  PROVE  (FlagTypes /\ AnswersInv /\ SemaphoreInv /\ EndInv)'
<1>1. UNCHANGED <<semaphoreCount, connected, counter, producer, bufferFinished, addFinish,
                  responses, consumer, flag1, consumed>>
  BY DEF Stream, MakeSemaphore, Test, Take, Acquire, Join, producing, consuming
<1>2. stream # "done" /\ ~streamFinished
  BY DEF Stream, MakeSemaphore, Test, Take, Acquire, Join, ClientInv, EndInv
<1>3. FlagTypes'
  <2>1. crashed' \in BOOLEAN
    <3>1. crashed' = crashed \/ crashed' = (semaphoreCount < 0)
      BY DEF Stream, MakeSemaphore, Test, Take, Acquire, Join
    <3>2. crashed \in BOOLEAN
      BY DEF ClientInv, FlagTypes
    <3>3. (semaphoreCount < 0) \in BOOLEAN
      <4>1. semaphoreCount \in Int
        BY DEF ClientInv, FlagTypes
      <4>2. QED
        BY <4>1, SMT
    <3>4. QED
      BY <3>1, <3>2, <3>3, Zenon
  <2>2. streamFinished' \in BOOLEAN
    BY DEF Stream, MakeSemaphore, Test, Take, Acquire, Join, ClientInv, FlagTypes
  <2>3. stream' \in {"make", "test", "take", "acquire", "join", "done"}
    BY DEF Stream, MakeSemaphore, Test, Take, Acquire, Join
  <2>4. req' \in Requests \cup {zaroreq}
    <3>1. req' = req \/ req' = ints[1]
      BY DEF Stream, MakeSemaphore, Test, Take, Acquire, Join
    <3>2. QED
      BY <3>1, ListBounds DEF ClientInv, FlagTypes
  <2>5. QED
    BY <1>1, <2>1, <2>2, <2>3, <2>4 DEF ClientInv, FlagTypes
<1>4. ASSUME UNCHANGED request, ~streamFinished' \/ (stream' = "done" /\ InSemaphore = {})
      PROVE  EndInv'
  BY <1>1, <1>2, <1>4, SetsUnchanged DEF ClientInv, EndInv
<1>5. CASE MakeSemaphore
  <2>1. /\ UNCHANGED <<request, req, streamFinished>>
        /\ stream = "make" /\ stream' = "test" /\ crashed' = (semaphoreCount < 0)
    BY <1>5 DEF MakeSemaphore
  <2>2. AnswersInv'
    BY <1>1, <2>1, SetsUnchanged DEF ClientInv, AnswersInv
  <2>3. EndInv'
    BY <1>2, <1>4, <2>1
  <2>4. InSemaphore' = {}
    <3>1. Started = {}
      BY <2>1 DEF ClientInv, SemaphoreInv, Taken
    <3>2. InSemaphore = {}
      BY <3>1 DEF Started, InSemaphore
    <3>3. QED
      BY <2>1, <3>2, SetsUnchanged
  <2>5. Cardinality(InSemaphore') = 0
    BY <2>4, FS_EmptySet
  <2>6. ~crashed' => 0 <= semaphoreCount
    <3>1. semaphoreCount \in Int
      BY DEF ClientInv, FlagTypes
    <3>2. ~(semaphoreCount < 0) => 0 <= semaphoreCount
      BY <3>1
    <3>3. QED
      BY <2>1, <3>2, Zenon
  <2>7. SemaphoreInv'
    BY <1>1, <2>1, <2>5, <2>6 DEF SemaphoreInv
  <2>8. QED
    BY <1>3, <2>2, <2>3, <2>7
<1>6. CASE Test \/ Take
  <2>1. /\ UNCHANGED <<request, crashed, streamFinished>>
        /\ stream # "make" /\ stream' # "make"
    BY <1>6 DEF Test, Take
  <2>2. AnswersInv'
    BY <1>1, <2>1, SetsUnchanged DEF ClientInv, AnswersInv
  <2>3. EndInv'
    BY <1>2, <1>4, <2>1
  <2>4. SemaphoreInv'
    BY <1>1, <2>1, SetsUnchanged DEF ClientInv, SemaphoreInv
  <2>5. QED
    BY <1>3, <2>2, <2>3, <2>4
<1>7. CASE Join
  <2>1. /\ UNCHANGED <<request, crashed>>
        /\ stream = "join" /\ stream' = "done" /\ InSemaphore = {}
    BY <1>7 DEF Join
  <2>2. AnswersInv'
    BY <1>1, <2>1, SetsUnchanged DEF ClientInv, AnswersInv
  <2>3. EndInv'
    BY <1>4, <2>1
  <2>4. SemaphoreInv'
    BY <1>1, <2>1, SetsUnchanged DEF ClientInv, SemaphoreInv
  <2>5. QED
    BY <1>3, <2>2, <2>3, <2>4
<1>8. CASE Acquire
  <2>1. /\ UNCHANGED <<crashed, streamFinished>>
        /\ stream' = "test"
        /\ Cardinality(InSemaphore) < semaphoreCount
        /\ request' = [request EXCEPT ![req] = "open"]
        /\ req \in Requests /\ request[req] = "none"
        /\ request \in [Requests -> {"none", "open", "receive", "store", "done"}]
    BY <1>8 DEF Acquire, ClientInv, OrderInv, StreamInv
  <2>2. Answered' = Answered
    BY <2>1 DEF Answered
  <2>3. Unanswered' = Unanswered
    BY <2>2 DEF Unanswered
  <2>4. InSemaphore' = InSemaphore \cup {req} /\ req \notin InSemaphore
    BY <2>1 DEF InSemaphore
  <2>5. Cardinality(InSemaphore') = Cardinality(InSemaphore) + 1
    BY <2>1, <2>4, SetsOfRequests, OneRequest
  <2>6. AnswersInv'
    BY <1>1, <2>2 DEF ClientInv, AnswersInv
  <2>7. SemaphoreInv'
    <3>1. Cardinality(InSemaphore') <= semaphoreCount'
      <4>1. semaphoreCount \in Int /\ Cardinality(InSemaphore) \in Int
        BY SetsOfRequests DEF ClientInv, FlagTypes
      <4>2. QED
        BY <1>1, <2>1, <2>5, <4>1
    <3>2. QED
      BY <2>1, <3>1 DEF SemaphoreInv
  <2>8. EndInv'
    BY <1>1, <1>2, <2>1, <2>3 DEF ClientInv, EndInv
  <2>9. QED
    BY <1>3, <2>6, <2>7, <2>8
<1>9. QED
  BY <1>5, <1>6, <1>7, <1>8 DEF Stream

-----------------------------------------------------------------------------
(* The goroutine of a request                                              *)

\* It holds a place in the semaphore, so that the stream has not finished.
LEMMA RequestKeepsClient ==
  ASSUME ClientInv, ~crashed, NEW r \in Requests, Request(r)
  PROVE  (FlagTypes /\ AnswersInv /\ SemaphoreInv /\ EndInv)'
<1>1. /\ UNCHANGED <<semaphoreCount, counter, producer, bufferFinished, addFinish,
                     stream, req, streamFinished, consumer, flag1, consumed, connected>>
      /\ crashed' \in BOOLEAN
  <2>1. UNCHANGED <<semaphoreCount, producing, streaming, consuming, connected>>
    BY DEF Request, Open, Receive, Store
  <2>2. CASE Open(r)
    <3>1. crashed' = ~connected /\ connected \in BOOLEAN
      BY <2>2 DEF Open, ClientInv, FlagTypes
    <3>2. QED
      BY <2>1, <3>1, Zenon DEF producing, streaming, consuming
  <2>3. CASE Receive(r) \/ Store(r)
    BY <2>1, <2>3 DEF Receive, Store, ClientInv, FlagTypes, producing, streaming, consuming
  <2>4. QED
    BY <2>2, <2>3 DEF Request
<1>2. /\ request \in [Requests -> {"none", "open", "receive", "store", "done"}]
      /\ request[r] \in {"open", "receive", "store"}
  BY DEF Request, Open, Receive, Store, Goto, ClientInv, OrderInv, StreamInv
<1>3. r \in InSemaphore /\ r \in Taken
  BY <1>2 DEF InSemaphore, Taken, Started
<1>4. ~streamFinished /\ stream # "make"
  BY <1>3 DEF ClientInv, EndInv, SemaphoreInv
<1>5. FlagTypes'
  BY <1>1 DEF ClientInv, FlagTypes
<1>6. SemaphoreInv'
  <2>1. InSemaphore' \in SUBSET InSemaphore
    <3>1. PICK to \in {"receive", "store", "done"} : request' = [request EXCEPT ![r] = to]
      BY DEF Request, Open, Receive, Store, Goto
    <3>2. \A q \in Requests : q # r => request'[q] = request[q]
      BY <1>2, <3>1
    <3>3. QED
      BY <1>3, <3>2 DEF InSemaphore
  <2>2. /\ Cardinality(InSemaphore') <= Cardinality(InSemaphore)
        /\ Cardinality(InSemaphore') \in Nat /\ Cardinality(InSemaphore) \in Nat
    <3>1. IsFiniteSet(InSemaphore)
      BY SetsOfRequests, SetOfRequests
    <3>2. IsFiniteSet(InSemaphore') /\ Cardinality(InSemaphore') <= Cardinality(InSemaphore)
      BY <2>1, <3>1, FS_Subset
    <3>3. QED
      BY <3>1, <3>2, FS_CardinalityType
  <2>3. Cardinality(InSemaphore) <= semaphoreCount /\ semaphoreCount \in Int
    BY <1>4 DEF ClientInv, SemaphoreInv, FlagTypes
  <2>4. Cardinality(InSemaphore') <= semaphoreCount
    BY <2>2, <2>3
  <2>5. QED
    BY <1>1, <1>4, <2>4 DEF SemaphoreInv
<1>7. AnswersInv' /\ responses' + Cardinality(Unanswered') = responses + Cardinality(Unanswered)
  <2>1. CASE Receive(r)
    <3>1. /\ responses' = responses + 1
          /\ request[r] = "receive"
          /\ request' = [request EXCEPT ![r] = "store"]
      BY <2>1 DEF Receive, Goto
    <3>2. r \notin Answered /\ Answered' = Answered \cup {r}
      BY <1>2, <3>1 DEF Answered
    <3>3. r \in Unanswered /\ Unanswered' = Unanswered \ {r}
      BY <3>2 DEF Unanswered
    <3>4. Cardinality(Answered') = Cardinality(Answered) + 1
      BY <3>2, SetsOfRequests, OneRequest
    <3>5. Cardinality(Unanswered') = Cardinality(Unanswered) - 1
      BY <3>3, SetsOfRequests, OneRequest
    <3>6. /\ responses \in Nat /\ consumed \in Nat
          /\ responses + consumed = Cardinality(Answered)
          /\ Cardinality(Unanswered) \in Int
      BY SetsOfRequests DEF ClientInv, AnswersInv
    <3>7. /\ responses' \in Nat /\ consumed' \in Nat
          /\ responses' + consumed' = Cardinality(Answered')
      BY <1>1, <3>1, <3>4, <3>6
    <3>8. QED
      BY <3>1, <3>5, <3>6, <3>7 DEF AnswersInv
  <2>2. CASE Open(r) \/ Store(r)
    <3>1. /\ responses' = responses
          /\ \/ request[r] = "open" /\ request' = [request EXCEPT ![r] = "receive"]
             \/ request[r] = "store" /\ request' = [request EXCEPT ![r] = "done"]
      BY <2>2 DEF Open, Store, Goto
    <3>2. Answered' = Answered
      BY <1>2, <3>1 DEF Answered
    <3>3. Unanswered' = Unanswered
      BY <3>2 DEF Unanswered
    <3>4. QED
      BY <1>1, <3>1, <3>2, <3>3 DEF ClientInv, AnswersInv
  <2>3. QED
    BY <2>1, <2>2 DEF Request
<1>8. EndInv'
  <2>1. consumer # "done"
    BY <1>4 DEF ClientInv, EndInv
  <2>2. QED
    BY <1>1, <1>4, <1>7, <2>1 DEF ClientInv, EndInv
<1>9. QED
  BY <1>5, <1>6, <1>7, <1>8

-----------------------------------------------------------------------------
(* The consumer                                                            *)

\* Once everything has been added and one place is left in the list, the requests
\* without a response are in the semaphore, but for two.
LEMMA FewUnanswered ==
  ASSUME ClientInv, ~crashed, addFinish
  PROVE  Cardinality(Unanswered) <= semaphoreCount + 2
<1>1. Len(ints) = 1 /\ Added = Total
  BY DEF ClientInv, EndInv, OrderInv, ProducerInv
<1>2. Count \in Nat /\ Count >= Total - 1 /\ Taken = 1 .. Count
  <2>1. Zeros \in {0, 1} /\ Count = Total - 1 + Zeros
    BY <1>1, Numbers DEF Count, Zeros
  <2>2. QED
    BY <2>1, Numbers DEF ClientInv, OrderInv, ListInv, StreamInv
<1>3. stream # "make"
  <2>1. 1 \in Taken
    BY <1>2, Numbers
  <2>2. QED
    BY <2>1 DEF ClientInv, SemaphoreInv
<1>4. Cardinality(InSemaphore) <= semaphoreCount /\ semaphoreCount \in Int
  BY <1>3 DEF ClientInv, SemaphoreInv, FlagTypes
<1>5. Unanswered \subseteq (InSemaphore \cup {req}) \cup {Total}
  <2>1. SUFFICES ASSUME NEW r \in Unanswered, r # req, r # Total
                 PROVE  r \in InSemaphore
    OBVIOUS
  <2>2. r \in Requests /\ request[r] \notin {"store", "done"}
    BY DEF Unanswered, Answered
  <2>3. r \in Taken
    BY <1>2, <2>1, <2>2, Numbers
  <2>4. request[r] # "none"
    BY <2>1, <2>3 DEF Taken, Started
  <2>5. QED
    BY <2>2, <2>4 DEF InSemaphore
<1>6. /\ IsFiniteSet((InSemaphore \cup {req}) \cup {Total})
      /\ Cardinality((InSemaphore \cup {req}) \cup {Total}) <= Cardinality(InSemaphore) + 2
  <2> DEFINE held == InSemaphore \cup {req}
  <2> HIDE DEF held
  <2>1. IsFiniteSet(InSemaphore) /\ Cardinality(InSemaphore) \in Nat
    BY SetsOfRequests, SetOfRequests
  <2>2. /\ IsFiniteSet(held)
        /\ Cardinality(held) = Cardinality(InSemaphore)
             \/ Cardinality(held) = Cardinality(InSemaphore) + 1
    BY <2>1, FS_AddElement DEF held
  <2>3. /\ IsFiniteSet(held \cup {Total})
        /\ Cardinality(held \cup {Total}) = Cardinality(held)
             \/ Cardinality(held \cup {Total}) = Cardinality(held) + 1
    BY <2>2, FS_AddElement
  <2>4. Cardinality(held \cup {Total}) <= Cardinality(InSemaphore) + 2
    BY <2>1, <2>2, <2>3
  <2>5. QED
    BY <2>3, <2>4 DEF held
<1>7. /\ Cardinality(Unanswered) <= Cardinality((InSemaphore \cup {req}) \cup {Total})
      /\ Cardinality((InSemaphore \cup {req}) \cup {Total}) \in Nat
  BY <1>5, <1>6, FS_Subset, FS_CardinalityType
<1>8. Cardinality(Unanswered) \in Int /\ Cardinality(InSemaphore) \in Int
  BY SetsOfRequests
<1>9. QED
  BY <1>4, <1>6, <1>7, <1>8

LEMMA ConsumerKeepsClient ==
  ASSUME ClientInv, ~crashed, Consumer
  PROVE  (FlagTypes /\ AnswersInv /\ SemaphoreInv /\ EndInv)'
<1>1. UNCHANGED <<semaphoreCount, connected, crashed, counter, producer, bufferFinished,
                  addFinish, stream, req, streamFinished, request>>
  BY DEF Consumer, LookAtBuffer, LookAtStream, Loop, TakeResponse, Consume,
         producing, streaming
<1>2. SemaphoreInv'
  BY <1>1, SetsUnchanged DEF ClientInv, SemaphoreInv, Taken
<1>3. /\ responses \in Nat /\ consumed \in Nat
      /\ responses + consumed = Cardinality(Answered)
      /\ flag1 \in BOOLEAN
      /\ Cardinality(Unanswered) \in Nat
  BY SetsOfRequests DEF ClientInv, AnswersInv, FlagTypes
<1>4. ASSUME consumer' \in {"test", "confirm", "loop", "retest", "reconfirm", "take", "done"},
             flag1' \in BOOLEAN
      PROVE  FlagTypes'
  BY <1>1, <1>4 DEF ClientInv, FlagTypes
<1>5. ASSUME UNCHANGED <<responses, consumed>>
      PROVE  AnswersInv'
  BY <1>1, <1>5, SetsUnchanged DEF ClientInv, AnswersInv
<1>6. ASSUME consumer' \notin {"confirm", "reconfirm", "done"}
      PROVE  EndInv'
  BY <1>1, <1>6, SetsUnchanged DEF ClientInv, EndInv
<1>7. CASE LookAtBuffer
  <2>1. /\ UNCHANGED <<responses, flag1, consumed>>
        /\ \/ consumer' \in {"loop", "take"}
           \/ consumer' \in {"confirm", "reconfirm"} /\ addFinish /\ responses = 0
    BY <1>7 DEF LookAtBuffer, Consume
  <2>2. EndInv'
    <3>1. CASE consumer' \in {"loop", "take"}
      BY <1>6, <3>1
    <3>2. CASE consumer' \in {"confirm", "reconfirm"} /\ addFinish /\ responses = 0
      <4>1. responses + Cardinality(Unanswered) <= semaphoreCount + 2
        <5>1. Cardinality(Unanswered) <= semaphoreCount + 2
          BY <3>2, FewUnanswered
        <5>2. QED
          BY <1>3, <3>2, <5>1
      <4>2. QED
        BY <1>1, <2>1, <3>2, <4>1, SetsUnchanged DEF ClientInv, EndInv
    <3>3. QED
      BY <2>1, <3>1, <3>2
  <2>3. FlagTypes'
    BY <1>3, <1>4, <2>1
  <2>4. AnswersInv'
    BY <1>5, <2>1
  <2>5. QED
    BY <1>2, <2>2, <2>3, <2>4
<1>8. CASE LookAtStream
  <2>1. /\ UNCHANGED <<responses, flag1, consumed>>
        /\ consumer \in {"confirm", "reconfirm"}
        /\ \/ consumer' \in {"loop", "take"}
           \/ consumer' = "done" /\ streamFinished
    BY <1>8 DEF LookAtStream, Consume
  <2>2. EndInv'
    BY <1>1, <2>1, SetsUnchanged DEF ClientInv, EndInv
  <2>3. FlagTypes'
    BY <1>3, <1>4, <2>1
  <2>4. AnswersInv'
    BY <1>5, <2>1
  <2>5. QED
    BY <1>2, <2>2, <2>3, <2>4
<1>9. CASE Loop
  <2>1. UNCHANGED <<responses, consumed>> /\ consumer' \in {"loop", "retest"}
    BY <1>9 DEF Loop, Consume
  <2>2. flag1' \in BOOLEAN
    BY <1>9, Zenon DEF Loop
  <2>3. QED
    BY <1>2, <1>4, <1>5, <1>6, <2>1, <2>2
<1>10. CASE TakeResponse
  <2>1. consumer' = "test"
    BY <1>10 DEF TakeResponse, Consume
  <2>2. flag1' \in BOOLEAN
    BY <1>3, <1>10 DEF TakeResponse
  <2>3. /\ responses' \in Nat /\ consumed' \in Nat
        /\ responses' + consumed' = responses + consumed
    <3>1. \/ responses # 0 /\ responses' = responses - 1 /\ consumed' = consumed + 1
          \/ responses' = responses /\ consumed' = consumed
      BY <1>10 DEF TakeResponse
    <3>2. QED
      BY <1>3, <3>1
  <2>4. AnswersInv'
    BY <1>1, <1>3, <2>3, SetsUnchanged DEF AnswersInv
  <2>5. QED
    BY <1>2, <1>4, <1>6, <2>1, <2>2, <2>4
<1>11. QED
  BY <1>7, <1>8, <1>9, <1>10 DEF Consumer

LEMMA NextClient ==
  ASSUME ClientInv, [Next]_vars
  PROVE  ClientInv'
<1>1. OrderInv'
  BY NextOrder DEF ClientInv
<1>2. ASSUME UNCHANGED <<semaphoreCount, crashed, counter, producer, bufferFinished,
                         addFinish, stream, req, streamFinished, request, responses,
                         consumer, flag1, consumed>>,
             connected' \in BOOLEAN
      PROVE  (FlagTypes /\ AnswersInv /\ SemaphoreInv /\ EndInv)'
  BY <1>2, SetsUnchanged DEF ClientInv, FlagTypes, AnswersInv, SemaphoreInv, EndInv, Taken
<1>3. CASE UNCHANGED vars
  <2>1. connected' \in BOOLEAN
    BY <1>3 DEF vars, ClientInv, FlagTypes
  <2>2. QED
    BY <1>1, <1>2, <1>3, <2>1 DEF vars, producing, streaming, consuming, ClientInv
<1>4. CASE LoseConnection
  BY <1>1, <1>2, <1>4 DEF LoseConnection, producing, streaming, consuming, ClientInv
<1>5. CASE ~Ended /\ (Producer \/ Stream \/ Consumer \/ \E r \in Requests : Request(r))
  <2>1. ~crashed
    BY <1>5 DEF Ended
  <2>2. (FlagTypes /\ AnswersInv /\ SemaphoreInv /\ EndInv)'
    BY <1>5, <2>1, ProducerKeepsClient, StreamKeepsClient, ConsumerKeepsClient,
       RequestKeepsClient
  <2>3. QED
    BY <1>1, <2>2 DEF ClientInv
<1>6. QED
  BY <1>3, <1>4, <1>5 DEF Next

LEMMA ClientTypes ==
  ASSUME ClientInv
  PROVE  TypeOK
<1>1. ints \in Seq(Requests \cup {zaroreq}) \ {<< >>}
  BY ListBounds DEF ClientInv
<1>2. counter \in 0 .. FirstBatch + SecondBatch /\ counter2 \in {0, 1}
  BY Numbers DEF ClientInv, FlagTypes, OrderInv, ProducerInv
<1>3. request \in [Requests -> {"none", "open", "receive", "store", "done"}]
  BY DEF ClientInv, OrderInv, StreamInv
<1>4. responses \in 0 .. Total /\ consumed \in 0 .. Total
  <2>1. Cardinality(Answered) \in 0 .. Total
    BY SetsOfRequests
  <2>2. /\ responses \in Nat /\ consumed \in Nat
        /\ responses + consumed = Cardinality(Answered)
    BY DEF ClientInv, AnswersInv
  <2>3. QED
    BY <2>1, <2>2, Numbers
<1>5. QED
  BY <1>1, <1>2, <1>3, <1>4 DEF ClientInv, FlagTypes, TypeOK

\* When the consumer has ended, the stream has: every request has been started, and
\* none is in the semaphore, so that all have had their response.
LEMMA ClientLeavesFew ==
  ASSUME ClientInv
  PROVE  ConsumerLeavesFew
<1>1. SUFFICES ASSUME consumer = "done"
               PROVE  /\ consumed + responses = Total
                      /\ responses <= semaphoreCount + 2
  BY DEF ConsumerLeavesFew
<1>2. stream = "done" /\ InSemaphore = {}
  BY <1>1 DEF ClientInv, EndInv
<1>3. Started = Requests
  BY <1>2 DEF ClientInv, OrderInv, StreamInv
<1>4. Answered = Requests
  BY <1>2, <1>3 DEF Started, InSemaphore, Answered
<1>5. Cardinality(Answered) = Total
  <2>1. Requests \in SUBSET Requests
    OBVIOUS
  <2>2. QED
    BY <1>4, <2>1, SetOfRequests
<1>6. /\ responses \in Nat /\ consumed \in Nat
      /\ responses + consumed = Cardinality(Answered)
      /\ semaphoreCount \in Int
      /\ Cardinality(Unanswered) \in Nat
  BY SetsOfRequests DEF ClientInv, AnswersInv, FlagTypes
<1>7. responses + Cardinality(Unanswered) <= semaphoreCount + 2
  BY <1>1 DEF ClientInv, EndInv
<1>8. consumed + responses = Total
  BY <1>5, <1>6
<1>9. responses <= semaphoreCount + 2
  BY <1>6, <1>7
<1>10. QED
  BY <1>8, <1>9

LEMMA ClientInvariant ==
  Spec => []ClientInv
<1>1. ClientInv /\ [Next]_vars => ClientInv'
  BY NextClient
<1>2. QED
  BY <1>1, InitClient, PTL DEF Spec

\* The variables have their types, the numbers of responses among them: there is at
\* most one for each request (client.go:238).
THEOREM TypeCorrect ==
  Spec => []TypeOK
BY ClientInvariant, ClientTypes, PTL

\* The consumer ends only when every request has its response, consumed or in the
\* buffer, and leaves there no more than the semaphore's number and two: those that
\* were under way when it found the buffer empty (client.go:318, 329).
THEOREM FewLeft ==
  Spec => []ConsumerLeavesFew
BY ClientInvariant, ClientLeavesFew, PTL
=============================================================================
