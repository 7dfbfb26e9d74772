------------------------ MODULE DataStructures_proofs ------------------------
(***************************************************************************)
(* For every capacity and every set of items: the fields of the circular   *)
(* queue and of the heap stay well formed, vacated slots are cleared, the  *)
(* wrapped slice implements the bounded first-in first-out queue, the heap *)
(* is in order in every turn of its loops, and it implements the bounded   *)
(* pool that returns a greatest item.                                      *)
(***************************************************************************)
EXTENDS DataStructures, SequenceTheorems, FiniteSetTheorems,
        WellFoundedInduction, TLAPS

-----------------------------------------------------------------------------
(***************************************************************************)
(* The circular queue.                                                     *)
(***************************************************************************)

\* Distinct positions of the occupied window lie in distinct slots, and the
\* slot just past a window that is not full is outside it.
LEMMA SlotsDistinct ==
  ASSUME NEW n \in Nat \ {0}, NEW h \in 0 .. n - 1,
         NEW i \in 1 .. n, NEW j \in 1 .. n,
         (h + i - 1) % n = (h + j - 1) % n
  PROVE  i = j
<1>1. (h + i - 1) % n = IF h + i - 1 < n THEN h + i - 1 ELSE h + i - 1 - n
  BY SMT
<1>2. (h + j - 1) % n = IF h + j - 1 < n THEN h + j - 1 ELSE h + j - 1 - n
  BY SMT
<1>3. QED
  BY <1>1, <1>2

\* Moving the head one slot on renumbers the window by one.
LEMMA SlotAfterHead ==
  ASSUME NEW n \in Nat \ {0}, NEW h \in 0 .. n - 1, NEW i \in 1 .. n
  PROVE  /\ (h + i) % n \in 0 .. n - 1
         /\ (h + i - 1) % n \in 0 .. n - 1
         /\ (h + 1) % n \in 0 .. n - 1
         /\ i < n => (((h + 1) % n) + i - 1) % n = (h + i) % n
         /\ (h + 1 - 1) % n = h
<1>1. (h + 1) % n = IF h + 1 < n THEN h + 1 ELSE 0
  BY SMT
<1>2. (h + i) % n = IF h + i < n THEN h + i ELSE h + i - n
  BY SMT
<1>3. (h + i - 1) % n = IF h + i - 1 < n THEN h + i - 1 ELSE h + i - 1 - n
  BY SMT
<1>4. ASSUME i < n
      PROVE  (((h + 1) % n) + i - 1) % n = (h + i) % n
  <2>1. CASE h + 1 < n
    BY <1>1, <2>1
  <2>2. CASE h + 1 = n
    <3>1. i - 1 \in 0 .. n - 1
      BY <1>4
    <3>2. (i - 1) % n = i - 1
      BY <3>1, SMT
    <3>3. QED
      BY <1>1, <1>2, <2>2, <3>1, <3>2
  <2>3. QED
    BY <2>1, <2>2
<1>5. QED
  BY <1>1, <1>2, <1>3, <1>4

\* Append and Tail, written as functions from positions.
LEMMA AppendAsFunction ==
  ASSUME NEW S, NEW s \in Seq(S), NEW x \in S
  PROVE  Append(s, x) =
           [i \in 1 .. Len(s) + 1 |-> IF i = Len(s) + 1 THEN x ELSE s[i]]
<1> DEFINE t == [i \in 1 .. Len(s) + 1 |-> IF i = Len(s) + 1 THEN x ELSE s[i]]
<1>1. t \in Seq(S) /\ Len(t) = Len(s) + 1
  <2>1. Len(s) \in Nat /\ \A i \in 1 .. Len(s) : s[i] \in S
    BY ElementOfSeq, LenProperties
  <2>2. t \in [1 .. Len(s) + 1 -> S]
    BY <2>1
  <2>3. QED
    BY <2>1, <2>2
<1>2. \A i \in 1 .. Len(t) : Append(s, x)[i] = t[i]
  BY <1>1, AppendProperties
<1> HIDE DEF t
<1>3. Append(s, x) \in Seq(S) /\ Len(Append(s, x)) = Len(t)
  BY <1>1, AppendProperties
<1>4. Append(s, x) = t
  BY <1>1, <1>2, <1>3, SeqEqual
<1>5. QED
  BY <1>4 DEF t

LEMMA TailAsFunction ==
  ASSUME NEW S, NEW s \in Seq(S), s # << >>
  PROVE  Tail(s) = [i \in 1 .. Len(s) - 1 |-> s[i + 1]]
<1> DEFINE t == [i \in 1 .. Len(s) - 1 |-> s[i + 1]]
<1>1. t \in Seq(S) /\ Len(t) = Len(s) - 1
  <2>1. Len(s) \in Nat \ {0} /\ \A i \in 1 .. Len(s) : s[i] \in S
    BY ElementOfSeq, LenProperties, EmptySeq
  <2>2. t \in [1 .. Len(s) - 1 -> S] /\ Len(s) - 1 \in Nat
    BY <2>1
  <2>3. QED
    BY <2>2
<1>2. \A i \in 1 .. Len(t) : Tail(s)[i] = t[i]
  BY <1>1, HeadTailProperties
<1> HIDE DEF t
<1>3. Tail(s) \in Seq(S) /\ Len(Tail(s)) = Len(t)
  BY <1>1, HeadTailProperties
<1>4. Tail(s) = t
  BY <1>1, <1>2, <1>3, SeqEqual
<1>5. QED
  BY <1>4 DEF t

-----------------------------------------------------------------------------
\* Type correctness, by induction on the steps.
LEMMA TypeInductive == TypeOK /\ [Next]_vars => TypeOK'
<1> SUFFICES ASSUME TypeOK, [Next]_vars
             PROVE  TypeOK'
  OBVIOUS
<1> USE CapacityAssumption DEF TypeOK, Slots, IsEmpty
<1>1. ASSUME NEW x \in Items, Enqueue(x)
      PROVE  TypeOK'
  BY <1>1 DEF Enqueue
<1>2. CASE EnqueueFull
  BY <1>2 DEF EnqueueFull
<1>3. CASE Dequeue
  <2>1. Capacity \in Nat \ {0} /\ head \in 0 .. Capacity - 1
    BY <1>3 DEF Dequeue
  <2>2. (head + 1) % Capacity \in 0 .. Capacity - 1
    BY <2>1, SlotAfterHead
  <2>3. QED
    BY <1>3, <2>1, <2>2 DEF Dequeue
<1>4. CASE DequeueEmpty
  BY <1>4 DEF DequeueEmpty
<1>5. CASE UNCHANGED vars
  BY <1>5 DEF vars
<1>6. QED
  BY <1>1, <1>2, <1>3, <1>4, <1>5 DEF Next

\* The queue's fields stay within their ranges: in particular head never
\* leaves the slice, so no call indexes out of bounds.
THEOREM TypeCorrect == Spec => []TypeOK
<1>1. Init => TypeOK
  BY CapacityAssumption DEF Init, TypeOK, Slots
<1>2. QED
  BY <1>1, TypeInductive, PTL DEF Spec

-----------------------------------------------------------------------------
LEMMA ClearedInductive ==
  TypeOK /\ VacatedSlotsAreCleared /\ [Next]_vars => VacatedSlotsAreCleared'
<1> SUFFICES ASSUME TypeOK, VacatedSlotsAreCleared, [Next]_vars,
                    NEW s \in Slots,
                    \A i \in 1 .. len' : SlotOf(i)' # s
             PROVE  buffer'[s] = Empty
  BY DEF VacatedSlotsAreCleared, Slots
<1> USE CapacityAssumption DEF TypeOK, Slots
<1>1. ASSUME NEW x \in Items, Enqueue(x)
      PROVE  buffer'[s] = Empty
  <2>1. /\ len' = len + 1 /\ len \in Nat /\ head' = head
        /\ Capacity \in Nat \ {0} /\ head \in 0 .. Capacity - 1
    BY <1>1 DEF Enqueue
  <2>2. SlotFrom(head', len + 1) = (head + len) % Capacity
    BY <2>1 DEF SlotOf, SlotFrom
  <2>3. s # (head + len) % Capacity
    BY <2>1, <2>2 DEF SlotOf
  <2>4. \A i \in 1 .. len : SlotOf(i) # s
    BY <2>1 DEF SlotOf
  <2>5. buffer[s] = Empty
    BY <2>4 DEF VacatedSlotsAreCleared
  <2>6. QED
    BY <1>1, <2>3, <2>5 DEF Enqueue
<1>2. CASE EnqueueFull
  BY <1>2 DEF EnqueueFull, VacatedSlotsAreCleared, SlotOf, SlotFrom
<1>3. CASE Dequeue
  <2>1. /\ len' = len - 1 /\ len \in 1 .. Capacity /\ len' \in Nat
        /\ head' = (head + 1) % Capacity
        /\ Capacity \in Nat \ {0} /\ head \in 0 .. Capacity - 1
        /\ buffer' = [buffer EXCEPT ![head] = Empty]
    BY <1>3 DEF Dequeue, IsEmpty
  <2>2. CASE s = head
    BY <2>1, <2>2
  <2>3. CASE s # head
    <3>1. ASSUME NEW i \in 1 .. len
          PROVE  SlotOf(i) # s
      <4>1. CASE i = 1
        BY <2>1, <2>3, <4>1, SlotAfterHead DEF SlotOf, SlotFrom
      <4>2. CASE i # 1
        <5>1. i - 1 \in 1 .. len' /\ i - 1 \in 1 .. Capacity /\ i - 1 < Capacity
          BY <2>1, <4>2
        <5>2. SlotOf(i - 1)' = (head + (i - 1)) % Capacity
          BY <2>1, <5>1, SlotAfterHead DEF SlotOf, SlotFrom
        <5>3. SlotOf(i) = (head + (i - 1)) % Capacity
          BY <2>1 DEF SlotOf, SlotFrom
        <5>4. QED
          BY <5>1, <5>2, <5>3
      <4>3. QED
        BY <4>1, <4>2
    <3>2. buffer[s] = Empty
      BY <3>1 DEF VacatedSlotsAreCleared
    <3>3. QED
      BY <2>1, <2>3, <3>2
  <2>4. QED
    BY <2>2, <2>3
<1>4. CASE DequeueEmpty
  BY <1>4 DEF DequeueEmpty, VacatedSlotsAreCleared, SlotOf, SlotFrom
<1>5. CASE UNCHANGED vars
  BY <1>5 DEF vars, VacatedSlotsAreCleared, SlotOf, SlotFrom
<1>6. QED
  BY <1>1, <1>2, <1>3, <1>4, <1>5 DEF Next

\* No slot outside the occupied window keeps an item, in any reachable state:
\* a finished task is not kept alive by the queue (circular_queue.go:37-38).
THEOREM VacatedCorrect == Spec => []VacatedSlotsAreCleared
<1>1. Init => VacatedSlotsAreCleared
  BY DEF Init, VacatedSlotsAreCleared, Slots
<1>2. QED
  BY <1>1, ClearedInductive, TypeCorrect, PTL DEF Spec

-----------------------------------------------------------------------------
\* Each step of the slice is a step of the abstract queue on its contents.
LEMMA StepRefines == TypeOK /\ [Next]_vars => [Fifo!Next]_(Fifo!vars)
<1> SUFFICES ASSUME TypeOK, [Next]_vars
             PROVE  [Fifo!Next]_(Fifo!vars)
  OBVIOUS
<1> USE CapacityAssumption DEF TypeOK, Slots
<1>0. /\ len \in Nat /\ len <= Capacity
      /\ Contents \in [1 .. len -> Items \cup {Empty}]
      /\ Contents \in Seq(Items \cup {Empty})
      /\ Len(Contents) = len
  <2>1. ASSUME NEW i \in 1 .. len
        PROVE  buffer[SlotOf(i)] \in Items \cup {Empty}
    <3>1. Capacity \in Nat \ {0} /\ head \in 0 .. Capacity - 1 /\ i \in 1 .. Capacity
      BY <2>1
    <3>2. SlotOf(i) \in Slots
      BY <3>1, SlotAfterHead DEF SlotOf, SlotFrom
    <3>3. QED
      BY <3>2
  <2>2. QED
    BY <2>1 DEF Contents
<1>1. ASSUME NEW x \in Items, Enqueue(x)
      PROVE  Fifo!Accept(x)
  <2>1. /\ len' = len + 1 /\ len < Capacity /\ head' = head
        /\ Capacity \in Nat \ {0} /\ head \in 0 .. Capacity - 1
        /\ buffer' = [buffer EXCEPT ![(head + len) % Capacity] = x]
    BY <1>1, <1>0 DEF Enqueue
  <2>2. (head + len) % Capacity \in Slots
    BY <2>1, SMT
  <2>3. ASSUME NEW i \in 1 .. len
        PROVE  buffer'[SlotOf(i)'] = Contents[i]
    <3>1. SlotOf(i) # (head + len) % Capacity
      <4>1. (head + len) % Capacity = (head + (len + 1) - 1) % Capacity
        BY <2>1, <1>0
      <4>2. i \in 1 .. Capacity /\ len + 1 \in 1 .. Capacity /\ i # len + 1
        BY <2>1, <2>3, <1>0
      <4>3. QED
        BY <2>1, <4>1, <4>2, SlotsDistinct DEF SlotOf, SlotFrom
    <3>2. SlotOf(i)' = SlotOf(i) /\ SlotOf(i) \in Slots
      BY <2>1, <2>3, <1>0, SlotAfterHead DEF SlotOf, SlotFrom
    <3>3. QED
      BY <2>1, <3>1, <3>2 DEF Contents
  <2>4. SlotFrom(head', len + 1) = (head + len) % Capacity
    BY <2>1, <1>0 DEF SlotOf, SlotFrom
  <2>5. Contents' = [i \in 1 .. len + 1 |-> IF i = len + 1 THEN x ELSE Contents[i]]
    <3>1. Contents' = [i \in 1 .. len + 1 |-> buffer'[SlotOf(i)']]
      BY <2>1 DEF Contents, SlotOf, SlotFrom
    <3>2. ASSUME NEW i \in 1 .. len + 1
          PROVE  buffer'[SlotOf(i)'] = IF i = len + 1 THEN x ELSE Contents[i]
      <4>1. CASE i = len + 1
        BY <2>1, <2>2, <2>4, <4>1 DEF SlotOf
      <4>2. CASE i # len + 1
        BY <2>3, <4>2, <1>0
      <4>3. QED
        BY <4>1, <4>2
    <3>3. QED
      BY <3>1, <3>2
  <2>6. Append(Contents, x) =
          [i \in 1 .. len + 1 |-> IF i = len + 1 THEN x ELSE Contents[i]]
    BY <1>0, AppendAsFunction
  <2>7. QED
    BY <1>0, <1>1, <2>1, <2>5, <2>6 DEF Enqueue, Fifo!Accept
<1>2. ASSUME EnqueueFull
      PROVE  Fifo!Refuse
  <2>1. Contents' = Contents
    BY <1>2 DEF EnqueueFull, Contents, SlotOf, SlotFrom
  <2>2. QED
    BY <1>0, <1>2, <2>1 DEF EnqueueFull, Fifo!Refuse
<1>3. ASSUME Dequeue
      PROVE  Fifo!Take
  <2>1. /\ len' = len - 1 /\ len \in 1 .. Capacity /\ len' \in Nat
        /\ head' = (head + 1) % Capacity
        /\ Capacity \in Nat \ {0} /\ head \in 0 .. Capacity - 1
        /\ buffer' = [buffer EXCEPT ![head] = Empty]
    BY <1>3 DEF Dequeue, IsEmpty
  <2>2. Contents # << >> /\ Head(Contents) = buffer[head]
    <3>1. SlotOf(1) = head
      BY <2>1, SlotAfterHead DEF SlotOf, SlotFrom
    <3>2. Head(Contents) = Contents[1] /\ Contents[1] = buffer[SlotOf(1)]
      BY <1>0, <2>1 DEF Contents
    <3>3. QED
      BY <1>0, <2>1, <3>1, <3>2
  <2>3. ASSUME NEW i \in 1 .. len - 1
        PROVE  buffer'[SlotOf(i)'] = Contents[i + 1]
    <3>1. i \in 1 .. Capacity /\ i < Capacity /\ i + 1 \in 1 .. Capacity
      BY <2>1, <2>3
    <3>2. SlotOf(i)' = (head + i) % Capacity
      <4>1. SlotOf(i)' = (((head + 1) % Capacity) + i - 1) % Capacity
        BY <2>1 DEF SlotOf, SlotFrom
      <4>2. QED
        BY <2>1, <3>1, <4>1, SlotAfterHead
    <3>3. SlotOf(i + 1) = (head + i) % Capacity
      <4>1. head + (i + 1) - 1 = head + i
        BY <2>1, <3>1
      <4>2. QED
        BY <4>1 DEF SlotOf, SlotFrom
    <3>4. SlotOf(i + 1) # head /\ SlotOf(i + 1) \in Slots
      <4>1. (head + 1 - 1) % Capacity = head
        BY <2>1, SMT
      <4>2. 1 \in 1 .. Capacity /\ (head + (i + 1) - 1) % Capacity # (head + 1 - 1) % Capacity
        BY <2>1, <3>1, SlotsDistinct
      <4>3. (head + i) % Capacity \in Slots
        BY <2>1, <3>1, SlotAfterHead
      <4>4. QED
        BY <3>3, <4>1, <4>2, <4>3 DEF SlotOf, SlotFrom
    <3>5. i + 1 \in 1 .. len
      BY <2>1, <2>3
    <3>6. QED
      BY <2>1, <3>2, <3>3, <3>4, <3>5 DEF Contents
  <2>4. Contents' = [i \in 1 .. len - 1 |-> Contents[i + 1]]
    <3>1. Contents' = [i \in 1 .. len - 1 |-> buffer'[SlotOf(i)']]
      BY <2>1 DEF Contents, SlotOf, SlotFrom
    <3>2. QED
      BY <3>1, <2>3
  <2>5. Tail(Contents) = [i \in 1 .. len - 1 |-> Contents[i + 1]]
    BY <1>0, <2>2, TailAsFunction
  <2>6. QED
    BY <1>3, <2>2, <2>4, <2>5 DEF Dequeue, Fifo!Take
<1>4. ASSUME DequeueEmpty
      PROVE  Fifo!FindNone
  <2>1. Contents' = Contents /\ len = 0
    BY <1>4 DEF DequeueEmpty, Contents, SlotOf, SlotFrom, IsEmpty
  <2>2. Contents = << >>
    BY <1>0, <2>1
  <2>3. QED
    BY <1>4, <2>1, <2>2 DEF DequeueEmpty, Fifo!FindNone
<1>5. ASSUME UNCHANGED vars
      PROVE  UNCHANGED Fifo!vars
  BY <1>5 DEF vars, Fifo!vars, Contents, SlotOf, SlotFrom
<1>6. QED
  BY <1>1, <1>2, <1>3, <1>4, <1>5 DEF Next, Fifo!Next

\* The circular queue implements the bounded first-in first-out queue, for
\* every capacity: items leave in the order they came, an item is refused
\* exactly when Capacity items are queued, and none is lost or repeated when
\* the indices wrap.
THEOREM Refinement == Spec => ImplementsFifo
<1>1. Init => Fifo!Init
  <2>1. ASSUME Init
        PROVE  Contents = << >>
    BY <2>1 DEF Init, Contents
  <2>2. QED
    BY <2>1 DEF Init, Fifo!Init
<1>2. QED
  BY <1>1, StepRefines, TypeCorrect, PTL DEF Spec, ImplementsFifo, Fifo!Spec

\* Beside the heap, the circular queue does what it does alone: its types, its
\* cleared slots and its order hold of the package's two structures together.
THEOREM QueueInStructures ==
  StructuresSpec => [](TypeOK /\ VacatedSlotsAreCleared) /\ ImplementsFifo
<1>1. StructuresSpec => Spec
  <2>1. StructuresInit => Init
    BY DEF StructuresInit
  <2>2. [StructuresNext]_<<inUse, vars, heapVars>> => [Next]_vars
    BY DEF StructuresNext, vars
  <2>3. QED
    BY <2>1, <2>2, PTL DEF StructuresSpec, Spec
<1>2. QED
  BY <1>1, TypeCorrect, VacatedCorrect, Refinement, PTL

-----------------------------------------------------------------------------
(***************************************************************************)
(* The heap.                                                               *)
(***************************************************************************)

\* "<" among the naturals, as a relation.
NatOrder == OpToRel(<, Nat)

\* A set of naturals that is not empty has a least member.
LEMMA LeastMember ==
  ASSUME NEW T \in SUBSET Nat, T # {}
  PROVE  \E k \in T : \A j \in T : k <= j
<1>1. NatOrder = {ss \in Nat \X Nat : ss[1] < ss[2]}
  BY DEF NatOrder, OpToRel
<1>2. IsWellFoundedOn(NatOrder, Nat)
  BY NatLessThanWellFounded DEF NatOrder
<1>3. PICK k \in T : \A j \in T : <<j, k>> \notin NatOrder
  BY <1>2, WFMin
<1>4. \A j \in T : ~(j < k)
  BY <1>1, <1>3
<1>5. QED
  BY <1>4

\* The heap's own steps are those of its module, whichever structure is used.
LEMMA HeapRuns == StructuresSpec => Heap!Spec
<1>1. StructuresInit => Heap!Init
  BY DEF StructuresInit
<1>2. [StructuresNext]_<<inUse, vars, heapVars>> => [Heap!Next]_(Heap!vars)
  BY DEF StructuresNext, heapVars, Heap!vars
<1>3. QED
  BY <1>1, <1>2, PTL DEF StructuresSpec, Heap!Spec

\* A slot that is not the root has a parent before it, of which it is one of
\* the two children.
LEMMA ParentBefore ==
  ASSUME NEW i \in Nat \ {0}
  PROVE  /\ Heap!Parent(i) \in 0 .. i - 1
         /\ i = 2 * Heap!Parent(i) + 1 \/ i = 2 * Heap!Parent(i) + 2
BY SMT DEF Heap!Parent

\* The child that down compares an item with is one of its two children, and
\* no child within the heap has a greater priority.
LEMMA ChildIsGreatest ==
  ASSUME NEW c \in Nat, NEW n \in Nat,
         \A i \in 0 .. n - 1 : slots[i].priority \in Int
  PROVE  /\ Heap!Child(c, n) \in Nat
         /\ Heap!Child(c, n) # 0
         /\ Heap!Child(c, n) # c
         /\ Heap!Parent(Heap!Child(c, n)) = c
         /\ \A i \in 1 .. n - 1 :
              Heap!Parent(i) = c =>
                /\ Heap!Child(c, n) < n
                /\ slots[i].priority <= slots[Heap!Child(c, n)].priority
<1>1. Heap!Parent(2 * c + 1) = c /\ Heap!Parent(2 * c + 2) = c
  BY SMT DEF Heap!Parent
<1>2. Heap!Child(c, n) \in {2 * c + 1, 2 * c + 2}
  BY DEF Heap!Child
<1>3. ASSUME NEW i \in 1 .. n - 1, Heap!Parent(i) = c
      PROVE  /\ Heap!Child(c, n) < n
             /\ slots[i].priority <= slots[Heap!Child(c, n)].priority
  <2>1. i = 2 * c + 1 \/ i = 2 * c + 2
    BY <1>3, ParentBefore
  <2>2. CASE 2 * c + 2 < n
    <3>1. /\ 2 * c + 1 \in 0 .. n - 1 /\ 2 * c + 2 \in 0 .. n - 1
          /\ 2 * c + 1 + 1 = 2 * c + 2
      BY <2>2
    <3>2. slots[2 * c + 1].priority \in Int /\ slots[2 * c + 2].priority \in Int
      BY <3>1
    <3>3. QED
      BY <2>1, <2>2, <3>1, <3>2 DEF Heap!Child, Heap!Less
  <2>3. CASE ~(2 * c + 2 < n)
    <3>1. i = 2 * c + 1 /\ Heap!Child(c, n) = i
      BY <2>1, <2>3 DEF Heap!Child
    <3>2. slots[i].priority \in Int
      OBVIOUS
    <3>3. QED
      BY <3>1, <3>2
  <2>4. QED
    BY <2>2, <2>3
<1>4. QED
  BY <1>1, <1>2, <1>3

\* No two slots of the heap hold the same value.
ValuesDiffer ==
  \A i, j \in 0 .. heapLen - 1 : slots[i].value = slots[j].value => i = j

\* The item that heap.Pop has set aside is one of the greatest.
SetAsideIsGreatest ==
  pc = "down" => \A i \in 0 .. heapLen - 1 :
                   slots[i].priority <= slots[heapLen - 1].priority

HeapInv ==
  /\ HeapTypeOK
  /\ HeapOrdered
  /\ HeapSlotsAreCleared
  /\ ValuesDiffer
  /\ SetAsideIsGreatest

-----------------------------------------------------------------------------
\* Every turn of the loops keeps the cursor within the heap and the slots'
\* types.
LEMMA HeapKeepsTypes == HeapTypeOK /\ [Heap!Next]_(Heap!vars) => HeapTypeOK'
<1> SUFFICES ASSUME HeapTypeOK, [Heap!Next]_(Heap!vars)
             PROVE  HeapTypeOK'
  OBVIOUS
<1> USE HeapAssumption DEF HeapTypeOK, Heap!TypeOK, Heap!Slots
<1>1. ASSUME NEW v \in HeapValues, NEW p \in HeapPriorities, Heap!Enqueue(v, p)
      PROVE  HeapTypeOK'
  <2>1. [value |-> v, priority |-> p] \in Heap!Item
    BY DEF Heap!Item
  <2>2. QED
    BY <1>1, <2>1 DEF Heap!Enqueue
<1>2. CASE Heap!EnqueueFull
  BY <1>2 DEF Heap!EnqueueFull
<1>3. CASE Heap!UpSwap
  <2>1. cursor \in Nat \ {0} /\ cursor < heapLen
    BY <1>3 DEF Heap!UpSwap, Heap!Parent
  <2>2. Heap!Parent(cursor) \in 0 .. cursor - 1
    BY <2>1, ParentBefore
  <2>3. slots' \in [0 .. HeapCapacity - 1 -> Heap!Item \cup {Heap!NoItem}]
    BY <1>3, <2>1, <2>2 DEF Heap!UpSwap, Heap!Swap
  <2>4. QED
    BY <1>3, <2>1, <2>2, <2>3 DEF Heap!UpSwap
<1>4. CASE Heap!UpStop
  BY <1>4 DEF Heap!UpStop
<1>5. CASE Heap!Dequeue
  <2>1. heapLen - 1 \in 0 .. HeapCapacity - 1 /\ 0 \in 0 .. HeapCapacity - 1
    BY <1>5 DEF Heap!Dequeue
  <2>2. slots' \in [0 .. HeapCapacity - 1 -> Heap!Item \cup {Heap!NoItem}]
    BY <1>5, <2>1 DEF Heap!Dequeue, Heap!Swap
  <2>3. QED
    BY <1>5, <2>1, <2>2 DEF Heap!Dequeue
<1>6. CASE Heap!DequeueEmpty
  BY <1>6 DEF Heap!DequeueEmpty
<1>7. CASE Heap!DownSwap
  <2> DEFINE child == Heap!Child(cursor, heapLen - 1)
  <2>1. child < heapLen - 1 /\ child \in {2 * cursor + 1, 2 * cursor + 2}
    BY <1>7 DEF Heap!DownSwap, Heap!DownMoves, Heap!Child
  <2>2. child \in 0 .. HeapCapacity - 1
    BY <2>1
  <2>3. /\ slots' = [slots EXCEPT ![cursor] = slots[child], ![child] = slots[cursor]]
        /\ cursor' = child
        /\ UNCHANGED <<heapLen, pc, heapResult>>
    BY <1>7 DEF Heap!DownSwap, Heap!Swap
  <2> HIDE DEF child
  <2>4. slots' \in [0 .. HeapCapacity - 1 -> Heap!Item \cup {Heap!NoItem}]
    BY <2>2, <2>3
  <2>5. QED
    BY <2>1, <2>2, <2>3, <2>4
<1>8. CASE Heap!DownStop
  <2>1. pc = "down" /\ heapLen - 1 \in 0 .. HeapCapacity - 1
    BY <1>8 DEF Heap!DownStop
  <2>2. slots[heapLen - 1].value \in HeapValues \cup {Zero}
    BY <2>1 DEF Heap!Item, Heap!NoItem
  <2>3. QED
    BY <1>8, <2>1, <2>2 DEF Heap!DownStop
<1>9. CASE UNCHANGED Heap!vars
  BY <1>9 DEF Heap!vars
<1>10. QED
  BY <1>1, <1>2, <1>3, <1>4, <1>5, <1>6, <1>7, <1>8, <1>9 DEF Heap!Next

\* The heap's length, cursor and slots stay within their ranges: no call of
\* the heap indexes out of the slice, whatever its capacity.
THEOREM HeapTypeCorrect == StructuresSpec => []HeapTypeOK
<1>1. Heap!Init => HeapTypeOK
  BY HeapAssumption
     DEF Heap!Init, HeapTypeOK, Heap!TypeOK, Heap!Slots, Heap!Item, Heap!NoItem
<1>2. QED
  BY <1>1, HeapKeepsTypes, HeapRuns, PTL DEF Heap!Spec

-----------------------------------------------------------------------------
\* What the invariant says of the occupied slots.
LEMMA OccupiedSlots ==
  ASSUME HeapTypeOK, HeapSlotsAreCleared
  PROVE  /\ heapLen \in Nat /\ heapLen <= HeapCapacity /\ HeapCapacity \in Nat
         /\ \A i \in 0 .. heapLen - 1 :
              /\ i \in 0 .. HeapCapacity - 1
              /\ slots[i] \in Heap!Item
              /\ slots[i].priority \in Int
              /\ slots[i].value \in HeapValues
         /\ \A i \in 0 .. HeapCapacity - 1 :
              i >= heapLen => slots[i] = Heap!NoItem
<1> USE HeapAssumption
    DEF HeapTypeOK, Heap!TypeOK, HeapSlotsAreCleared,
        Heap!VacatedSlotsAreCleared, Heap!Slots
<1>1. heapLen \in Nat /\ heapLen <= HeapCapacity /\ HeapCapacity \in Nat
  OBVIOUS
<1>2. ASSUME NEW i \in 0 .. heapLen - 1
      PROVE  i \in 0 .. HeapCapacity - 1 /\ slots[i] \in Heap!Item
  <2>1. i \in 0 .. HeapCapacity - 1
    BY <1>1
  <2>2. QED
    BY <2>1
<1>3. \A item \in Heap!Item : item.priority \in Int /\ item.value \in HeapValues
  BY DEF Heap!Item
<1>4. QED
  BY <1>1, <1>2, <1>3

\* What changing the places of two items does.
LEMMA SwapEffect ==
  ASSUME HeapTypeOK, HeapSlotsAreCleared, ValuesDiffer,
         NEW a \in 0 .. heapLen - 1, NEW b \in 0 .. heapLen - 1,
         slots' = Heap!Swap(a, b), heapLen' = heapLen
  PROVE  /\ slots'[a] = slots[b] /\ slots'[b] = slots[a]
         /\ \A i \in 0 .. HeapCapacity - 1 :
              i # a /\ i # b => slots'[i] = slots[i]
         /\ HeapSlotsAreCleared'
         /\ ValuesDiffer'
<1>1. slots' = [slots EXCEPT ![a] = slots[b], ![b] = slots[a]]
  BY DEF Heap!Swap
<1>2. /\ a \in 0 .. HeapCapacity - 1 /\ b \in 0 .. HeapCapacity - 1
      /\ slots[a] \in Heap!Item /\ slots[b] \in Heap!Item
  BY OccupiedSlots
<1>3. DOMAIN slots = 0 .. HeapCapacity - 1
  BY DEF HeapTypeOK, Heap!TypeOK, Heap!Slots
<1>4. /\ slots'[a] = slots[b] /\ slots'[b] = slots[a]
      /\ \A i \in 0 .. HeapCapacity - 1 : i # a /\ i # b => slots'[i] = slots[i]
  BY <1>1, <1>2, <1>3
<1>5. HeapSlotsAreCleared'
  <2>1. heapLen \in Nat
    BY OccupiedSlots
  <2>2. QED
    BY <1>2, <1>4, <2>1
       DEF HeapSlotsAreCleared, Heap!VacatedSlotsAreCleared, Heap!Slots
<1>6. ValuesDiffer'
  <2> DEFINE Source(i) == IF i = a THEN b ELSE IF i = b THEN a ELSE i
  <2>1. ASSUME NEW i \in 0 .. heapLen - 1
        PROVE  slots'[i] = slots[Source(i)] /\ Source(i) \in 0 .. heapLen - 1
    BY <1>4, OccupiedSlots
  <2>2. \A i, j \in 0 .. heapLen - 1 : Source(i) = Source(j) => i = j
    OBVIOUS
  <2> HIDE DEF Source
  <2>3. ASSUME NEW i \in 0 .. heapLen - 1, NEW j \in 0 .. heapLen - 1,
               slots'[i].value = slots'[j].value
        PROVE  i = j
    BY <2>1, <2>2, <2>3 DEF ValuesDiffer
  <2>4. QED
    BY <2>3 DEF ValuesDiffer
<1>7. QED
  BY <1>4, <1>5, <1>6

\* heap.Push's append.
LEMMA EnqueueKeepsHeap ==
  ASSUME HeapInv,
         NEW v \in HeapValues, NEW p \in HeapPriorities, Heap!Enqueue(v, p)
  PROVE  (HeapOrdered /\ HeapSlotsAreCleared /\ ValuesDiffer /\ SetAsideIsGreatest)'
<1>1. /\ pc = "idle" /\ pc' = "up" /\ heapLen' = heapLen + 1 /\ cursor' = heapLen
      /\ slots' = [slots EXCEPT ![heapLen] = [value |-> v, priority |-> p]]
      /\ v \notin Heap!Queued /\ heapLen # HeapCapacity
  BY DEF Heap!Enqueue
<1>2. /\ HeapTypeOK /\ HeapOrdered /\ HeapSlotsAreCleared /\ ValuesDiffer
      /\ DOMAIN slots = 0 .. HeapCapacity - 1
  BY DEF HeapInv, HeapTypeOK, Heap!TypeOK, Heap!Slots
<1>3. heapLen \in Nat /\ HeapCapacity \in Nat /\ heapLen < HeapCapacity
  BY <1>1, <1>2, OccupiedSlots
<1>4. /\ slots'[heapLen] = [value |-> v, priority |-> p]
      /\ \A i \in 0 .. HeapCapacity - 1 : i # heapLen => slots'[i] = slots[i]
  BY <1>1, <1>2, <1>3
<1>5. HeapOrdered'
  <2>1. ASSUME NEW i \in 1 .. heapLen
        PROVE  /\ Heap!InOrder(i)'
               /\ Heap!Parent(i) # heapLen
    <3>1. Heap!Parent(i) \in 0 .. i - 1
      BY ParentBefore
    <3>2. CASE i = heapLen
      BY <1>1, <3>1, <3>2 DEF Heap!InOrder
    <3>3. CASE i # heapLen
      <4>1. i \in 1 .. heapLen - 1 /\ Heap!Parent(i) \in 0 .. heapLen - 1
        BY <1>3, <3>1, <3>3
      <4>2. slots[i].priority <= slots[Heap!Parent(i)].priority
        BY <1>1, <1>2, <4>1 DEF HeapOrdered, Heap!HeapOrdered, Heap!HeapSize,
                                Heap!InOrder
      <4>3. slots'[i] = slots[i] /\ slots'[Heap!Parent(i)] = slots[Heap!Parent(i)]
        BY <1>3, <1>4, <4>1
      <4>4. Heap!InOrder(i)'
        BY <4>2, <4>3 DEF Heap!InOrder, Heap!Parent
      <4>5. QED
        BY <1>3, <4>1, <4>4
    <3>4. QED
      BY <3>2, <3>3
  <2>2. Heap!HeapSize' - 1 = heapLen
    BY <1>1, <1>3 DEF Heap!HeapSize
  <2>3. \A i \in 1 .. heapLen : Heap!Parent(i)' # cursor'
    BY <1>1, <2>1 DEF Heap!Parent
  <2>4. QED
    BY <2>1, <2>2, <2>3 DEF HeapOrdered, Heap!HeapOrdered
<1>6. HeapSlotsAreCleared'
  <2>1. [value |-> v, priority |-> p] # Heap!NoItem
    BY HeapAssumption DEF Heap!NoItem
  <2>2. ASSUME NEW i \in 0 .. HeapCapacity - 1
        PROVE  slots'[i] = Heap!NoItem <=> i >= heapLen'
    BY <1>1, <1>2, <1>3, <1>4, <2>1
       DEF HeapSlotsAreCleared, Heap!VacatedSlotsAreCleared, Heap!Slots
  <2>3. QED
    BY <2>2 DEF HeapSlotsAreCleared, Heap!VacatedSlotsAreCleared, Heap!Slots, Heap!NoItem
<1>7. ValuesDiffer'
  <2>1. \A i \in 0 .. heapLen - 1 : slots[i].value # v
    BY <1>1 DEF Heap!Queued
  <2>2. \A i \in 0 .. heapLen - 1 : slots'[i].value = slots[i].value
    BY <1>3, <1>4
  <2>3. slots'[heapLen].value = v
    BY <1>4
  <2>4. ASSUME NEW i \in 0 .. heapLen, NEW j \in 0 .. heapLen,
               slots'[i].value = slots'[j].value
        PROVE  i = j
    <3>1. CASE i = heapLen
      BY <1>3, <2>1, <2>2, <2>3, <2>4, <3>1
    <3>2. CASE j = heapLen
      BY <1>3, <2>1, <2>2, <2>3, <2>4, <3>2
    <3>3. CASE i # heapLen /\ j # heapLen
      <4>1. i \in 0 .. heapLen - 1 /\ j \in 0 .. heapLen - 1
        BY <1>3, <3>3
      <4>2. QED
        BY <1>2, <2>2, <2>4, <4>1 DEF ValuesDiffer
    <3>4. QED
      BY <3>1, <3>2, <3>3
  <2>5. heapLen' - 1 = heapLen
    BY <1>1, <1>3
  <2>6. QED
    BY <2>4, <2>5 DEF ValuesDiffer
<1>8. SetAsideIsGreatest'
  BY <1>1 DEF SetAsideIsGreatest
<1>9. QED
  BY <1>5, <1>6, <1>7, <1>8

\* One turn of heap.Push's loop.
LEMMA UpSwapKeepsHeap ==
  ASSUME HeapInv, Heap!UpSwap
  PROVE  (HeapOrdered /\ HeapSlotsAreCleared /\ ValuesDiffer /\ SetAsideIsGreatest)'
<1> DEFINE q == Heap!Parent(cursor)
<1>1. /\ pc = "up" /\ pc' = "up" /\ heapLen' = heapLen /\ cursor' = q
      /\ slots' = Heap!Swap(q, cursor) /\ q # cursor
      /\ slots[cursor].priority > slots[q].priority
  BY DEF Heap!UpSwap, Heap!Less
<1>2. /\ HeapTypeOK /\ HeapOrdered /\ HeapSlotsAreCleared /\ ValuesDiffer
      /\ cursor \in Nat /\ cursor < heapLen
  BY <1>1 DEF HeapInv, HeapTypeOK, Heap!TypeOK, Heap!Slots
<1>3. /\ heapLen \in Nat /\ HeapCapacity \in Nat /\ heapLen <= HeapCapacity
      /\ cursor # 0 /\ q \in 0 .. cursor - 1
      /\ q \in 0 .. heapLen - 1 /\ cursor \in 0 .. heapLen - 1
  <2>1. cursor # 0
    BY <1>1 DEF Heap!Parent
  <2>2. QED
    BY <1>2, <2>1, OccupiedSlots, ParentBefore
<1> HIDE DEF q
<1>4. /\ slots'[q] = slots[cursor] /\ slots'[cursor] = slots[q]
      /\ \A i \in 0 .. HeapCapacity - 1 :
           i # q /\ i # cursor => slots'[i] = slots[i]
      /\ HeapSlotsAreCleared' /\ ValuesDiffer'
  BY <1>1, <1>2, <1>3, SwapEffect
<1>5. ASSUME NEW i \in 1 .. heapLen - 1
      PROVE  /\ i # cursor => slots[i].priority <= slots[Heap!Parent(i)].priority
             /\ Heap!Parent(i) = cursor => slots[i].priority <= slots[q].priority
  BY <1>1, <1>2, <1>3
     DEF HeapOrdered, Heap!HeapOrdered, Heap!HeapSize, Heap!InOrder, q
<1>6. ASSUME NEW i \in 1 .. heapLen - 1
      PROVE  /\ Heap!InOrder(i)'
             /\ q # 0 /\ Heap!Parent(i) = q =>
                  slots'[i].priority <= slots'[Heap!Parent(q)].priority
  <2>1. /\ Heap!Parent(i) \in 0 .. i - 1
        /\ i \in 0 .. heapLen - 1 /\ Heap!Parent(i) \in 0 .. heapLen - 1
    BY <1>3, ParentBefore
  <2>2. /\ slots[i].priority \in Int /\ slots[Heap!Parent(i)].priority \in Int
        /\ slots[q].priority \in Int /\ slots[cursor].priority \in Int
    BY <1>2, <1>3, <2>1, OccupiedSlots
  <2>3. i # q => slots'[i].priority <= slots'[Heap!Parent(i)].priority
    <3>1. CASE i = cursor
      BY <1>1, <1>4, <2>2, <3>1 DEF q
    <3>2. CASE i # cursor /\ i # q /\ Heap!Parent(i) = cursor
      BY <1>3, <1>4, <1>5, <2>1, <3>2
    <3>3. CASE i # cursor /\ i # q /\ Heap!Parent(i) = q
      BY <1>1, <1>3, <1>4, <1>5, <2>1, <2>2, <3>3
    <3>4. CASE i # cursor /\ i # q /\ Heap!Parent(i) # cursor /\ Heap!Parent(i) # q
      BY <1>3, <1>4, <1>5, <2>1, <3>4
    <3>5. QED
      BY <3>1, <3>2, <3>3, <3>4
  <2>4. Heap!InOrder(i)'
    BY <1>1, <2>3 DEF Heap!InOrder, Heap!Parent
  <2>5. ASSUME q # 0, Heap!Parent(i) = q
        PROVE  slots'[i].priority <= slots'[Heap!Parent(q)].priority
    <3>1. /\ Heap!Parent(q) \in 0 .. q - 1 /\ q \in 1 .. heapLen - 1
          /\ Heap!Parent(q) \in 0 .. heapLen - 1
      BY <1>3, <2>5, ParentBefore
    <3>2. slots[q].priority <= slots[Heap!Parent(q)].priority
      BY <1>3, <1>5, <3>1
    <3>3. slots[Heap!Parent(q)].priority \in Int
      BY <1>2, <3>1, OccupiedSlots
    <3>4. slots'[Heap!Parent(q)] = slots[Heap!Parent(q)]
      BY <1>3, <1>4, <3>1
    <3>5. CASE i = cursor
      BY <1>4, <3>2, <3>4, <3>5
    <3>6. CASE i # cursor
      <4>1. slots'[i] = slots[i] /\ slots[i].priority <= slots[q].priority
        BY <1>3, <1>4, <1>5, <2>1, <2>5, <3>6
      <4>2. QED
        BY <2>2, <3>2, <3>3, <3>4, <4>1
    <3>7. QED
      BY <3>5, <3>6
  <2>6. QED
    BY <2>4, <2>5
<1>7. HeapOrdered'
  <2>1. Heap!HeapSize' = heapLen
    BY <1>1 DEF Heap!HeapSize
  <2>2. \A i \in 1 .. heapLen - 1 : Heap!Parent(i)' = Heap!Parent(i)
    BY DEF Heap!Parent
  <2>3. Heap!Parent(cursor)' = Heap!Parent(q)
    BY <1>1 DEF Heap!Parent
  <2>4. QED
    BY <1>1, <1>6, <2>1, <2>2, <2>3 DEF HeapOrdered, Heap!HeapOrdered
<1>8. SetAsideIsGreatest'
  BY <1>1 DEF SetAsideIsGreatest
<1>9. QED
  BY <1>4, <1>7, <1>8

\* heap.Push returns once the moving item is in its place.
LEMMA UpStopKeepsHeap ==
  ASSUME HeapInv, Heap!UpStop
  PROVE  (HeapOrdered /\ HeapSlotsAreCleared /\ ValuesDiffer /\ SetAsideIsGreatest)'
<1>1. /\ pc = "up" /\ pc' = "idle" /\ UNCHANGED <<slots, heapLen, cursor>>
      /\ \/ Heap!Parent(cursor) = cursor
         \/ ~(slots[cursor].priority > slots[Heap!Parent(cursor)].priority)
  BY DEF Heap!UpStop, Heap!Less
<1>2. /\ HeapTypeOK /\ HeapOrdered /\ HeapSlotsAreCleared /\ ValuesDiffer
      /\ cursor \in Nat /\ cursor < heapLen
  BY <1>1 DEF HeapInv, HeapTypeOK, Heap!TypeOK, Heap!Slots
<1>3. ASSUME NEW i \in 1 .. heapLen - 1
      PROVE  slots[i].priority <= slots[Heap!Parent(i)].priority
  <2>1. heapLen \in Nat
    BY <1>2, OccupiedSlots
  <2>2. /\ Heap!Parent(i) \in 0 .. i - 1
        /\ i \in 0 .. heapLen - 1 /\ Heap!Parent(i) \in 0 .. heapLen - 1
    BY <2>1, ParentBefore
  <2>3. slots[i].priority \in Int /\ slots[Heap!Parent(i)].priority \in Int
    BY <1>2, <2>2, OccupiedSlots
  <2>4. CASE i = cursor
    BY <1>1, <2>2, <2>3, <2>4
  <2>5. CASE i # cursor
    BY <1>1, <1>2, <2>5
       DEF HeapOrdered, Heap!HeapOrdered, Heap!HeapSize, Heap!InOrder
  <2>6. QED
    BY <2>4, <2>5
<1>4. HeapOrdered'
  <2>1. Heap!HeapSize' = heapLen
    BY <1>1 DEF Heap!HeapSize
  <2>2. \A i \in 1 .. heapLen - 1 : Heap!InOrder(i)'
    BY <1>1, <1>3 DEF Heap!InOrder, Heap!Parent
  <2>3. QED
    BY <1>1, <2>1, <2>2 DEF HeapOrdered, Heap!HeapOrdered
<1>5. HeapSlotsAreCleared'
  BY <1>1, <1>2 DEF HeapSlotsAreCleared, Heap!VacatedSlotsAreCleared, Heap!Slots,
                    Heap!NoItem
<1>6. ValuesDiffer' /\ SetAsideIsGreatest'
  BY <1>1, <1>2 DEF ValuesDiffer, SetAsideIsGreatest
<1>7. QED
  BY <1>4, <1>5, <1>6

\* Between calls no item is greater than the root: of the slots that hold a
\* greater one, the first would be greater than its parent, which is before it.
LEMMA RootIsGreatest ==
  ASSUME HeapInv, pc = "idle", NEW i \in 0 .. heapLen - 1
  PROVE  slots[i].priority <= slots[0].priority
<1>1. /\ HeapTypeOK /\ HeapOrdered /\ HeapSlotsAreCleared
  BY DEF HeapInv
<1>2. /\ heapLen \in Nat
      /\ \A j \in 0 .. heapLen - 1 : slots[j].priority \in Int
  BY <1>1, OccupiedSlots
<1> DEFINE Greater == {j \in 0 .. heapLen - 1 :
                         slots[j].priority > slots[0].priority}
<1>3. SUFFICES ASSUME Greater # {}
               PROVE  FALSE
  BY <1>2
<1>4. PICK k \in Greater : \A j \in Greater : k <= j
  <2>1. Greater \in SUBSET Nat
    BY <1>2
  <2> HIDE DEF Greater
  <2>2. QED
    BY <1>3, <2>1, LeastMember
<1>5. k \in 1 .. heapLen - 1
  BY <1>2
<1>6. slots[k].priority <= slots[Heap!Parent(k)].priority
  BY <1>1, <1>5 DEF HeapOrdered, Heap!HeapOrdered, Heap!HeapSize, Heap!InOrder
<1>7. Heap!Parent(k) \in 0 .. k - 1
  BY <1>5, ParentBefore
<1>8. Heap!Parent(k) \in Greater
  BY <1>2, <1>5, <1>6, <1>7
<1>9. QED
  BY <1>4, <1>5, <1>7, <1>8

\* heap.Pop's exchange of the root and the last item.
LEMMA DequeueKeepsHeap ==
  ASSUME HeapInv, Heap!Dequeue
  PROVE  (HeapOrdered /\ HeapSlotsAreCleared /\ ValuesDiffer /\ SetAsideIsGreatest)'
<1>1. /\ pc = "idle" /\ pc' = "down" /\ heapLen' = heapLen /\ cursor' = 0
      /\ slots' = Heap!Swap(0, heapLen - 1) /\ heapLen # 0
  BY DEF Heap!Dequeue
<1>2. HeapTypeOK /\ HeapOrdered /\ HeapSlotsAreCleared /\ ValuesDiffer
  BY DEF HeapInv
<1>3. /\ heapLen \in Nat /\ HeapCapacity \in Nat /\ heapLen <= HeapCapacity
      /\ 0 \in 0 .. heapLen - 1 /\ heapLen - 1 \in 0 .. heapLen - 1
  BY <1>1, <1>2, OccupiedSlots
<1>4. /\ slots'[0] = slots[heapLen - 1] /\ slots'[heapLen - 1] = slots[0]
      /\ \A i \in 0 .. HeapCapacity - 1 :
           i # 0 /\ i # heapLen - 1 => slots'[i] = slots[i]
      /\ HeapSlotsAreCleared' /\ ValuesDiffer'
  BY <1>1, <1>2, <1>3, SwapEffect
<1>5. HeapOrdered'
  <2>1. ASSUME NEW i \in 1 .. heapLen - 2
        PROVE  Heap!InOrder(i)'
    <3>1. Heap!Parent(i) \in 0 .. i - 1
      BY ParentBefore
    <3>2. CASE Heap!Parent(i) = 0
      BY <1>1, <3>2 DEF Heap!InOrder, Heap!Parent
    <3>3. CASE Heap!Parent(i) # 0
      <4>1. slots[i].priority <= slots[Heap!Parent(i)].priority
        BY <1>1, <1>2, <1>3
           DEF HeapOrdered, Heap!HeapOrdered, Heap!HeapSize, Heap!InOrder
      <4>2. slots'[i] = slots[i] /\ slots'[Heap!Parent(i)] = slots[Heap!Parent(i)]
        BY <1>3, <1>4, <3>1, <3>3
      <4>3. QED
        BY <4>1, <4>2 DEF Heap!InOrder, Heap!Parent
    <3>4. QED
      BY <3>2, <3>3
  <2>2. Heap!HeapSize' - 1 = heapLen - 2
    BY <1>1, <1>3 DEF Heap!HeapSize
  <2>3. QED
    BY <1>1, <2>1, <2>2 DEF HeapOrdered, Heap!HeapOrdered
<1>6. SetAsideIsGreatest'
  <2>1. ASSUME NEW i \in 0 .. heapLen - 1
        PROVE  slots'[i].priority <= slots'[heapLen - 1].priority
    <3>1. \A j \in 0 .. heapLen - 1 : slots[j].priority <= slots[0].priority
      BY <1>1, RootIsGreatest
    <3>2. PICK j \in 0 .. heapLen - 1 : slots'[i] = slots[j]
      BY <1>3, <1>4
    <3>3. QED
      BY <1>4, <3>1, <3>2
  <2>2. QED
    BY <1>1, <2>1 DEF SetAsideIsGreatest
<1>7. QED
  BY <1>4, <1>5, <1>6

\* One turn of heap.Pop's loop.
LEMMA DownSwapKeepsHeap ==
  ASSUME HeapInv, Heap!DownSwap
  PROVE  (HeapOrdered /\ HeapSlotsAreCleared /\ ValuesDiffer /\ SetAsideIsGreatest)'
<1> DEFINE k == Heap!Child(cursor, heapLen - 1)
           n == heapLen - 1
<1>1. /\ pc = "down" /\ pc' = "down" /\ heapLen' = heapLen /\ cursor' = k
      /\ slots' = Heap!Swap(cursor, k) /\ k < n
      /\ slots[k].priority > slots[cursor].priority
  BY DEF Heap!DownSwap, Heap!DownMoves, Heap!Less
<1>2. /\ HeapTypeOK /\ HeapOrdered /\ HeapSlotsAreCleared /\ ValuesDiffer
      /\ SetAsideIsGreatest
      /\ cursor \in Nat /\ cursor < heapLen
  BY <1>1 DEF HeapInv, HeapTypeOK, Heap!TypeOK, Heap!Slots
<1>3. /\ heapLen \in Nat /\ HeapCapacity \in Nat /\ heapLen <= HeapCapacity
      /\ n \in Nat /\ n < heapLen
      /\ \A i \in 0 .. n - 1 : slots[i].priority \in Int /\ i \in 0 .. heapLen - 1
  <2>1. /\ heapLen \in Nat /\ HeapCapacity \in Nat /\ heapLen <= HeapCapacity
        /\ \A i \in 0 .. heapLen - 1 : slots[i].priority \in Int
    BY <1>2, OccupiedSlots
  <2>2. QED
    BY <1>2, <2>1
<1>4. /\ k \in Nat /\ k # 0 /\ k # cursor /\ Heap!Parent(k) = cursor
      /\ \A i \in 1 .. n - 1 : Heap!Parent(i) = cursor =>
           slots[i].priority <= slots[k].priority
  BY <1>2, <1>3, ChildIsGreatest
<1> HIDE DEF k
<1>5. /\ cursor < k /\ k \in 1 .. n - 1
      /\ cursor \in 0 .. heapLen - 1 /\ k \in 0 .. heapLen - 1
  <2>1. Heap!Parent(k) \in 0 .. k - 1
    BY <1>4, ParentBefore
  <2>2. QED
    BY <1>1, <1>2, <1>3, <1>4, <2>1
<1>6. /\ slots'[cursor] = slots[k] /\ slots'[k] = slots[cursor]
      /\ \A i \in 0 .. HeapCapacity - 1 :
           i # cursor /\ i # k => slots'[i] = slots[i]
      /\ HeapSlotsAreCleared' /\ ValuesDiffer'
  BY <1>1, <1>2, <1>5, SwapEffect
<1>7. ASSUME NEW i \in 1 .. n - 1
      PROVE  /\ Heap!Parent(i) # cursor =>
                  slots[i].priority <= slots[Heap!Parent(i)].priority
             /\ Heap!Parent(i) = cursor /\ cursor # 0 =>
                  slots[i].priority <= slots[Heap!Parent(cursor)].priority
  BY <1>1, <1>2, <1>3
     DEF HeapOrdered, Heap!HeapOrdered, Heap!HeapSize, Heap!InOrder
<1>8. ASSUME NEW i \in 1 .. n - 1
      PROVE  /\ Heap!Parent(i) # k =>
                  slots'[i].priority <= slots'[Heap!Parent(i)].priority
             /\ Heap!Parent(i) = k =>
                  slots'[i].priority <= slots'[cursor].priority
  <2>1. /\ Heap!Parent(i) \in 0 .. i - 1 /\ Heap!Parent(i) \in 0 .. n - 1
        /\ i \in 0 .. HeapCapacity - 1
        /\ Heap!Parent(i) \in 0 .. HeapCapacity - 1
    BY <1>3, ParentBefore
  <2>2. /\ slots[i].priority \in Int /\ slots[Heap!Parent(i)].priority \in Int
        /\ slots[k].priority \in Int /\ slots[cursor].priority \in Int
    BY <1>3, <1>5, <2>1
  <2>3. CASE i = cursor
    <3>1. Heap!Parent(i) # cursor /\ Heap!Parent(i) # k /\ cursor # 0
      BY <1>5, <2>1, <2>3
    <3>2. slots[k].priority <= slots[Heap!Parent(cursor)].priority
      BY <1>4, <1>5, <1>7, <3>1
    <3>3. QED
      BY <1>6, <2>1, <2>3, <3>1, <3>2
  <2>4. CASE i = k
    BY <1>1, <1>4, <1>6, <2>2, <2>4
  <2>5. CASE i # cursor /\ i # k
    <3>1. slots'[i] = slots[i]
      BY <1>6, <2>1, <2>5
    <3>2. CASE Heap!Parent(i) = cursor
      BY <1>4, <1>5, <1>6, <3>1, <3>2
    <3>3. CASE Heap!Parent(i) = k
      BY <1>4, <1>6, <1>7, <3>1, <3>3
    <3>4. CASE Heap!Parent(i) # cursor /\ Heap!Parent(i) # k
      BY <1>6, <1>7, <2>1, <3>1, <3>4
    <3>5. QED
      BY <3>2, <3>3, <3>4
  <2>6. QED
    BY <2>3, <2>4, <2>5
<1>9. HeapOrdered'
  <2>1. Heap!HeapSize' = n
    BY <1>1 DEF Heap!HeapSize
  <2>2. \A i \in 1 .. n - 1 : Heap!Parent(i)' = Heap!Parent(i)
    BY DEF Heap!Parent
  <2>3. Heap!Parent(cursor)' = cursor
    BY <1>1, <1>4 DEF Heap!Parent
  <2>4. \A i \in 1 .. n - 1 : Heap!InOrder(i)'
    BY <1>1, <1>8, <2>2 DEF Heap!InOrder, Heap!Parent
  <2>5. QED
    BY <1>1, <1>8, <2>1, <2>2, <2>3, <2>4 DEF HeapOrdered, Heap!HeapOrdered
<1>10. SetAsideIsGreatest'
  <2>1. ASSUME NEW i \in 0 .. heapLen - 1
        PROVE  slots'[i].priority <= slots'[heapLen - 1].priority
    <3>1. \A j \in 0 .. heapLen - 1 :
            slots[j].priority <= slots[heapLen - 1].priority
      BY <1>1, <1>2 DEF SetAsideIsGreatest
    <3>2. PICK j \in 0 .. heapLen - 1 : slots'[i] = slots[j]
      BY <1>3, <1>5, <1>6
    <3>3. slots'[heapLen - 1] = slots[heapLen - 1]
      <4>1. k # heapLen - 1 /\ cursor # heapLen - 1
        BY <1>3, <1>5
      <4>2. heapLen - 1 \in 0 .. HeapCapacity - 1
        BY <1>3
      <4>3. QED
        BY <1>6, <4>1, <4>2
    <3>4. QED
      BY <3>1, <3>2, <3>3
  <2>2. QED
    BY <1>1, <2>1 DEF SetAsideIsGreatest
<1>11. QED
  BY <1>6, <1>9, <1>10

\* heap.Pop returns once the moving item is in its place.
LEMMA DownStopKeepsHeap ==
  ASSUME HeapInv, Heap!DownStop
  PROVE  (HeapOrdered /\ HeapSlotsAreCleared /\ ValuesDiffer /\ SetAsideIsGreatest)'
<1> DEFINE k == Heap!Child(cursor, heapLen - 1)
           n == heapLen - 1
<1>1. /\ pc = "down" /\ pc' = "idle" /\ heapLen' = n
      /\ slots' = [slots EXCEPT ![n] = Heap!NoItem]
      /\ ~(k < n /\ slots[k].priority > slots[cursor].priority)
  BY DEF Heap!DownStop, Heap!DownMoves, Heap!Less
<1>2. /\ HeapTypeOK /\ HeapOrdered /\ HeapSlotsAreCleared /\ ValuesDiffer
      /\ cursor \in Nat /\ cursor < heapLen
      /\ DOMAIN slots = 0 .. HeapCapacity - 1
  BY <1>1 DEF HeapInv, HeapTypeOK, Heap!TypeOK, Heap!Slots
<1>3. /\ heapLen \in Nat /\ HeapCapacity \in Nat /\ heapLen <= HeapCapacity
      /\ n \in Nat /\ n < heapLen /\ n \in 0 .. HeapCapacity - 1
      /\ \A i \in 0 .. n - 1 : slots[i].priority \in Int
  <2>1. /\ heapLen \in Nat /\ HeapCapacity \in Nat /\ heapLen <= HeapCapacity
        /\ \A i \in 0 .. heapLen - 1 : slots[i].priority \in Int
    BY <1>2, OccupiedSlots
  <2>2. QED
    BY <1>2, <2>1
<1>4. /\ k \in Nat
      /\ \A i \in 1 .. n - 1 : Heap!Parent(i) = cursor =>
           k < n /\ slots[i].priority <= slots[k].priority
  BY <1>2, <1>3, ChildIsGreatest
<1> HIDE DEF k, n
<1>5. /\ slots'[n] = Heap!NoItem
      /\ \A i \in 0 .. HeapCapacity - 1 : i # n => slots'[i] = slots[i]
  BY <1>1, <1>2, <1>3
<1>6. ASSUME NEW i \in 1 .. n - 1
      PROVE  slots'[i].priority <= slots'[Heap!Parent(i)].priority
  <2>1. /\ Heap!Parent(i) \in 0 .. i - 1 /\ Heap!Parent(i) \in 0 .. n - 1
        /\ i \in 0 .. n - 1
    BY <1>3, ParentBefore
  <2>2. slots[i].priority <= slots[Heap!Parent(i)].priority
    <3>1. CASE Heap!Parent(i) = cursor
      <4>1. k \in 0 .. n - 1 /\ slots[i].priority <= slots[k].priority
        BY <1>3, <1>4, <3>1
      <4>2. slots[k].priority <= slots[cursor].priority
        BY <1>1, <1>3, <2>1, <3>1, <4>1
      <4>3. /\ slots[i].priority \in Int /\ slots[k].priority \in Int
            /\ slots[cursor].priority \in Int
        BY <1>3, <2>1, <3>1, <4>1
      <4>4. QED
        BY <3>1, <4>1, <4>2, <4>3
    <3>2. CASE Heap!Parent(i) # cursor
      BY <1>1, <1>2, <3>2
         DEF HeapOrdered, Heap!HeapOrdered, Heap!HeapSize, Heap!InOrder, n
    <3>3. QED
      BY <3>1, <3>2
  <2>3. slots'[i] = slots[i] /\ slots'[Heap!Parent(i)] = slots[Heap!Parent(i)]
    BY <1>3, <1>5, <2>1
  <2>4. QED
    BY <2>2, <2>3
<1>7. HeapOrdered'
  <2>1. Heap!HeapSize' = n
    BY <1>1 DEF Heap!HeapSize
  <2>2. \A i \in 1 .. n - 1 : Heap!InOrder(i)'
    BY <1>6 DEF Heap!InOrder, Heap!Parent
  <2>3. QED
    BY <1>1, <2>1, <2>2 DEF HeapOrdered, Heap!HeapOrdered
<1>8. HeapSlotsAreCleared'
  <2>1. ASSUME NEW i \in 0 .. HeapCapacity - 1
        PROVE  slots'[i] = Heap!NoItem <=> i >= heapLen'
    <3>1. slots[i] = Heap!NoItem <=> i >= heapLen
      BY <1>2 DEF HeapSlotsAreCleared, Heap!VacatedSlotsAreCleared, Heap!Slots
    <3>2. CASE i = n
      BY <1>1, <1>3, <1>5, <3>2
    <3>3. CASE i # n
      BY <1>1, <1>3, <1>5, <3>1, <3>3 DEF n
    <3>4. QED
      BY <3>2, <3>3
  <2>2. QED
    BY <2>1 DEF HeapSlotsAreCleared, Heap!VacatedSlotsAreCleared, Heap!Slots,
                Heap!NoItem
<1>9. ValuesDiffer'
  <2>1. \A i \in 0 .. n - 1 : slots'[i] = slots[i] /\ i \in 0 .. heapLen - 1
    BY <1>3, <1>5
  <2>2. QED
    BY <1>1, <1>2, <2>1 DEF ValuesDiffer
<1>10. SetAsideIsGreatest'
  BY <1>1 DEF SetAsideIsGreatest
<1>11. QED
  BY <1>7, <1>8, <1>9, <1>10

-----------------------------------------------------------------------------
LEMMA HeapInvHolds == StructuresSpec => []HeapInv
<1>1. Heap!Init => HeapInv
  <2> SUFFICES ASSUME Heap!Init
               PROVE  HeapInv
    OBVIOUS
  <2>1. /\ heapLen = 0 /\ pc = "idle" /\ cursor = 0
        /\ slots = [i \in 0 .. HeapCapacity - 1 |-> Heap!NoItem]
        /\ heapResult = [val |-> Zero, ok |-> TRUE]
    BY DEF Heap!Init, Heap!Slots
  <2>2. HeapTypeOK
    BY <2>1, HeapAssumption DEF HeapTypeOK, Heap!TypeOK, Heap!Slots
  <2>3. HeapOrdered /\ HeapSlotsAreCleared /\ ValuesDiffer /\ SetAsideIsGreatest
    BY <2>1 DEF HeapOrdered, Heap!HeapOrdered, Heap!HeapSize, HeapSlotsAreCleared,
                Heap!VacatedSlotsAreCleared, Heap!Slots, ValuesDiffer,
                SetAsideIsGreatest
  <2>4. QED
    BY <2>2, <2>3 DEF HeapInv
<1>2. HeapInv /\ [Heap!Next]_(Heap!vars) => HeapInv'
  <2> SUFFICES ASSUME HeapInv, [Heap!Next]_(Heap!vars)
               PROVE  HeapInv'
    OBVIOUS
  <2>1. HeapTypeOK'
    BY HeapKeepsTypes DEF HeapInv
  <2>2. (HeapOrdered /\ HeapSlotsAreCleared /\ ValuesDiffer /\ SetAsideIsGreatest)'
    <3>1. CASE UNCHANGED <<slots, heapLen, pc, cursor>>
      BY <3>1 DEF HeapInv, HeapOrdered, Heap!HeapOrdered, Heap!HeapSize,
                  Heap!InOrder, Heap!Parent, HeapSlotsAreCleared,
                  Heap!VacatedSlotsAreCleared, Heap!Slots, Heap!NoItem,
                  ValuesDiffer, SetAsideIsGreatest
    <3>2. QED
      BY <3>1, EnqueueKeepsHeap, UpSwapKeepsHeap, UpStopKeepsHeap,
         DequeueKeepsHeap, DownSwapKeepsHeap, DownStopKeepsHeap
         DEF Heap!Next, Heap!vars, Heap!EnqueueFull, Heap!DequeueEmpty
  <2>3. QED
    BY <2>1, <2>2 DEF HeapInv
<1>3. QED
  BY <1>1, <1>2, HeapRuns, PTL DEF Heap!Spec

\* In every turn of container/heap's loops, whatever the capacity and the
\* priorities, the only item that may be out of place is the one on the move.
THEOREM HeapOrderCorrect == StructuresSpec => []HeapOrdered
<1>1. HeapInv => HeapOrdered
  BY DEF HeapInv
<1>2. QED
  BY <1>1, HeapInvHolds, PTL

\* No slot behind the heap's last item keeps a popped entry, or a task with
\* it, alive (priority_queue.go:35), and no slot of the heap is empty.
THEOREM HeapSlotsCorrect == StructuresSpec => []HeapSlotsAreCleared
<1>1. HeapInv => HeapSlotsAreCleared
  BY DEF HeapInv
<1>2. QED
  BY <1>1, HeapInvHolds, PTL

-----------------------------------------------------------------------------
\* The items in the heap are as many as its occupied slots.
LEMMA ContentsSize ==
  ASSUME HeapInv
  PROVE  IsFiniteSet(Heap!Contents) /\ Cardinality(Heap!Contents) = heapLen
<1>1. heapLen \in Nat /\ ValuesDiffer
  BY OccupiedSlots DEF HeapInv
<1>2. IsFiniteSet(0 .. heapLen - 1) /\ Cardinality(0 .. heapLen - 1) = heapLen
  BY <1>1, FS_Interval
<1> DEFINE at == [i \in 0 .. heapLen - 1 |-> slots[i]]
<1>3. at \in Bijection(0 .. heapLen - 1, Heap!Contents)
  <2>1. at \in Surjection(0 .. heapLen - 1, Heap!Contents)
    BY DEF Surjection, Heap!Contents
  <2>2. at \in Injection(0 .. heapLen - 1, Heap!Contents)
    <3>1. at \in [0 .. heapLen - 1 -> Heap!Contents]
      BY DEF Heap!Contents
    <3>2. \A i, j \in 0 .. heapLen - 1 : at[i] = at[j] => i = j
      BY <1>1 DEF ValuesDiffer
    <3>3. QED
      BY <3>1, <3>2 DEF Injection, IsInjective
  <2>3. QED
    BY <2>1, <2>2 DEF Bijection
<1>4. ExistsBijection(0 .. heapLen - 1, Heap!Contents)
  <2> HIDE DEF at
  <2>1. QED
    BY <1>3 DEF ExistsBijection
<1>5. QED
  BY <1>2, <1>4, FS_Bijection

\* The pool's module has its own instance of the operator.
LEMMA PoolCardinality == ASSUME NEW S
                         PROVE  Heap!Pool!Cardinality(S) = Cardinality(S)
BY DEF Heap!Pool!Cardinality, Cardinality

\* Changing the places of two items leaves the contents as they are.
LEMMA ContentsSwap ==
  ASSUME HeapInv,
         NEW a \in 0 .. heapLen - 1, NEW b \in 0 .. heapLen - 1,
         slots' = Heap!Swap(a, b), heapLen' = heapLen
  PROVE  Heap!Contents' = Heap!Contents
<1>1. /\ slots'[a] = slots[b] /\ slots'[b] = slots[a]
      /\ \A i \in 0 .. HeapCapacity - 1 : i # a /\ i # b => slots'[i] = slots[i]
  BY SwapEffect DEF HeapInv
<1>2. heapLen \in Nat /\ heapLen <= HeapCapacity /\ HeapCapacity \in Nat
  BY OccupiedSlots DEF HeapInv
<1>3. \A i \in 0 .. heapLen - 1 : i # a /\ i # b => slots'[i] = slots[i]
  BY <1>1, <1>2
<1>4. ASSUME NEW item \in Heap!Contents
      PROVE  item \in {slots'[i] : i \in 0 .. heapLen - 1}
  <2>1. PICK i \in 0 .. heapLen - 1 : item = slots[i]
    BY DEF Heap!Contents
  <2>2. PICK j \in 0 .. heapLen - 1 : slots'[j] = slots[i]
    BY <1>1, <1>3
  <2>3. QED
    BY <2>1, <2>2
<1>5. ASSUME NEW i \in 0 .. heapLen - 1
      PROVE  slots'[i] \in Heap!Contents
  <2>1. PICK j \in 0 .. heapLen - 1 : slots'[i] = slots[j]
    BY <1>1, <1>3
  <2>2. QED
    BY <2>1 DEF Heap!Contents
<1>6. Heap!Contents' = {slots'[i] : i \in 0 .. heapLen - 1}
  BY DEF Heap!Contents
<1>7. QED
  BY <1>4, <1>5, <1>6

\* Every step of the heap is a step of the bounded pool or none: a call takes
\* effect in the turn in which it returns.
LEMMA HeapStepRefines ==
  HeapInv /\ HeapInv' /\ [Heap!Next]_(Heap!vars)
    => [Heap!Pool!Next]_(Heap!Pool!vars)
<1> SUFFICES ASSUME HeapInv, HeapInv', [Heap!Next]_(Heap!vars)
             PROVE  [Heap!Pool!Next]_(Heap!Pool!vars)
  OBVIOUS
<1> DEFINE pool == IF pc = "up" THEN Heap!Contents \ {slots[cursor]}
                   ELSE Heap!Contents
<1>1. /\ heapLen \in Nat /\ heapLen <= HeapCapacity /\ HeapCapacity \in Nat
      /\ \A i \in 0 .. heapLen - 1 :
           /\ i \in 0 .. HeapCapacity - 1
           /\ slots[i] \in Heap!Item
           /\ slots[i].value \in HeapValues
           /\ slots[i].priority \in Int
      /\ ValuesDiffer
      /\ DOMAIN slots = 0 .. HeapCapacity - 1
  BY OccupiedSlots DEF HeapInv, HeapTypeOK, Heap!TypeOK, Heap!Slots
<1>2. ASSUME UNCHANGED <<pool, heapResult>>
      PROVE  UNCHANGED Heap!Pool!vars
  BY <1>2 DEF Heap!Pool!vars
<1>3. ASSUME NEW v \in HeapValues, NEW p \in HeapPriorities, Heap!Enqueue(v, p)
      PROVE  pool' = pool /\ heapResult' = heapResult
  <2> DEFINE item == [value |-> v, priority |-> p]
  <2>1. /\ pc = "idle" /\ pc' = "up" /\ heapLen' = heapLen + 1 /\ cursor' = heapLen
        /\ slots' = [slots EXCEPT ![heapLen] = item]
        /\ v \notin Heap!Queued /\ heapLen # HeapCapacity /\ heapResult' = heapResult
    BY <1>3 DEF Heap!Enqueue
  <2>2. /\ slots'[heapLen] = item
        /\ \A i \in 0 .. heapLen - 1 : slots'[i] = slots[i]
    BY <1>1, <2>1
  <2>3. item \notin Heap!Contents
    BY <2>1 DEF Heap!Queued, Heap!Contents
  <2>4. Heap!Contents' = {slots'[i] : i \in 0 .. heapLen}
    BY <1>1, <2>1 DEF Heap!Contents
  <2>5. Heap!Contents' = Heap!Contents \cup {item}
    <3>1. ASSUME NEW i \in 0 .. heapLen
          PROVE  slots'[i] \in Heap!Contents \cup {item}
      <4>1. i = heapLen \/ i \in 0 .. heapLen - 1
        BY <1>1
      <4>2. QED
        BY <2>2, <4>1 DEF Heap!Contents
    <3>2. ASSUME NEW i \in 0 .. heapLen - 1
          PROVE  slots[i] \in {slots'[j] : j \in 0 .. heapLen}
      <4>1. i \in 0 .. heapLen /\ slots[i] = slots'[i]
        BY <1>1, <2>2
      <4>2. QED
        BY <4>1
    <3>3. item \in {slots'[j] : j \in 0 .. heapLen}
      BY <1>1, <2>2
    <3>4. QED
      BY <2>4, <3>1, <3>2, <3>3 DEF Heap!Contents
  <2> HIDE DEF item
  <2>6. QED
    BY <2>1, <2>2, <2>3, <2>5
<1>4. CASE Heap!EnqueueFull
  <2>1. /\ pc = "idle" /\ heapLen = HeapCapacity /\ pc' = pc
        /\ heapResult' = [val |-> Zero, ok |-> FALSE]
        /\ UNCHANGED <<slots, heapLen>>
    BY <1>4 DEF Heap!EnqueueFull
  <2>2. Heap!Contents' = Heap!Contents
    BY <2>1 DEF Heap!Contents
  <2>3. /\ pool = Heap!Contents /\ pool' = Heap!Contents
        /\ Cardinality(pool) = HeapCapacity
    <3>1. pool = Heap!Contents /\ pool' = Heap!Contents
      BY <2>1, <2>2
    <3> HIDE DEF pool
    <3>2. QED
      BY <2>1, <3>1, ContentsSize
  <2>4. Heap!Pool!Refuse
    BY <2>1, <2>3, PoolCardinality DEF Heap!Pool!Refuse
  <2>5. QED
    BY <2>4 DEF Heap!Pool!Next
<1>5. CASE Heap!UpSwap
  <2>1. /\ pc = "up" /\ pc' = "up" /\ heapLen' = heapLen
        /\ slots' = Heap!Swap(Heap!Parent(cursor), cursor)
        /\ cursor' = Heap!Parent(cursor) /\ heapResult' = heapResult
        /\ Heap!Parent(cursor) # cursor
    BY <1>5 DEF Heap!UpSwap
  <2>2. cursor \in 0 .. heapLen - 1 /\ Heap!Parent(cursor) \in 0 .. heapLen - 1
    <3>1. cursor \in Nat /\ cursor < heapLen /\ cursor # 0
      BY <2>1 DEF HeapInv, HeapTypeOK, Heap!TypeOK, Heap!Slots, Heap!Parent
    <3>2. QED
      BY <1>1, <3>1, ParentBefore
  <2>3. Heap!Contents' = Heap!Contents
    BY <2>1, <2>2, ContentsSwap
  <2>4. slots'[cursor'] = slots[cursor]
    BY <2>1, <2>2, SwapEffect DEF HeapInv
  <2>5. QED
    BY <1>2, <2>1, <2>3, <2>4
<1>6. CASE Heap!UpStop
  <2> DEFINE item == slots[cursor]
  <2>1. /\ pc = "up" /\ pc' = "idle" /\ UNCHANGED <<slots, heapLen>>
        /\ heapResult' = [val |-> Zero, ok |-> TRUE]
    BY <1>6 DEF Heap!UpStop
  <2>2. cursor \in 0 .. heapLen - 1
    BY <1>1, <2>1 DEF HeapInv, HeapTypeOK, Heap!TypeOK, Heap!Slots
  <2>3. item \in Heap!Contents /\ item \in Heap!Item
    BY <1>1, <2>2 DEF Heap!Contents
  <2>4. Heap!Contents' = Heap!Contents
    BY <2>1 DEF Heap!Contents
  <2>5. Cardinality(Heap!Contents \ {item}) = heapLen - 1
    BY <2>3, ContentsSize, FS_RemoveElement
  <2>6. /\ pool = Heap!Contents \ {item} /\ pool' = Heap!Contents
        /\ heapLen - 1 < HeapCapacity
    BY <1>1, <2>1, <2>4
  <2> HIDE DEF item
  <2>7. Cardinality(pool) < HeapCapacity
    <3> HIDE DEF pool
    <3>1. QED
      BY <2>5, <2>6
  <2>8. /\ item \notin pool /\ pool' = pool \cup {item}
    BY <2>3, <2>6
  <2>9. Heap!Pool!Add(item)
    BY <2>1, <2>7, <2>8, PoolCardinality DEF Heap!Pool!Add
  <2>10. QED
    BY <2>3, <2>9 DEF Heap!Pool!Next
<1>7. CASE Heap!Dequeue
  <2>1. /\ pc = "idle" /\ pc' = "down" /\ heapLen' = heapLen
        /\ slots' = Heap!Swap(0, heapLen - 1) /\ heapResult' = heapResult
        /\ heapLen # 0
    BY <1>7 DEF Heap!Dequeue
  <2>2. 0 \in 0 .. heapLen - 1 /\ heapLen - 1 \in 0 .. heapLen - 1
    BY <1>1, <2>1
  <2>3. Heap!Contents' = Heap!Contents
    BY <2>1, <2>2, ContentsSwap
  <2>4. QED
    BY <1>2, <2>1, <2>3
<1>8. CASE Heap!DequeueEmpty
  <2>1. /\ pc = "idle" /\ heapLen = 0 /\ pc' = pc
        /\ heapResult' = [val |-> Zero, ok |-> FALSE]
        /\ UNCHANGED <<slots, heapLen>>
    BY <1>8 DEF Heap!DequeueEmpty
  <2>2. Heap!Contents' = Heap!Contents /\ Heap!Contents = {}
    BY <2>1 DEF Heap!Contents
  <2>3. Heap!Pool!FindNone
    BY <2>1, <2>2 DEF Heap!Pool!FindNone
  <2>4. QED
    BY <2>3 DEF Heap!Pool!Next
<1>9. CASE Heap!DownSwap
  <2> DEFINE k == Heap!Child(cursor, heapLen - 1)
  <2>1. /\ pc = "down" /\ pc' = "down" /\ heapLen' = heapLen
        /\ slots' = Heap!Swap(cursor, k) /\ heapResult' = heapResult
        /\ k < heapLen - 1
    BY <1>9 DEF Heap!DownSwap, Heap!DownMoves
  <2>2. cursor \in 0 .. heapLen - 1 /\ k \in 0 .. heapLen - 1
    <3>1. cursor \in Nat /\ cursor < heapLen
      BY <2>1 DEF HeapInv, HeapTypeOK, Heap!TypeOK, Heap!Slots
    <3>2. k \in {2 * cursor + 1, 2 * cursor + 2}
      BY <3>1 DEF Heap!Child
    <3> HIDE DEF k
    <3>3. QED
      BY <1>1, <2>1, <3>1, <3>2
  <2> HIDE DEF k
  <2>3. Heap!Contents' = Heap!Contents
    BY <2>1, <2>2, ContentsSwap
  <2>4. QED
    BY <1>2, <2>1, <2>3
<1>10. CASE Heap!DownStop
  <2> DEFINE item == slots[heapLen - 1]
  <2>1. /\ pc = "down" /\ pc' = "idle" /\ heapLen' = heapLen - 1
        /\ slots' = [slots EXCEPT ![heapLen - 1] = Heap!NoItem]
        /\ heapResult' = [val |-> item.value, ok |-> TRUE]
    BY <1>10 DEF Heap!DownStop
  <2>2. heapLen - 1 \in 0 .. heapLen - 1
    <3>1. cursor \in Nat /\ cursor < heapLen
      BY <2>1 DEF HeapInv, HeapTypeOK, Heap!TypeOK, Heap!Slots
    <3>2. QED
      BY <1>1, <3>1
  <2>3. /\ item \in Heap!Contents /\ item \in Heap!Item
        /\ \A other \in Heap!Contents : item.priority >= other.priority
    <3>1. \A i \in 0 .. heapLen - 1 :
            slots[i].priority <= item.priority
      BY <2>1 DEF HeapInv, SetAsideIsGreatest
    <3>2. \A i \in 0 .. heapLen - 1 :
            slots[i].priority \in Int /\ item.priority \in Int
      BY <1>1, <2>2
    <3>3. QED
      BY <1>1, <2>2, <3>1, <3>2 DEF Heap!Contents
  <2>4. \A i \in 0 .. heapLen - 2 : slots'[i] = slots[i] /\ slots[i] # item
    BY <1>1, <2>1, <2>2 DEF ValuesDiffer
  <2>5. Heap!Contents' = {slots'[i] : i \in 0 .. heapLen - 2}
    <3>1. heapLen' - 1 = heapLen - 2
      BY <1>1, <2>1
    <3>2. QED
      BY <3>1 DEF Heap!Contents
  <2>6. Heap!Contents' = Heap!Contents \ {item}
    <3>1. ASSUME NEW i \in 0 .. heapLen - 2
          PROVE  slots'[i] \in Heap!Contents \ {item}
      <4>1. i \in 0 .. heapLen - 1
        BY <1>1
      <4>2. QED
        BY <2>4, <4>1 DEF Heap!Contents
    <3>2. ASSUME NEW i \in 0 .. heapLen - 1, slots[i] # item
          PROVE  slots[i] \in {slots'[j] : j \in 0 .. heapLen - 2}
      <4>1. i \in 0 .. heapLen - 2
        BY <1>1, <3>2
      <4>2. QED
        BY <2>4, <4>1
    <3>3. QED
      BY <2>5, <3>1, <3>2 DEF Heap!Contents
  <2> HIDE DEF item
  <2>7. pool = Heap!Contents /\ pool' = Heap!Contents'
    BY <2>1
  <2>8. Heap!Pool!TakeGreatest(item)
    BY <2>1, <2>3, <2>6, <2>7 DEF Heap!Pool!TakeGreatest
  <2>9. QED
    BY <2>3, <2>8 DEF Heap!Pool!Next
<1>11. CASE UNCHANGED Heap!vars
  BY <1>2, <1>11 DEF Heap!vars, Heap!Contents
<1>12. QED
  BY <1>2, <1>3, <1>4, <1>5, <1>6, <1>7, <1>8, <1>9, <1>10, <1>11 DEF Heap!Next

\* The heap is a bounded pool, for every capacity and every set of priorities:
\* Dequeue returns an item of the greatest priority in it, an item is refused
\* exactly when the capacity is reached, and none is lost or returned twice.
THEOREM HeapRefinement == StructuresSpec => ImplementsPool
<1>1. Heap!Init => Heap!Pool!Init
  BY DEF Heap!Init, Heap!Pool!Init, Heap!Contents
<1>2. QED
  BY <1>1, HeapStepRefines, HeapInvHolds, HeapRuns, PTL
     DEF Heap!Spec, ImplementsPool, Heap!ImplementsPool, Heap!Pool!Spec
=============================================================================
