------------------------ MODULE SchedulerShare_proofs ------------------------
(***************************************************************************)
(* For any finite number of entries, all priorities and every way to break *)
(* ties: wfq serves entries that always have work in proportion to their   *)
(* priorities.                                                             *)
(***************************************************************************)
EXTENDS SchedulerShare, FiniteSetTheorems, TLAPS

Fields == {"weight", "lastVirtualFinish", "enqueued"}

\* An entry of inverse weight w and virtual finish time f.
HasFields(e, w, f) ==
  /\ DOMAIN e = Fields
  /\ e.weight = w
  /\ e.lastVirtualFinish = f

\* The inverse weight of an entry, and the item the heap has for it.
Weight(id) == InverseWeight(priority[id])
ItemOf(id) == [id |-> id, key |-> -Service(id)]

\* The scheduler holds what each entry has been served: its virtual finish time is
\* that service, and the heap has one item for it, keyed by it.
ShareInv ==
  /\ priority \in [EntryId -> Priorities]
  /\ rounds \in [EntryId -> Nat]
  /\ DOMAIN sched.entry = EntryId
  /\ \A id \in EntryId : HasFields(sched.entry[id], Weight(id), Service(id))
  /\ sched.queue = {ItemOf(id) : id \in EntryId}
  /\ SharesAreProportional

-----------------------------------------------------------------------------
(* Numbers and records                                                     *)

\* Services are numbers, and one round more is one inverse weight more.
LEMMA ServiceNat ==
  ASSUME NEW r \in Nat, NEW p \in Priorities
  PROVE  /\ InverseWeight(p) \in Nat
         /\ r * InverseWeight(p) \in Nat
         /\ 0 * InverseWeight(p) = 0
         /\ (r + 1) * InverseWeight(p) = r * InverseWeight(p) + InverseWeight(p)
<1>1. p \in Nat \ {0} /\ VirtualUnit \in Nat
  BY PrioritiesAssumption
<1>2. InverseWeight(p) \in Nat
  BY <1>1, SMT DEF InverseWeight
<1>3. ASSUME NEW w \in Nat
      PROVE  r * w \in Nat /\ 0 * w = 0 /\ (r + 1) * w = r * w + w
  BY SMT
<1>4. QED
  BY <1>2, <1>3

LEMMA ServicesAreNat ==
  ASSUME ShareInv, NEW id \in EntryId
  PROVE  Weight(id) \in Nat /\ Service(id) \in Nat
BY ServiceNat DEF ShareInv, Weight, Service

LEMMA Charge ==
  ASSUME NEW e, NEW w, NEW f, NEW g, HasFields(e, w, f)
  PROVE  LET idle == [e EXCEPT !.lastVirtualFinish = g, !.enqueued = FALSE]
         IN HasFields(idle, w, g) /\ ~idle.enqueued
BY DEF HasFields, Fields

LEMMA MarkEnqueued ==
  ASSUME NEW e, NEW w, NEW f, HasFields(e, w, f)
  PROVE  HasFields([e EXCEPT !.enqueued = TRUE], w, f)
BY DEF HasFields, Fields

-----------------------------------------------------------------------------
(* One service                                                             *)

\* The heap holds one item per entry, so there is room for the one dequeued.
LEMMA RoomAgain ==
  ASSUME ShareInv, NEW item \in sched.queue
  PROVE  Cardinality(sched.queue \ {item}) < HeapCapacity
<1> DEFINE f == [id \in EntryId |-> ItemOf(id)]
<1>1. IsFiniteSet(EntryId) /\ HeapCapacity \in Nat /\ Cardinality(EntryId) <= HeapCapacity
  BY ShareAssumption
<1>2. sched.queue = {f[id] : id \in EntryId}
  BY DEF ShareInv
<1>3. f \in Surjection(EntryId, sched.queue)
  BY <1>2 DEF Surjection
<1>4. /\ IsFiniteSet(sched.queue)
      /\ Cardinality(sched.queue) <= Cardinality(EntryId)
  BY <1>1, <1>3, FS_Surjection
<1>5. Cardinality(sched.queue \ {item}) = Cardinality(sched.queue) - 1
  BY <1>4, FS_RemoveElement
<1>6. Cardinality(sched.queue) \in Nat /\ Cardinality(EntryId) \in Nat
  BY <1>1, <1>4, FS_CardinalityType
<1>7. QED
  BY <1>1, <1>4, <1>5, <1>6

\* Serving x and putting it back moves its virtual finish time on by one service.
LEMMA ServeEffect ==
  ASSUME ShareInv, NEW x \in EntryId, NEW s,
         s = Enqueue(Dequeue(sched, ItemOf(x)), x)
  PROVE  /\ DOMAIN s.entry = EntryId
         /\ HasFields(s.entry[x], Weight(x), Service(x) + Weight(x))
         /\ \A id \in EntryId \ {x} : s.entry[id] = sched.entry[id]
         /\ s.queue = (sched.queue \ {ItemOf(x)})
                        \cup {[id |-> x, key |-> -(Service(x) + Weight(x))]}
<1> DEFINE finish == Service(x) + Weight(x)
           idle == [sched.entry[x] EXCEPT !.lastVirtualFinish = finish, !.enqueued = FALSE]
           d == Dequeue(sched, ItemOf(x))
<1>1. Policy = WeightedFairQueue
  BY ShareAssumption
<1>2. ItemOf(x).id = x
  BY DEF ItemOf
<1>3. HasFields(sched.entry[x], Weight(x), Service(x)) /\ DOMAIN sched.entry = EntryId
  BY DEF ShareInv
<1>4. sched.entry[x].lastVirtualFinish + sched.entry[x].weight = finish
  BY <1>3, Zenon DEF HasFields
<1>5. d = [entry |-> [sched.entry EXCEPT ![x] = idle],
           queue |-> sched.queue \ {ItemOf(x)},
           lastVirtualFinish |-> finish]
  BY <1>1, <1>2, <1>4, Zenon DEF Dequeue
<1>6. HasFields(idle, Weight(x), finish) /\ ~idle.enqueued
  BY <1>3, Charge
<1> HIDE DEF idle
<1>7. /\ d.entry = [sched.entry EXCEPT ![x] = idle]
      /\ d.queue = sched.queue \ {ItemOf(x)}
      /\ d.entry[x] = idle
  BY <1>3, <1>5
<1> HIDE DEF d
<1>8. CanEnqueue(d, x)
  <2>1. ItemOf(x) \in sched.queue
    BY DEF ShareInv
  <2>2. Cardinality(d.queue) < HeapCapacity
    BY <1>7, <2>1, RoomAgain
  <2>3. QED
    BY <1>6, <1>7, <2>2, Zenon DEF CanEnqueue
<1>9. Key(d.entry[x]) = -finish
  BY <1>1, <1>6, <1>7, Zenon DEF Key, HasFields
<1> DEFINE marked == [idle EXCEPT !.enqueued = TRUE]
<1>10. s = [d EXCEPT !.queue = d.queue \cup {[id |-> x, key |-> -finish]},
                     !.entry = [d.entry EXCEPT ![x] = marked]]
  BY <1>7, <1>8, <1>9, Zenon DEF Enqueue, d
<1>11. HasFields(marked, Weight(x), finish)
  BY <1>6, MarkEnqueued
<1> HIDE DEF marked
<1>12. /\ s.queue = d.queue \cup {[id |-> x, key |-> -finish]}
       /\ s.entry = [d.entry EXCEPT ![x] = marked]
  BY <1>5, <1>10
<1>13. QED
  BY <1>3, <1>7, <1>11, <1>12

LEMMA ServeKeepsShares ==
  ASSUME ShareInv, NEW item \in sched.queue, Serve(item)
  PROVE  ShareInv'
<1>1. PICK x \in EntryId : item = ItemOf(x)
  BY DEF ShareInv
<1>2. item.id = x /\ item.key = -Service(x)
  BY <1>1 DEF ItemOf
<1>3. /\ rounds' = [rounds EXCEPT ![x] = @ + 1]
      /\ priority' = priority
      /\ sched' = Enqueue(Dequeue(sched, ItemOf(x)), x)
      /\ \A other \in sched.queue : item.key >= other.key
  BY <1>1, <1>2 DEF Serve, First
<1>4. priority' \in [EntryId -> Priorities] /\ rounds' \in [EntryId -> Nat]
  BY <1>3 DEF ShareInv
<1>5. /\ \A id \in EntryId : Weight(id)' = Weight(id)
      /\ Service(x)' = Service(x) + Weight(x)
      /\ \A id \in EntryId \ {x} : Service(id)' = Service(id)
  <2>1. \A id \in EntryId : Weight(id)' = Weight(id)
    BY <1>3 DEF Weight
  <2>2. rounds'[x] = rounds[x] + 1 /\ \A id \in EntryId \ {x} : rounds'[id] = rounds[id]
    BY <1>3 DEF ShareInv
  <2>3. Service(x)' = (rounds[x] + 1) * InverseWeight(priority[x])
    BY <1>3, <2>2 DEF Service
  <2>4. rounds[x] \in Nat /\ priority[x] \in Priorities
    BY DEF ShareInv
  <2>5. Service(x)' = Service(x) + Weight(x)
    BY <2>3, <2>4, ServiceNat DEF Service, Weight
  <2>6. \A id \in EntryId \ {x} : Service(id)' = Service(id)
    BY <1>3, <2>2 DEF Service
  <2>7. QED
    BY <2>1, <2>5, <2>6
<1>6. /\ DOMAIN sched'.entry = EntryId
      /\ \A id \in EntryId : HasFields(sched'.entry[id], Weight(id)', Service(id)')
  BY <1>3, <1>5, ServeEffect DEF ShareInv
<1>7. sched'.queue = {ItemOf(id)' : id \in EntryId}
  <2>1. ItemOf(x)' = [id |-> x, key |-> -(Service(x) + Weight(x))]
    BY <1>5 DEF ItemOf
  <2>2. \A id \in EntryId \ {x} : ItemOf(id)' = ItemOf(id) /\ ItemOf(id) # ItemOf(x)
    BY <1>5 DEF ItemOf
  <2>3. sched.queue \ {ItemOf(x)} = {ItemOf(id) : id \in EntryId \ {x}}
    BY <2>2 DEF ShareInv
  <2>4. sched'.queue = {ItemOf(id) : id \in EntryId \ {x}} \cup {ItemOf(x)'}
    BY <1>3, <2>1, <2>3, ServeEffect
  <2>5. QED
    BY <2>2, <2>4
<1>8. SharesAreProportional'
  <2>1. \A id \in EntryId : Weight(id) \in Nat /\ Service(id) \in Nat
    BY ServicesAreNat
  <2>2. \A id \in EntryId : Service(x) <= Service(id)
    <3> TAKE id \in EntryId
    <3>1. ItemOf(id) \in sched.queue /\ ItemOf(id).key = -Service(id)
      BY DEF ShareInv, ItemOf
    <3>2. -Service(x) >= -Service(id)
      BY <1>2, <1>3, <3>1
    <3>3. QED
      BY <2>1, <3>2
  <2>3. \A a, b \in EntryId : Service(a) <= Service(b) + Weight(a)
    BY DEF ShareInv, SharesAreProportional, Weight
  <2>4. \A a, b \in EntryId : Service(a)' <= Service(b)' + Weight(a)'
    <3> TAKE a, b \in EntryId
    <3>1. CASE a = x /\ b = x
      BY <1>5, <2>1, <3>1
    <3>2. CASE a = x /\ b # x
      BY <1>5, <2>1, <2>2, <3>2
    <3>3. CASE a # x /\ b = x
      BY <1>5, <2>1, <2>3, <3>3
    <3>4. CASE a # x /\ b # x
      BY <1>5, <2>1, <2>3, <3>4
    <3>5. QED
      BY <3>1, <3>2, <3>3, <3>4
  <2>5. QED
    BY <2>4 DEF SharesAreProportional, Weight
<1>9. QED
  BY <1>4, <1>6, <1>7, <1>8 DEF ShareInv

LEMMA InitShares ==
  ASSUME Init
  PROVE  ShareInv
<1>1. /\ priority \in [EntryId -> Priorities]
      /\ rounds \in [EntryId -> Nat]
      /\ \A id \in EntryId : rounds[id] = 0
  BY DEF Init
<1>2. \A id \in EntryId : Weight(id) \in Nat /\ Service(id) = 0
  BY <1>1, ServiceNat DEF Service, Weight
<1>3. /\ DOMAIN sched.entry = EntryId
      /\ \A id \in EntryId : HasFields(sched.entry[id], Weight(id), Service(id))
  BY <1>2 DEF Init, HasFields, Fields, Weight
<1>4. sched.queue = {ItemOf(id) : id \in EntryId}
  <2>1. \A n \in Nat : -n = 0 - n
    BY SMT
  <2>2. \A id \in EntryId : ItemOf(id) = [id |-> id, key |-> 0]
    <3> TAKE id \in EntryId
    <3>1. Service(id) \in Nat /\ 0 - Service(id) = 0
      BY <1>2
    <3>2. -Service(id) = 0
      BY <2>1, <3>1, Zenon
    <3>3. QED
      BY <3>2, Zenon DEF ItemOf
  <2>3. sched.queue = {[id |-> id, key |-> 0] : id \in EntryId}
    BY DEF Init
  <2>4. QED
    BY <2>2, <2>3
<1>5. SharesAreProportional
  BY <1>2 DEF SharesAreProportional, Weight
<1>6. QED
  BY <1>1, <1>3, <1>4, <1>5 DEF ShareInv

\* At no moment has an entry been served more than one service ahead of its share
\* (wfq_scheduler.go:20-24), for any number of entries, all priorities and however
\* the heap breaks ties.
THEOREM SharesCorrect ==
  Spec => []SharesAreProportional
<1>1. ShareInv /\ [Next]_vars => ShareInv'
  <2>1. ASSUME ShareInv, UNCHANGED vars
        PROVE  ShareInv'
    BY <2>1 DEF ShareInv, vars, SharesAreProportional, Service, Weight, ItemOf
  <2>2. QED
    BY <2>1, ServeKeepsShares DEF Next
<1>2. ShareInv => SharesAreProportional
  BY DEF ShareInv
<1>3. QED
  BY <1>1, <1>2, InitShares, PTL DEF Spec
=============================================================================
