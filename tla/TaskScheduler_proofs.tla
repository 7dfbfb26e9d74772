----------------------- MODULE TaskScheduler_proofs -----------------------
(***************************************************************************)
(* The priority task scheduler for every number of submitters, calls and   *)
(* tasks per level.  The inductive invariant joins the types of the        *)
(* variables with EntryMatchesGroup: what a step may do to the scheduler   *)
(* is only well defined while its items, its entries and the groups agree. *)
(***************************************************************************)
EXTENDS TaskScheduler, TLAPS, FiniteSetTheorems, SequenceTheorems

IInv == TypeOK /\ EntryMatchesGroup

-----------------------------------------------------------------------------
(* The scheduler's part of a step                                          *)

LEMMA LevelsAre ==
  Levels = {0, 1, 2}
BY DEF Levels, PRIORITY_LEVEL_COUNT, LOW_PRIORITY

\* The three weights of each policy.
LEMMA Weights ==
  /\ Weight(0) = IF Policy = "wfq" THEN 1100 ELSE 120
  /\ Weight(1) = IF Policy = "wfq" THEN 490 ELSE 110
  /\ Weight(2) = IF Policy = "wfq" THEN 539 ELSE 100
<1>1. 53900 \div 49 = 1100 /\ 53900 \div 110 = 490 /\ 53900 \div 100 = 539
  OBVIOUS
<1>2. QED
  BY <1>1 DEF Weight, GetPriority, S!InverseWeight, VirtualUnit, WeightedFairQueue,
       HIGH_PRIORITY, MEDIUM_PRIORITY, LOW_PRIORITY

LEMMA WeightType ==
  \A l \in Levels : Weight(l) \in Nat /\ Weight(l) > 0
BY LevelsAre, Weights

\* The cardinality the scheduler module speaks of is the library's.
LEMMA SameCardinality ==
  ASSUME NEW Q
  PROVE  S!Cardinality(Q) = Cardinality(Q)
BY DEF S!Cardinality, Cardinality

\* The entries the scheduler's methods go through.
IdleEntry(w, f) == [weight |-> w, lastVirtualFinish |-> f, enqueued |-> FALSE]
QueuedEntry(w, f) == [weight |-> w, lastVirtualFinish |-> f, enqueued |-> TRUE]

Fields == {"weight", "lastVirtualFinish", "enqueued"}

LEMMA EntryFields ==
  ASSUME NEW w, NEW f
  PROVE  /\ IdleEntry(w, f).weight = w
         /\ IdleEntry(w, f).lastVirtualFinish = f
         /\ ~IdleEntry(w, f).enqueued
         /\ QueuedEntry(w, f).weight = w
         /\ QueuedEntry(w, f).lastVirtualFinish = f
         /\ QueuedEntry(w, f).enqueued
         /\ IdleEntry(w, f) = [i \in Fields |-> IdleEntry(w, f)[i]]
         /\ QueuedEntry(w, f) = [i \in Fields |-> QueuedEntry(w, f)[i]]
BY DEF IdleEntry, QueuedEntry, Fields

\* The provers compare records that hold truth values field by field.
LEMMA SetWeight ==
  ASSUME NEW w, NEW f, NEW v
  PROVE  [IdleEntry(w, f) EXCEPT !.weight = v] = IdleEntry(v, f)
<1> DEFINE e == [IdleEntry(w, f) EXCEPT !.weight = v]
<1>1. e = [i \in Fields |-> e[i]]
  BY EntryFields DEF Fields
<1>2. e["weight"] = v /\ e["lastVirtualFinish"] = f
  BY DEF IdleEntry
<1>3. e["enqueued"] = IdleEntry(v, f)["enqueued"]
  BY DEF IdleEntry
<1> HIDE DEF e
<1>4. \A i \in Fields : e[i] = IdleEntry(v, f)[i]
  BY <1>2, <1>3, EntryFields DEF Fields
<1>5. e = IdleEntry(v, f)
  BY <1>1, <1>4, EntryFields
<1>6. QED
  BY <1>5 DEF e

LEMMA MarkEnqueued ==
  ASSUME NEW w, NEW f
  PROVE  [IdleEntry(w, f) EXCEPT !.enqueued = TRUE] = QueuedEntry(w, f)
<1> DEFINE e == [IdleEntry(w, f) EXCEPT !.enqueued = TRUE]
<1>1. e = [i \in Fields |-> e[i]]
  BY DEF IdleEntry, Fields
<1>2. e["weight"] = w /\ e["lastVirtualFinish"] = f
  BY DEF IdleEntry
<1>3. e["enqueued"] = QueuedEntry(w, f)["enqueued"]
  BY DEF IdleEntry, QueuedEntry
<1> HIDE DEF e
<1>4. \A i \in Fields : e[i] = QueuedEntry(w, f)[i]
  BY <1>2, <1>3, EntryFields DEF Fields
<1>5. e = QueuedEntry(w, f)
  BY <1>1, <1>4, EntryFields
<1>6. QED
  BY <1>5 DEF e

LEMMA Charge ==
  ASSUME NEW w, NEW f, NEW g
  PROVE  [QueuedEntry(w, f) EXCEPT !.lastVirtualFinish = g, !.enqueued = FALSE]
           = IdleEntry(w, g)
<1> DEFINE e == [QueuedEntry(w, f) EXCEPT !.lastVirtualFinish = g, !.enqueued = FALSE]
<1>1. e = [i \in Fields |-> e[i]]
  BY DEF QueuedEntry, Fields
<1>2. e["weight"] = w /\ e["lastVirtualFinish"] = g
  BY DEF QueuedEntry
<1>3. e["enqueued"] = IdleEntry(w, g)["enqueued"]
  BY DEF IdleEntry, QueuedEntry
<1> HIDE DEF e
<1>4. \A i \in Fields : e[i] = IdleEntry(w, g)[i]
  BY <1>2, <1>3, EntryFields DEF Fields
<1>5. e = IdleEntry(w, g)
  BY <1>1, <1>4, EntryFields
<1>6. QED
  BY <1>5 DEF e

\* An entry that is marked is a queued entry.
LEMMA Marked ==
  ASSUME NEW e \in S!Entry, e.enqueued
  PROVE  /\ e = QueuedEntry(e.weight, e.lastVirtualFinish)
         /\ e.weight \in Nat /\ e.lastVirtualFinish \in Nat
<1> DEFINE q == QueuedEntry(e.weight, e.lastVirtualFinish)
<1>1. e = [i \in Fields |-> e[i]]
  BY DEF S!Entry, Fields
<1>2. e["weight"] = q["weight"] /\ e["lastVirtualFinish"] = q["lastVirtualFinish"]
  BY EntryFields
<1>3. e["enqueued"] = q["enqueued"]
  BY DEF QueuedEntry, S!Entry
<1>4. \A i \in Fields : e[i] = q[i]
  BY <1>2, <1>3 DEF Fields
<1>5. q = [i \in Fields |-> q[i]]
  BY EntryFields
<1> HIDE DEF q
<1>6. e = q
  BY <1>1, <1>4, <1>5
<1>7. QED
  BY <1>6 DEF q, S!Entry

\* The key of an entry does not depend on its mark, and both entries are in Entry.
LEMMA EntryKey ==
  ASSUME NEW w \in Nat, NEW f \in Nat
  PROVE  /\ S!Key(IdleEntry(w, f)) = IF Policy = "wfq" THEN -f ELSE w
         /\ S!Key(QueuedEntry(w, f)) = IF Policy = "wfq" THEN -f ELSE w
         /\ S!Key(QueuedEntry(w, f)) \in Int
         /\ IdleEntry(w, f) \in S!Entry /\ QueuedEntry(w, f) \in S!Entry
         /\ IdleEntry(w, f) # Nil /\ QueuedEntry(w, f) # Nil
<1>1. /\ S!Key(IdleEntry(w, f)) = IF Policy = "wfq" THEN -f ELSE w
      /\ S!Key(QueuedEntry(w, f)) = IF Policy = "wfq" THEN -f ELSE w
      /\ S!Key(QueuedEntry(w, f)) \in Int
  BY EntryFields DEF S!Key, S!WeightedFairQueue
<1>2. IdleEntry(w, f) \in S!Entry /\ QueuedEntry(w, f) \in S!Entry
  BY DEF IdleEntry, QueuedEntry, S!Entry
<1>3. QED
  BY <1>1, <1>2, NilAssumption

\* While a level has no item in the scheduler there is room for one.
LEMMA RoomForLevel ==
  ASSUME NEW Q, NEW l \in Levels, NEW f,
         \A item \in Q : \E m \in Levels \ {l} : item = f[m]
  PROVE  Cardinality(Q) < PRIORITY_LEVEL_COUNT
<1>1. PICK a, b \in Levels : Levels \ {l} = {a, b}
  <2>1. CASE l = 0
    <3>1. Levels \ {l} = {1, 2}
      BY <2>1, LevelsAre
    <3>2. QED
      BY <3>1, LevelsAre
  <2>2. CASE l = 1
    <3>1. Levels \ {l} = {0, 2}
      BY <2>2, LevelsAre
    <3>2. QED
      BY <3>1, LevelsAre
  <2>3. CASE l = 2
    <3>1. Levels \ {l} = {0, 1}
      BY <2>3, LevelsAre
    <3>2. QED
      BY <3>1, LevelsAre
  <2>4. QED
    BY <2>1, <2>2, <2>3, LevelsAre
<1>2. Q \in SUBSET ({f[a]} \cup {f[b]})
  BY <1>1
<1>3. IsFiniteSet({f[a]}) /\ Cardinality({f[a]}) = 1
  BY FS_Singleton
<1>4. /\ IsFiniteSet({f[a]} \cup {f[b]})
      /\ Cardinality({f[a]} \cup {f[b]}) <= 2
  BY <1>3, FS_AddElement
<1>5. Cardinality(Q) <= Cardinality({f[a]} \cup {f[b]}) /\ IsFiniteSet(Q)
  BY <1>2, <1>4, FS_Subset
<1>6. Cardinality(Q) \in Nat /\ Cardinality({f[a]} \cup {f[b]}) \in Nat
  BY <1>4, <1>5, FS_CardinalityType
<1>7. QED
  BY <1>4, <1>5, <1>6 DEF PRIORITY_LEVEL_COUNT, LOW_PRIORITY

\* What TypeOK says of the scheduler and its entries.
LEMMA SchedType ==
  ASSUME TypeOK
  PROVE  /\ sched = [entry |-> sched.entry,
                     queue |-> sched.queue,
                     lastVirtualFinish |-> sched.lastVirtualFinish]
         /\ sched.entry \in [Levels -> S!Entry \cup {Nil}]
         /\ sched.queue \subseteq S!Item
         /\ sched.lastVirtualFinish \in Nat
BY DEF TypeOK, S!State

\* The entry a group that was empty puts into the scheduler.
FreshEntry(l) == QueuedEntry(Weight(l), sched.lastVirtualFinish)

\* A group that was empty has no entry, so it gets a new one, which the
\* scheduler takes: it is neither marked nor is the scheduler full.
LEMMA ScheduleEffect ==
  ASSUME IInv, NEW l \in Levels, tasks[l] = << >>
  PROVE  /\ S!CanEnqueue(ReadyEntry(l), l)
         /\ S!Enqueue(ReadyEntry(l), l) =
              [entry |-> [sched.entry EXCEPT ![l] = FreshEntry(l)],
               queue |-> sched.queue \cup {[id |-> l, key |-> S!Key(FreshEntry(l))]},
               lastVirtualFinish |-> sched.lastVirtualFinish]
<1> DEFINE clock == sched.lastVirtualFinish
           At(e) == [entry |-> [sched.entry EXCEPT ![l] = e],
                     queue |-> sched.queue,
                     lastVirtualFinish |-> clock]
           ready == At(IdleEntry(Weight(l), clock))
<1>1. sched.entry[l] = Nil
  BY DEF IInv, EntryMatchesGroup
<1>2. S!CreateEntry(sched, l) = At(IdleEntry(0, clock))
  <2>1. S!CreateEntry(sched, l) =
          [sched EXCEPT !.entry = [sched.entry EXCEPT ![l] = IdleEntry(0, clock)]]
    BY DEF S!CreateEntry, IdleEntry
  <2>2. QED
    BY <2>1, SchedType DEF IInv
<1>3. ReadyEntry(l) = ready
  <2> DEFINE created == At(IdleEntry(0, clock))
  <2>1. ReadyEntry(l) = S!SetPriority(created, l, GetPriority(l))
    BY <1>1, <1>2 DEF ReadyEntry
  <2>2. S!SetPriority(created, l, GetPriority(l)) =
          [created EXCEPT !.entry = [created.entry EXCEPT ![l] =
             [created.entry[l] EXCEPT !.weight = Weight(l)]]]
    BY DEF S!SetPriority, Weight, WeightedFairQueue, S!WeightedFairQueue
  <2>3. created.entry[l] = IdleEntry(0, clock)
    BY SchedType DEF IInv
  <2>4. [created.entry[l] EXCEPT !.weight = Weight(l)] = IdleEntry(Weight(l), clock)
    BY <2>3, SetWeight
  <2>5. QED
    BY <2>1, <2>2, <2>4, SchedType DEF IInv
<1>4. ready.entry[l] = IdleEntry(Weight(l), clock)
  BY SchedType DEF IInv
<1>5. Cardinality(sched.queue) < PRIORITY_LEVEL_COUNT
  <2> DEFINE f == [m \in Levels |-> ItemOf(m)]
  <2>1. \A item \in sched.queue : \E m \in Levels \ {l} : item = f[m]
    BY DEF IInv, EntryMatchesGroup
  <2> HIDE DEF f
  <2>2. QED
    BY <2>1, RoomForLevel
<1>6. S!CanEnqueue(ready, l)
  BY <1>4, <1>5, EntryFields, SameCardinality DEF S!CanEnqueue
<1>7. S!Key(ready.entry[l]) = S!Key(FreshEntry(l))
  BY <1>4, EntryKey, WeightType, SchedType DEF FreshEntry, IInv
<1>8. [ready.entry[l] EXCEPT !.enqueued = TRUE] = FreshEntry(l)
  BY <1>4, MarkEnqueued DEF FreshEntry
<1>9. S!Enqueue(ready, l) =
        [ready EXCEPT !.queue = ready.queue \cup {[id |-> l, key |-> S!Key(ready.entry[l])]},
                      !.entry = [ready.entry EXCEPT ![l] =
                                   [ready.entry[l] EXCEPT !.enqueued = TRUE]]]
  BY <1>6 DEF S!Enqueue
<1>10. [ready.entry EXCEPT ![l] = FreshEntry(l)] = [sched.entry EXCEPT ![l] = FreshEntry(l)]
  BY SchedType DEF IInv
<1>11. S!Enqueue(ready, l) =
         [ready EXCEPT !.queue = ready.queue \cup {[id |-> l, key |-> S!Key(FreshEntry(l))]},
                       !.entry = [sched.entry EXCEPT ![l] = FreshEntry(l)]]
  BY <1>7, <1>8, <1>9, <1>10, Zenon
<1>12. QED
  BY <1>3, <1>6, <1>11

\* What EntryMatchesGroup says of one level.
LEMMA QueuedLevel ==
  ASSUME IInv, NEW l \in Levels, tasks[l] # << >>
  PROVE  /\ sched.entry[l] \in S!Entry
         /\ sched.entry[l].lastVirtualFinish \in Nat
         /\ sched.entry[l] = QueuedEntry(Weight(l), sched.entry[l].lastVirtualFinish)
         /\ ItemOf(l) \in sched.queue
         /\ sched.queue \ {ItemOf(l)} = {item \in sched.queue : item.id # l}
<1>1. sched.entry[l] \in S!Entry
  BY SchedType DEF IInv, EntryMatchesGroup
<1>2. sched.entry[l].enqueued /\ sched.entry[l].weight = Weight(l)
  BY DEF IInv, EntryMatchesGroup
<1>3. ItemOf(l) \in sched.queue
  BY DEF IInv, EntryMatchesGroup
<1>4. sched.queue \ {ItemOf(l)} = {item \in sched.queue : item.id # l}
  BY DEF IInv, EntryMatchesGroup, ItemOf
<1>5. QED
  BY <1>1, <1>2, <1>3, <1>4, Marked

\* An item in the scheduler is the one of a level that has tasks.
LEMMA QueuedItem ==
  ASSUME IInv, NEW item \in sched.queue
  PROVE  item.id \in Levels /\ tasks[item.id] # << >> /\ item = ItemOf(item.id)
BY DEF IInv, EntryMatchesGroup, ItemOf

\* The virtual finish time of a level once it is served, and the clock then.
Finish(l) == IF Policy = "wfq"
             THEN sched.entry[l].lastVirtualFinish + Weight(l)
             ELSE sched.entry[l].lastVirtualFinish
ClockAfter(l) == IF Policy = "wfq" THEN Finish(l) ELSE sched.lastVirtualFinish

OthersItems(l) == {item \in sched.queue : item.id # l}
KeyedItem(l, e) == [id |-> l, key |-> S!Key(e)]

\* Serving a level takes its item out of the scheduler, and puts it back under
\* its new key if the group has more tasks.
LEMMA ServeEffect ==
  ASSUME IInv, NEW l \in Levels, tasks[l] # << >>
  PROVE  AfterService(S!Dequeue(sched, ItemOf(l)), l) =
           IF Len(tasks[l]) > 1
           THEN [entry |-> [sched.entry EXCEPT ![l] = QueuedEntry(Weight(l), Finish(l))],
                 queue |-> OthersItems(l)
                             \cup {KeyedItem(l, QueuedEntry(Weight(l), Finish(l)))},
                 lastVirtualFinish |-> ClockAfter(l)]
           ELSE [entry |-> [sched.entry EXCEPT ![l] = Nil],
                 queue |-> OthersItems(l),
                 lastVirtualFinish |-> ClockAfter(l)]
<1> DEFINE w == Weight(l)
           f == sched.entry[l].lastVirtualFinish
           At(e) == [entry |-> [sched.entry EXCEPT ![l] = e],
                     queue |-> OthersItems(l),
                     lastVirtualFinish |-> ClockAfter(l)]
           served == At(IdleEntry(w, Finish(l)))
<1>1. /\ sched.entry[l] = QueuedEntry(w, f)
      /\ w \in Nat /\ f \in Nat /\ Finish(l) \in Nat
  BY QueuedLevel, WeightType DEF Finish
<1>2. ItemOf(l).id = l
  BY DEF ItemOf
<1>3. S!Dequeue(sched, ItemOf(l)) = served
  <2>1. (IF Policy = S!WeightedFairQueue THEN sched.entry[l].lastVirtualFinish + sched.entry[l].weight
         ELSE sched.entry[l].lastVirtualFinish) = Finish(l)
    BY <1>1, EntryFields DEF Finish, S!WeightedFairQueue
  <2>2. [sched.entry[l] EXCEPT !.lastVirtualFinish = Finish(l), !.enqueued = FALSE]
          = IdleEntry(w, Finish(l))
    <3>1. [QueuedEntry(w, f) EXCEPT !.lastVirtualFinish = Finish(l), !.enqueued = FALSE]
            = IdleEntry(w, Finish(l))
      BY Charge
    <3>2. QED
      BY <1>1, <3>1, Zenon
  <2>3. S!Dequeue(sched, ItemOf(l)) =
          [entry |-> [sched.entry EXCEPT ![l] =
             [sched.entry[l] EXCEPT !.lastVirtualFinish = Finish(l), !.enqueued = FALSE]],
           queue |-> sched.queue \ {ItemOf(l)},
           lastVirtualFinish |-> IF Policy = S!WeightedFairQueue THEN Finish(l)
                                 ELSE sched.lastVirtualFinish]
    BY <1>2, <2>1, Zenon DEF S!Dequeue
  <2>4. QED
    BY <2>2, <2>3, QueuedLevel DEF OthersItems, ClockAfter, S!WeightedFairQueue
<1>4. served.entry[l] = IdleEntry(w, Finish(l))
  BY SchedType DEF IInv
<1>5. CASE Len(tasks[l]) > 1
  <2>1. Cardinality(served.queue) < PRIORITY_LEVEL_COUNT
    <3> DEFINE g == [m \in Levels |-> ItemOf(m)]
    <3>1. \A item \in served.queue : \E m \in Levels \ {l} : item = g[m]
      BY QueuedItem DEF OthersItems
    <3> HIDE DEF g
    <3>2. QED
      BY <3>1, RoomForLevel
  <2>2. S!CanEnqueue(served, l)
    BY <1>4, <2>1, EntryFields, SameCardinality DEF S!CanEnqueue
  <2>3. S!Key(served.entry[l]) = S!Key(QueuedEntry(w, Finish(l)))
    BY <1>1, <1>4, EntryKey
  <2>4. [served.entry[l] EXCEPT !.enqueued = TRUE] = QueuedEntry(w, Finish(l))
    BY <1>4, MarkEnqueued
  <2>5. S!Enqueue(served, l) =
          [served EXCEPT !.queue = served.queue \cup {[id |-> l, key |-> S!Key(served.entry[l])]},
                         !.entry = [served.entry EXCEPT ![l] =
                                      [served.entry[l] EXCEPT !.enqueued = TRUE]]]
    BY <2>2 DEF S!Enqueue
  <2>6. [served.entry EXCEPT ![l] = QueuedEntry(w, Finish(l))]
          = [sched.entry EXCEPT ![l] = QueuedEntry(w, Finish(l))]
    BY SchedType DEF IInv
  <2>7. S!Enqueue(served, l) =
          [served EXCEPT !.queue = served.queue \cup {KeyedItem(l, QueuedEntry(w, Finish(l)))},
                         !.entry = [sched.entry EXCEPT ![l] = QueuedEntry(w, Finish(l))]]
    BY <2>3, <2>4, <2>5, <2>6, Zenon DEF KeyedItem
  <2>8. QED
    BY <1>3, <1>5, <2>7 DEF AfterService
<1>6. CASE ~(Len(tasks[l]) > 1)
  <2>1. S!Forget(served, l) = [served EXCEPT !.entry = [served.entry EXCEPT ![l] = Nil]]
    BY DEF S!Forget
  <2>2. [served.entry EXCEPT ![l] = Nil] = [sched.entry EXCEPT ![l] = Nil]
    BY SchedType DEF IInv
  <2>3. QED
    BY <1>3, <1>6, <2>1, <2>2 DEF AfterService
<1>7. QED
  BY <1>5, <1>6
-----------------------------------------------------------------------------
(* The scheduler and the groups agree again after a step                   *)

\* Level l has an entry and an item after the step, made for each other.
LEMMA PutMatches ==
  ASSUME IInv, NEW l \in Levels, NEW ts, ts # << >>, NEW f \in Nat,
         tasks' = [tasks EXCEPT ![l] = ts],
         sched'.entry = [sched.entry EXCEPT ![l] = QueuedEntry(Weight(l), f)],
         sched'.queue = OthersItems(l) \cup {KeyedItem(l, QueuedEntry(Weight(l), f))}
  PROVE  EntryMatchesGroup'
<1> DEFINE e == QueuedEntry(Weight(l), f)
<1>1. /\ tasks'[l] = ts
      /\ \A m \in Levels \ {l} : tasks'[m] = tasks[m]
  BY DEF IInv, TypeOK
<1>2. /\ sched'.entry[l] = e
      /\ \A m \in Levels \ {l} : sched'.entry[m] = sched.entry[m]
  BY SchedType DEF IInv
<1>3. e # Nil /\ e.enqueued /\ e.weight = Weight(l)
  BY WeightType, EntryKey, EntryFields
<1> HIDE DEF e
<1>4. \A m \in Levels :
         IF tasks'[m] = << >>
         THEN sched'.entry[m] = Nil
         ELSE /\ sched'.entry[m] # Nil
              /\ sched'.entry[m].enqueued
              /\ sched'.entry[m].weight = Weight(m)
  BY <1>1, <1>2, <1>3 DEF IInv, EntryMatchesGroup
<1>5. ItemOf(l)' = KeyedItem(l, e)
  BY <1>2 DEF ItemOf, KeyedItem
<1>6. \A m \in Levels \ {l} : ItemOf(m)' = ItemOf(m)
  BY <1>2 DEF ItemOf
<1>7. OthersItems(l) = {ItemOf(m) : m \in {k \in Levels \ {l} : tasks[k] # << >>}}
  BY DEF OthersItems, IInv, EntryMatchesGroup, ItemOf
<1>8. sched'.queue = {ItemOf(m)' : m \in {k \in Levels : tasks'[k] # << >>}}
  BY <1>1, <1>5, <1>6, <1>7 DEF e
<1>9. QED
  BY <1>4, <1>8 DEF EntryMatchesGroup

\* Level l has no tasks, no entry and no item after the step.
LEMMA RemoveMatches ==
  ASSUME IInv, NEW l \in Levels,
         tasks' = [tasks EXCEPT ![l] = << >>],
         sched'.entry = [sched.entry EXCEPT ![l] = Nil],
         sched'.queue = OthersItems(l)
  PROVE  EntryMatchesGroup'
<1>1. /\ tasks'[l] = << >>
      /\ \A m \in Levels \ {l} : tasks'[m] = tasks[m]
  BY DEF IInv, TypeOK
<1>2. /\ sched'.entry[l] = Nil
      /\ \A m \in Levels \ {l} : sched'.entry[m] = sched.entry[m]
  BY SchedType DEF IInv
<1>3. \A m \in Levels :
         IF tasks'[m] = << >>
         THEN sched'.entry[m] = Nil
         ELSE /\ sched'.entry[m] # Nil
              /\ sched'.entry[m].enqueued
              /\ sched'.entry[m].weight = Weight(m)
  BY <1>1, <1>2 DEF IInv, EntryMatchesGroup
<1>4. \A m \in Levels \ {l} : ItemOf(m)' = ItemOf(m)
  BY <1>2 DEF ItemOf
<1>5. OthersItems(l) = {ItemOf(m) : m \in {k \in Levels \ {l} : tasks[k] # << >>}}
  BY DEF OthersItems, IInv, EntryMatchesGroup, ItemOf
<1>6. sched'.queue = {ItemOf(m)' : m \in {k \in Levels : tasks'[k] # << >>}}
  BY <1>1, <1>4, <1>5
<1>7. QED
  BY <1>3, <1>6 DEF EntryMatchesGroup

\* A group that gets its task after others keeps its entry and its item.
LEMMA KeepMatches ==
  ASSUME IInv, NEW l \in Levels, NEW ts, ts # << >>, tasks[l] # << >>,
         tasks' = [tasks EXCEPT ![l] = ts],
         UNCHANGED sched
  PROVE  EntryMatchesGroup'
<1>1. /\ tasks'[l] = ts
      /\ \A m \in Levels \ {l} : tasks'[m] = tasks[m]
  BY DEF IInv, TypeOK
<1>2. \A m \in Levels : tasks'[m] = << >> <=> tasks[m] = << >>
  BY <1>1
<1>3. {k \in Levels : tasks'[k] # << >>} = {k \in Levels : tasks[k] # << >>}
  BY <1>2
<1>4. \A m : ItemOf(m)' = ItemOf(m)
  BY DEF ItemOf
<1>5. QED
  BY <1>2, <1>3, <1>4 DEF IInv, EntryMatchesGroup
-----------------------------------------------------------------------------
(* Types                                                                   *)

\* The type of the scheduler after a step that changes the entry of level l.
LEMMA PutType ==
  ASSUME IInv, NEW l \in Levels, NEW f \in Nat, NEW c \in Nat
  PROVE  /\ [entry |-> [sched.entry EXCEPT ![l] = QueuedEntry(Weight(l), f)],
             queue |-> OthersItems(l) \cup {KeyedItem(l, QueuedEntry(Weight(l), f))},
             lastVirtualFinish |-> c] \in S!State
         /\ [entry |-> [sched.entry EXCEPT ![l] = Nil],
             queue |-> OthersItems(l),
             lastVirtualFinish |-> c] \in S!State
<1>1. sched.entry \in [Levels -> S!Entry \cup {Nil}] /\ sched.queue \subseteq S!Item
  BY SchedType DEF IInv
<1>2. QueuedEntry(Weight(l), f) \in S!Entry
  BY WeightType, EntryKey
<1>3. KeyedItem(l, QueuedEntry(Weight(l), f)) \in S!Item
  BY WeightType, EntryKey DEF KeyedItem, S!Item
<1>4. OthersItems(l) \subseteq S!Item
  BY <1>1 DEF OthersItems
<1>5. QED
  BY <1>1, <1>2, <1>3, <1>4 DEF S!State

\* What a submitter's critical section does.
LEMMA EnqueueEffect ==
  ASSUME IInv, NEW p \in Submitters, EnqueueLocked(p)
  PROVE  /\ level[p] \in Levels
         /\ Task(p) \in Tasks
         /\ HasRoom(level[p]) \in BOOLEAN
         /\ ok' = [ok EXCEPT ![p] = HasRoom(level[p])]
         /\ ~HasRoom(level[p]) => tasks' = tasks /\ sched' = sched
         /\ HasRoom(level[p]) =>
              /\ tasks' = [tasks EXCEPT ![level[p]] = Append(tasks[level[p]], Task(p))]
              /\ tasks[level[p]] # << >> => sched' = sched
              /\ tasks[level[p]] = << >> =>
                   sched' = [entry |-> [sched.entry EXCEPT ![level[p]] = FreshEntry(level[p])],
                             queue |-> OthersItems(level[p])
                                         \cup {KeyedItem(level[p], FreshEntry(level[p]))},
                             lastVirtualFinish |-> sched.lastVirtualFinish]
<1> DEFINE l == level[p]
<1>1. l \in Levels
  BY DEF EnqueueLocked
<1>2. Task(p) \in Tasks
  BY ConstantsAssumption DEF EnqueueLocked, IInv, TypeOK, Task, Tasks
<1>3. tasks[l] = << >> => S!CanEnqueue(ReadyEntry(l), l)
  BY <1>1, ScheduleEffect
<1>4. ok' = [ok EXCEPT ![p] = HasRoom(l)]
  <2>1. ok' = [ok EXCEPT ![p] = HasRoom(l) /\ ((HasRoom(l) /\ tasks[l] = << >>)
                                  => S!CanEnqueue(ReadyEntry(l), l))]
    BY DEF EnqueueLocked, Decide
  <2> DEFINE b == HasRoom(l) /\ ((HasRoom(l) /\ tasks[l] = << >>)
                                  => S!CanEnqueue(ReadyEntry(l), l))
  <2>2. HasRoom(l) \in BOOLEAN /\ b \in BOOLEAN
    BY DEF HasRoom
  <2>3. b <=> HasRoom(l)
    BY <1>3
  <2> HIDE DEF b
  <2>4. b = HasRoom(l)
    BY <2>2, <2>3
  <2>5. QED
    BY <2>1, <2>4, Zenon DEF b
<1>5. HasRoom(l) \in BOOLEAN
  BY DEF HasRoom
<1>6. ~HasRoom(l) => tasks' = tasks /\ sched' = sched
  BY DEF EnqueueLocked
<1>7. HasRoom(l) => tasks' = [tasks EXCEPT ![l] = Append(tasks[l], Task(p))]
  BY <1>1 DEF EnqueueLocked, IInv, TypeOK
<1>8. tasks[l] # << >> => sched' = sched
  BY DEF EnqueueLocked
<1>9. ASSUME HasRoom(l), tasks[l] = << >>
      PROVE  sched' = [entry |-> [sched.entry EXCEPT ![l] = FreshEntry(l)],
                       queue |-> OthersItems(l) \cup {KeyedItem(l, FreshEntry(l))},
                       lastVirtualFinish |-> sched.lastVirtualFinish]
  <2>1. sched' = S!Enqueue(ReadyEntry(l), l)
    BY <1>9 DEF EnqueueLocked
  <2>2. sched.queue = OthersItems(l)
    BY <1>9, QueuedItem DEF OthersItems
  <2>3. QED
    BY <1>1, <1>9, <2>1, <2>2, ScheduleEffect DEF KeyedItem
<1>10. QED
  BY <1>1, <1>2, <1>4, <1>5, <1>6, <1>7, <1>8, <1>9

\* What the worker's critical section does: the group has a task.
LEMMA RunTaskEffect ==
  ASSUME IInv, NEW item \in sched.queue, RunTask(item)
  PROVE  /\ item.id \in Levels
         /\ item = ItemOf(item.id)
         /\ item \in S!First(sched)
         /\ tasks[item.id] # << >>
         /\ tasks' = [tasks EXCEPT ![item.id] = Tail(tasks[item.id])]
         /\ current' = Head(tasks[item.id])
         /\ runPc' = "exec"
         /\ Len(tasks[item.id]) > 1 =>
              sched' = [entry |-> [sched.entry EXCEPT ![item.id] =
                                     QueuedEntry(Weight(item.id), Finish(item.id))],
                        queue |-> OthersItems(item.id)
                          \cup {KeyedItem(item.id, QueuedEntry(Weight(item.id), Finish(item.id)))},
                        lastVirtualFinish |-> ClockAfter(item.id)]
         /\ ~(Len(tasks[item.id]) > 1) =>
              sched' = [entry |-> [sched.entry EXCEPT ![item.id] = Nil],
                        queue |-> OthersItems(item.id),
                        lastVirtualFinish |-> ClockAfter(item.id)]
<1> DEFINE l == item.id
<1>1. l \in Levels /\ tasks[l] # << >> /\ item = ItemOf(l)
  BY QueuedItem
<1>2. /\ sched' = AfterService(S!Dequeue(sched, item), l)
      /\ tasks' = [tasks EXCEPT ![l] = Tail(tasks[l])]
      /\ current' = Head(tasks[l])
      /\ runPc' = "exec"
      /\ item \in S!First(sched)
  BY <1>1 DEF RunTask, IInv, TypeOK
<1>3. sched' = AfterService(S!Dequeue(sched, ItemOf(l)), l)
  BY <1>1, <1>2
<1>4. QED
  BY <1>1, <1>2, <1>3, ServeEffect
-----------------------------------------------------------------------------
(* The inductive invariant                                                 *)

LEMMA Shortened ==
  ASSUME NEW T, NEW s \in Seq(T), s # << >>
  PROVE  /\ Head(s) \in T
         /\ Tail(s) \in Seq(T)
         /\ Len(s) \in Nat
         /\ Len(Tail(s)) = Len(s) - 1
         /\ Len(s) > 1 <=> Tail(s) # << >>
<1>1. Head(s) \in T /\ Tail(s) \in Seq(T) /\ Len(Tail(s)) = Len(s) - 1
  BY HeadTailProperties
<1>2. Len(s) \in Nat
  BY EmptySeq
<1>3. Tail(s) # << >> => Len(Tail(s)) \in Nat \ {0}
  BY <1>1, EmptySeq
<1>4. Tail(s) = << >> => Len(Tail(s)) = 0
  BY EmptySeq
<1>5. QED
  BY <1>1, <1>2, <1>3, <1>4

LEMMA InitIInv ==
  Init => IInv
<1> SUFFICES ASSUME Init PROVE IInv
  OBVIOUS
<1>1. sched \in S!State
  BY DEF Init, S!Empty, S!State
<1>2. TypeOK
  <2>1. /\ tasks \in [Levels -> Seq(Tasks)]
        /\ \A l \in Levels : Len(tasks[l]) <= MaxTasksPerLevel
    BY ConstantsAssumption DEF Init
  <2>2. /\ callPc \in [Submitters -> {"idle", "lock", "broadcast"}]
        /\ level \in [Submitters -> RequestLevels \cup {LOW_PRIORITY}]
        /\ calls \in [Submitters -> 0 .. MaxCalls]
        /\ \A p \in Submitters : callPc[p] # "lock"
    BY ConstantsAssumption DEF Init
  <2>3. ok \in [Submitters -> BOOLEAN] /\ isStopped \in BOOLEAN
    BY DEF Init
  <2>4. QED
    BY <1>1, <2>1, <2>2, <2>3 DEF Init, TypeOK
<1>3. /\ \A l \in Levels : tasks[l] = << >> /\ sched.entry[l] = Nil
      /\ sched.queue = {}
  BY DEF Init, S!Empty
<1>4. EntryMatchesGroup
  BY <1>3 DEF EntryMatchesGroup
<1>5. QED
  BY <1>2, <1>4 DEF IInv

\* The steps that leave the groups and the scheduler alone.
LEMMA FrameIInv ==
  ASSUME IInv, UNCHANGED <<tasks, sched>>
  PROVE  EntryMatchesGroup'
<1>1. \A m : ItemOf(m)' = ItemOf(m)
  BY DEF ItemOf
<1>2. QED
  BY <1>1 DEF IInv, EntryMatchesGroup

LEMMA EnqueueIInv ==
  ASSUME IInv, NEW p \in Submitters, EnqueueLocked(p)
  PROVE  IInv'
<1> DEFINE l == level[p]
           clock == sched.lastVirtualFinish
<1>1. l \in Levels /\ Task(p) \in Tasks /\ clock \in Nat
  BY EnqueueEffect, SchedType DEF IInv
<1>2. /\ callPc' = [callPc EXCEPT ![p] = "broadcast"]
      /\ calls' = [calls EXCEPT ![p] = @ + 1]
      /\ callPc[p] = "lock"
      /\ UNCHANGED <<isStopped, mutex, worker, level, stopPc>>
  BY DEF EnqueueLocked, Decide
<1>3. ok' \in [Submitters -> BOOLEAN]
  BY EnqueueEffect DEF IInv, TypeOK
<1>4. ASSUME tasks' \in [Levels -> Seq(Tasks)],
             \A k \in Levels : Len(tasks'[k]) <= MaxTasksPerLevel,
             sched' \in S!State
      PROVE  TypeOK'
  <2>1. callPc' \in [Submitters -> {"idle", "lock", "broadcast"}]
    BY <1>2 DEF IInv, TypeOK
  <2>2. /\ calls' \in [Submitters -> 0 .. MaxCalls]
        /\ \A q \in Submitters : callPc'[q] = "lock" => calls'[q] < MaxCalls
    BY <1>2, ConstantsAssumption DEF IInv, TypeOK
  <2>3. UNCHANGED <<isStopped, mutex, runPc, current, level, stopPc>>
    BY <1>2 DEF worker
  <2>4. /\ isStopped' \in BOOLEAN
        /\ mutex' \in Submitters \cup {Free}
        /\ level' \in [Submitters -> RequestLevels \cup {LOW_PRIORITY}]
        /\ stopPc' \in {"idle", "lock", "broadcast", "returned"}
    BY <2>3 DEF IInv, TypeOK
  <2>5. /\ runPc' \in {"lock", "wait", "exec", "done"}
        /\ current' \in Tasks \cup {NoTask}
        /\ (current' # NoTask) <=> (runPc' = "exec")
    BY <2>3 DEF IInv, TypeOK
  <2>6. QED
    BY <1>3, <1>4, <2>1, <2>2, <2>4, <2>5 DEF TypeOK
<1>5. CASE ~HasRoom(l)
  <2>1. UNCHANGED <<tasks, sched>>
    BY <1>5, EnqueueEffect
  <2>2. TypeOK'
    BY <1>4, <2>1 DEF IInv, TypeOK
  <2>3. QED
    BY <2>1, <2>2, FrameIInv DEF IInv
<1>6. CASE HasRoom(l)
  <2> DEFINE ts == Append(tasks[l], Task(p))
  <2>1. tasks' = [tasks EXCEPT ![l] = ts]
    BY <1>6, EnqueueEffect
  <2>2. ts \in Seq(Tasks) /\ ts # << >> /\ Len(ts) <= MaxTasksPerLevel
    <3>1. tasks[l] \in Seq(Tasks) /\ Len(tasks[l]) < MaxTasksPerLevel
      BY <1>1, <1>6 DEF IInv, TypeOK, HasRoom
    <3>2. ts \in Seq(Tasks) /\ ts # << >> /\ Len(ts) = Len(tasks[l]) + 1
      BY <1>1, <3>1, AppendProperties
    <3>3. QED
      BY <3>1, <3>2, ConstantsAssumption
  <2> HIDE DEF ts
  <2>3. /\ tasks' \in [Levels -> Seq(Tasks)]
        /\ \A k \in Levels : Len(tasks'[k]) <= MaxTasksPerLevel
    BY <1>1, <2>1, <2>2 DEF IInv, TypeOK
  <2>4. CASE tasks[l] # << >>
    <3>1. sched' = sched
      BY <1>6, <2>4, EnqueueEffect
    <3>2. TypeOK'
      BY <1>4, <2>3, <3>1 DEF IInv, TypeOK
    <3>3. EntryMatchesGroup'
      BY <1>1, <2>1, <2>2, <2>4, <3>1, KeepMatches
    <3>4. QED
      BY <3>2, <3>3 DEF IInv
  <2>5. CASE tasks[l] = << >>
    <3>1. sched' = [entry |-> [sched.entry EXCEPT ![l] = QueuedEntry(Weight(l), clock)],
                    queue |-> OthersItems(l)
                                \cup {KeyedItem(l, QueuedEntry(Weight(l), clock))},
                    lastVirtualFinish |-> clock]
      BY <1>6, <2>5, EnqueueEffect DEF FreshEntry
    <3>2. sched' \in S!State
      BY <1>1, <3>1, PutType
    <3>3. TypeOK'
      BY <1>4, <2>3, <3>2
    <3>4. EntryMatchesGroup'
      BY <1>1, <2>1, <2>2, <3>1, PutMatches
    <3>5. QED
      BY <3>3, <3>4 DEF IInv
  <2>6. QED
    BY <2>4, <2>5
<1>7. QED
  BY <1>5, <1>6

LEMMA RunTaskIInv ==
  ASSUME IInv, NEW item \in sched.queue, RunTask(item)
  PROVE  IInv'
<1> DEFINE l == item.id
           ts == Tail(tasks[l])
<1>1. /\ l \in Levels
      /\ tasks[l] # << >>
      /\ tasks' = [tasks EXCEPT ![l] = ts]
      /\ current' = Head(tasks[l])
      /\ runPc' = "exec"
  BY RunTaskEffect
<1>2. Finish(l) \in Nat /\ ClockAfter(l) \in Nat
  BY <1>1, QueuedLevel, WeightType, SchedType DEF Finish, ClockAfter, IInv
<1>3. /\ ts \in Seq(Tasks)
      /\ Len(ts) <= MaxTasksPerLevel
      /\ Head(tasks[l]) \in Tasks
      /\ Len(tasks[l]) > 1 => ts # << >>
      /\ ~(Len(tasks[l]) > 1) => ts = << >>
  <2>1. tasks[l] \in Seq(Tasks) /\ Len(tasks[l]) <= MaxTasksPerLevel
    BY <1>1 DEF IInv, TypeOK
  <2>2. /\ Head(tasks[l]) \in Tasks
        /\ ts \in Seq(Tasks)
        /\ Len(tasks[l]) \in Nat
        /\ Len(ts) = Len(tasks[l]) - 1
        /\ Len(tasks[l]) > 1 <=> ts # << >>
    BY <1>1, <2>1, Shortened
  <2>3. QED
    BY <2>1, <2>2, ConstantsAssumption
<1> HIDE DEF ts
<1>4. /\ tasks' \in [Levels -> Seq(Tasks)]
      /\ \A k \in Levels : Len(tasks'[k]) <= MaxTasksPerLevel
  BY <1>1, <1>3 DEF IInv, TypeOK
<1>5. UNCHANGED <<isStopped, mutex, callers, stopPc>>
  BY DEF RunTask
<1>6. NoTask \notin Tasks
  BY ConstantsAssumption DEF Tasks
<1>7. ASSUME sched' \in S!State
      PROVE  TypeOK'
  BY <1>1, <1>3, <1>4, <1>5, <1>6, <1>7 DEF IInv, TypeOK, callers
<1>8. CASE Len(tasks[l]) > 1
  <2> DEFINE e == QueuedEntry(Weight(l), Finish(l))
  <2>1. sched' = [entry |-> [sched.entry EXCEPT ![l] = e],
                  queue |-> OthersItems(l) \cup {KeyedItem(l, e)},
                  lastVirtualFinish |-> ClockAfter(l)]
    BY <1>8, RunTaskEffect
  <2>2. sched' \in S!State
    BY <1>1, <1>2, <2>1, PutType
  <2>3. EntryMatchesGroup'
    BY <1>1, <1>2, <1>3, <1>8, <2>1, PutMatches
  <2>4. QED
    BY <1>7, <2>2, <2>3 DEF IInv
<1>9. CASE ~(Len(tasks[l]) > 1)
  <2>1. sched' = [entry |-> [sched.entry EXCEPT ![l] = Nil],
                  queue |-> OthersItems(l),
                  lastVirtualFinish |-> ClockAfter(l)]
    BY <1>9, RunTaskEffect
  <2>2. sched' \in S!State
    BY <1>1, <1>2, <2>1, PutType
  <2>3. EntryMatchesGroup'
    BY <1>1, <1>3, <1>9, <2>1, RemoveMatches
  <2>4. QED
    BY <1>7, <2>2, <2>3 DEF IInv
<1>10. QED
  BY <1>8, <1>9

LEMMA NextIInv ==
  ASSUME IInv, [Next]_vars
  PROVE  IInv'
<1> USE DEF IInv
<1>1. ASSUME NEW p \in Submitters, NEW l \in RequestLevels, EnqueueCall(p, l)
      PROVE  IInv'
  BY <1>1, FrameIInv DEF EnqueueCall, TypeOK, shared, worker
<1>2. ASSUME NEW p \in Submitters, EnqueueInvalid(p)
      PROVE  IInv'
  <2>1. /\ callPc' = [callPc EXCEPT ![p] = "idle"]
        /\ calls' = [calls EXCEPT ![p] = @ + 1]
        /\ ok' = [ok EXCEPT ![p] = FALSE]
        /\ mutex' = p
        /\ callPc[p] = "lock"
        /\ UNCHANGED <<tasks, sched, isStopped, worker, level, stopPc>>
    BY <1>2 DEF EnqueueInvalid, Decide
  <2>2. TypeOK'
    BY <2>1, ConstantsAssumption DEF TypeOK, worker
  <2>3. QED
    BY <2>1, <2>2, FrameIInv
<1>3. ASSUME NEW p \in Submitters, EnqueueLocked(p)
      PROVE  IInv'
  BY <1>3, EnqueueIInv
<1>4. ASSUME NEW p \in Submitters, EnqueueBroadcast(p)
      PROVE  IInv'
  BY <1>4, FrameIInv DEF EnqueueBroadcast, Broadcast, TypeOK, shared
<1>5. CASE StopCall
  BY <1>5, FrameIInv DEF StopCall, TypeOK, shared, worker, callers
<1>6. CASE StopLocked
  BY <1>6, FrameIInv DEF StopLocked, TypeOK, worker, callers
<1>7. CASE StopBroadcast
  BY <1>7, FrameIInv DEF StopBroadcast, Broadcast, TypeOK, shared, callers
<1>8. CASE RunExit
  BY <1>8, FrameIInv DEF RunExit, AtLoopHead, TypeOK, shared, callers
<1>9. CASE RunWait
  BY <1>9, FrameIInv DEF RunWait, MayServe, AtLoopHead, TypeOK, shared, callers
<1>10. ASSUME NEW item \in sched.queue, RunTask(item)
       PROVE  IInv'
  BY <1>10, RunTaskIInv
<1>11. CASE RunTaskDone
  BY <1>11, FrameIInv DEF RunTaskDone, TypeOK, shared, callers
<1>12. CASE UNCHANGED vars
  BY <1>12, FrameIInv DEF vars, shared, worker, callers, TypeOK
<1>13. QED
  BY <1>1, <1>2, <1>3, <1>4, <1>5, <1>6, <1>7, <1>8, <1>9, <1>10, <1>11, <1>12
  DEF Next, Submit, StopNext, Run, Finished

THEOREM Invariance ==
  Spec => []IInv
<1>1. QED
  BY InitIInv, NextIInv, PTL DEF Spec

\* The types of the variables and the bound on a group's tasks
\* (newCircularQueue(maxTasksPerPriorityLevel)) hold always.
THEOREM TypeCorrect ==
  Spec => []TypeOK
<1>1. IInv => TypeOK
  BY DEF IInv
<1>2. QED
  BY <1>1, Invariance, PTL

\* Groups, entries and scheduler items agree whenever the mutex is free: a
\* group with tasks is in the scheduler once, an empty one is not.
THEOREM EntriesCorrect ==
  Spec => []EntryMatchesGroup
<1>1. IInv => EntryMatchesGroup
  BY DEF IInv
<1>2. QED
  BY <1>1, Invariance, PTL
=============================================================================
