----------------------- MODULE ConnectionManagerProofs -----------------------
(* Proofs about ConnectionManager for any set of tasks.                       *)
EXTENDS ConnectionManager, FiniteSetTheorems, TLAPS

(* What add(t) leaves in every position of the list. *)
LEMMA StoredElems ==
    ASSUME NEW l \in List, NEW s \in Nat, NEW t \in Tasks \cup {NoTask}
    PROVE  /\ Stored(l, s, t) \in List
           /\ Stored(l, s, t).size = s + 1
           /\ \A i \in Nat : Elem(Stored(l, s, t), i) = IF i = s THEN t ELSE Elem(l, i)
<1> DEFINE n == IF s < Len(l.slot) THEN Len(l.slot) ELSE s + 1
           slots == [k \in 1 .. n |-> IF k = s + 1 THEN t ELSE Elem(l, k - 1)]
<1>1. l.slot \in Seq(Tasks \cup {NoTask}) /\ Len(l.slot) \in Nat
  BY DEF List
<1>2. n \in Nat /\ s + 1 <= n /\ Len(l.slot) <= n
  BY <1>1
<1>3. \A i \in Nat : Elem(l, i) \in Tasks \cup {NoTask}
  BY <1>1 DEF Elem
<1>4. \A k \in 1 .. n : (IF k = s + 1 THEN t ELSE Elem(l, k - 1)) \in Tasks \cup {NoTask}
  BY <1>2, <1>3
<1>5. slots \in Seq(Tasks \cup {NoTask}) /\ Len(slots) = n
  BY <1>2, <1>4
<1>6. Stored(l, s, t) = [size |-> s + 1, slot |-> slots]
  BY DEF Stored
<1>7. ASSUME NEW i \in Nat
      PROVE  Elem(Stored(l, s, t), i) = IF i = s THEN t ELSE Elem(l, i)
  <2> HIDE DEF n, slots
  <2>1. Elem(Stored(l, s, t), i) = IF i < n THEN slots[i + 1] ELSE NoTask
    BY <1>5, <1>6 DEF Elem
  <2>2. CASE i < n
    <3>1. i + 1 \in 1 .. n
      BY <2>2, <1>2
    <3>2. slots[i + 1] = IF i + 1 = s + 1 THEN t ELSE Elem(l, i + 1 - 1)
      BY <3>1 DEF slots
    <3>3. i + 1 - 1 = i /\ (i + 1 = s + 1 <=> i = s)
      OBVIOUS
    <3> QED BY <2>1, <2>2, <3>2, <3>3
  <2>3. CASE ~(i < n)
    <3>1. i # s /\ ~(i < Len(l.slot))
      BY <2>3, <1>1, <1>2
    <3> QED BY <2>1, <2>3, <3>1 DEF Elem
  <2> QED BY <2>2, <2>3
<1> QED BY <1>5, <1>6, <1>7 DEF List

(* What remove(i) leaves in every position of the list. *)
LEMMA ShiftedElems ==
    ASSUME NEW l \in List, NEW s \in Nat, NEW i \in 0 .. s - 1
    PROVE  /\ Shifted(l, s, i) \in List
           /\ Shifted(l, s, i).size = s - 1
           /\ \A j \in Nat : Elem(Shifted(l, s, i), j) =
                 IF j = s - 1 THEN NoTask
                 ELSE Elem(l, IF i <= j /\ j < s - 1 THEN j + 1 ELSE j)
<1> DEFINE n == Len(l.slot)
           at(k) == IF k = s THEN NoTask
                    ELSE Elem(l, IF i < k /\ k < s THEN k ELSE k - 1)
           slots == [k \in 1 .. n |-> at(k)]
<1>1. l.slot \in Seq(Tasks \cup {NoTask}) /\ n \in Nat
  BY DEF List
<1>3. \A k \in Nat : Elem(l, k) \in Tasks \cup {NoTask}
  BY <1>1 DEF Elem
<1>4. \A k \in 1 .. n : at(k) \in Tasks \cup {NoTask}
  BY <1>1, <1>3
<1>5. slots \in Seq(Tasks \cup {NoTask}) /\ Len(slots) = n
  BY <1>1, <1>4
<1>6. Shifted(l, s, i) = [size |-> s - 1, slot |-> slots]
  BY DEF Shifted
<1>7. ASSUME NEW j \in Nat
      PROVE  Elem(Shifted(l, s, i), j) =
                 IF j = s - 1 THEN NoTask
                 ELSE Elem(l, IF i <= j /\ j < s - 1 THEN j + 1 ELSE j)
  <2>1. Elem(Shifted(l, s, i), j) = IF j < n THEN slots[j + 1] ELSE NoTask
    BY <1>5, <1>6 DEF Elem
  <2>2. CASE j < n
    <3>1. j + 1 \in 1 .. n
      BY <2>2, <1>1
    <3>2. slots[j + 1] = at(j + 1)
      BY <3>1
    <3>3. /\ j + 1 - 1 = j
          /\ j + 1 = s <=> j = s - 1
          /\ i < j + 1 /\ j + 1 < s <=> i <= j /\ j < s - 1
      OBVIOUS
    <3> QED BY <2>1, <2>2, <3>2, <3>3
  <2>3. CASE ~(j < n)
    <3>1. Elem(l, j) = NoTask /\ Elem(l, j + 1) = NoTask
      BY <2>3, <1>1 DEF Elem
    <3> QED BY <2>1, <2>3, <3>1
  <2> QED BY <2>2, <2>3
<1>8. s - 1 \in Nat
  OBVIOUS
<1> QED BY <1>5, <1>6, <1>7, <1>8 DEF List

-------------------------------------------------------------------------------
TypeInv == TypeOK /\ ShiftSeesTask

LEMMA InitTypeInv == Init => TypeInv
<1> SUFFICES ASSUME Init PROVE TypeInv
  OBVIOUS
<1>1. EmptyList \in List
  <2>1. << >> \in Seq(Tasks \cup {NoTask})
    OBVIOUS
  <2> QED BY <2>1 DEF EmptyList, List
<1>2. \A th \in Threads : pc[th] \in {"idle", "new"}
  BY DEF Init
<1>3. pc \in [Threads -> Outside \cup StartNext \cup {"queueAdd", "test", "complete"}]
  BY <1>2 DEF Init, Outside
<1>4. local \in [Threads -> Tasks \cup {NoTask}] /\ seen \in [Threads -> Nat]
  BY DEF Init
<1> QED
  BY <1>1, <1>2, <1>3, <1>4 DEF Init, TypeInv, TypeOK, ShiftSeesTask

LEMMA ElemTyped ==
    ASSUME NEW l \in List, NEW i \in Nat
    PROVE  Elem(l, i) \in Tasks \cup {NoTask}
BY DEF Elem, List

LEMMA StartNextTypeInv ==
    ASSUME TypeInv, NEW th \in Threads, StartNextStep(th)
    PROVE  TypeInv'
<1> USE DEF TypeInv, TypeOK, ShiftSeesTask, At, Goto, Outside, StartNext
<1>0. Return(th) \in Outside
  BY DEF Return
<1>1. CASE IsEmpty(th)
  BY <1>0, <1>1 DEF IsEmpty
<1>2. CASE QueueGet(th)
  BY <1>2, ElemTyped DEF QueueGet
<1>3. CASE QueueRemove(th)
  <2>1. queue.size \in Nat /\ queue.size > 0
    BY <1>3 DEF QueueRemove, List
  <2> QED BY <1>3, <2>1 DEF QueueRemove
<1>4. CASE IndexOutOfBounds(th)
  BY <1>4 DEF IndexOutOfBounds, Crash
<1>5. CASE QueueShift(th)
  <2>1. seen[th] \in Nat /\ 0 \in 0 .. seen[th] - 1
    BY <1>5 DEF QueueShift
  <2>2. Shifted(queue, seen[th], 0) \in List
    BY <2>1, ShiftedElems
  <2> QED BY <1>5, <2>2 DEF QueueShift
<1>6. CASE ActiveAdd(th)
  <2>1. active.size \in Nat
    BY DEF List
  <2> QED BY <1>6, <2>1 DEF ActiveAdd
<1>7. CASE ActiveStore(th)
  <2>1. Stored(active, seen[th], local[th]) \in List
    BY StoredElems
  <2> QED BY <1>7, <2>1 DEF ActiveStore
<1>8. CASE Start(th)
  BY <1>0, <1>8 DEF Start, Startable, Threads
<1>9. CASE StartThrows(th)
  BY <1>9 DEF StartThrows, Crash
<1> QED
  BY <1>1, <1>2, <1>3, <1>4, <1>5, <1>6, <1>7, <1>8, <1>9 DEF StartNextStep

LEMMA NextTypeInv == TypeInv /\ [Next]_vars => TypeInv'
<1> SUFFICES ASSUME TypeInv, [Next]_vars PROVE TypeInv'
  OBVIOUS
<1>m. Main \in Threads /\ Tasks \subseteq Threads
  BY DEF Threads
<1>s. active.size \in Nat /\ queue.size \in Nat
  BY DEF TypeInv, TypeOK, List
<1>1. ASSUME NEW t \in Tasks, Push(t) PROVE TypeInv'
  BY <1>1, <1>m, <1>s
  DEF Push, TypeInv, TypeOK, ShiftSeesTask, At, Goto, Outside, StartNext, Enter
<1>2. CASE QueueAdd
  <2>1. Stored(queue, seen[Main], local[Main]) \in List
    BY <1>m, StoredElems DEF TypeInv, TypeOK
  <2> QED
    BY <1>2, <1>m, <2>1
    DEF QueueAdd, TypeInv, TypeOK, ShiftSeesTask, At, Goto, Outside, StartNext
<1>3. CASE TestSize
  BY <1>3, <1>m
  DEF TestSize, TypeInv, TypeOK, ShiftSeesTask, At, Goto, Outside, StartNext
<1>4. ASSUME NEW t \in Tasks, Finish(t) PROVE TypeInv'
  BY <1>4, <1>m, <1>s
  DEF Finish, TypeInv, TypeOK, ShiftSeesTask, At, Goto, Outside, StartNext, Enter
<1>5. ASSUME NEW t \in Tasks, ActiveRemove(t) PROVE TypeInv'
  <2>1. active' \in List
    BY <1>5, <1>m, ShiftedElems DEF ActiveRemove, TypeInv, TypeOK
  <2> QED
    BY <1>5, <1>m, <2>1
    DEF ActiveRemove, TypeInv, TypeOK, ShiftSeesTask, At, Goto, Outside, StartNext
<1>6. ASSUME NEW th \in Threads, StartNextStep(th) PROVE TypeInv'
  BY <1>6, StartNextTypeInv
<1>7. CASE UNCHANGED vars
  BY <1>7 DEF vars, TypeInv, TypeOK, ShiftSeesTask
<1> QED
  BY <1>m, <1>1, <1>2, <1>3, <1>4, <1>5, <1>6, <1>7 DEF Next, MainStep, TaskStep

LEMMA TypeInvariant == Spec => []TypeInv
<1>1. Init => TypeInv
  BY InitTypeInv
<1>2. TypeInv /\ [Next]_vars => TypeInv'
  BY NextTypeInv
<1> QED BY <1>1, <1>2, PTL DEF Spec

(* Type correctness, for any set of tasks: even overlapping calls of push and *)
(* didComplete, with the stale sizes they write, leave well-formed lists.     *)
THEOREM TypeCorrect == Spec => []TypeOK
<1>1. TypeInv => TypeOK
  BY DEF TypeInv
<1> QED BY <1>1, TypeInvariant, PTL

-------------------------------------------------------------------------------
(* One lemma per action: until calls overlap, it keeps the lists, the program *)
(* counters and the locals of the threads in agreement.                       *)

LEMMA PushCoherent ==
    ASSUME TypeInv, TypeInv', Coherent, NEW t \in Tasks, Push(t), ~overlapped'
    PROVE  Coherent'
<1>t. /\ active.size \in Nat /\ queue.size \in Nat
     /\ active'.size \in Nat /\ queue'.size \in Nat
     /\ Main \in Threads /\ Tasks \subseteq Threads /\ Main \notin Tasks
  BY TasksAssumption DEF TypeInv, TypeOK, List, Threads
<1> USE DEF At, Goto, Inside, Outside, StartNext, QueueIndex, Held
<1>1. ~crashed'
  BY DEF Coherent, Push
<1>2. OneInside'
  <2>1. \A other \in Threads \ {Main} : ~Inside(other)
    BY DEF Push, Enter
  <2>2. \A other \in Threads \ {Main} : pc'[other] = pc[other]
    BY <1>t DEF Push, TypeInv, TypeOK
  <2> QED BY <2>1, <2>2 DEF OneInside
<1>3. QueueCoherent'
  BY <1>t DEF Push, Coherent, QueueCoherent
<1>4. ActiveCoherent'
  BY <1>t DEF Push, Coherent, ActiveCoherent
<1>5. LocalsFresh'
  BY <1>t DEF Push, Coherent, TypeInv, TypeOK, QueueCoherent, ActiveCoherent, LocalsFresh
<1>6. NothingLost'
  BY <1>t DEF Push, Coherent, TypeInv, TypeOK, NothingLost
<1>7. Awake'
  BY <1>t DEF Push, TypeInv, TypeOK, Awake
<1> QED BY <1>1, <1>2, <1>3, <1>4, <1>5, <1>6, <1>7 DEF Coherent

LEMMA QueueAddCoherent ==
    ASSUME TypeInv, TypeInv', Coherent, QueueAdd, ~overlapped'
    PROVE  Coherent'
<1>t. /\ active.size \in Nat /\ queue.size \in Nat
     /\ active'.size \in Nat /\ queue'.size \in Nat
     /\ Main \in Threads /\ Tasks \subseteq Threads /\ Main \notin Tasks
  BY TasksAssumption DEF TypeInv, TypeOK, List, Threads
<1>q. /\ queue'.size = queue.size + 1
     /\ \A i \in Nat : Elem(queue', i) = IF i = queue.size THEN local[Main] ELSE Elem(queue, i)
  <2>1. seen[Main] = queue.size
    BY <1>t DEF QueueAdd, At, Coherent, LocalsFresh
  <2>2. queue' = Stored(queue, queue.size, local[Main])
    BY <2>1 DEF QueueAdd
  <2>3. local[Main] \in Tasks \cup {NoTask} /\ queue \in List
    BY <1>t DEF TypeInv, TypeOK
  <2> DEFINE longer == Stored(queue, queue.size, local[Main])
  <2>4. /\ longer.size = queue.size + 1
        /\ \A i \in Nat :
              Elem(longer, i) = IF i = queue.size THEN local[Main] ELSE Elem(queue, i)
    <3>1. queue.size \in Nat
      BY <1>t
    <3>2. longer.size = queue.size + 1
      BY <2>3, <3>1, StoredElems
    <3>3. ASSUME NEW i \in Nat
          PROVE  Elem(longer, i) = IF i = queue.size THEN local[Main] ELSE Elem(queue, i)
      BY <2>3, <3>1, StoredElems
    <3> QED BY <3>2, <3>3
  <2> QED BY <2>2, <2>4
<1> USE DEF At, Goto, Inside, Outside, StartNext, QueueIndex, Held
<1>1. ~crashed'
  BY DEF Coherent, QueueAdd
<1>2. OneInside'
  BY <1>t, <1>q DEF QueueAdd, Coherent, OneInside
<1>3. QueueCoherent'
  BY <1>t, <1>q DEF QueueAdd, Coherent, QueueCoherent, LocalsFresh
<1>4. ActiveCoherent'
  BY <1>t, <1>q DEF QueueAdd, Coherent, ActiveCoherent
<1>5. LocalsFresh'
  BY <1>t, <1>q DEF QueueAdd, Coherent, TypeInv, TypeOK, OneInside, LocalsFresh
<1>6. NothingLost'
  BY <1>t, <1>q DEF QueueAdd, Coherent, NothingLost
<1>7. Awake'
  BY <1>t, <1>q DEF QueueAdd, Awake
<1> QED BY <1>1, <1>2, <1>3, <1>4, <1>5, <1>6, <1>7 DEF Coherent

LEMMA TestSizeCoherent ==
    ASSUME TypeInv, TypeInv', Coherent, TestSize, ~overlapped'
    PROVE  Coherent'
<1>t. /\ active.size \in Nat /\ queue.size \in Nat
     /\ active'.size \in Nat /\ queue'.size \in Nat
     /\ Main \in Threads /\ Tasks \subseteq Threads /\ Main \notin Tasks
  BY TasksAssumption DEF TypeInv, TypeOK, List, Threads
<1> USE DEF At, Goto, Inside, Outside, StartNext, QueueIndex, Held
<1>1. ~crashed'
  BY DEF Coherent, TestSize
<1>2. OneInside'
  BY <1>t DEF TestSize, Coherent, OneInside
<1>3. QueueCoherent'
  BY <1>t DEF TestSize, Coherent, QueueCoherent
<1>4. ActiveCoherent'
  BY <1>t DEF TestSize, MAX_CONNECTIONS, Coherent, ActiveCoherent
<1>5. LocalsFresh'
  BY <1>t DEF TestSize, Coherent, LocalsFresh
<1>6. NothingLost'
  BY <1>t DEF TestSize, Coherent, NothingLost
<1>7. Awake'
  BY <1>t DEF TestSize, MAX_CONNECTIONS, Coherent, ActiveCoherent, Awake
<1> QED BY <1>1, <1>2, <1>3, <1>4, <1>5, <1>6, <1>7 DEF Coherent

LEMMA FinishCoherent ==
    ASSUME TypeInv, TypeInv', Coherent, NEW t \in Tasks, Finish(t), ~overlapped'
    PROVE  Coherent'
<1>t. /\ active.size \in Nat /\ queue.size \in Nat
     /\ active'.size \in Nat /\ queue'.size \in Nat
     /\ Main \in Threads /\ Tasks \subseteq Threads /\ Main \notin Tasks
  BY TasksAssumption DEF TypeInv, TypeOK, List, Threads
<1> USE DEF At, Goto, Inside, Outside, StartNext, QueueIndex, Held
<1>1. ~crashed'
  BY DEF Coherent, Finish
<1>2. OneInside'
  BY <1>t DEF Finish, Enter, TypeInv, TypeOK, OneInside
<1>3. QueueCoherent'
  BY <1>t DEF Finish, Coherent, QueueCoherent
<1>4. ActiveCoherent'
  BY <1>t DEF Finish, Coherent, ActiveCoherent
<1>5. LocalsFresh'
  BY <1>t DEF Finish, Coherent, TypeInv, TypeOK, ActiveCoherent, LocalsFresh
<1>6. NothingLost'
  BY <1>t DEF Finish, Coherent, NothingLost
<1>7. Awake'
  BY <1>t DEF Finish, TypeInv, TypeOK, Awake
<1> QED BY <1>1, <1>2, <1>3, <1>4, <1>5, <1>6, <1>7 DEF Coherent

LEMMA ActiveRemoveCoherent ==
    ASSUME TypeInv, TypeInv', Coherent, NEW t \in Tasks, ActiveRemove(t), ~overlapped'
    PROVE  Coherent'
<1>t. /\ active.size \in Nat /\ queue.size \in Nat
     /\ active'.size \in Nat /\ queue'.size \in Nat
     /\ Main \in Threads /\ Tasks \subseteq Threads /\ Main \notin Tasks
  BY TasksAssumption DEF TypeInv, TypeOK, List, Threads
<1>q. active'.size = 0
  <2>1. seen[t] = 1 /\ active.size = 1 /\ Elem(active, 0) = t
    BY DEF ActiveRemove, At, Coherent, LocalsFresh, ActiveCoherent, Threads
  <2>2. active' = Shifted(active, 1, 0)
    BY <2>1 DEF ActiveRemove
  <2> QED BY <2>2, ShiftedElems DEF TypeInv, TypeOK
<1> USE DEF At, Goto, Inside, Outside, StartNext, QueueIndex, Held
<1>1. ~crashed'
  BY DEF Coherent, ActiveRemove
<1>2. OneInside'
  BY <1>t, <1>q DEF ActiveRemove, Coherent, OneInside
<1>3. QueueCoherent'
  BY <1>t, <1>q DEF ActiveRemove, Coherent, QueueCoherent
<1>4. ActiveCoherent'
  BY <1>t, <1>q DEF ActiveRemove, Coherent, TypeInv, TypeOK, ActiveCoherent, LocalsFresh
<1>5. LocalsFresh'
  BY <1>t, <1>q DEF ActiveRemove, Coherent, LocalsFresh
<1>6. NothingLost'
  BY <1>t, <1>q DEF ActiveRemove, Coherent, NothingLost
<1>7. Awake'
  BY <1>t, <1>q DEF ActiveRemove, Awake
<1> QED BY <1>1, <1>2, <1>3, <1>4, <1>5, <1>6, <1>7 DEF Coherent

LEMMA IsEmptyCoherent ==
    ASSUME TypeInv, TypeInv', Coherent, NEW th \in Threads, IsEmpty(th), ~overlapped'
    PROVE  Coherent'
<1>t. /\ active.size \in Nat /\ queue.size \in Nat
     /\ active'.size \in Nat /\ queue'.size \in Nat
     /\ Main \in Threads /\ Tasks \subseteq Threads /\ Main \notin Tasks
  BY TasksAssumption DEF TypeInv, TypeOK, List, Threads
<1> USE DEF At, Goto, Inside, Outside, StartNext, QueueIndex, Held
<1>1. ~crashed'
  BY DEF Coherent, IsEmpty
<1>2. OneInside'
  BY <1>t DEF IsEmpty, Coherent, OneInside
<1>3. QueueCoherent'
  BY <1>t DEF IsEmpty, Coherent, QueueCoherent
<1>4. ActiveCoherent'
  BY <1>t DEF IsEmpty, Return, Coherent, ActiveCoherent
<1>5. LocalsFresh'
  BY <1>t DEF IsEmpty, Return, Coherent, LocalsFresh
<1>6. NothingLost'
  BY <1>t DEF IsEmpty, Return, Coherent, NothingLost
<1>7. Awake'
  BY <1>t DEF IsEmpty, Awake
<1> QED BY <1>1, <1>2, <1>3, <1>4, <1>5, <1>6, <1>7 DEF Coherent

LEMMA QueueGetCoherent ==
    ASSUME TypeInv, TypeInv', Coherent, NEW th \in Threads, QueueGet(th), ~overlapped'
    PROVE  Coherent'
<1>t. /\ active.size \in Nat /\ queue.size \in Nat
     /\ active'.size \in Nat /\ queue'.size \in Nat
     /\ Main \in Threads /\ Tasks \subseteq Threads /\ Main \notin Tasks
  BY TasksAssumption DEF TypeInv, TypeOK, List, Threads
<1> USE DEF At, Goto, Inside, Outside, StartNext, QueueIndex, Held
<1>1. ~crashed'
  BY DEF Coherent, QueueGet
<1>2. OneInside'
  BY <1>t DEF QueueGet, Coherent, OneInside
<1>3. QueueCoherent'
  BY <1>t DEF QueueGet, Coherent, QueueCoherent
<1>4. ActiveCoherent'
  BY <1>t DEF QueueGet, Coherent, ActiveCoherent
<1>5. LocalsFresh'
  BY <1>t DEF QueueGet, Coherent, TypeInv, TypeOK, LocalsFresh
<1>6. NothingLost'
  BY <1>t DEF QueueGet, Coherent, NothingLost
<1>7. Awake'
  BY <1>t DEF QueueGet, Awake
<1> QED BY <1>1, <1>2, <1>3, <1>4, <1>5, <1>6, <1>7 DEF Coherent

LEMMA QueueRemoveCoherent ==
    ASSUME TypeInv, TypeInv', Coherent, NEW th \in Threads, QueueRemove(th), ~overlapped'
    PROVE  Coherent'
<1>t. /\ active.size \in Nat /\ queue.size \in Nat
     /\ active'.size \in Nat /\ queue'.size \in Nat
     /\ Main \in Threads /\ Tasks \subseteq Threads /\ Main \notin Tasks
  BY TasksAssumption DEF TypeInv, TypeOK, List, Threads
<1> USE DEF At, Goto, Inside, Outside, StartNext, QueueIndex, Held
<1>1. ~crashed'
  BY DEF Coherent, QueueRemove
<1>2. OneInside'
  BY <1>t DEF QueueRemove, Coherent, OneInside
<1>3. QueueCoherent'
  BY <1>t DEF QueueRemove, Coherent, QueueCoherent
<1>4. ActiveCoherent'
  BY <1>t DEF QueueRemove, Coherent, ActiveCoherent
<1>5. LocalsFresh'
  BY <1>t DEF QueueRemove, Coherent, TypeInv, TypeOK, LocalsFresh
<1>6. NothingLost'
  BY <1>t DEF QueueRemove, Coherent, NothingLost
<1>7. Awake'
  BY <1>t DEF QueueRemove, Awake
<1> QED BY <1>1, <1>2, <1>3, <1>4, <1>5, <1>6, <1>7 DEF Coherent

LEMMA QueueShiftCoherent ==
    ASSUME TypeInv, TypeInv', Coherent, NEW th \in Threads, QueueShift(th), ~overlapped'
    PROVE  Coherent'
<1>t. /\ active.size \in Nat /\ queue.size \in Nat
     /\ active'.size \in Nat /\ queue'.size \in Nat
     /\ Main \in Threads /\ Tasks \subseteq Threads /\ Main \notin Tasks
  BY TasksAssumption DEF TypeInv, TypeOK, List, Threads
<1>q. /\ queue.size > 0 /\ local[th] = Elem(queue, 0) /\ seen[th] = queue.size
     /\ queue'.size = queue.size - 1
     /\ \A i \in 0 .. queue.size - 2 : Elem(queue', i) = Elem(queue, i + 1)
  <2>1. queue.size > 0 /\ local[th] = Elem(queue, 0) /\ seen[th] = queue.size
    BY DEF QueueShift, At, Coherent, LocalsFresh
  <2>2. queue' = Shifted(queue, queue.size, 0) /\ 0 \in 0 .. queue.size - 1
    BY <1>t, <2>1 DEF QueueShift
  <2> DEFINE rest == Shifted(queue, queue.size, 0)
  <2>3. /\ rest.size = queue.size - 1
        /\ \A j \in Nat : Elem(rest, j) =
              IF j = queue.size - 1 THEN NoTask
              ELSE Elem(queue, IF 0 <= j /\ j < queue.size - 1 THEN j + 1 ELSE j)
    BY <1>t, <2>2, ShiftedElems DEF TypeInv, TypeOK
  <2> HIDE DEF rest
  <2>4. ASSUME NEW i \in 0 .. queue.size - 2
        PROVE  Elem(rest, i) = Elem(queue, i + 1)
    <3>1. i \in Nat /\ i # queue.size - 1 /\ 0 <= i /\ i < queue.size - 1
      BY <1>t
    <3> QED BY <2>3, <3>1
  <2>5. queue' = rest
    BY <2>2 DEF rest
  <2> QED BY <2>1, <2>3, <2>4, <2>5
<1> USE DEF At, Goto, Inside, Outside, StartNext, QueueIndex, Held
<1>1. ~crashed'
  BY DEF Coherent, QueueShift
<1>2. OneInside'
  BY <1>t, <1>q DEF QueueShift, Coherent, OneInside
<1>3. QueueCoherent'
  BY <1>t, <1>q DEF QueueShift, Coherent, QueueCoherent
<1>4. ActiveCoherent'
  BY <1>t, <1>q DEF QueueShift, Coherent, ActiveCoherent
<1>5. LocalsFresh'
  BY <1>t, <1>q DEF QueueShift, Coherent, TypeInv, TypeOK, OneInside, QueueCoherent, LocalsFresh
<1>6. NothingLost'
  <2> SUFFICES ASSUME NEW t \in pushed, pc'[t] = "new",
                      ~(\E i \in QueueIndex' : Elem(queue', i) = t)
               PROVE  Held(t)'
    BY DEF NothingLost, QueueShift
  <2>1. pc[t] = "new" /\ pc'[th] = "add" /\ local'[th] = local[th]
    BY <1>t DEF QueueShift, TypeInv, TypeOK
  <2>2. CASE \E i \in QueueIndex : Elem(queue, i) = t
    <3>1. PICK i \in QueueIndex : Elem(queue, i) = t
      BY <2>2
    <3>2. CASE i = 0
      BY <1>q, <2>1, <3>1, <3>2
    <3>3. CASE i # 0
      <4>1. i - 1 \in 0 .. queue.size - 2 /\ i - 1 + 1 = i
        BY <1>t, <3>3
      <4>2. Elem(queue', i - 1) = t
        BY <1>q, <3>1, <4>1
      <4>3. i - 1 \in QueueIndex'
        BY <1>t, <1>q, <4>1
      <4> QED BY <4>2, <4>3
    <3> QED BY <3>2, <3>3
  <2>3. CASE Held(t)
    BY <1>t, <2>1, <2>3 DEF QueueShift, TypeInv, TypeOK
  <2> QED BY <2>1, <2>2, <2>3 DEF Coherent, NothingLost
<1>7. Awake'
  BY <1>t, <1>q DEF QueueShift, Awake
<1> QED BY <1>1, <1>2, <1>3, <1>4, <1>5, <1>6, <1>7 DEF Coherent

LEMMA ActiveAddCoherent ==
    ASSUME TypeInv, TypeInv', Coherent, NEW th \in Threads, ActiveAdd(th), ~overlapped'
    PROVE  Coherent'
<1>t. /\ active.size \in Nat /\ queue.size \in Nat
     /\ active'.size \in Nat /\ queue'.size \in Nat
     /\ Main \in Threads /\ Tasks \subseteq Threads /\ Main \notin Tasks
  BY TasksAssumption DEF TypeInv, TypeOK, List, Threads
<1> USE DEF At, Goto, Inside, Outside, StartNext, QueueIndex, Held
<1>1. ~crashed'
  BY DEF Coherent, ActiveAdd
<1>2. OneInside'
  BY <1>t DEF ActiveAdd, Coherent, OneInside
<1>3. QueueCoherent'
  BY <1>t DEF ActiveAdd, Coherent, QueueCoherent
<1>4. ActiveCoherent'
  BY <1>t DEF ActiveAdd, Coherent, ActiveCoherent
<1>5. LocalsFresh'
  BY <1>t DEF ActiveAdd, Coherent, TypeInv, TypeOK, ActiveCoherent, LocalsFresh
<1>6. NothingLost'
  BY <1>t DEF ActiveAdd, Coherent, NothingLost
<1>7. Awake'
  BY <1>t DEF ActiveAdd, Awake
<1> QED BY <1>1, <1>2, <1>3, <1>4, <1>5, <1>6, <1>7 DEF Coherent

LEMMA ActiveStoreCoherent ==
    ASSUME TypeInv, TypeInv', Coherent, NEW th \in Threads, ActiveStore(th), ~overlapped'
    PROVE  Coherent'
<1>t. /\ active.size \in Nat /\ queue.size \in Nat
     /\ active'.size \in Nat /\ queue'.size \in Nat
     /\ Main \in Threads /\ Tasks \subseteq Threads /\ Main \notin Tasks
  BY TasksAssumption DEF TypeInv, TypeOK, List, Threads
<1>q. active'.size = 1 /\ Elem(active', 0) = local[th]
  <2>1. seen[th] = 0
    BY DEF ActiveStore, At, Coherent, LocalsFresh
  <2> QED BY <2>1, StoredElems DEF ActiveStore, TypeInv, TypeOK
<1> USE DEF At, Goto, Inside, Outside, StartNext, QueueIndex, Held
<1>1. ~crashed'
  BY DEF Coherent, ActiveStore
<1>2. OneInside'
  BY <1>t, <1>q DEF ActiveStore, Coherent, OneInside
<1>3. QueueCoherent'
  BY <1>t, <1>q DEF ActiveStore, Coherent, QueueCoherent
<1>4. ActiveCoherent'
  BY <1>t, <1>q DEF ActiveStore, Coherent, TypeInv, TypeOK, OneInside, ActiveCoherent
<1>5. LocalsFresh'
  BY <1>t, <1>q DEF ActiveStore, Coherent, ActiveCoherent, LocalsFresh
<1>6. NothingLost'
  BY <1>t, <1>q DEF ActiveStore, Coherent, NothingLost
<1>7. Awake'
  BY <1>t, <1>q DEF Awake
<1> QED BY <1>1, <1>2, <1>3, <1>4, <1>5, <1>6, <1>7 DEF Coherent

LEMMA StartCoherent ==
    ASSUME TypeInv, TypeInv', Coherent, NEW th \in Threads, Start(th), ~overlapped'
    PROVE  Coherent'
<1>t. /\ active.size \in Nat /\ queue.size \in Nat
     /\ active'.size \in Nat /\ queue'.size \in Nat
     /\ Main \in Threads /\ Tasks \subseteq Threads /\ Main \notin Tasks
  BY TasksAssumption DEF TypeInv, TypeOK, List, Threads
<1> USE DEF At, Goto, Inside, Outside, StartNext, QueueIndex, Held
<1>1. ~crashed'
  BY DEF Coherent, Start
<1>2. OneInside'
  BY <1>t DEF Start, Coherent, TypeInv, TypeOK, OneInside
<1>3. QueueCoherent'
  BY <1>t DEF Start, Coherent, TypeInv, TypeOK, QueueCoherent, LocalsFresh
<1>4. ActiveCoherent'
  BY <1>t DEF Start, Return, Coherent, TypeInv, TypeOK, ActiveCoherent, LocalsFresh
<1>5. LocalsFresh'
  BY <1>t DEF Start, Return, Coherent, TypeInv, TypeOK, OneInside, LocalsFresh
<1>6. NothingLost'
  BY <1>t DEF Start, Return, Coherent, TypeInv, TypeOK, LocalsFresh, NothingLost
<1>7. Awake'
  BY <1>t DEF Start, Coherent, ActiveCoherent, Awake
<1> QED BY <1>1, <1>2, <1>3, <1>4, <1>5, <1>6, <1>7 DEF Coherent

(* While calls do not overlap, no list access and no start() can throw. *)
LEMMA NothingThrows ==
    ASSUME TypeInv, Coherent, NEW th \in Threads
    PROVE  ~IndexOutOfBounds(th) /\ ~StartThrows(th)
<1>1. ~IndexOutOfBounds(th)
  BY DEF IndexOutOfBounds, At, Coherent, LocalsFresh
<1>2. ~StartThrows(th)
  BY DEF StartThrows, Startable, At, Coherent, LocalsFresh, TypeInv, TypeOK
<1> QED BY <1>1, <1>2

LEMMA StartNextCoherent ==
    ASSUME TypeInv, TypeInv', Coherent, NEW th \in Threads, StartNextStep(th),
           ~overlapped'
    PROVE  Coherent'
BY IsEmptyCoherent, QueueGetCoherent, QueueRemoveCoherent, QueueShiftCoherent,
   ActiveAddCoherent, ActiveStoreCoherent, StartCoherent, NothingThrows
DEF StartNextStep

(* Calls that have overlapped once have overlapped for ever. *)
LEMMA OverlapStays == [Next]_vars => (overlapped => overlapped')
<1> SUFFICES ASSUME [Next]_vars, overlapped PROVE overlapped'
  OBVIOUS
<1>1. ASSUME NEW t \in Tasks, Push(t) \/ Finish(t) PROVE overlapped'
  BY <1>1 DEF Push, Finish, Enter
<1>2. ASSUME NEW th \in Threads, StartNextStep(th) PROVE overlapped'
  BY <1>2 DEF StartNextStep, IsEmpty, QueueGet, QueueRemove, IndexOutOfBounds,
              QueueShift, ActiveAdd, ActiveStore, Start, StartThrows, Crash
<1>3. ASSUME NEW t \in Tasks, ActiveRemove(t) PROVE overlapped'
  BY <1>3 DEF ActiveRemove
<1> QED
  BY <1>1, <1>2, <1>3
  DEF Next, MainStep, TaskStep, QueueAdd, TestSize, Threads, vars

LEMMA InitIInv == Init => IInv
<1> SUFFICES ASSUME Init PROVE IInv
  OBVIOUS
<1>1. \A th \in Threads : pc[th] \in {"idle", "new"}
  BY DEF Init
<1>2. active.size = 0 /\ queue.size = 0 /\ pushed = {} /\ ~crashed
  BY DEF Init, EmptyList
<1>3. \A t \in Tasks : pc[t] = "new"
  BY TasksAssumption DEF Init, Threads
<1>4. OneInside /\ QueueCoherent
  BY <1>1, <1>2 DEF OneInside, Inside, Outside, QueueCoherent, QueueIndex
<1>5. ActiveCoherent
  BY <1>1, <1>2, <1>3 DEF ActiveCoherent, StartNext
<1>6. LocalsFresh /\ NothingLost /\ Awake
  BY <1>1, <1>2 DEF LocalsFresh, NothingLost, Awake
<1> QED
  BY <1>2, <1>4, <1>5, <1>6, InitTypeInv DEF IInv, TypeInv, SerialInv, Coherent

LEMMA NextIInv == IInv /\ [Next]_vars => IInv'
<1> SUFFICES ASSUME IInv, [Next]_vars PROVE IInv'
  OBVIOUS
<1>1. TypeInv /\ TypeInv'
  BY NextTypeInv DEF IInv, TypeInv
<1> SUFFICES ASSUME ~overlapped' PROVE Coherent'
  BY <1>1 DEF IInv, TypeInv, SerialInv
<1>2. Coherent
  BY OverlapStays DEF IInv, SerialInv
<1>3. ASSUME NEW t \in Tasks, Push(t) PROVE Coherent'
  BY <1>1, <1>2, <1>3, PushCoherent
<1>4. ASSUME NEW t \in Tasks, Finish(t) PROVE Coherent'
  BY <1>1, <1>2, <1>4, FinishCoherent
<1>5. ASSUME NEW t \in Tasks, ActiveRemove(t) PROVE Coherent'
  BY <1>1, <1>2, <1>5, ActiveRemoveCoherent
<1>6. CASE QueueAdd
  BY <1>1, <1>2, <1>6, QueueAddCoherent
<1>7. CASE TestSize
  BY <1>1, <1>2, <1>7, TestSizeCoherent
<1>8. ASSUME NEW th \in Threads, StartNextStep(th) PROVE Coherent'
  BY <1>1, <1>2, <1>8, StartNextCoherent
<1>9. CASE UNCHANGED vars
  BY <1>2, <1>9
  DEF vars, Coherent, OneInside, Inside, QueueCoherent, QueueIndex,
      ActiveCoherent, LocalsFresh, NothingLost, Held, Awake
<1> QED
  BY <1>3, <1>4, <1>5, <1>6, <1>7, <1>8, <1>9 DEF Next, MainStep, TaskStep, Threads

LEMMA SerialInvariant == Spec => []IInv
<1>1. Init => IInv
  BY InitIInv
<1>2. IInv /\ [Next]_vars => IInv'
  BY NextIInv
<1> QED BY <1>1, <1>2, PTL DEF Spec

-------------------------------------------------------------------------------
(* As long as no two calls of push and didComplete overlap, the manager never *)
(* throws and keeps at most MAX_CONNECTIONS tasks listed and running.         *)
THEOREM SerialSafety == Spec => []SerialSafe
<1>1. IInv => SerialSafe
  BY DEF IInv, SerialInv, Coherent, ActiveCoherent, SerialSafe, MAX_CONNECTIONS,
         AtMostMaxConnections, Running
<1> QED BY <1>1, SerialInvariant, PTL

(* As long as no two calls overlap, a pushed task that has not started is in  *)
(* the queue or in the hands of the thread that will queue or start it.       *)
THEOREM SerialNoLoss == Spec => []SerialKeepsTasks
<1>1. IInv => SerialKeepsTasks
  BY DEF IInv, SerialInv, Coherent, NothingLost, SerialKeepsTasks, Queued, Elems,
         QueueIndex
<1> QED BY <1>1, SerialInvariant, PTL

(* As long as no two calls overlap, queued tasks and no thread inside the     *)
(* manager imply a running task, whose didComplete will start the next one.   *)
THEOREM SerialNoLostWakeup == Spec => []SerialWakeup
<1>1. IInv => SerialWakeup
  BY DEF IInv, SerialInv, Coherent, ActiveCoherent, Awake, SerialWakeup, Running,
         Inside, Outside, Threads
<1> QED BY <1>1, SerialInvariant, PTL

-------------------------------------------------------------------------------
(***************************************************************************)
(* The refinement of TaskQueue.  "waiting" maps to the task taken but not     *)
(* yet started, if there is one, before the tasks listed.                     *)
(***************************************************************************)
Taking(th) == pc[th] \in {"add", "store", "start"}

Listed == [k \in 1 .. queue.size |-> Elem(queue, k - 1)]

Ended == {t \in Tasks : pc[t] \in {"complete", "terminated"} \/ pc[t] \in StartNext}

Mapped == <<Waiting, Running, Ended>>

LEMMA MappedVars == Promise!taskVars = Mapped
BY DEF Promise!taskVars, Mapped, Ended

(* The lists of waiting tasks are sequences. *)
LEMMA ListedIsSeq ==
    ASSUME TypeOK
    PROVE  /\ queue.size \in Nat
           /\ Listed \in Seq(Tasks \cup {NoTask})
           /\ Len(Listed) = queue.size
<1>1. queue \in List /\ queue.size \in Nat
  BY DEF TypeOK, List
<1>2. \A k \in 1 .. queue.size : Elem(queue, k - 1) \in Tasks \cup {NoTask}
  BY <1>1, ElemTyped
<1> QED BY <1>1, <1>2 DEF Listed

(* Without a thread between remove(0) and start(), the waiting tasks are those listed. *)
LEMMA WaitingWithout ==
    ASSUME TypeOK, \A th \in Threads : ~Taking(th)
    PROVE  Waiting = Listed
<1>1. TakenNext = {}
  BY DEF TakenNext, Taking
<1>2. Waiting = << >> \o Listed
  BY <1>1 DEF Waiting, Listed
<1> QED BY <1>2, ListedIsSeq

(* With one, the task it has in hand comes first. *)
LEMMA WaitingWith ==
    ASSUME TypeOK, OneInside, NEW th \in Threads, Taking(th)
    PROVE  Waiting = <<local[th]>> \o Listed
<1>1. \A o \in Threads : Taking(o) => o = th
  BY DEF OneInside, Inside, Outside, Taking
<1>2. TakenNext = {local[th]}
  BY <1>1 DEF TakenNext, Taking
<1>3. (CHOOSE t \in TakenNext : TRUE) = local[th]
  BY <1>2
<1> QED BY <1>2, <1>3 DEF Waiting, Listed

(* A step that neither lists, takes, starts nor ends a task is a stutter. *)
LEMMA SameMapped ==
    ASSUME queue' = queue,
           \A th \in Threads : /\ Taking(th)' <=> Taking(th)
                               /\ Taking(th) => local'[th] = local[th],
           \A t \in Tasks : /\ pc'[t] = "doRun" <=> pc[t] = "doRun"
                            /\ t \in Ended' <=> t \in Ended
    PROVE  Mapped' = Mapped
<1>1. TakenNext' = TakenNext
  BY DEF TakenNext, Taking
<1>2. Waiting' = Waiting
  BY <1>1 DEF Waiting
<1>3. Running' = Running
  BY DEF Running
<1>4. Ended' = Ended
  BY DEF Ended
<1> QED BY <1>2, <1>3, <1>4 DEF Mapped

(* The bookkeeping inside the manager is invisible to the queue it promises. *)
LEMMA InvisibleSteps ==
    ASSUME TypeInv, Coherent, NEW th \in Threads, ~overlapped',
           \/ \E t \in Tasks : Push(t)
           \/ TestSize
           \/ th \in Tasks /\ ActiveRemove(th)
           \/ IsEmpty(th) \/ QueueGet(th) \/ QueueRemove(th) \/ ActiveAdd(th)
           \/ ActiveStore(th)
    PROVE  Mapped' = Mapped
<1> USE DEF At, Goto, Taking, Ended, StartNext
<1>t. /\ pc \in [Threads -> Outside \cup StartNext \cup {"queueAdd", "test", "complete"}]
      /\ local \in [Threads -> Tasks \cup {NoTask}]
      /\ Main \in Threads /\ Tasks \subseteq Threads /\ Main \notin Tasks
  BY TasksAssumption DEF TypeInv, TypeOK, Threads
<1>1. CASE \E t \in Tasks : Push(t)
  BY <1>1, <1>t, SameMapped DEF Push
<1>2. CASE TestSize
  BY <1>2, <1>t, SameMapped DEF TestSize
<1>3. CASE th \in Tasks /\ ActiveRemove(th)
  BY <1>3, <1>t, SameMapped DEF ActiveRemove
<1>4. CASE IsEmpty(th)
  BY <1>4, <1>t, SameMapped DEF IsEmpty, Return
<1>5. CASE QueueGet(th)
  BY <1>5, <1>t, SameMapped DEF QueueGet
<1>6. CASE QueueRemove(th)
  BY <1>6, <1>t, SameMapped DEF QueueRemove
<1>7. CASE ActiveAdd(th)
  BY <1>7, <1>t, SameMapped DEF ActiveAdd
<1>8. CASE ActiveStore(th)
  BY <1>8, <1>t, SameMapped DEF ActiveStore
<1> QED BY <1>1, <1>2, <1>3, <1>4, <1>5, <1>6, <1>7, <1>8

(* remove(0) takes the head of the list into the hands of its thread. *)
LEMMA ShiftKeepsOrder ==
    ASSUME TypeInv, TypeInv', Coherent, Coherent', NEW th \in Threads, QueueShift(th)
    PROVE  Mapped' = Mapped
<1>t. /\ pc \in [Threads -> Outside \cup StartNext \cup {"queueAdd", "test", "complete"}]
      /\ Tasks \subseteq Threads
  BY DEF TypeInv, TypeOK, Threads
<1>1. /\ pc[th] = "shift" /\ pc' = [pc EXCEPT ![th] = "add"] /\ local' = local
      /\ queue.size > 0 /\ local[th] = Elem(queue, 0)
      /\ queue' = Shifted(queue, queue.size, 0)
  BY DEF QueueShift, At, Goto, Coherent, LocalsFresh
<1>2. \A o \in Threads : ~Taking(o)
  BY <1>1 DEF Coherent, OneInside, Inside, Outside, Taking
<1>3. Waiting = Listed
  BY <1>2, WaitingWithout DEF TypeInv
<1>4. Taking(th)'
  BY <1>1, <1>t DEF Taking
<1>5. TakenNext' = {local[th]}
  BY <1>1, <1>2, <1>t DEF TakenNext, Taking
<1>6. (CHOOSE t \in TakenNext' : TRUE) = local[th]
  BY <1>5
<1>7. Waiting' = <<local[th]>> \o Listed'
  BY <1>5, <1>6 DEF Waiting, Listed
<1>8. <<local[th]>> \o Listed' = Listed
  <2>1. queue \in List /\ queue.size \in Nat
    BY DEF TypeInv, TypeOK, List
  <2>2. /\ queue'.size = queue.size - 1
        /\ \A j \in Nat : j < queue.size - 1 => Elem(queue', j) = Elem(queue, j + 1)
    <3>1. 0 \in 0 .. queue.size - 1
      BY <1>1, <2>1
    <3> DEFINE rest == Shifted(queue, queue.size, 0)
    <3>2. rest.size = queue.size - 1
      BY <2>1, <3>1, ShiftedElems
    <3>3. \A j \in Nat : Elem(rest, j) = IF j = queue.size - 1 THEN NoTask
             ELSE Elem(queue, IF 0 <= j /\ j < queue.size - 1 THEN j + 1 ELSE j)
      BY <2>1, <3>1, ShiftedElems
    <3> HIDE DEF rest
    <3>4. ASSUME NEW j \in Nat, j < queue.size - 1 PROVE Elem(rest, j) = Elem(queue, j + 1)
      BY <2>1, <3>3, <3>4
    <3>5. queue' = rest
      BY <1>1 DEF rest
    <3> QED BY <3>2, <3>4, <3>5
  <2>3. /\ Listed \in Seq(Tasks \cup {NoTask}) /\ Len(Listed) = queue.size
        /\ \A k \in 1 .. queue.size : Listed[k] = Elem(queue, k - 1)
    BY <2>1, ListedIsSeq DEF Listed, TypeInv
  <2>4. /\ Listed' \in Seq(Tasks \cup {NoTask}) /\ Len(Listed') = queue.size - 1
        /\ \A k \in 1 .. queue.size - 1 : Listed'[k] = Elem(queue, k)
    <3>1. \A k \in 1 .. queue.size - 1 : Elem(queue', k - 1) = Elem(queue, k)
      BY <2>1, <2>2
    <3>2. \A k \in 1 .. queue.size - 1 : Elem(queue, k) \in Tasks \cup {NoTask}
      BY <2>1, ElemTyped
    <3>3. Listed' = [k \in 1 .. queue.size - 1 |-> Elem(queue', k - 1)]
      BY <2>2 DEF Listed
    <3> QED BY <2>1, <3>1, <3>2, <3>3, <1>1
  <2>5. local[th] \in Tasks \cup {NoTask}
    BY DEF TypeInv, TypeOK
  <2> DEFINE both == <<local[th]>> \o Listed'
  <2>6. both \in Seq(Tasks \cup {NoTask}) /\ Len(both) = queue.size
    BY <2>1, <2>4, <2>5
  <2>7. ASSUME NEW k \in 1 .. queue.size PROVE both[k] = Listed[k]
    <3>1. both[k] = IF k = 1 THEN local[th] ELSE Listed'[k - 1]
      BY <2>1, <2>4, <2>5
    <3>2. CASE k = 1
      <4>1. k - 1 = 0
        BY <3>2
      <4> QED BY <1>1, <2>3, <3>1, <3>2, <4>1
    <3>3. CASE k # 1
      <4>1. k - 1 \in 1 .. queue.size - 1
        BY <2>1, <3>3
      <4> QED BY <2>3, <2>4, <3>1, <3>3, <4>1
    <3> QED BY <3>2, <3>3
  <2> HIDE DEF both
  <2>8. both = Listed
    BY <2>1, <2>3, <2>6, <2>7
  <2> QED BY <2>8 DEF both
<1>9. Running' = Running /\ Ended' = Ended
  BY <1>1, <1>t DEF Running, Ended, StartNext
<1> QED BY <1>3, <1>7, <1>8, <1>9 DEF Mapped

(* add(task) in push is the arrival of a new task. *)
LEMMA AddArrives ==
    ASSUME TypeInv, TypeInv', Coherent, QueueAdd
    PROVE  local[Main] \in Tasks /\ Promise!Arrive(local[Main])
<1> DEFINE t == local[Main]
<1>t. /\ pc \in [Threads -> Outside \cup StartNext \cup {"queueAdd", "test", "complete"}]
      /\ Main \in Threads /\ Tasks \subseteq Threads /\ Main \notin Tasks
  BY TasksAssumption DEF TypeInv, TypeOK, Threads
<1>1. /\ pc[Main] = "queueAdd" /\ pc' = [pc EXCEPT ![Main] = "test"] /\ local' = local
      /\ t \in pushed /\ pc[t] = "new" /\ \A i \in QueueIndex : Elem(queue, i) # t
      /\ queue' = Stored(queue, queue.size, t)
  BY <1>t DEF QueueAdd, At, Goto, Coherent, LocalsFresh
<1>2. t \in Tasks /\ queue \in List /\ queue.size \in Nat
  BY <1>1 DEF TypeInv, TypeOK, List
<1>3. \A o \in Threads : ~Taking(o)
  BY <1>1, <1>t DEF Coherent, OneInside, Inside, Outside, Taking
<1>4. Waiting = Listed
  BY <1>3, WaitingWithout DEF TypeInv
<1>5. TakenNext' = {}
  BY <1>1, <1>3, <1>t DEF TakenNext, Taking
<1>6. Waiting' = << >> \o Listed'
  BY <1>5 DEF Waiting, Listed
<1>7. Listed' = Append(Listed, t)
  <2>1. /\ queue'.size = queue.size + 1
        /\ \A i \in Nat : Elem(queue', i) = IF i = queue.size THEN t ELSE Elem(queue, i)
    <3> DEFINE longer == Stored(queue, queue.size, t)
    <3>1. longer.size = queue.size + 1
      BY <1>2, StoredElems
    <3>2. \A i \in Nat : Elem(longer, i) = IF i = queue.size THEN t ELSE Elem(queue, i)
      BY <1>2, StoredElems
    <3> QED BY <1>1, <3>1, <3>2
  <2>2. /\ Listed \in Seq(Tasks \cup {NoTask}) /\ Len(Listed) = queue.size
        /\ \A k \in 1 .. queue.size : Listed[k] = Elem(queue, k - 1)
    BY <1>2, ListedIsSeq DEF Listed, TypeInv
  <2>3. Listed' = [k \in 1 .. queue.size + 1 |-> Elem(queue', k - 1)]
    BY <2>1 DEF Listed
  <2> DEFINE longer == Append(Listed, t)
  <2>4. longer = [k \in 1 .. queue.size + 1 |-> longer[k]]
    BY <1>2, <2>2
  <2>5. ASSUME NEW k \in 1 .. queue.size + 1
        PROVE  longer[k] = Elem(queue', k - 1)
    <3>1. longer[k] = IF k = queue.size + 1 THEN t ELSE Listed[k]
      BY <1>2, <2>2
    <3>2. k - 1 \in Nat /\ (k - 1 = queue.size <=> k = queue.size + 1)
      BY <1>2
    <3>3. Elem(queue', k - 1) = IF k = queue.size + 1 THEN t ELSE Elem(queue, k - 1)
      BY <2>1, <3>2
    <3>4. k # queue.size + 1 => k \in 1 .. queue.size
      BY <1>2
    <3> QED BY <2>2, <3>1, <3>3, <3>4
  <2> HIDE DEF longer
  <2>6. longer = Listed'
    BY <2>3, <2>4, <2>5
  <2> QED BY <2>6 DEF longer
<1>8. Waiting' = Append(Waiting, t)
  BY <1>2, <1>4, <1>6, <1>7, ListedIsSeq DEF TypeInv
<1>9. Running' = Running /\ Ended' = Ended
  BY <1>1, <1>t DEF Running, Ended
<1>10. t \notin Promise!Known
  <2>1. \A k \in 1 .. Len(Waiting) : Waiting[k] # t
    BY <1>1, <1>2, <1>4, ListedIsSeq DEF Listed, QueueIndex, TypeInv
  <2>2. t \notin Running /\ t \notin Ended
    BY <1>1 DEF Running, Ended, StartNext
  <2> QED BY <2>1, <2>2 DEF Promise!Known, Ended
<1> QED BY <1>2, <1>8, <1>9, <1>10 DEF Promise!Arrive, Ended

(* The start of didComplete is the end of a task. *)
LEMMA FinishEnds ==
    ASSUME TypeInv, NEW t \in Tasks, Finish(t)
    PROVE  Promise!End(t)
<1>t. /\ pc \in [Threads -> Outside \cup StartNext \cup {"queueAdd", "test", "complete"}]
      /\ Main \in Threads /\ Tasks \subseteq Threads /\ Main \notin Tasks
  BY TasksAssumption DEF TypeInv, TypeOK, Threads
<1>1. pc[t] = "doRun" /\ pc' = [pc EXCEPT ![t] = "complete"] /\ local' = local /\ queue' = queue
  BY DEF Finish, At, Goto
<1>2. TakenNext' = TakenNext
  BY <1>1, <1>t DEF TakenNext
<1>3. Waiting' = Waiting
  BY <1>1, <1>2 DEF Waiting
<1>4. t \in Running /\ Running' = Running \ {t}
  BY <1>1, <1>t DEF Running
<1>5. Ended' = Ended \cup {t}
  BY <1>1, <1>t DEF Ended
<1> QED BY <1>3, <1>4, <1>5 DEF Promise!End, Ended

(* start() is the start of the task at the head, when none runs. *)
LEMMA StartStartsHead ==
    ASSUME TypeInv, TypeInv', Coherent, NEW th \in Threads, Start(th)
    PROVE  Promise!StartHead
<1> DEFINE t == local[th]
<1>t. /\ pc \in [Threads -> Outside \cup StartNext \cup {"queueAdd", "test", "complete"}]
      /\ Main \in Threads /\ Tasks \subseteq Threads /\ Main \notin Tasks
  BY TasksAssumption DEF TypeInv, TypeOK, Threads
<1>1. /\ pc[th] = "start" /\ t \in Tasks /\ pc[t] = "new" /\ local' = local /\ queue' = queue
      /\ pc' = [pc EXCEPT ![th] = Return(th), ![t] = "doRun"]
  BY DEF Start, Startable, At
<1>2. th # t /\ pc'[th] = Return(th) /\ pc'[t] = "doRun"
      /\ \A o \in Threads \ {th, t} : pc'[o] = pc[o]
  BY <1>1, <1>t
<1>3. Taking(th) /\ \A o \in Threads : Taking(o) => o = th
  BY <1>1 DEF Coherent, OneInside, Inside, Outside, Taking
<1>4. Waiting = <<t>> \o Listed
  BY <1>3, WaitingWith DEF TypeInv, Coherent
<1>5. TakenNext' = {}
  <2>1. ASSUME NEW o \in Threads PROVE pc'[o] \notin {"add", "store", "start"}
    <3>1. CASE o = th
      BY <1>2, <3>1 DEF Return
    <3>2. CASE o = t
      BY <1>2, <3>2
    <3>3. CASE o # th /\ o # t
      BY <1>2, <1>3, <3>3 DEF Taking
    <3> QED BY <3>1, <3>2, <3>3
  <2> QED BY <2>1 DEF TakenNext
<1>6. Waiting' = << >> \o Listed /\ Listed' = Listed
  BY <1>1, <1>5 DEF Waiting, Listed
<1>7. Waiting # << >> /\ Head(Waiting) = t /\ Waiting' = Tail(Waiting)
  BY <1>1, <1>4, <1>6, ListedIsSeq DEF TypeInv
<1>8. Running = {}
  BY <1>1 DEF Running, Coherent, ActiveCoherent, LocalsFresh
<1>9. Cardinality(Running) < MAX_CONNECTIONS
  BY <1>8, FS_EmptySet DEF MAX_CONNECTIONS
<1>10. Running' = Running \cup {t}
  BY <1>1, <1>2, <1>t DEF Running, Return
<1>11. Ended' = Ended
  BY <1>1, <1>2, <1>t DEF Ended, Return, StartNext
<1>12. Promise!Cardinality(Running) = Cardinality(Running)
  BY DEF Promise!Cardinality, Cardinality
<1> QED BY <1>7, <1>9, <1>10, <1>11, <1>12 DEF Promise!StartHead, Ended

(* Every step of an execution without overlapping calls is one of the queue. *)
LEMMA StepRefines ==
    ASSUME IInv, IInv', ~overlapped, [Serial(Next)]_vars
    PROVE  [Promise!Next]_(Promise!taskVars)
<1>1. CASE UNCHANGED vars
  <2>1. Mapped' = Mapped
    BY <1>1 DEF vars, Mapped, Waiting, TakenNext, Running, Ended
  <2> QED BY <2>1, MappedVars DEF Promise!taskVars, Mapped, Ended
<1>2. CASE Next /\ ~overlapped'
  <2>1. TypeInv /\ TypeInv' /\ Coherent /\ Coherent'
    BY <1>2 DEF IInv, TypeInv, SerialInv
  <2>2. ASSUME Mapped' = Mapped PROVE UNCHANGED Promise!taskVars
    BY <2>2 DEF Promise!taskVars, Mapped, Ended
  <2>3. ASSUME NEW t \in Tasks, Push(t) PROVE UNCHANGED Promise!taskVars
    BY <1>2, <2>1, <2>2, <2>3, InvisibleSteps DEF Threads
  <2>4. CASE QueueAdd
    BY <2>1, <2>4, AddArrives DEF Promise!Next
  <2>5. CASE TestSize
    BY <1>2, <2>1, <2>2, <2>5, InvisibleSteps DEF Threads
  <2>6. ASSUME NEW t \in Tasks, Finish(t) PROVE Promise!Next
    BY <2>1, <2>6, FinishEnds DEF Promise!Next
  <2>7. ASSUME NEW t \in Tasks, ActiveRemove(t) PROVE UNCHANGED Promise!taskVars
    BY <1>2, <2>1, <2>2, <2>7, InvisibleSteps DEF Threads
  <2>8. ASSUME NEW th \in Threads, StartNextStep(th)
        PROVE  Promise!Next \/ UNCHANGED Promise!taskVars
    <3>1. CASE QueueShift(th)
      BY <2>1, <2>2, <3>1, ShiftKeepsOrder
    <3>2. CASE Start(th)
      BY <2>1, <3>2, StartStartsHead DEF Promise!Next
    <3>3. CASE IsEmpty(th) \/ QueueGet(th) \/ QueueRemove(th) \/ ActiveAdd(th)
               \/ ActiveStore(th)
      BY <1>2, <2>1, <2>2, <3>3, InvisibleSteps
    <3> QED BY <2>1, <2>8, <3>1, <3>2, <3>3, NothingThrows DEF StartNextStep
  <2> QED
    BY <1>2, <2>3, <2>4, <2>5, <2>6, <2>7, <2>8 DEF Next, MainStep, TaskStep, Threads
<1> QED BY <1>1, <1>2 DEF Serial

(* The initial state maps to an empty queue. *)
LEMMA InitRefines == Init => Promise!Init
<1> SUFFICES ASSUME Init PROVE Promise!Init
  OBVIOUS
<1>1. \A th \in Threads : pc[th] \in {"idle", "new"}
  BY DEF Init
<1>2. TypeOK
  BY InitTypeInv DEF TypeInv
<1>3. Waiting = Listed
  BY <1>1, <1>2, WaitingWithout DEF Taking
<1>4. Listed = << >>
  BY <1>2, ListedIsSeq DEF Init, EmptyList
<1>5. Running = {} /\ Ended = {}
  BY <1>1 DEF Running, Ended, StartNext, Threads
<1> QED BY <1>3, <1>4, <1>5 DEF Promise!Init, Ended

(* Executions in which no two calls of the manager overlap are executions of  *)
(* the first-come first-served queue: each step is an arrival, a start of the *)
(* head while none runs, an end, or is invisible (push, didComplete).         *)
THEOREM ServesInOrder == SerialSpec => Promise!Init /\ [][Promise!Next]_(Promise!taskVars)
<1>1. Init => IInv /\ ~overlapped /\ Promise!Init
  BY InitIInv, InitRefines DEF Init
<1>2. IInv /\ ~overlapped /\ [Serial(Next)]_vars => IInv' /\ ~overlapped'
  <2> SUFFICES ASSUME IInv, ~overlapped, [Serial(Next)]_vars
               PROVE  IInv' /\ ~overlapped'
    OBVIOUS
  <2>1. [Next]_vars
    BY DEF Serial
  <2>2. ~overlapped'
    BY DEF Serial, vars
  <2> QED BY <2>1, <2>2, NextIInv
<1>3. IInv /\ IInv' /\ ~overlapped /\ [Serial(Next)]_vars => [Promise!Next]_(Promise!taskVars)
  BY StepRefines
<1>4. SerialSpec => Init /\ [][Serial(Next)]_vars
  BY PTL DEF SerialSpec
<1> QED BY <1>1, <1>2, <1>3, <1>4, PTL
==============================================================================
