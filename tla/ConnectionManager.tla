------------------------- MODULE ConnectionManager -------------------------
(***************************************************************************)
(* The queue of network tasks that PowerService and WemoService share       *)
(* (common/connectionManager).  The main thread pushes tasks; each task is  *)
(* a thread that reports its own completion.  Neither list is synchronised, *)
(* so every statement of push, startNext and didComplete interleaves with   *)
(* those of the other threads, and a call that changes an ArrayList is two  *)
(* steps: the read of its size and the write computed from that size.       *)
(* Memory is sequentially consistent and a backing array never reallocates. *)
(***************************************************************************)
EXTENDS Integers, Sequences, FiniteSets

CONSTANTS
    Tasks,      \* the ConnectionManagerTask threads the services create
    Main,       \* the main thread, the only caller of push
    NoTask,     \* Java's null
    MayHang     \* tasks whose doRun may block for ever (no read timeout)

ASSUME TasksAssumption ==
    /\ Main \notin Tasks
    /\ NoTask \notin Tasks
    /\ MayHang \subseteq Tasks

MAX_CONNECTIONS == 1

Threads == Tasks \cup {Main}

VARIABLES
    active,     \* ArrayList of the tasks believed to hold a connection
    queue,      \* ArrayList of the tasks waiting for one
    pc,         \* pc[th] : the statement the thread th executes next
    local,      \* local[th] : push's task, then startNext's next
    seen,       \* seen[th] : the size th read in the list call it is inside
    pushed,     \* the tasks handed to push so far
    crashed,    \* an uncaught exception has killed the process
    overlapped  \* auxiliary: two threads were once inside the manager together

vars == <<active, queue, pc, local, seen, pushed, crashed, overlapped>>

----------------------------------------------------------------------------
(* java.util.ArrayList: a backing array and a size.  Slot i is slot[i + 1].  *)

List == [size : Nat, slot : Seq(Tasks \cup {NoTask})]

EmptyList == [size |-> 0, slot |-> << >>]

Elem(l, i) == IF i < Len(l.slot) THEN l.slot[i + 1] ELSE NoTask

Elems(l) == {Elem(l, i) : i \in 0 .. l.size - 1}

\* add(t) by a thread that read size s: array[s] = t; size = s + 1.
Stored(l, s, t) ==
    [size |-> s + 1,
     slot |-> [k \in 1 .. (IF s < Len(l.slot) THEN Len(l.slot) ELSE s + 1) |->
                  IF k = s + 1 THEN t ELSE Elem(l, k - 1)]]

\* remove(i) by a thread that read size s: shift i+1 .. s-1 down, clear s-1.
Shifted(l, s, i) ==
    [size |-> s - 1,
     slot |-> [k \in 1 .. Len(l.slot) |->
                  IF k = s THEN NoTask
                  ELSE Elem(l, IF i < k /\ k < s THEN k ELSE k - 1)]]

----------------------------------------------------------------------------
Outside == {"idle", "new", "doRun", "terminated"}

StartNext == {"isEmpty", "get", "remove", "shift", "add", "store", "start"}

Inside(th) == pc[th] \notin Outside

Queued == Elems(queue)

Running == {t \in Tasks : pc[t] = "doRun"}

Init ==
    /\ active = EmptyList
    /\ queue = EmptyList
    /\ pc = [th \in Threads |-> IF th = Main THEN "idle" ELSE "new"]
    /\ local = [th \in Threads |-> NoTask]
    /\ seen = [th \in Threads |-> 0]
    /\ pushed = {}
    /\ crashed = FALSE
    /\ overlapped = FALSE

At(th, label) == ~crashed /\ pc[th] = label

Goto(th, label) == pc' = [pc EXCEPT ![th] = label]

\* startNext returns to push in the main thread, to the end of run in a task.
Return(th) == IF th = Main THEN "idle" ELSE "terminated"

Enter(th) ==
    overlapped' = (overlapped \/ \E other \in Threads \ {th} : Inside(other))

Crash ==
    /\ crashed' = TRUE
    /\ UNCHANGED <<active, queue, pc, local, seen, pushed, overlapped>>

----------------------------------------------------------------------------
(* push, in the main thread *)

Push(t) ==
    /\ At(Main, "idle")
    /\ t \notin pushed
    /\ pushed' = pushed \cup {t}
    /\ local' = [local EXCEPT ![Main] = t]
    /\ seen' = [seen EXCEPT ![Main] = queue.size]
    /\ Goto(Main, "queueAdd")
    /\ Enter(Main)
    /\ UNCHANGED <<active, queue, crashed>>

QueueAdd ==
    /\ At(Main, "queueAdd")
    /\ queue' = Stored(queue, seen[Main], local[Main])
    /\ Goto(Main, "test")
    /\ UNCHANGED <<active, local, seen, pushed, crashed, overlapped>>

\* Mutant: active.size() <= MAX_CONNECTIONS.
TestSizeInclusive ==
    /\ At(Main, "test")
    /\ Goto(Main, IF active.size <= MAX_CONNECTIONS THEN "isEmpty" ELSE "idle")
    /\ UNCHANGED <<active, queue, local, seen, pushed, crashed, overlapped>>

TestSize ==
    /\ At(Main, "test")
    /\ Goto(Main, IF active.size < MAX_CONNECTIONS THEN "isEmpty" ELSE "idle")
    /\ UNCHANGED <<active, queue, local, seen, pushed, crashed, overlapped>>

----------------------------------------------------------------------------
(* run and didComplete, in the thread of a task *)

\* doRun returned or threw: didComplete starts with active.remove(task).
Finish(t) ==
    /\ At(t, "doRun")
    /\ seen' = [seen EXCEPT ![t] = active.size]
    /\ Goto(t, "complete")
    /\ Enter(t)
    /\ UNCHANGED <<active, queue, local, pushed, crashed>>

\* Mutant: didComplete forgets to call startNext.
ActiveRemoveOnly(t) ==
    /\ At(t, "complete")
    /\ \E i \in 0 .. seen[t] - 1 :
          /\ Elem(active, i) = t
          /\ active' = Shifted(active, seen[t], i)
    /\ Goto(t, Return(t))
    /\ UNCHANGED <<queue, local, seen, pushed, crashed, overlapped>>

ActiveRemove(t) ==
    /\ At(t, "complete")
    /\ \/ \E i \in 0 .. seen[t] - 1 :
             /\ Elem(active, i) = t
             /\ \A j \in 0 .. i - 1 : Elem(active, j) # t
             /\ active' = Shifted(active, seen[t], i)
       \/ /\ \A i \in 0 .. seen[t] - 1 : Elem(active, i) # t
          /\ UNCHANGED active
    /\ Goto(t, "isEmpty")
    /\ UNCHANGED <<queue, local, seen, pushed, crashed, overlapped>>

----------------------------------------------------------------------------
(* startNext, in either *)

IsEmpty(th) ==
    /\ At(th, "isEmpty")
    /\ Goto(th, IF queue.size = 0 THEN Return(th) ELSE "get")
    /\ UNCHANGED <<active, queue, local, seen, pushed, crashed, overlapped>>

\* Mutant: startNext takes the newest task.
QueueGetLast(th) ==
    /\ At(th, "get")
    /\ queue.size > 0
    /\ local' = [local EXCEPT ![th] = Elem(queue, queue.size - 1)]
    /\ Goto(th, "remove")
    /\ UNCHANGED <<active, queue, seen, pushed, crashed, overlapped>>

QueueGet(th) ==
    /\ At(th, "get")
    /\ queue.size > 0
    /\ local' = [local EXCEPT ![th] = Elem(queue, 0)]
    /\ Goto(th, "remove")
    /\ UNCHANGED <<active, queue, seen, pushed, crashed, overlapped>>

\* Mutant: the removal does not check that the list still has a task.
QueueRemoveUnchecked(th) ==
    /\ At(th, "remove")
    /\ seen' = [seen EXCEPT ![th] = queue.size]
    /\ Goto(th, "shift")
    /\ UNCHANGED <<active, queue, local, pushed, crashed, overlapped>>

QueueRemove(th) ==
    /\ At(th, "remove")
    /\ queue.size > 0
    /\ seen' = [seen EXCEPT ![th] = queue.size]
    /\ Goto(th, "shift")
    /\ UNCHANGED <<active, queue, local, pushed, crashed, overlapped>>

\* get(0) or remove(0) on a list another thread has emptied meanwhile.
IndexOutOfBounds(th) ==
    /\ At(th, "get") \/ At(th, "remove")
    /\ queue.size = 0
    /\ Crash

\* Mutant: the last task is removed instead of the one that was taken.
QueueShiftLast(th) ==
    /\ At(th, "shift")
    /\ queue' = Shifted(queue, seen[th], seen[th] - 1)
    /\ Goto(th, "add")
    /\ UNCHANGED <<active, local, seen, pushed, crashed, overlapped>>

QueueShift(th) ==
    /\ At(th, "shift")
    /\ queue' = Shifted(queue, seen[th], 0)
    /\ Goto(th, "add")
    /\ UNCHANGED <<active, local, seen, pushed, crashed, overlapped>>

ActiveAdd(th) ==
    /\ At(th, "add")
    /\ seen' = [seen EXCEPT ![th] = active.size]
    /\ Goto(th, "store")
    /\ UNCHANGED <<active, queue, local, pushed, crashed, overlapped>>

ActiveStore(th) ==
    /\ At(th, "store")
    /\ active' = Stored(active, seen[th], local[th])
    /\ Goto(th, "start")
    /\ UNCHANGED <<queue, local, seen, pushed, crashed, overlapped>>

Startable(t) == t \in Tasks /\ pc[t] = "new"

Start(th) ==
    /\ At(th, "start")
    /\ Startable(local[th])
    /\ pc' = [pc EXCEPT ![th] = Return(th), ![local[th]] = "doRun"]
    /\ UNCHANGED <<active, queue, local, seen, pushed, crashed, overlapped>>

\* next is null, or a thread that was started before.
StartThrows(th) ==
    /\ At(th, "start")
    /\ ~Startable(local[th])
    /\ Crash

----------------------------------------------------------------------------
StartNextStep(th) ==
    \/ IsEmpty(th) \/ QueueGet(th) \/ QueueRemove(th) \/ IndexOutOfBounds(th)
    \/ QueueShift(th) \/ ActiveAdd(th) \/ ActiveStore(th)
    \/ Start(th) \/ StartThrows(th)

\* The steps inside the manager, which no thread is blocked in.
MainStep == QueueAdd \/ TestSize \/ StartNextStep(Main)

TaskStep(t) == ActiveRemove(t) \/ StartNextStep(t)

Next ==
    \/ MainStep
    \/ \E t \in Tasks : Push(t) \/ Finish(t) \/ TaskStep(t)

Spec == Init /\ [][Next]_vars

\* A thread inside the manager keeps running, and doRun ends unless it may hang.
FairSpec ==
    /\ Spec
    /\ WF_vars(MainStep)
    /\ \A t \in Tasks : WF_vars(TaskStep(t))
    /\ \A t \in Tasks \ MayHang : WF_vars(Finish(t))

\* The executions in which no two calls of the manager happen to overlap.
Serial(A) == A /\ ~overlapped'

SerialSpec ==
    /\ Init
    /\ [][Serial(Next)]_vars
    /\ WF_vars(Serial(MainStep))
    /\ \A t \in Tasks : WF_vars(Serial(TaskStep(t)))
    /\ \A t \in Tasks \ MayHang : WF_vars(Serial(Finish(t)))

----------------------------------------------------------------------------
TypeOK ==
    /\ active \in List
    /\ queue \in List
    /\ pc \in [Threads -> Outside \cup StartNext
                            \cup {"queueAdd", "test", "complete"}]
    /\ local \in [Threads -> Tasks \cup {NoTask}]
    /\ seen \in [Threads -> Nat]
    /\ pushed \subseteq Tasks
    /\ crashed \in BOOLEAN
    /\ overlapped \in BOOLEAN

\* A task a thread has in hand between taking it over and starting it.
Held(t) ==
    \E th \in Threads :
        /\ pc[th] \in {"queueAdd", "add", "store", "start"}
        /\ local[th] = t

\* MAX_CONNECTIONS (ConnectionManager.java): at most that many tasks run doRun.
AtMostMaxConnections == \A a, b \in Running : a = b

\* Until two calls of the manager overlap, nothing throws and push and
\* didComplete keep at most MAX_CONNECTIONS tasks running and listed.
SerialSafe ==
    ~overlapped => /\ ~crashed
                   /\ active.size <= MAX_CONNECTIONS
                   /\ AtMostMaxConnections

\* Until two calls overlap, push and startNext lose no task: one that was
\* pushed and has not started is queued or in the hands of a thread.
SerialKeepsTasks ==
    ~overlapped => \A t \in pushed : pc[t] = "new" => t \in Queued \/ Held(t)

\* Until two calls overlap, no wakeup is lost: with tasks queued and no thread
\* inside the manager, a task is running whose didComplete starts the next.
SerialWakeup ==
    ~overlapped /\ queue.size > 0 /\ (\A th \in Threads : ~Inside(th))
        => Running # {}

\* Every request handed to push is sent: its task runs, unless the process
\* dies or a task that may hang holds the connection.
EveryRequestRuns ==
    \A t \in Tasks :
        t \in pushed ~> \/ pc[t] # "new"
                        \/ crashed
                        \/ \E h \in MayHang : pc[h] = "doRun"

----------------------------------------------------------------------------
(* The inductive strengthening of the Serial... invariants, by parts. *)

QueueIndex == 0 .. queue.size - 1

OneInside == \A a, b \in Threads : Inside(a) /\ Inside(b) => a = b

\* The queue lists pushed, unstarted tasks, each once.
QueueCoherent ==
    /\ \A i \in QueueIndex : /\ Elem(queue, i) \in pushed
                             /\ pc[Elem(queue, i)] = "new"
    /\ \A i, j \in QueueIndex : Elem(queue, i) = Elem(queue, j) => i = j

\* active holds exactly the task that runs or is about to.
ActiveCoherent ==
    /\ active.size \in {0, 1}
    /\ \A th \in Threads :
          /\ pc[th] \in StartNext \ {"start"} => active.size = 0
          /\ pc[th] = "start" => active.size = 1
    /\ \A t \in Tasks :
          /\ pc[t] \in {"doRun", "complete"} =>
                active.size = 1 /\ Elem(active, 0) = t
          /\ t \notin pushed => pc[t] = "new"
    /\ active.size = 1 => \/ \E t \in Tasks : pc[t] \in {"doRun", "complete"}
                          \/ \E th \in Threads : pc[th] = "start"

\* What a thread inside the manager remembers is still so.
LocalsFresh ==
    \A th \in Threads :
        /\ pc[th] \in {"get", "remove", "shift"} => queue.size > 0
        /\ pc[th] \in {"remove", "shift"} => local[th] = Elem(queue, 0)
        /\ pc[th] \in {"queueAdd", "shift"} => seen[th] = queue.size
        /\ pc[th] = "store" => seen[th] = 0
        /\ pc[th] = "complete" => th \in Tasks /\ seen[th] = 1
        /\ pc[th] = "start" => Elem(active, 0) = local[th]
        /\ pc[th] \in {"queueAdd", "add", "store", "start"} =>
              /\ local[th] \in pushed
              /\ pc[local[th]] = "new"
              /\ \A i \in QueueIndex : Elem(queue, i) # local[th]

NothingLost ==
    \A t \in pushed :
        pc[t] = "new" => (\E i \in QueueIndex : Elem(queue, i) = t) \/ Held(t)

Awake ==
    queue.size > 0 /\ (\A th \in Threads : ~Inside(th)) => active.size = 1

Coherent ==
    /\ ~crashed
    /\ OneInside
    /\ QueueCoherent
    /\ ActiveCoherent
    /\ LocalsFresh
    /\ NothingLost
    /\ Awake

SerialInv == ~overlapped => Coherent

\* remove(0) shifts only after it has seen a non-empty list.
ShiftSeesTask == \A th \in Threads : pc[th] = "shift" => seen[th] > 0

IInv == TypeOK /\ ShiftSeesTask /\ SerialInv

----------------------------------------------------------------------------
(* What the manager promises: TaskQueue, a first-come first-served queue with *)
(* MAX_CONNECTIONS servers.  The task startNext has taken from the list but   *)
(* not yet started still waits, ahead of the list.                            *)

TakenNext ==
    {local[th] : th \in {o \in Threads : pc[o] \in {"add", "store", "start"}}}

Waiting ==
    (IF TakenNext = {} THEN << >> ELSE <<CHOOSE t \in TakenNext : TRUE>>)
        \o [k \in 1 .. queue.size |-> Elem(queue, k - 1)]

Promise ==
    INSTANCE TaskQueue WITH
        Servers <- MAX_CONNECTIONS,
        waiting <- Waiting,
        running <- Running,
        finished <- {t \in Tasks : pc[t] \in {"complete", "terminated"}
                        \/ (pc[t] \in StartNext)}

\* Executions without overlapping calls implement the first-come first-served
\* queue: order, the limit of connections, and (with its fairness) that a
\* waiting task starts as soon as a connection ends.
ImplementsTaskQueue == Promise!Spec
=============================================================================
