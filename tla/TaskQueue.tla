----------------------------- MODULE TaskQueue -----------------------------
(***************************************************************************)
(* What the services expect of the connection manager: tasks wait in the    *)
(* order they were pushed, at most Servers of them run, a waiting task is   *)
(* started whenever a server is free, and a task that ends never returns.   *)
(***************************************************************************)
EXTENDS Naturals, Sequences, FiniteSets

CONSTANTS
    Tasks,      \* the requests
    Servers,    \* how many may run at a time
    MayHang     \* the tasks whose end is not promised

VARIABLES waiting, running, finished

taskVars == <<waiting, running, finished>>

Known == {waiting[k] : k \in 1 .. Len(waiting)} \cup running \cup finished

Init ==
    /\ waiting = << >>
    /\ running = {}
    /\ finished = {}

Arrive(t) ==
    /\ t \notin Known
    /\ waiting' = Append(waiting, t)
    /\ UNCHANGED <<running, finished>>

StartHead ==
    /\ waiting # << >>
    /\ Cardinality(running) < Servers
    /\ running' = running \cup {Head(waiting)}
    /\ waiting' = Tail(waiting)
    /\ UNCHANGED finished

End(t) ==
    /\ t \in running
    /\ running' = running \ {t}
    /\ finished' = finished \cup {t}
    /\ UNCHANGED waiting

Next ==
    \/ StartHead
    \/ \E t \in Tasks : Arrive(t) \/ End(t)

Spec ==
    /\ Init
    /\ [][Next]_taskVars
    /\ WF_taskVars(StartHead)
    /\ \A t \in Tasks \ MayHang : WF_taskVars(End(t))
============================================================================
