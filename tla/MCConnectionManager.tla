----------------------- MODULE MCConnectionManager -----------------------
(* Three requests from the main thread; every interleaving of the calls.   *)
EXTENDS ConnectionManager

CONSTANTS t1, t2, t3, t4

ThreeTasks == {t1, t2, t3}

FourTasks == {t1, t2, t3, t4}

HangingTask == {t2}
===========================================================================
