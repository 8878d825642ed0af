--------------------------- MODULE LatestCommand ---------------------------
(***************************************************************************)
(* What the light screen expects of the request pump: one command is carried *)
(* out at a time, one more may wait, a newer command replaces the one that   *)
(* waits, and the end of a command starts the waiting one at once.  A        *)
(* command that has nothing to do gets stuck.                                *)
(***************************************************************************)
CONSTANTS
    Wishes,  \* what a command may ask
    NoWish   \* there is none

VARIABLES
    waiting, \* the command that waits
    active,  \* the command that is carried out
    stuck    \* it has nothing to do, and will not end

wishVars == <<waiting, active, stuck>>

Init == waiting = NoWish /\ active = NoWish /\ stuck = FALSE

Begin(w) == waiting' = NoWish /\ active' = w /\ stuck' \in BOOLEAN

Give(w) ==
    \/ /\ active = NoWish
       /\ Begin(w)
    \/ /\ active # NoWish
       /\ waiting' = w
       /\ UNCHANGED <<active, stuck>>

End ==
    /\ active # NoWish /\ ~stuck
    /\ \/ /\ waiting # NoWish
          /\ Begin(waiting)
       \/ /\ waiting = NoWish
          /\ active' = NoWish
          /\ UNCHANGED <<waiting, stuck>>

Next == End \/ \E w \in Wishes : Give(w)

Spec == Init /\ [][Next]_wishVars /\ WF_wishVars(End)
=============================================================================
