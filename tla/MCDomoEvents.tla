---------------------------- MODULE MCDomoEvents ----------------------------
(* Two power events at different times of the day and one light event.       *)
EXTENDS DomoEvents

Morning == [type |-> "power", tod |-> 1, action |-> TRUE, socket |-> 1]
Evening == [type |-> "power", tod |-> 2, action |-> FALSE, socket |-> 2]
Lights  == [type |-> "light", tod |-> 1, action |-> TRUE, socket |-> 0]

SomeEvents == {Morning, Evening, Lights}
=============================================================================
