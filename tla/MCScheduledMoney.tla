--------------------------- MODULE MCScheduledMoney ---------------------------
(* Instances of ScheduledMoney for TLC.                                    *)
EXTENDS ScheduledMoney, TLC

(* Every day and posted by the server; every second day, in a time zone    *)
(* whose date is ahead; every day and posted by hand.                      *)
Daily     == [start |-> 1, dates |-> Dates, auto |-> TRUE, zone |-> 0]
Ahead     == [start |-> 2, dates |-> {d \in Dates : d % 2 = 0}, auto |-> TRUE, zone |-> 1]
ByHand    == [start |-> 1, dates |-> Dates, auto |-> FALSE, zone |-> 0]

(* On two days only, to be posted by the server or by hand.                *)
Twice(auto) == [start |-> 1, dates |-> {1, 2}, auto |-> auto, zone |-> 0]

EditDefs    == {Daily, Ahead}
LiveDefs    == {Twice(TRUE), Twice(FALSE)}
ByHandDefs  == {ByHand}

Replicas == Permutations(Workers)
==============================================================================
