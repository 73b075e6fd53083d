--------------------------- MODULE MCBacklogOutbox ---------------------------
(* Small instances of BacklogOutbox: intents 1..N of items t1, t2, drained   *)
(* by d1 and d2, interchangeable.  The .cfg files pick one layout each.      *)
EXTENDS BacklogOutbox, TLC

CONSTANTS d1, d2, t1, t2

OneItem == [i \in Intent |-> t1]
TwoItems == [i \in Intent |-> IF i = 2 THEN t2 ELSE t1]
Existing == [t \in Item |-> 1]
Fresh == [t \in Item |-> 0]
Interchangeable == Permutations({d1, d2})
==============================================================================
