--------------------------- MODULE MCBacklogCutover --------------------------
(* Small instances of BacklogCutover: intents 1..N of item t1, drainer d1.   *)
EXTENDS BacklogCutover

CONSTANTS d1, t1

OneItem == [i \in Intent |-> t1]
Fresh == [t \in Item |-> 0]
==============================================================================
