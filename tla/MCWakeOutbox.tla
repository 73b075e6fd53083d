----------------------------- MODULE MCWakeOutbox -----------------------------
(* Small instances of WakeOutbox. *)
EXTENDS WakeOutbox, TLC

CONSTANTS b1, s1, s2, w1, w2, r1

OneChat == [s \in Sub |-> b1]
Symmetric == Permutations(Worker)

===============================================================================
