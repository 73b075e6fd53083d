------------------------------- MODULE MCApproval -------------------------------
(* Small instances of Approval: interchangeable actors a1 to a3, each of     *)
(* whom may ask and may hold the seat, and interchangeable calls c1 and c2.  *)
EXTENDS Approval, TLC

CONSTANTS a1, a2, a3, c1, c2

Interchangeable == Permutations(Actor) \cup Permutations(Call)
=================================================================================
