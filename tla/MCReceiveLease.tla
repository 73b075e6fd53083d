---------------------------- MODULE MCReceiveLease ----------------------------
(* Small instances of ReceiveLease: calls h1 and h2, parks k1 and k2.        *)
EXTENDS ReceiveLease, TLC

CONSTANTS h1, h2, k1, k2

\* Neither a call nor a key of a park is ever told from another by its name.
Interchangeable == Permutations(Call) \cup Permutations(Key)
===============================================================================
