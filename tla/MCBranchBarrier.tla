--------------------------- MODULE MCBranchBarrier ---------------------------
(* Small instances of BranchBarrier: invocations c1..c3 in processes p1, p2, *)
(* native tool runs n1, n2.  The .cfg files pick one layout each.            *)
EXTENDS BranchBarrier, TLC

CONSTANTS p1, p2, c1, c2, c3, n1, n2, k1, k2, m1, m2

One == [c \in Call |-> p1]
Two == c1 :> p1 @@ c2 :> p2
OneMachine == p1 :> m1 @@ p2 :> m1
TwoMachines == p1 :> m1 @@ p2 :> m2
NativeOnM1 == [n \in Native |-> m1]
SharedKey == [n \in Native |-> k1]
==============================================================================
