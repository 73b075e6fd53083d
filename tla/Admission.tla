------------------------------- MODULE Admission -------------------------------
(***************************************************************************)
(* What the approval of backlog items promises, without seats, messages,   *)
(* calls or clocks: a request is ruled on once, or withdrawn or too old,   *)
(* only one is open at a time, nothing enters the ledger but under a       *)
(* request that stands approved, and the first row recorded for it stays.  *)
(***************************************************************************)
EXTENDS Naturals

CONSTANTS Approval, BacklogRow

VARIABLES standing,   \* [Approval -> its state]
          admitted,   \* [Approval -> the rows that entered the ledger under it]
          spent       \* [Approval -> the row it is recorded to have produced, or 0]

vars == <<standing, admitted, spent>>

Pending == {a \in Approval : standing[a] = "pending"}

Init == /\ standing = [a \in Approval |-> "none"]
        /\ admitted = [a \in Approval |-> {}]
        /\ spent = [a \in Approval |-> 0]

Request(a) == /\ standing[a] = "none" /\ Pending = {}
              /\ standing' = [standing EXCEPT ![a] = "pending"]
              /\ UNCHANGED <<admitted, spent>>

\* A pending request ends: ruled on, too old, or withdrawn by who made it.
End(a) == /\ a \in Pending
          /\ standing'[a] \in {"approved", "rejected", "expired", "withdrawn"}
          /\ standing' = [standing EXCEPT ![a] = standing'[a]]
          /\ UNCHANGED <<admitted, spent>>

Admit(a) == /\ standing[a] = "approved"
            /\ \E n \in BacklogRow \ UNION {admitted[b] : b \in Approval} :
                  admitted' = [admitted EXCEPT ![a] = @ \cup {n}]
            /\ UNCHANGED <<standing, spent>>

Spend(a) == /\ spent[a] = 0
            /\ \E n \in admitted[a] : spent' = [spent EXCEPT ![a] = n]
            /\ UNCHANGED <<standing, admitted>>

Next == \E a \in Approval : Request(a) \/ End(a) \/ Admit(a) \/ Spend(a)

Spec == Init /\ [][Next]_vars
================================================================================
