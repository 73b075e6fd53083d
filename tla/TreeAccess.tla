------------------------------ MODULE TreeAccess ------------------------------
(***************************************************************************)
(* What the branch-transition barrier promises, without rows, liveness or  *)
(* clocks: mutations of one git work tree run together, a switch runs      *)
(* alone, and it moves HEAD only over a tree that is clean then and there. *)
(***************************************************************************)
CONSTANTS Actor,     \* whoever may change the tree
          Switcher,  \* those of them that may switch its branch
          Elsewhere  \* a branch no switch asked for

VARIABLES mutating,   \* actors whose governed mutation is running
          switching,  \* the actor, if any, between drain and receipt
          dirty, head

vars == <<mutating, switching, dirty, head>>

Init == /\ mutating = {} /\ switching = {}
        /\ dirty \in BOOLEAN /\ head = Elsewhere

Begin(a) == /\ switching = {}
            /\ mutating' = mutating \cup {a}
            /\ UNCHANGED <<switching, dirty, head>>

\* Mutations end, one or (their process dies) several at once; a switch that
\* dies with them ends too.
End == /\ mutating' \subseteq mutating
       /\ switching' \subseteq switching
       /\ UNCHANGED <<dirty, head>>

Mutate(a) == /\ a \in mutating
             /\ dirty' \in BOOLEAN /\ head' \in {head, Elsewhere}
             /\ UNCHANGED <<mutating, switching>>

\* A switch starts when every mutation but its own dispatch has ended.
StartSwitch(a) == /\ switching = {} /\ mutating \subseteq {a}
                  /\ switching' = {a} /\ mutating' = {}
                  /\ UNCHANGED <<dirty, head>>

Move(a) == /\ a \in switching /\ ~dirty
           /\ head' = a
           /\ UNCHANGED <<mutating, switching, dirty>>

\* The switch is over; its own dispatch may go on.
EndSwitch(a) == /\ a \in switching
                /\ switching' = {}
                /\ mutating' \in {mutating, mutating \cup {a}}
                /\ UNCHANGED <<dirty, head>>

Next == \/ End
        \/ \E a \in Actor : Begin(a) \/ Mutate(a)
        \/ \E a \in Switcher : StartSwitch(a) \/ Move(a) \/ EndSwitch(a)

Spec == Init /\ [][Next]_vars
=============================================================================
