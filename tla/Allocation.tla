----------------------------- MODULE Allocation -----------------------------
(***************************************************************************)
(* What IOChannel promises a Java program: a channel belongs to one object *)
(* of a class at a time (AlreadyAllocatedException), and is given to       *)
(* another one only after it was given back.                               *)
(***************************************************************************)
CONSTANTS Object, Slot, NULL

VARIABLE holder     \* per slot: the object it is allocated to, or NULL

Init == holder = [s \in Slot |-> NULL]

Allocate(o, s) ==
    /\ holder[s] = NULL
    /\ \A t \in Slot : holder[t] # o
    /\ holder' = [holder EXCEPT ![s] = o]

Deallocate(s) ==
    /\ holder[s] # NULL
    /\ holder' = [holder EXCEPT ![s] = NULL]

Next == \E s \in Slot : Deallocate(s) \/ \E o \in Object : Allocate(o, s)

Spec == Init /\ [][Next]_holder
=============================================================================
