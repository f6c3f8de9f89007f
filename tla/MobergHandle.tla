---------------------------- MODULE MobergHandle ----------------------------
(***************************************************************************)
(* What a struct moberg promises its clients, whatever happens inside:     *)
(* moberg_new makes a fixed set of slots available; a client that opened   *)
(* one keeps it until it closes it, even after moberg_free; and the struct *)
(* is reclaimed once it has been asked for and nobody has a slot open.     *)
(***************************************************************************)
CONSTANTS Client, Slot, NULL

VARIABLES
    state,      \* "loading", "usable", "reclaiming" or "gone"
    available,  \* the slots that can be opened
    opened,     \* per client: the slot it has open, or NULL
    asked       \* whether moberg_free has been called

vars == <<state, available, opened, asked>>

NobodyHasOpen == \A cl \in Client : opened[cl] = NULL

Init ==
    /\ state = "loading"
    /\ available = {}
    /\ opened = [cl \in Client |-> NULL]
    /\ asked = FALSE

Ready ==
    /\ state = "loading"
    /\ state' = "usable"
    /\ available' \in SUBSET Slot
    /\ UNCHANGED <<opened, asked>>

Open(cl, s) ==
    /\ state = "usable"
    /\ opened[cl] = NULL /\ s \in available
    /\ opened' = [opened EXCEPT ![cl] = s]
    /\ UNCHANGED <<state, available, asked>>

\* The last one out, once asked, starts the reclaiming.
Leave ==
    IF asked' /\ NobodyHasOpen'
    THEN state' = "reclaiming" /\ available' = {}
    ELSE UNCHANGED <<state, available>>

Close(cl) ==
    /\ state = "usable"
    /\ opened[cl] # NULL
    /\ opened' = [opened EXCEPT ![cl] = NULL]
    /\ UNCHANGED asked
    /\ Leave

Free ==
    /\ state = "usable"
    /\ asked' = TRUE
    /\ UNCHANGED opened
    /\ Leave

Reclaim ==
    /\ state = "reclaiming"
    /\ state' = "gone"
    /\ UNCHANGED <<available, opened, asked>>

Next ==
    \/ Ready \/ Free \/ Reclaim
    \/ \E cl \in Client : Close(cl) \/ \E s \in Slot : Open(cl, s)

\* What may happen, and what has to.
Safety == Init /\ [][Next]_vars
Spec == Safety /\ WF_vars(Ready) /\ WF_vars(Reclaim)
=============================================================================
