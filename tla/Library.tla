------------------------------ MODULE Library ------------------------------
(***************************************************************************)
(* The library as the language bindings see it: structs moberg that are    *)
(* made, opened and closed through, and asked to go.  A call is one step:  *)
(* Moberg has what happens inside.                                         *)
(***************************************************************************)
EXTENDS Integers, FiniteSets, FiniteSetsExt, Functions

CONSTANTS
    NULL,
    Channel,    \* kind and index of the configured channels
    Struct      \* addresses of struct moberg, as many as a fault could need

ASSUME StructAssumption == Struct \subseteq Nat /\ NULL \notin Struct
ASSUME BindingChannelAssumption == IsFiniteSet(Channel) /\ NULL \notin Channel

\* What a struct holds: opens counts the opens of a channel less its closes, so
\* that open_channels is their sum.
Moberg == [alive : BOOLEAN, should_free : BOOLEAN, opens : [Channel -> Int]]

NoMoberg == [alive |-> FALSE, should_free |-> FALSE, opens |-> [c \in Channel |-> 0]]

Alive(structs) == {s \in Struct : structs[s].alive}

moberg_new(structs, s) == [structs EXCEPT ![s] = [NoMoberg EXCEPT !.alive = TRUE]]

\* Seeded fault: the struct goes at once.
free_if_unused_at_once(m) == IF m.should_free THEN NoMoberg ELSE m

free_if_unused(m) == IF m.should_free /\ SumFunction(m.opens) = 0 THEN NoMoberg ELSE m

moberg_free(structs, s) ==
    IF s = NULL THEN structs
    ELSE [structs EXCEPT ![s] = free_if_unused([@ EXCEPT !.should_free = TRUE])]

moberg_open(structs, s, c) == [structs EXCEPT ![s].opens[c] = @ + 1]

moberg_close(structs, s, c) ==
    LET closed == [structs[s] EXCEPT !.opens[c] = @ - 1]
    IN  [structs EXCEPT ![s] = free_if_unused(closed)]
=============================================================================
