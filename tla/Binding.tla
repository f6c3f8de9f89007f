------------------------------ MODULE Binding ------------------------------
(***************************************************************************)
(* What the Java and the Simulink binding share: a global count of uses of *)
(* one struct moberg, made by the first use and given up by the last one   *)
(* (up and down), and the calls of the library through that struct.        *)
(*                                                                         *)
(* A Struct is an address malloc may return again after the free.          *)
(***************************************************************************)
EXTENDS Library

VARIABLE g      \* g_moberg and the structs behind it

Global == [count : Nat, moberg : Struct \cup {NULL}, structs : [Struct -> Moberg]]

EmptyGlobal == [count |-> 0, moberg |-> NULL, structs |-> [s \in Struct |-> NoMoberg]]

up(h) ==
    LET s == Min(Struct \ Alive(h.structs))
    IN  IF h.count <= 0
        THEN [h EXCEPT !.count = @ + 1, !.moberg = s, !.structs = moberg_new(@, s)]
        ELSE [h EXCEPT !.count = @ + 1]

down(h) ==
    IF h.count <= 1
    THEN [h EXCEPT !.count = @ - 1, !.moberg = NULL,
                   !.structs = moberg_free(@, h.moberg)]
    ELSE [h EXCEPT !.count = @ - 1]

opened(h, c) == [h EXCEPT !.structs = moberg_open(@, h.moberg, c)]
closed(h, c) == [h EXCEPT !.structs = moberg_close(@, h.moberg, c)]
=============================================================================
