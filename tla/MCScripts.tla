------------------------------ MODULE MCScripts ------------------------------
(***************************************************************************)
(* A Python or a Julia program with two Moberg objects and three channel   *)
(* objects on two channels.                                                *)
(***************************************************************************)
EXTENDS PythonMoberg, JuliaMoberg, TLC

VARIABLE binding    \* the language of the program

Init == ScriptInit /\ binding \in {"Python", "Julia"}

Next ==
    /\ ~stray
    /\ \/ binding = "Python" /\ PythonNext
       \/ binding = "Julia" /\ JuliaNext
    /\ UNCHANGED binding

Spec == Init /\ [][Next]_<<scriptVars, binding>>

MCStruct == 1..3

\* Nothing orders objects or channels.
Names == Permutations(Manager) \cup Permutations(Object) \cup Permutations(Channel)
=============================================================================
