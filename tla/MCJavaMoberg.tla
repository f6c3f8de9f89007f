---------------------------- MODULE MCJavaMoberg ----------------------------
(***************************************************************************)
(* Four objects of two classes on two channels, one program thread and the *)
(* collector.                                                              *)
(***************************************************************************)
EXTENDS JavaMoberg, TLC

MCStruct == 1..3

\* Nothing orders objects, classes or channels.
Names == Permutations(Object) \cup Permutations(Class) \cup Permutations(Channel)
=============================================================================
