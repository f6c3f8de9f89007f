------------------------------ MODULE MCMoberg ------------------------------
(***************************************************************************)
(* Instances of Moberg for TLC.                                            *)
(***************************************************************************)
EXTENDS MobergInductive, TLC

\* Addresses are interchangeable: nothing orders devices, channels or clients.
Addresses == Permutations(Device) \cup Permutations(Channel) \cup Permutations(Client)
=============================================================================
