-------------------------- MODULE MCSimulinkMoberg --------------------------
(***************************************************************************)
(* Two blocks of one or two channels each, which may be the same.          *)
(***************************************************************************)
EXTENDS SimulinkMoberg, TLC

MCStruct == 1..3
MCElement == 1..6
MCInputs == UNION {[1..n -> Channel] : n \in 1..2}
=============================================================================
