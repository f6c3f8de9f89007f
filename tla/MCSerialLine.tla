---------------------------- MODULE MCSerialLine ----------------------------
(***************************************************************************)
(* Instances of SerialLine for TLC.                                        *)
(***************************************************************************)
EXTENDS SerialLine

\* On both sides of every length boundary; index 30 ends in the event character.
MCData ==
    {Message("digital", 30, 1)} \cup
    {Message("channel", 30, v) : v \in {2, 511, 512, 65535, 65536, 8388607, 8388608,
                                        1073741823, 1073741824, 2147483646}}
=============================================================================
