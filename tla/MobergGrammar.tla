---------------------------- MODULE MobergGrammar ---------------------------
(***************************************************************************)
(* The language of configuration files, as a grammar: what the parser of   *)
(* MobergParser and the drivers' parts of it are meant to accept.          *)
(*                                                                         *)
(* A sentence is followed token by token: Rests is the set of what may     *)
(* come after the tokens so far, each a sequence of symbols.               *)
(***************************************************************************)
EXTENDS Naturals, Sequences

Kinds == <<"analog_in", "analog_out", "digital_in", "digital_out", "encoder_in">>

Drivers == {"libtest", "serial2002", "comedi"}

\* In an order: an identifier that abbreviates several of those that may come is
\* the first of them ("b" is baud, "analog" is analog_in).
KeywordOrder == Kinds \o
    <<"driver", "config", "map",
      "device", "baud", "timeout", "s", "ms", "us", "batch_sampling",
      "modprobe", "subdevice", "route">>

Keywords == {KeywordOrder[i] : i \in DOMAIN KeywordOrder}

\* Those that come first among some keywords, one unless there are none.
Foremost(keywords) ==
    {KeywordOrder[i] : i \in {j \in DOMAIN KeywordOrder :
        /\ KeywordOrder[j] \in keywords
        /\ \A h \in 1..(j - 1) : KeywordOrder[h] \notin keywords}}

\* Token kinds that are tested for as such (moberg_module.h).
Symbols == {"EOF", "(", ")", "{", "}", "[", "]", "=", ",", ":", ";",
            "INTEGER", "IDENT", "STRING"}

Terminals == Symbols \cup Keywords

\* What a block of driver d consists of.
Productions(d) ==
    [File       |-> {<<"EOF">>, <<"driver", "(", "IDENT", ")", "{", "Statements", "File">>},
     Statements |-> {<<"}">>, <<"config", "{", "Settings", "Statements">>,
                     <<"map", "Kind", "Range", "=", "Target", ";", "Statements">>},
     Kind       |-> {<<Kinds[i]>> : i \in DOMAIN Kinds},
     Range      |-> {<<"[", "INTEGER", "]">>, <<"[", "INTEGER", ":", "INTEGER", "]">>},
     Settings   |-> {<<"}">>} \cup
                    CASE d = "serial2002" ->
                            {<<"device", "=", "STRING", ";", "Settings">>,
                             <<"baud", "=", "INTEGER", ";", "Settings">>,
                             <<"timeout", "=", "INTEGER", "Unit", ";", "Settings">>,
                             <<"batch_sampling", ";", "Settings">>}
                      [] d = "comedi" ->
                            {<<"device", "=", "STRING", ";", "Settings">>,
                             <<"config", "=", "[", "Names", ";", "Settings">>,
                             <<"modprobe", "=", "[", "Names", ";", "Settings">>}
                      [] OTHER -> {},
     Unit       |-> {<< >>, <<"s">>, <<"ms">>, <<"us">>},
     Names      |-> {<<"]">>, <<"IDENT", "Names">>, <<"STRING", "Names">>},
     Target     |-> IF d = "comedi" THEN {<<"{", "Parts", "}">>} ELSE {<<"Kind", "Range">>},
     Parts      |-> {<<"Part">>, <<"Part", ",", "Parts">>},
     Part       |-> {<<"subdevice", "[", "INTEGER", "]", "Range">>,
                     <<"subdevice", "[", "INTEGER", "]", "route", "INTEGER", "Range">>}]

\* The rests rest stands for that begin with a terminal, or are empty.
RECURSIVE Expanded(_, _)
Expanded(d, rest) ==
    IF rest = << >> \/ rest[1] \in Terminals
    THEN {rest}
    ELSE UNION {Expanded(d, p \o Tail(rest)) : p \in Productions(d)[rest[1]]}

ExpandedAll(d, rests) == UNION {Expanded(d, rest) : rest \in rests}

\* The terminals that may come next.
Following(d, rests) == {rest[1] : rest \in ExpandedAll(d, rests) \ {<< >>}}

\* What may come after a token that is one of the terminals in matched.
After(d, rests, matched) ==
    {Tail(rest) : rest \in {r \in ExpandedAll(d, rests) \ {<< >>} : r[1] \in matched}}
=============================================================================
