---------------------------- MODULE MobergParser ----------------------------
(***************************************************************************)
(* The parser of configuration files (moberg_parser.c) and the parts of it *)
(* in the drivers (parse_config and parse_map of libtest, serial2002 and   *)
(* comedi): recursive descent without recursion, that looks one token      *)
(* ahead and collects what it would have accepted for its error message.   *)
(*                                                                         *)
(* The functions are control flow between accepts: a block of code accepts *)
(* some symbols in turn, each a syntax error when it is not there, then    *)
(* tests for alternatives and goes on where the first that is there leads. *)
(* The text is any sequence of tokens, one chosen each time the scanner    *)
(* (nextsym) is called; characters, integers' values and the contents of   *)
(* strings are left out.                                                   *)
(***************************************************************************)
EXTENDS MobergGrammar, TLC

CONSTANTS
    OtherWords      \* identifiers in the text that are no keywords

MAX_EXPECTED == 10

Token == [kind : Symbols \ {"IDENT"}, word : {""}]
            \cup [kind : {"IDENT"}, word : Keywords \cup Drivers \cup OtherWords]

VARIABLES
    token,          \* c->token, the one looked at
    expected,       \* c->expected.what
    block, accepted, tried,     \* the code that runs, its accepts and tests passed
    driver,         \* of the block that is parsed, or the name as it was read
    result,         \* "parsing", "OK", "EINVAL" or "ENOMEM"
    rests           \* history: what the grammar allows after the tokens accepted

position == <<block, accepted, tried>>
vars == <<token, expected, position, driver, result, rests>>

-----------------------------------------------------------------------------
(* The code *)

Block(symbols, tests, otherwise) ==
    [symbols |-> symbols, tests |-> tests, otherwise |-> otherwise]

Test(terminal, next) == [terminal |-> terminal, next |-> next]

KindTests(next) == [i \in DOMAIN Kinds |-> Test(Kinds[i], next)]

Ranges(name, last, next) ==
    name             :> Block(<<"[", "INTEGER">>, <<Test(":", name \o ":")>>, name \o "]")
    @@ (name \o ":") :> Block(<<"INTEGER">>, << >>, name \o "]")
    @@ (name \o "]") :> Block(last, << >>, next)

parse ==
    "parse"   :> Block(<< >>, <<Test("EOF", "done"), Test("driver", "name")>>, "syntax_err")
    @@ "name" :> Block(<<"(", "IDENT", ")">>, << >>, "device_new")

parse_device ==
    "device"  :> Block(<<"{">>, << >>, "body")
    @@ "body" :> Block(<< >>, <<Test("config", "config"), Test("map", "map"),
                                Test("}", "parse")>>, "syntax_err")

parse_map ==
    "map"       :> Block(<< >>, KindTests("range"), "syntax_err")
    @@ Ranges("range", <<"]", "=">>, "target")
    @@ "mapped" :> Block(<<";">>, << >>, "body")

libtest_parse_config == "config" :> Block(<<"{", "}">>, << >>, "body")

libtest_parse_map ==
    "target" :> Block(<< >>, KindTests("subrange"), "syntax_err")
    @@ Ranges("subrange", <<"]">>, "mapped")

Settings(tests) ==
    "config"       :> Block(<<"{">>, << >>, "settings")
    @@ "settings"  :> Block(<< >>, <<Test("}", "body")>> \o tests, "syntax_err")
    @@ "device ="  :> Block(<<"=", "STRING", ";">>, << >>, "settings")

\* Seeded fault: batch_sampling is tested for before baud.
serial2002_parse_config_order ==
    Settings(<<Test("batch_sampling", ";"), Test("device", "device ="),
               Test("baud", "baud ="), Test("timeout", "timeout =")>>)
    @@ "baud ="    :> Block(<<"=", "INTEGER", ";">>, << >>, "settings")
    @@ "timeout =" :> Block(<<"=", "INTEGER">>,
                            <<Test("s", ";"), Test("ms", ";"), Test("us", ";")>>, ";")
    @@ ";"         :> Block(<<";">>, << >>, "settings")

serial2002_parse_config ==
    Settings(<<Test("device", "device ="), Test("baud", "baud ="),
               Test("timeout", "timeout ="), Test("batch_sampling", ";")>>)
    @@ "baud ="    :> Block(<<"=", "INTEGER", ";">>, << >>, "settings")
    @@ "timeout =" :> Block(<<"=", "INTEGER">>,
                            <<Test("s", ";"), Test("ms", ";"), Test("us", ";")>>, ";")
    @@ ";"         :> Block(<<";">>, << >>, "settings")

\* Seeded fault: what is no name is skipped over without looking further.
comedi_parse_config_stays ==
    Settings(<<Test("device", "device ="), Test("config", "list ="),
               Test("modprobe", "list =")>>)
    @@ "list =" :> Block(<<"=", "[">>, << >>, "list")
    @@ "list"   :> Block(<< >>, <<Test("]", ";"), Test("IDENT", "list"),
                                  Test("STRING", "list")>>, "list")
    @@ ";"      :> Block(<<";">>, << >>, "settings")

comedi_parse_config ==
    Settings(<<Test("device", "device ="), Test("config", "list ="),
               Test("modprobe", "list =")>>)
    @@ "list =" :> Block(<<"=", "[">>, << >>, "list")
    @@ "list"   :> Block(<< >>, <<Test("]", ";"), Test("IDENT", "list"),
                                  Test("STRING", "list")>>, "syntax_err")
    @@ ";"      :> Block(<<";">>, << >>, "settings")

\* Seeded fault: the end of the parts is looked for before each of them.
comedi_parse_map_trailing ==
    "target"   :> Block(<<"{">>, << >>, "part")
    @@ "part"  :> Block(<< >>, <<Test("}", "mapped"), Test("subdevice", "sub")>>, "syntax_err")
    @@ "sub"   :> Block(<<"[", "INTEGER", "]">>, <<Test("route", "route")>>, "lines")
    @@ "route" :> Block(<<"INTEGER">>, << >>, "lines")
    @@ Ranges("lines", <<"]">>, "parts")
    @@ "parts" :> Block(<< >>, <<Test(",", "part")>>, "end")
    @@ "end"   :> Block(<<"}">>, << >>, "mapped")

comedi_parse_map ==
    "target"   :> Block(<<"{">>, << >>, "part")
    @@ "part"  :> Block(<<"subdevice", "[", "INTEGER", "]">>,
                        <<Test("route", "route")>>, "lines")
    @@ "route" :> Block(<<"INTEGER">>, << >>, "lines")
    @@ Ranges("lines", <<"]">>, "parts")
    @@ "parts" :> Block(<< >>, <<Test(",", "part")>>, "end")
    @@ "end"   :> Block(<<"}">>, << >>, "mapped")

\* moberg_device_parse_config and moberg_device_parse_map call those of the driver.
Code ==
    parse @@ parse_device @@ parse_map
    @@ CASE driver = "serial2002" -> serial2002_parse_config @@ libtest_parse_map
         [] driver = "comedi"     -> comedi_parse_config @@ comedi_parse_map
         [] OTHER                 -> libtest_parse_config @@ libtest_parse_map

-----------------------------------------------------------------------------
(* Accepting *)

\* The identifier is compared with as many characters of the keyword as it has:
\* any abbreviation will do.
acceptkeyword(keyword, t) ==
    /\ t.kind = "IDENT"
    /\ Len(t.word) <= Len(keyword) /\ SubSeq(keyword, 1, Len(t.word)) = t.word

Matches(terminal, t) ==
    IF terminal \in Keywords THEN acceptkeyword(terminal, t) ELSE t.kind = terminal

\* What the grammar takes a token for, of what may come where it is.
Meant(t) ==
    LET possible == {terminal \in Following(driver, rests) : Matches(terminal, t)}
    IN  (possible \ Keywords) \cup Foremost(possible \cap Keywords)

Ends == {"done", "syntax_err", "device_new"}

Current == Code[block]
InSymbols == block \notin Ends /\ accepted < Len(Current.symbols)
InTests == block \notin Ends /\ ~InSymbols /\ tried < Len(Current.tests)
Wanted ==
    IF InSymbols THEN Current.symbols[accepted + 1] ELSE Current.tests[tried + 1].terminal

At(b) == block' = b /\ accepted' = 0 /\ tried' = 0

Init ==
    /\ token \in Token
    /\ expected = << >>
    /\ block = "parse" /\ accepted = 0 /\ tried = 0
    /\ driver = ""
    /\ result = "parsing"
    /\ rests = {<<"File">>}

\* Seeded fault: what the accepted token was tested for before stays in the list.
accept_keeps_expected ==
    /\ result = "parsing" /\ (InSymbols \/ InTests)
    /\ Matches(Wanted, token)
    /\ expected' = expected
    /\ rests' = After(driver, rests, Meant(token))
    /\ token' \in IF token.kind = "EOF" THEN {token} ELSE Token
    /\ driver' = IF block = "name" /\ Wanted = "IDENT" THEN token.word ELSE driver
    /\ IF InSymbols
       THEN accepted' = accepted + 1 /\ UNCHANGED <<block, tried>>
       ELSE At(Current.tests[tried + 1].next)
    /\ UNCHANGED result

\* moberg_parser_acceptsym and moberg_parser_acceptkeyword return 1, and the
\* scanner reads the next token.
accept ==
    /\ result = "parsing" /\ (InSymbols \/ InTests)
    /\ Matches(Wanted, token)
    /\ expected' = << >>
    /\ rests' = After(driver, rests, Meant(token))
    /\ token' \in IF token.kind = "EOF" THEN {token} ELSE Token
    /\ driver' = IF block = "name" /\ Wanted = "IDENT" THEN token.word ELSE driver
    /\ IF InSymbols
       THEN accepted' = accepted + 1 /\ UNCHANGED <<block, tried>>
       ELSE At(Current.tests[tried + 1].next)
    /\ UNCHANGED result

\* They return 0.
refuse ==
    /\ result = "parsing" /\ (InSymbols \/ InTests)
    /\ ~Matches(Wanted, token)
    /\ expected' = IF Len(expected) < MAX_EXPECTED THEN Append(expected, Wanted) ELSE expected
    /\ IF InSymbols
       THEN At("syntax_err")
       ELSE tried' = tried + 1 /\ UNCHANGED <<block, accepted>>
    /\ UNCHANGED <<token, driver, result, rests>>

\* No alternative is there, or there are none.
otherwise ==
    /\ result = "parsing" /\ block \notin Ends /\ ~InSymbols /\ ~InTests
    /\ At(Current.otherwise)
    /\ UNCHANGED <<token, expected, driver, result, rests>>

\* There must be a driver of that name; loading it may fail all the same.
moberg_device_new ==
    /\ result = "parsing" /\ block = "device_new"
    /\ \/ driver \in Drivers /\ At("device") /\ UNCHANGED result
       \/ result' = "ENOMEM" /\ UNCHANGED position
    /\ UNCHANGED <<token, expected, driver, rests>>

\* parse returns, after moberg_parser_failed has printed what was expected.
moberg_parse ==
    /\ result = "parsing" /\ block \in {"done", "syntax_err"}
    /\ result' = IF block = "done" THEN "OK" ELSE "EINVAL"
    /\ UNCHANGED <<token, expected, position, driver, rests>>

Next == accept \/ refuse \/ otherwise \/ moberg_device_new \/ moberg_parse

\* The parser runs to its end.
Spec == Init /\ [][Next]_vars /\ WF_vars(Next)

-----------------------------------------------------------------------------
(* Properties *)

\* The types of the variables.
TypeOK ==
    /\ token \in Token
    /\ expected \in Seq(Terminals) /\ Len(expected) <= MAX_EXPECTED
    /\ block \in DOMAIN Code \cup Ends
    /\ accepted \in Nat /\ tried \in Nat
    /\ driver \in Keywords \cup Drivers \cup OtherWords \cup {""}
    /\ result \in {"parsing", "OK", "EINVAL", "ENOMEM"}

\* The parser accepts the language of the grammar: no token is taken that no
\* sentence has there, and a text is accepted where a sentence ends; it is refused
\* at the first token that no sentence has there.  An abbreviation of several
\* keywords leads the parser where the grammar's first of them leads, whatever
\* the others would go on with.
AcceptsLanguage ==
    /\ rests # {}
    /\ result = "OK" => rests = {<< >>}
    /\ result = "EINVAL" =>
          \A terminal \in Following(driver, rests) : ~Matches(terminal, token)

\* The message for a syntax error names exactly what may come where it is: no
\* alternative is lost in the ten places there are, whichever optional parts were
\* looked for before, and none is left over from there.
ErrorNamesAlternatives ==
    result = "EINVAL" =>
        {expected[i] : i \in DOMAIN expected} = Following(driver, rests)

\* A token that something was tested for is accepted or refused in the end: no
\* loop of the parser goes round without taking one.
EveryTokenTaken == expected # << >> ~> expected = << >> \/ result # "parsing"
=============================================================================
