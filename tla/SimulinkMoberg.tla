--------------------------- MODULE SimulinkMoberg ---------------------------
(***************************************************************************)
(* The Simulink blocks (adaptors/matlab): S-functions of five kinds, each  *)
(* with a vector of channels, that open them through the counted struct    *)
(* and the lists of libmoberg4simulink.                                    *)
(*                                                                         *)
(* The engine is external: it initialises the blocks, runs them, stops     *)
(* when a block sets its error status, terminates every block, and may set *)
(* the initial conditions of a running block again (a subsystem that is    *)
(* enabled anew).  Work vectors are zero when a simulation starts.  The    *)
(* channel vector of a block does not change while it runs.                *)
(***************************************************************************)
EXTENDS Binding, Sequences, SequencesExt

CONSTANTS
    Block,
    Element,        \* addresses of struct channel, as many as can be in use
    Inputs,         \* vectors of channels a block may have
    MaxSessions,    \* bound: simulations
    MaxResets       \* bound: initial conditions set again

ASSUME InputsAssumption == Inputs \subseteq Seq(Channel)
ASSUME ElementAssumption == Element \subseteq Nat /\ NULL \notin Element
ASSUME SessionAssumption == MaxSessions \in Nat /\ MaxResets \in Nat

VARIABLES
    list,           \* the lists of all kinds: the channel of each element, or NULL
    channels,       \* per block: its parameter
    pwork,          \* per block: pointers to elements, or NULL
    phase,          \* of the engine: "stopped", "starting", "running", "ending"
    called,         \* blocks initialised, or terminated, in this phase
    error,          \* whether a block has set its error status
    sessions, resets

simulinkVars == <<g, list, channels, pwork, phase, called, error, sessions, resets>>
engine == <<channels, phase, sessions>>

Elements == {e \in Element : list[e] # NULL}
NoPointers(chs) == [b \in Block |-> [i \in DOMAIN chs[b] |-> NULL]]

SimulinkInit ==
    /\ g = EmptyGlobal
    /\ list = [e \in Element |-> NULL]
    /\ channels \in [Block -> Inputs]
    /\ pwork = NoPointers(channels)
    /\ phase = "stopped" /\ called = {} /\ error = FALSE
    /\ sessions = 0 /\ resets = 0

-----------------------------------------------------------------------------
(* libmoberg4simulink: operators on w = [g, list, pointers] *)

\* Addresses malloc may return.
Unused(l) == {x \in Element : l[x] = NULL}

\* Seeded fault: an open that fails keeps the use it took.
moberg4simulink_open_without_down(w, c, ok) ==
    LET e == Min(Unused(w.list))
        g1 == up(w.g)
    IN  IF ok /\ Unused(w.list) # {}
        THEN [g |-> opened(g1, c), list |-> [w.list EXCEPT ![e] = c],
              pointers |-> Append(w.pointers, e)]
        ELSE [w EXCEPT !.g = g1, !.pointers = Append(@, NULL)]

\* Seeded fault: the element of a refused open is freed and returned.
moberg4simulink_open_returns_freed(w, c, ok) ==
    LET e == Min(Unused(w.list))
        g1 == up(w.g)
    IN  IF ok /\ Unused(w.list) # {}
        THEN [g |-> opened(g1, c), list |-> [w.list EXCEPT ![e] = c],
              pointers |-> Append(w.pointers, e)]
        ELSE [w EXCEPT !.g = down(g1), !.pointers = Append(@, e)]

\* The open fails when malloc does, or the library refuses the channel.
moberg4simulink_open(w, c, ok) ==
    LET e == Min(Unused(w.list))
        g1 == up(w.g)
    IN  IF ok /\ Unused(w.list) # {}
        THEN [g |-> opened(g1, c), list |-> [w.list EXCEPT ![e] = c],
              pointers |-> Append(w.pointers, e)]
        ELSE [w EXCEPT !.g = down(g1), !.pointers = Append(@, NULL)]

\* Seeded fault: the struct goes before the channel is closed through it.
moberg4simulink_close_down_first(w, e, c) ==
    LET g1 == down(w.g)
    IN  [w EXCEPT !.g = IF g1.moberg = NULL THEN g1 ELSE closed(g1, c),
                  !.list[e] = NULL]

moberg4simulink_close(w, e, c) ==
    [w EXCEPT !.g = down(closed(w.g, c)),
              !.list[e] = NULL]

-----------------------------------------------------------------------------
(* The phases of a block *)

\* Opens the channels of b in order; goes on after one that failed.
OpenAll(b, ok) ==
    FoldLeftDomain(LAMBDA w, i : moberg4simulink_open(w, channels[b][i], ok[i]),
                   [g |-> g, list |-> list, pointers |-> << >>], channels[b])

mdlInitializeConditions(b) ==
    \E ok \in [DOMAIN channels[b] -> BOOLEAN] :
        LET w == OpenAll(b, ok)
        IN  /\ g' = w.g /\ list' = w.list
            /\ pwork' = [pwork EXCEPT ![b] = w.pointers]
            /\ error' = (error \/ \E i \in DOMAIN ok : w.pointers[i] = NULL)

\* Reads or writes every channel of b; each of them may fail.
mdlOutputs(b) ==
    /\ phase = "running" /\ ~error
    /\ error' \in BOOLEAN
    /\ UNCHANGED <<g, list, pwork, called, resets, engine>>

CloseAll(b) ==
    FoldLeftDomain(LAMBDA w, i : IF pwork[b][i] = NULL THEN w
                                 ELSE moberg4simulink_close(w, pwork[b][i], channels[b][i]),
                   [g |-> g, list |-> list, pointers |-> << >>], channels[b])

mdlTerminate(b) ==
    /\ phase = "ending" /\ b \notin called
    /\ LET w == CloseAll(b) IN g' = w.g /\ list' = w.list
    /\ called' = called \cup {b}
    /\ UNCHANGED <<pwork, error, resets, engine>>

-----------------------------------------------------------------------------
(* The engine *)

Start ==
    /\ phase = "stopped" /\ sessions < MaxSessions
    /\ phase' = "starting" /\ called' = {} /\ error' = FALSE
    /\ channels' \in [Block -> Inputs]
    /\ pwork' = NoPointers(channels')
    /\ sessions' = sessions + 1
    /\ UNCHANGED <<g, list, resets>>

Initialize(b) ==
    /\ phase = "starting" /\ ~error /\ b \notin called
    /\ mdlInitializeConditions(b)
    /\ called' = called \cup {b}
    /\ UNCHANGED <<resets, engine>>

Run ==
    /\ phase = "starting" /\ ~error /\ called = Block
    /\ phase' = "running"
    /\ UNCHANGED <<g, list, channels, pwork, called, error, sessions, resets>>

InitializeAgain(b) ==
    /\ phase = "running" /\ ~error /\ resets < MaxResets
    /\ mdlInitializeConditions(b)
    /\ resets' = resets + 1
    /\ UNCHANGED <<called, engine>>

\* At the end, by the user, or because a block has set its error status.
End ==
    /\ phase \in {"starting", "running"}
    /\ phase' = "ending" /\ called' = {}
    /\ UNCHANGED <<g, list, channels, pwork, error, sessions, resets>>

Stop ==
    /\ phase = "ending" /\ called = Block
    /\ phase' = "stopped"
    /\ UNCHANGED <<g, list, channels, pwork, called, error, sessions, resets>>

SimulinkNext ==
    \/ Start \/ Run \/ End \/ Stop
    \/ \E b \in Block : Initialize(b) \/ InitializeAgain(b) \/ mdlOutputs(b) \/ mdlTerminate(b)

SimulinkSpec == SimulinkInit /\ [][SimulinkNext]_simulinkVars

-----------------------------------------------------------------------------
(* Properties *)

\* The types of the variables.
SimulinkTypeOK ==
    /\ g \in Global
    /\ list \in [Element -> Channel \cup {NULL}]
    /\ channels \in [Block -> Inputs]
    /\ \A b \in Block : /\ DOMAIN pwork[b] = DOMAIN channels[b]
                        /\ \A i \in DOMAIN pwork[b] : pwork[b][i] \in Element \cup {NULL}
    /\ phase \in {"stopped", "starting", "running", "ending"}
    /\ called \subseteq Block
    /\ error \in BOOLEAN

\* Every element of the lists is one use of the struct and one open channel of
\* it; no other struct is alive: whatever failed or was left open, the library
\* is used as often as the binding believes, and through one struct only.
ElementsAreOpens ==
    /\ g.count = Cardinality(Elements)
    /\ Alive(g.structs) = IF Elements = {} THEN {} ELSE {g.moberg}
    /\ Elements # {} =>
          \A c \in Channel : g.structs[g.moberg].opens[c]
                                = Cardinality({e \in Element : list[e] = c})

\* The blocks that have to be terminated still.
Held == {b \in Block : IF phase = "ending" THEN b \notin called ELSE phase # "stopped"}
Pointers == UNION {{b} \X DOMAIN channels[b] : b \in Held}

\* A pointer of a block is to an element of that channel and of no other
\* pointer: what mdlTerminate frees is its own, also when blocks share channels.
PointersAreOwn ==
    \A p \in Pointers :
        LET e == pwork[p[1]][p[2]]
        IN  e # NULL => /\ list[e] = channels[p[1]][p[2]]
                        /\ \A q \in Pointers \ {p} : pwork[q[1]][q[2]] # e

\* Nothing is left open when a simulation has ended, also one that failed to
\* start, unless initial conditions were set again on the way.
ReleasedWhenStopped ==
    phase = "stopped" /\ resets = 0 => Elements = {} /\ Alive(g.structs) = {}
=============================================================================
