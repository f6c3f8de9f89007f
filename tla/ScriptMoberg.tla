---------------------------- MODULE ScriptMoberg ----------------------------
(***************************************************************************)
(* What the Python and the Julia binding share: objects of class Moberg,   *)
(* each with a struct moberg of its own, and objects that have a channel   *)
(* open.  They differ in who keeps what alive: PythonMoberg counts         *)
(* references, in JuliaMoberg finalizers run in any order and objects can  *)
(* be closed by hand.                                                      *)
(*                                                                         *)
(* The addresses of structs are not used twice here, so that a call with   *)
(* the address of one that is gone is seen for what it is.  moberg_new     *)
(* succeeds, and opens the library refuses change nothing.                 *)
(***************************************************************************)
EXTENDS Library

CONSTANTS
    Manager,        \* objects of class Moberg
    Object          \* objects of class AnalogIn and the other kinds

ASSUME ScriptAssumption ==
    IsFiniteSet(Object) /\ Manager \cap Object = {} /\ NULL \notin Manager \cup Object

VARIABLES
    structs,        \* the structs of the library
    made,           \* number of structs made
    state,          \* per object: where it is in its life
    handle,         \* per manager: its struct, or NULL
    refcnt,         \* per manager: ob_refcnt (Python)
    parent,         \* per object: moberg_object (Python)
    pointer,        \* per object: moberg (Julia); where it was opened
    channel,        \* per object: its channel
    byhand,         \* the objects that were closed explicitly
    replaced,       \* structs whose manager has got another one
    stray           \* the library was called with NULL or a struct that is gone

objectVars == <<state, handle, refcnt, parent, pointer, channel, byhand, replaced>>
scriptVars == <<structs, made, stray, objectVars>>

\* Referred to by the program; not any more, but by a channel object (Python);
\* garbage (Julia); finalised.
Lives == {"none", "held", "kept", "dropped", "gone"}

ScriptInit ==
    /\ structs = [s \in Struct |-> NoMoberg]
    /\ made = 0
    /\ state = [x \in Manager \cup Object |-> "none"]
    /\ handle = [m \in Manager |-> NULL]
    /\ refcnt = [m \in Manager |-> 0]
    /\ parent = [o \in Object |-> NULL]
    /\ pointer = [o \in Object |-> NULL]
    /\ channel \in [Object -> Channel]
    /\ byhand = {} /\ replaced = {}
    /\ stray = FALSE

\* A call of moberg_new.
MakeStruct ==
    /\ made + 1 \in Struct
    /\ made' = made + 1
    /\ structs' = moberg_new(structs, made')
    /\ UNCHANGED stray

\* A call of the library with the struct s, whose effect is after.
Call(s, after) ==
    /\ IF s # NULL /\ structs[s].alive
       THEN structs' = after /\ UNCHANGED stray
       ELSE stray' = TRUE /\ UNCHANGED structs
    /\ UNCHANGED made

Becomes(x, st) == state' = [state EXCEPT ![x] = st]

-----------------------------------------------------------------------------
(* Properties *)

\* The types of the variables.
TypeOK ==
    /\ structs \in [Struct -> Moberg] /\ made \in Nat
    /\ state \in [Manager \cup Object -> Lives]
    /\ handle \in [Manager -> Struct \cup {NULL}]
    /\ refcnt \in [Manager -> Int]
    /\ parent \in [Object -> Manager \cup {NULL}]
    /\ pointer \in [Object -> Struct \cup {NULL}]
    /\ channel \in [Object -> Channel]
    /\ byhand \subseteq Manager \cup Object /\ replaced \subseteq Struct
    /\ stray \in BOOLEAN

Wanted == {x \in Manager \cup Object : state[x] \in {"held", "dropped"}}

\* The objects that have a channel of s open and have not closed it.
UsersOf(s) == {o \in Object \cap Wanted : pointer[o] = s /\ o \notin byhand}

\* The objects that keep a Moberg object from being deallocated (Python).
KeepersOf(m) == {o \in Object \cap Wanted : parent[o] = m}

\* A channel of s was closed by hand and again by the finalizer.
ClosedTwice(s) == \E o \in byhand \cap Object : pointer[o] = s /\ state[o] = "gone"

\* A program that has a channel object may use it: the struct it was opened in is
\* alive and has the channel open, once for each object at least, whichever
\* objects are gone, in whatever order they went, and whatever became of the
\* Moberg object; unless a channel was closed by hand and then finalised.
LiveIsOpen ==
    ~stray => \A s \in Struct : ~ClosedTwice(s) =>
        \A o \in UsersOf(s) :
            /\ structs[s].alive
            /\ structs[s].opens[channel[o]]
                  >= Cardinality({u \in UsersOf(s) : channel[u] = channel[o]})

\* No sequence of drops, collections and finalizers alone makes the binding call
\* the library with NULL or with a struct that is gone: it takes a Moberg object
\* that is used after its close, or a channel that is closed twice.
NoStrayCall == stray => byhand \cap Manager # {} \/ \E s \in Struct : ClosedTwice(s)

\* A struct that is alive has an object with an open channel, or its Moberg object
\* is wanted: by the program, by a channel object, or by its finalizer.  All that
\* is left is what __init__ replaced; nothing stays open that no object has open.
GoneWhenCollected ==
    ~stray => \A s \in Struct \ replaced : structs[s].alive /\ ~ClosedTwice(s) =>
        /\ \/ UsersOf(s) # {}
           \/ \E m \in Manager : handle[m] = s /\ (m \in Wanted \/ KeepersOf(m) # {})
        /\ \A c \in Channel : structs[s].opens[c]
                                 = Cardinality({u \in UsersOf(s) : channel[u] = c})
=============================================================================
