----------------------------- MODULE JuliaMoberg ----------------------------
(***************************************************************************)
(* The Julia binding (adaptors/julia).  A channel object copies the        *)
(* address of the struct and keeps nothing alive; close is the finalizer   *)
(* of every object and may also be called by the program.  Finalizers of   *)
(* garbage, and of everything at exit, run in any order.                   *)
(***************************************************************************)
EXTENDS ScriptMoberg

\* Moberg()
NewMoberg(m) ==
    /\ state[m] = "none"
    /\ MakeStruct
    /\ handle' = [handle EXCEPT ![m] = made']
    /\ Becomes(m, "held")
    /\ UNCHANGED <<refcnt, parent, pointer, channel, byhand, replaced>>

\* AnalogIn(m, index)
NewAnalogIn(m, o) ==
    /\ state[m] = "held" /\ state[o] = "none"
    /\ Call(handle[m], moberg_open(structs, handle[m], channel[o]))
    /\ pointer' = [pointer EXCEPT ![o] = handle[m]]
    /\ Becomes(o, "held")
    /\ UNCHANGED <<handle, refcnt, parent, channel, byhand, replaced>>

drop(x) ==
    /\ state[x] = "held"
    /\ Becomes(x, "dropped")
    /\ UNCHANGED <<structs, made, stray, handle, refcnt, parent, pointer, channel,
                   byhand, replaced>>

\* close(m); moberg_free ignores NULL.
close_moberg(m) ==
    /\ IF handle[m] = NULL
       THEN UNCHANGED <<structs, made, stray>>
       ELSE Call(handle[m], moberg_free(structs, handle[m]))
    /\ handle' = [handle EXCEPT ![m] = NULL]

\* close(analog_in); the address stays.
close_channel(o) ==
    /\ Call(pointer[o], moberg_close(structs, pointer[o], channel[o]))
    /\ UNCHANGED handle

close(x) == (x \in Manager /\ close_moberg(x)) \/ (x \in Object /\ close_channel(x))

close_by_hand(x) ==
    /\ state[x] = "held" /\ x \notin byhand
    /\ close(x)
    /\ byhand' = byhand \cup {x}
    /\ UNCHANGED <<state, refcnt, parent, pointer, channel, replaced>>

finalize(x) ==
    /\ state[x] = "dropped"
    /\ close(x)
    /\ Becomes(x, "gone")
    /\ UNCHANGED <<refcnt, parent, pointer, channel, byhand, replaced>>

JuliaNext ==
    \/ \E m \in Manager : NewMoberg(m) \/ \E o \in Object : NewAnalogIn(m, o)
    \/ \E x \in Manager \cup Object : drop(x) \/ close_by_hand(x) \/ finalize(x)
=============================================================================
