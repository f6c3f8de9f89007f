---------------------------- MODULE PythonMoberg ----------------------------
(***************************************************************************)
(* The Python binding (adaptors/python3, and python2 that is the same up   *)
(* to the module's initialisation).  A channel object keeps its Moberg     *)
(* object by a reference it counts, and closes the channel through that    *)
(* object's struct.  CPython deallocates an object with the last reference *)
(* to it, in the same step.                                                *)
(***************************************************************************)
EXTENDS ScriptMoberg

\* Moberg(): Moberg_new and Moberg_init.
Moberg_new(m) ==
    /\ state[m] = "none"
    /\ MakeStruct
    /\ handle' = [handle EXCEPT ![m] = made']
    /\ refcnt' = [refcnt EXCEPT ![m] = 1]
    /\ Becomes(m, "held")
    /\ UNCHANGED <<parent, pointer, channel, byhand, replaced>>

\* __init__ is called again, which nothing forbids.
Moberg_init_again(m) ==
    /\ state[m] = "held"
    /\ MakeStruct
    /\ replaced' = replaced \cup {handle[m]}
    /\ handle' = [handle EXCEPT ![m] = made']
    /\ UNCHANGED <<state, refcnt, parent, pointer, channel, byhand>>

\* Seeded fault: the channel's reference to its Moberg object is not counted.
MobergAnalogIn_new_borrowed(m, o) ==
    /\ state[m] = "held" /\ state[o] = "none"
    /\ Call(handle[m], moberg_open(structs, handle[m], channel[o]))
    /\ refcnt' = refcnt
    /\ parent' = [parent EXCEPT ![o] = m]
    /\ pointer' = [pointer EXCEPT ![o] = handle[m]]
    /\ Becomes(o, "held")
    /\ UNCHANGED <<handle, channel, byhand, replaced>>

\* m.analog_in(index).  When tp_alloc fails the channel is closed again.
MobergAnalogIn_new(m, o) ==
    /\ state[m] = "held" /\ state[o] = "none"
    /\ Call(handle[m], moberg_open(structs, handle[m], channel[o]))
    /\ refcnt' = [refcnt EXCEPT ![m] = @ + 1]
    /\ parent' = [parent EXCEPT ![o] = m]
    /\ pointer' = [pointer EXCEPT ![o] = handle[m]]
    /\ Becomes(o, "held")
    /\ UNCHANGED <<handle, channel, byhand, replaced>>

\* One reference to m less, after a step that leaves the structs as in after.
\* With the last one Moberg_dealloc frees the struct, and the object is gone.
Py_DECREF(m, after) ==
    /\ refcnt' = [refcnt EXCEPT ![m] = @ - 1]
    /\ IF refcnt'[m] = 0
       THEN /\ Call(handle[m], moberg_free(after, handle[m]))
            /\ handle' = [handle EXCEPT ![m] = NULL]
       ELSE /\ Call(handle[m], after)
            /\ UNCHANGED handle

\* The struct of the Moberg object closes its own channels only.
Closed(o) ==
    LET s == handle[parent[o]]
    IN  IF s = pointer[o] THEN moberg_close(structs, s, channel[o]) ELSE structs

\* Seeded fault: the reference to the Moberg object is not given back.
MobergAnalogIn_dealloc_leaks(o) ==
    /\ state[o] = "held"
    /\ Call(handle[parent[o]], Closed(o))
    /\ UNCHANGED refcnt
    /\ Becomes(o, "gone")
    /\ UNCHANGED <<handle, parent, pointer, channel, byhand, replaced>>

\* The last reference to o is gone.
MobergAnalogIn_dealloc(o) ==
    /\ state[o] = "held"
    /\ Py_DECREF(parent[o], Closed(o))
    /\ state' = [x \in DOMAIN state |->
                    IF x = o \/ (x = parent[o] /\ refcnt'[x] = 0) THEN "gone" ELSE state[x]]
    /\ UNCHANGED <<parent, pointer, channel, byhand, replaced>>

\* The program's last reference to m is gone.
Moberg_dealloc(m) ==
    /\ state[m] = "held"
    /\ Py_DECREF(m, structs)
    /\ Becomes(m, IF refcnt'[m] = 0 THEN "gone" ELSE "kept")
    /\ UNCHANGED <<parent, pointer, channel, byhand, replaced>>

PythonNext ==
    \/ \E m \in Manager :
          \/ Moberg_new(m) \/ Moberg_init_again(m) \/ Moberg_dealloc(m)
          \/ \E o \in Object : MobergAnalogIn_new(m, o)
    \/ \E o \in Object : MobergAnalogIn_dealloc(o)
=============================================================================
