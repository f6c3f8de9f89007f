----------------------------- MODULE JavaMoberg -----------------------------
(***************************************************************************)
(* The Java binding (adaptors/java): IOChannel, which opens a channel and  *)
(* claims it for its class in the constructor and gives it back in         *)
(* finalize, above the native functions, which count the opens of a        *)
(* channel in lists and the uses of the struct in g_moberg.                *)
(*                                                                         *)
(* A program thread makes one object at a time.  The collector (external)  *)
(* finalizes garbage at any time, on threads of its own: the steps of      *)
(* finalize fall between any two steps of a constructor.  A step is one    *)
(* native function or one operation on a BitSet; none of them is guarded   *)
(* by a lock, and what becomes of two at once is not modelled.             *)
(***************************************************************************)
EXTENDS Binding

CONSTANTS
    Object,         \* objects that are made at most
    Class,          \* names of classes: AnalogIn and its subclasses, say
    Thread,         \* program threads
    MaxFailures     \* bound: opens refused or not recorded

ASSUME MaxFailuresAssumption == MaxFailures \in Nat
ASSUME ObjectAssumption == NULL \notin Object

Slots == Class \X Channel

VARIABLES
    count,          \* per channel: count in its list, 0 when there is no entry
    capacity,       \* the channels whose lists have room for them
    allocations,    \* the slots whose bit is set
    state,          \* per object: where it is in its life
    slot,           \* per object: its class and channel
    maker,          \* per object: the thread that makes it, or NULL
    unrecorded,     \* per channel: opens the lists know nothing of
    failures,
    crashed         \* the process is dead

vars == <<g, count, capacity, allocations, state, slot, maker, unrecorded, failures, crashed>>
native == <<g, count, capacity, unrecorded, failures, crashed>>

\* In a constructor; after it, with isAllocated; refused; in finalize; gone.
Making == {"opened", "collecting", "tested", "free"}
States == {"none"} \cup Making \cup {"allocated", "garbage", "refused", "cleared", "gone"}

Init ==
    /\ g = EmptyGlobal
    /\ count = [c \in Channel |-> 0]
    /\ capacity = {}
    /\ allocations = {}
    /\ state = [o \in Object |-> "none"]
    /\ slot \in [Object -> Slots]
    /\ maker = [o \in Object |-> NULL]
    /\ unrecorded = [c \in Channel |-> 0]
    /\ failures = 0
    /\ crashed = FALSE

ChannelOf(o) == slot[o][2]

-----------------------------------------------------------------------------
(* The native functions, the same for the five kinds *)

channel_up(c) ==
    /\ count[c] > 0
    /\ g' = up(g)
    /\ count' = [count EXCEPT ![c] = @ + 1]
    /\ UNCHANGED <<capacity, unrecorded, failures, crashed>>

\* The first open of a channel.  channel_set cannot fail in a list that has the
\* room already; when it fails, nobody looks.
open_recorded(c) ==
    /\ count[c] = 0
    /\ g' = opened(up(g), c)
    /\ count' = [count EXCEPT ![c] = 1]
    /\ capacity' = capacity \cup {c}
    /\ UNCHANGED <<unrecorded, failures, crashed>>

open_unrecorded(c) ==
    /\ count[c] = 0 /\ c \notin capacity
    /\ failures < MaxFailures /\ failures' = failures + 1
    /\ g' = opened(up(g), c)
    /\ unrecorded' = [unrecorded EXCEPT ![c] = @ + 1]
    /\ UNCHANGED <<count, capacity, crashed>>

\* Seeded fault: an open the library refuses keeps the use of the struct.
open_refused_without_down(c) ==
    /\ count[c] = 0
    /\ failures < MaxFailures /\ failures' = failures + 1
    /\ g' = up(g)
    /\ UNCHANGED <<count, capacity, unrecorded, crashed>>

open_refused(c) ==
    /\ count[c] = 0
    /\ failures < MaxFailures /\ failures' = failures + 1
    /\ g' = down(up(g))
    /\ UNCHANGED <<count, capacity, unrecorded, crashed>>

\* The use of the struct is given up first: after the last one there is no
\* struct to close the channel through.
nativeClose(c) ==
    IF count[c] = 0 THEN UNCHANGED native
    ELSE /\ count' = [count EXCEPT ![c] = @ - 1]
         /\ crashed' = (count[c] = 1 /\ down(g).moberg = NULL)
         /\ g' = IF count[c] = 1 /\ ~crashed' THEN closed(down(g), c) ELSE down(g)
         /\ UNCHANGED <<capacity, unrecorded, failures>>

-----------------------------------------------------------------------------
(* The constructor of IOChannel *)

Idle(t) == \A o \in Object : state[o] \in Making => maker[o] # t

\* Moves o on, in the same thread or out of its constructor.
Becomes(o, st) ==
    /\ state' = [state EXCEPT ![o] = st]
    /\ UNCHANGED <<slot, maker>>

open(t, o) ==
    /\ ~crashed /\ state[o] = "none" /\ Idle(t)
    /\ maker' = [maker EXCEPT ![o] = t]
    /\ \/ /\ channel_up(ChannelOf(o)) \/ open_recorded(ChannelOf(o)) \/ open_unrecorded(ChannelOf(o))
          /\ state' = [state EXCEPT ![o] = "opened"]
       \/ /\ open_refused(ChannelOf(o))
          /\ state' = [state EXCEPT ![o] = "refused"]
    /\ UNCHANGED <<allocations, slot>>

\* Seeded fault: the first test is the only one.
allocate_first_trusting(o) ==
    /\ ~crashed /\ state[o] = "opened"
    /\ IF slot[o] \in allocations THEN Becomes(o, "free") ELSE Becomes(o, "tested")
    /\ UNCHANGED <<allocations, native>>

\* The first test; System.gc and runFinalization may or may not collect.
allocate_first(o) ==
    /\ ~crashed /\ state[o] = "opened"
    /\ IF slot[o] \in allocations THEN Becomes(o, "collecting") ELSE Becomes(o, "tested")
    /\ UNCHANGED <<allocations, native>>

runFinalization(o) ==
    /\ ~crashed /\ state[o] = "collecting"
    /\ Becomes(o, "tested")
    /\ UNCHANGED <<allocations, native>>

\* Seeded fault: the channel stays open when the constructor throws.
allocate_second_without_close(o) ==
    /\ ~crashed /\ state[o] = "tested"
    /\ IF slot[o] \in allocations
       THEN UNCHANGED native /\ Becomes(o, "refused")
       ELSE UNCHANGED native /\ Becomes(o, "free")
    /\ UNCHANGED allocations

\* The second test: closes the channel and throws AlreadyAllocatedException.
allocate_second(o) ==
    /\ ~crashed /\ state[o] = "tested"
    /\ IF slot[o] \in allocations
       THEN nativeClose(ChannelOf(o)) /\ Becomes(o, "refused")
       ELSE UNCHANGED native /\ Becomes(o, "free")
    /\ UNCHANGED allocations

allocate_set(o) ==
    /\ ~crashed /\ state[o] = "free"
    /\ allocations' = allocations \cup {slot[o]}
    /\ Becomes(o, "allocated")
    /\ UNCHANGED native

\* The program has no reference left to an object.
drop(o) ==
    /\ ~crashed /\ state[o] = "allocated"
    /\ Becomes(o, "garbage")
    /\ UNCHANGED <<allocations, native>>

-----------------------------------------------------------------------------
(* finalize, which the collector also calls on what a constructor threw away *)

\* Seeded fault: a refused object gives back what it never had.
deallocate_clear_unconditionally(o) ==
    /\ ~crashed /\ state[o] \in {"garbage", "refused"}
    /\ allocations' = allocations \ {slot[o]}
    /\ Becomes(o, "cleared")
    /\ UNCHANGED native

deallocate_clear(o) ==
    /\ ~crashed /\ state[o] \in {"garbage", "refused"}
    /\ IF state[o] = "garbage"  \* isAllocated
       THEN allocations' = allocations \ {slot[o]} /\ Becomes(o, "cleared")
       ELSE UNCHANGED allocations /\ Becomes(o, "gone")
    /\ UNCHANGED native

deallocate_close(o) ==
    /\ ~crashed /\ state[o] = "cleared"
    /\ nativeClose(ChannelOf(o))
    /\ Becomes(o, "gone")
    /\ UNCHANGED allocations

Next ==
    \E o \in Object :
        \/ \E t \in Thread : open(t, o)
        \/ allocate_first(o) \/ runFinalization(o) \/ allocate_second(o) \/ allocate_set(o)
        \/ drop(o) \/ deallocate_clear(o) \/ deallocate_close(o)

Spec == Init /\ [][Next]_vars

-----------------------------------------------------------------------------
(* Properties *)

\* The types of the variables.
TypeOK ==
    /\ g \in Global
    /\ count \in [Channel -> Nat]
    /\ capacity \subseteq Channel /\ \A c \in Channel : count[c] > 0 => c \in capacity
    /\ allocations \subseteq Slots
    /\ state \in [Object -> States]
    /\ slot \in [Object -> Slots]
    /\ maker \in [Object -> Thread \cup {NULL}]
    /\ unrecorded \in [Channel -> Nat]
    /\ failures \in 0..MaxFailures
    /\ crashed \in BOOLEAN

Holders(s) == {o \in Object : slot[o] = s /\ state[o] \in {"allocated", "garbage"}}

\* A bit is set exactly while one object of its class holds the channel.  (With
\* one program thread: two can both find a bit clear and both set it.)
BitsAreHolders ==
    \A s \in Slots : /\ Cardinality(Holders(s)) <= 1
                     /\ s \in allocations <=> Holders(s) # {}

\* The objects that have opened c and not closed it.
Users(c) ==
    {o \in Object : ChannelOf(o) = c /\ state[o] \in Making \cup {"allocated", "garbage", "cleared"}}

\* The list of a channel counts the objects that have it open, of every class
\* and in every step of their life, refused ones and garbage included, unless
\* an open of it could not be recorded.
CountsAreUsers ==
    ~crashed => \A c \in Channel : unrecorded[c] = 0 => count[c] = Cardinality(Users(c))

\* The struct is used as often as all lists together count, each channel of it
\* is open once however many objects share it, and there is no second struct;
\* opens that were not recorded are the only ones that are never closed.  The
\* only close that finds no struct is that of the last open channel of the
\* process, no object of which is in use any more.
StructIsUsed ==
    /\ g.count = SumFunction(count) + SumFunction(unrecorded)
    /\ ~crashed => Alive(g.structs) = IF g.count = 0 THEN {} ELSE {g.moberg}
    /\ ~crashed /\ g.count > 0 =>
          \A c \in Channel : g.structs[g.moberg].opens[c]
                                = (IF count[c] > 0 THEN 1 ELSE 0) + unrecorded[c]
    /\ crashed => g.moberg = NULL /\ \A c \in Channel : Users(c) = {}

\* The object whose bit that of s is.
Holder(s) == IF Holders(s) = {} THEN NULL ELSE CHOOSE o \in Holders(s) : TRUE

Promise == INSTANCE Allocation WITH
    Slot <- Slots,
    holder <- [s \in Slots |-> Holder(s)]

\* Whatever the collector does between the steps of a constructor, a channel is
\* not given to a second object before the first one gave it back.
AllocationPromise == Promise!Spec
=============================================================================
