------------------------------- MODULE Plugin -------------------------------
(***************************************************************************)
(* The objects a driver plugin allocates and the use counts that decide    *)
(* when they are freed.  libtest, serial2002 and comedi implement the      *)
(* lifetime functions of moberg_device.h and moberg_channel.h alike; the   *)
(* definitions below are translated from plugins/libtest/libtest.c and     *)
(* from moberg_deferred_action in moberg.c.                                *)
(*                                                                         *)
(* A heap is a record:                                                     *)
(*   ctx       per device context: "none" (not allocated), "live", "freed" *)
(*   use       its use_count                                               *)
(*   chan      the same three states per channel                           *)
(*   chan_use  the channel's use_count                                     *)
(*   chan_dev  channel->context->device                                    *)
(*   deferred  the devices whose dlclose is pending in                     *)
(*             moberg->deferred_action; the list's head is the last one    *)
(*                                                                         *)
(* Device and Channel stand for the addresses malloc hands out: each is    *)
(* allocated at most once, so a use after free is a use of a "freed" one.  *)
(***************************************************************************)
EXTENDS Integers, Sequences, FiniteSets, SequencesExt

CONSTANTS
    Device,     \* device contexts, with the library handle each was opened by
    Channel,    \* channel objects
    NULL        \* the null pointer

ASSUME NullAssumption == NULL \notin Device /\ NULL \notin Channel
ASSUME ChannelAssumption == IsFiniteSet(Channel)

Lifetime == {"none", "live", "freed"}

Heap == [ctx      : [Device -> Lifetime],
         use      : [Device -> Int],
         chan     : [Channel -> Lifetime],
         chan_use : [Channel -> Int],
         chan_dev : [Channel -> Device \cup {NULL}],
         deferred : Seq(Device)]

EmptyHeap == [ctx      |-> [d \in Device |-> "none"],
              use      |-> [d \in Device |-> 0],
              chan     |-> [c \in Channel |-> "none"],
              chan_use |-> [c \in Channel |-> 0],
              chan_dev |-> [c \in Channel |-> NULL],
              deferred |-> << >>]

-----------------------------------------------------------------------------
(* Device contexts *)

new_context(h, d) == [h EXCEPT !.ctx[d] = "live", !.use[d] = 0]

device_up(h, d) == [h EXCEPT !.use[d] = @ + 1]

\* ok is FALSE when the list element cannot be allocated: the action is dropped.
moberg_deferred_action(h, d, ok) ==
    IF ok THEN [h EXCEPT !.deferred = Append(@, d)] ELSE h

\* Seeded fault: the context is released while one use is left.
device_down_early(h, d, ok) ==
    LET g == [h EXCEPT !.use[d] = @ - 1]
    IN  IF g.use[d] <= 1
        THEN moberg_deferred_action([g EXCEPT !.ctx[d] = "freed"], d, ok)
        ELSE g

\* Seeded fault: the last use frees the context but forgets the library.
device_down_keeps_library(h, d, ok) ==
    LET g == [h EXCEPT !.use[d] = @ - 1]
    IN  IF g.use[d] <= 0 THEN [g EXCEPT !.ctx[d] = "freed"] ELSE g

device_down(h, d, ok) ==
    LET g == [h EXCEPT !.use[d] = @ - 1]
    IN  IF g.use[d] <= 0
        THEN moberg_deferred_action([g EXCEPT !.ctx[d] = "freed"], d, ok)
        ELSE g

-----------------------------------------------------------------------------
(* Channels *)

init_channel(h, c, d) ==
    [h EXCEPT !.chan[c] = "live", !.chan_use[c] = 0, !.chan_dev[c] = d]

channel_up(h, c) ==
    [device_up(h, h.chan_dev[c]) EXCEPT !.chan_use[c] = @ + 1]

\* Seeded fault: the channel goes without releasing its device.
channel_down_forgets_device(h, c, ok) ==
    LET g == [h EXCEPT !.chan_use[c] = @ - 1]
    IN  IF g.chan_use[c] <= 0 THEN [g EXCEPT !.chan[c] = "freed"] ELSE g

channel_down(h, c, ok) ==
    LET g == [device_down(h, h.chan_dev[c], ok) EXCEPT !.chan_use[c] = @ - 1]
    IN  IF g.chan_use[c] <= 0 THEN [g EXCEPT !.chan[c] = "freed"] ELSE g

-----------------------------------------------------------------------------
(* What the counts mean *)

\* The channels that hold a use of the device.
Users(h, d) == {c \in Channel : h.chan_dev[c] = d /\ h.chan_use[c] = 1}

\* use_count is the number of channels that are up, and one for each device
\* that is owned: whose struct moberg_device somebody will still free.
Counted(h, owned) ==
    \A d \in Device :
        IF h.ctx[d] = "live"
        THEN /\ h.use[d] = Cardinality(Users(h, d)) + (IF d \in owned THEN 1 ELSE 0)
             /\ h.use[d] > 0
        ELSE d \notin owned /\ Users(h, d) = {}

\* A channel is never up more than once, and only an allocated one is.
ChannelsSound(h) ==
    \A c \in Channel :
        /\ h.chan_use[c] \in {0, 1}
        /\ h.chan_use[c] = 1 => h.chan[c] = "live"
        /\ h.chan[c] # "none" => h.chan_dev[c] \in Device

\* A context is allocated together with its library and goes before it.
LibrariesSound(h, handles) ==
    /\ \A d \in Device : /\ h.ctx[d] = "live" => handles[d] = "open"
                         /\ h.ctx[d] = "none" <=> handles[d] = "unopened"
    /\ \A i \in 1..Len(h.deferred) : /\ handles[h.deferred[i]] = "open"
                                     /\ h.ctx[h.deferred[i]] = "freed"
    /\ IsInjective(h.deferred)

\* Where memory for the list suffices, a library without a context is pending.
LibrariesPending(h, handles) ==
    \A d \in Device : handles[d] = "open" =>
        h.ctx[d] = "live" \/ d \in ToSet(h.deferred)

HeapSound(h, handles, owned) ==
    /\ h \in Heap
    /\ handles \in [Device -> {"unopened", "open", "closed"}]
    /\ owned \in SUBSET Device
    /\ ChannelsSound(h)
    /\ LibrariesSound(h, handles)
    /\ Counted(h, owned)
=============================================================================
