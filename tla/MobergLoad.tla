----------------------------- MODULE MobergLoad -----------------------------
(***************************************************************************)
(* moberg_new: the configuration files are parsed one after the other      *)
(* (moberg_parser.c, moberg_device.c), the configurations they yield are   *)
(* joined (moberg_config.c), every mapped channel is installed in the      *)
(* table of its kind (moberg.c), devices nobody uses are dropped, and the  *)
(* libraries of the freed devices are closed.                              *)
(*                                                                         *)
(* The library is single threaded and moberg_new returns to its caller     *)
(* only in pc = "ready"; pc says where in the call the thread is.          *)
(***************************************************************************)
EXTENDS Plugin

CONSTANTS
    Kind,           \* enum moberg_channel_kind
    MaxIndex,       \* bound: largest channel index a map statement names
    MaxText,        \* bound: configuration files, driver blocks and map
                    \* statements there are to read
    AllocMayFail    \* whether malloc and realloc of list memory may fail

ASSUME IndexAssumption == MaxIndex \in Nat
ASSUME TextAssumption == MaxText \in Nat
ASSUME AllocAssumption == AllocMayFail \in BOOLEAN

Index == 0..MaxIndex
Slot == Kind \X Index

\* The capacities channel_list_set can compute: powers of two an int holds.
Capacities == {n \in 2..(2 * MaxIndex + 2) : \E k \in 1..30 : n = 2 ^ k}

Malloc == IF AllocMayFail THEN BOOLEAN ELSE {TRUE}

VARIABLES
    pc,             \* where in the library the thread is; "ready": in its client
    text,           \* how much configuration is left to read
    heap,           \* what the plugins allocated
    dl,             \* per device: its handle from dlopen
    elements,       \* per device: device->channel_head, a list of channels
    mapped_to,      \* per channel: the <<kind, index>> of its list element
    file_config,    \* devices of the file being parsed (context.config)
    device,         \* the device whose block is being parsed
    range,          \* device->range while the driver parses a map statement
    config,         \* moberg->config
    pos,            \* cursor of moberg_config_install_channels over config
    elem,           \* cursor over the elements of config[pos]
    capacity,       \* per kind: channel_list.capacity
    table           \* per slot: channel_list.value[index]

parserVars == <<text, file_config, device, range>>
mapVars == <<elements, mapped_to>>
cursorVars == <<pos, elem>>
tableVars == <<capacity, table>>
loadVars == <<pc, heap, dl, config, parserVars, mapVars, cursorVars, tableVars>>

NoRange == [kind |-> NULL, driver_kind |-> NULL, min |-> 0, max |-> 0]

LoadInit ==
    /\ pc = "paths"
    /\ text = MaxText
    /\ heap = EmptyHeap
    /\ dl = [d \in Device |-> "unopened"]
    /\ elements = [d \in Device |-> << >>]
    /\ mapped_to = [c \in Channel |-> NULL]
    /\ file_config = << >>
    /\ device = NULL
    /\ range = NoRange
    /\ config = << >>
    /\ pos = 1
    /\ elem = 1
    /\ capacity = [k \in Kind |-> 0]
    /\ table = [s \in Slot |-> NULL]

-----------------------------------------------------------------------------
(* Reading the configuration files *)

\* parse_config_at: the next readable file is handed to moberg_parse.
parse_config_at ==
    /\ pc = "paths" /\ text > 0
    /\ pc' = "file"
    /\ text' = text - 1
    /\ UNCHANGED <<heap, dl, config, file_config, device, range, mapVars,
                   cursorVars, tableVars>>

\* The file ended where a driver block may start.
moberg_config_join ==
    /\ pc = "file"
    /\ pc' = "paths"
    /\ config' = config \o file_config
    /\ file_config' = << >>
    /\ UNCHANGED <<heap, dl, text, device, range, mapVars, cursorVars, tableVars>>

\* A syntax error between blocks, or a driver that is not found.
parse_fails ==
    /\ pc = "file"
    /\ pc' = "discard"
    /\ UNCHANGED <<heap, dl, config, parserVars, mapVars, cursorVars, tableVars>>

moberg_device_new(d) ==
    /\ pc = "file" /\ text > 0
    /\ dl[d] = "unopened"
    /\ pc' = "device"
    /\ text' = text - 1
    /\ dl' = [dl EXCEPT ![d] = "open"]
    /\ heap' = device_up(new_context(heap, d), d)
    /\ device' = d
    /\ UNCHANGED <<config, file_config, range, mapVars, cursorVars, tableVars>>

\* map kind[lo:hi] = ...: the driver names a kind of its own for its channels.
moberg_device_parse_map(k, k1, lo, hi) ==
    /\ pc = "device" /\ text > 0
    /\ pc' = "map"
    /\ text' = text - 1
    /\ range' = [kind |-> k, driver_kind |-> k1, min |-> lo, max |-> hi]
    /\ UNCHANGED <<heap, dl, config, file_config, device, mapVars, cursorVars,
                   tableVars>>

\* The end of the driver's parse_map: device->range is on the stack.
end_map ==
    /\ pc = "map"
    /\ pc' = "device"
    /\ range' = NoRange
    /\ UNCHANGED <<heap, dl, config, text, file_config, device, mapVars,
                   cursorVars, tableVars>>

InRange == range.kind = range.driver_kind /\ range.min <= range.max

\* The driver creates a channel and map() puts it at the next free index.
map(c) ==
    /\ pc = "map" /\ heap.chan[c] = "none"
    /\ heap' = init_channel(heap, c, device)
    /\ InRange
    /\ elements' = [elements EXCEPT ![device] = Append(@, c)]
    /\ mapped_to' = [mapped_to EXCEPT ![c] = <<range.kind, range.min>>]
    /\ range' = [range EXCEPT !.min = @ + 1]
    /\ UNCHANGED <<pc, dl, config, text, file_config, device, cursorVars, tableVars>>

\* map() refuses the channel (EINVAL, ENOSPC, ENOMEM); the driver ignores that
\* and nobody holds the channel any more.
map_refuses(c) ==
    /\ pc = "map" /\ heap.chan[c] = "none"
    /\ heap' = init_channel(heap, c, device)
    /\ ~InRange \/ AllocMayFail
    /\ UNCHANGED <<pc, dl, config, parserVars, mapVars, cursorVars, tableVars>>

\* The closing brace of a driver block.
moberg_config_add_device ==
    /\ pc = "device"
    /\ pc' = "file"
    /\ file_config' = Append(file_config, device)
    /\ device' = NULL
    /\ UNCHANGED <<heap, dl, config, text, range, mapVars, cursorVars, tableVars>>

\* moberg_device_free: the list elements go, the channels they point to do not.
moberg_device_free(d, ok) ==
    /\ heap' = device_down(heap, d, ok)
    /\ elements' = [elements EXCEPT ![d] = << >>]
    /\ UNCHANGED mapped_to

\* A block that cannot be parsed, or added: the device is freed, the file fails.
parse_device_fails(ok) ==
    /\ pc \in {"device", "map"}
    /\ pc' = "discard"
    /\ moberg_device_free(device, ok)
    /\ device' = NULL
    /\ range' = NoRange
    /\ UNCHANGED <<dl, config, text, file_config, cursorVars, tableVars>>

\* moberg_parse frees the configuration of a file that failed.
discard_device(ok) ==
    /\ pc = "discard" /\ file_config # << >>
    /\ moberg_device_free(Head(file_config), ok)
    /\ file_config' = Tail(file_config)
    /\ UNCHANGED <<pc, dl, config, text, device, range, cursorVars, tableVars>>

discard_done ==
    /\ pc = "discard" /\ file_config = << >>
    /\ pc' = "paths"
    /\ UNCHANGED <<heap, dl, config, parserVars, mapVars, cursorVars, tableVars>>

-----------------------------------------------------------------------------
(* Installing the channels *)

install_config ==
    /\ pc = "paths"
    /\ pc' = "install"
    /\ UNCHANGED <<heap, dl, config, parserVars, mapVars, cursorVars, tableVars>>

channel_list_get(s) == IF s[2] < capacity[s[1]] THEN table[s] ELSE NULL

Fits(n, i) == n > i /\ \A m \in Capacities : m > i => n <= m

\* Seeded fault: capacities grow until they reach the index, not pass it.
channel_list_set_short(s, c) ==
    IF s[2] < capacity[s[1]]
    THEN table' = [table EXCEPT ![s] = c] /\ UNCHANGED capacity
    ELSE \E n \in Capacities :
            /\ n >= s[2] /\ \A m \in Capacities : m >= s[2] => n <= m
            /\ capacity' = [capacity EXCEPT ![s[1]] = n]
            /\ table' = [table EXCEPT ![s] = c]

\* The last disjunct is a realloc that fails: nothing is stored.
channel_list_set(s, c) ==
    \/ /\ s[2] < capacity[s[1]]
       /\ table' = [table EXCEPT ![s] = c]
       /\ UNCHANGED capacity
    \/ /\ capacity[s[1]] <= s[2]
       /\ \E n \in Capacities :
             /\ Fits(n, s[2])
             /\ capacity' = [capacity EXCEPT ![s[1]] = n]
             /\ table' = [t \in Slot |->
                   IF t = s THEN c
                   ELSE IF t[1] = s[1] /\ capacity[t[1]] <= t[2] THEN NULL
                   ELSE table[t]]
    \/ /\ capacity[s[1]] <= s[2]
       /\ AllocMayFail
       /\ UNCHANGED tableVars

down_old(s, ok) ==
    LET old == channel_list_get(s)
    IN  IF old = NULL THEN heap ELSE channel_down(heap, old, ok)

\* Seeded fault: the channel that was mapped first keeps the index.
install_channel_first_wins(c, ok) ==
    IF channel_list_get(mapped_to[c]) = NULL
    THEN /\ heap' = channel_up(heap, c)
         /\ channel_list_set(mapped_to[c], c)
    ELSE UNCHANGED <<heap, tableVars>>

\* Seeded fault: the table is given the channel, which gets no use.
install_channel_without_up(c, ok) ==
    /\ heap' = down_old(mapped_to[c], ok)
    /\ channel_list_set(mapped_to[c], c)

\* The channel that had the index is released first, and the new one held
\* before it is known whether the table can grow.
install_channel(c, ok) ==
    /\ heap' = channel_up(down_old(mapped_to[c], ok), c)
    /\ channel_list_set(mapped_to[c], c)

AtElement == pos <= Len(config) /\ elem <= Len(elements[config[pos]])

moberg_device_install_channels(ok) ==
    /\ pc = "install" /\ AtElement
    /\ install_channel(elements[config[pos]][elem], ok)
    /\ elem' = elem + 1
    /\ UNCHANGED <<pc, dl, config, parserVars, mapVars, pos>>

next_device ==
    /\ pc = "install" /\ pos <= Len(config) /\ ~AtElement
    /\ pos' = pos + 1
    /\ elem' = 1
    /\ UNCHANGED <<pc, heap, dl, config, parserVars, mapVars, tableVars>>

installed ==
    /\ pc = "install" /\ pos > Len(config)
    /\ pc' = "prune"
    /\ pos' = 1
    /\ elem' = 1
    /\ UNCHANGED <<heap, dl, config, parserVars, mapVars, tableVars>>

-----------------------------------------------------------------------------
(* Dropping the devices nobody uses *)

\* moberg_device_in_use takes a use and drops it to learn how many there are.
probe(d, ok) == device_down(device_up(heap, d), d, ok)

\* Seeded fault: the owner's own use is enough for a device to stay.
keep_device_unused(ok) ==
    /\ pc = "prune" /\ pos <= Len(config)
    /\ heap' = probe(config[pos], ok)
    /\ heap'.use[config[pos]] >= 1
    /\ pos' = pos + 1
    /\ UNCHANGED <<pc, dl, config, parserVars, mapVars, elem, tableVars>>

\* Seeded fault: the walk does not go on after a device that stays.
keep_device_stuck(ok) ==
    /\ pc = "prune" /\ pos <= Len(config)
    /\ heap' = probe(config[pos], ok)
    /\ heap'.use[config[pos]] > 1
    /\ UNCHANGED <<pc, dl, config, parserVars, mapVars, cursorVars, tableVars>>

keep_device(ok) ==
    /\ pc = "prune" /\ pos <= Len(config)
    /\ heap' = probe(config[pos], ok)
    /\ heap'.use[config[pos]] > 1
    /\ pos' = pos + 1
    /\ UNCHANGED <<pc, dl, config, parserVars, mapVars, elem, tableVars>>

drop_device(ok) ==
    /\ pc = "prune" /\ pos <= Len(config)
    /\ probe(config[pos], ok).use[config[pos]] <= 1
    /\ heap' = device_down(probe(config[pos], ok), config[pos], ok)
    /\ elements' = [elements EXCEPT ![config[pos]] = << >>]
    /\ config' = RemoveAt(config, pos)
    /\ UNCHANGED <<pc, dl, parserVars, mapped_to, cursorVars, tableVars>>

pruned ==
    /\ pc = "prune" /\ pos > Len(config)
    /\ pc' = "deferred"
    /\ pos' = 1
    /\ UNCHANGED <<heap, dl, config, parserVars, mapVars, elem, tableVars>>

-----------------------------------------------------------------------------
(* run_deferred_actions: every pending library is closed, the last one first *)

run_deferred_action ==
    /\ pc = "deferred" /\ heap.deferred # << >>
    /\ LET n == Len(heap.deferred)
       IN  /\ heap' = [heap EXCEPT !.deferred = SubSeq(@, 1, n - 1)]
           /\ dl' = [dl EXCEPT ![heap.deferred[n]] = "closed"]
    /\ UNCHANGED <<pc, config, parserVars, mapVars, cursorVars, tableVars>>

\* What moberg_new does, up to the point where it returns.
LoadStep ==
    \/ parse_config_at \/ moberg_config_join \/ parse_fails
    \/ \E d \in Device : moberg_device_new(d)
    \/ \E k, k1 \in Kind, lo, hi \in Index : moberg_device_parse_map(k, k1, lo, hi)
    \/ end_map \/ moberg_config_add_device
    \/ \E c \in Channel : map(c) \/ map_refuses(c)
    \/ \E ok \in Malloc : parse_device_fails(ok) \/ discard_device(ok)
    \/ discard_done
    \/ install_config \/ next_device \/ installed \/ pruned
    \/ \E ok \in Malloc : \/ moberg_device_install_channels(ok)
                          \/ keep_device(ok) \/ drop_device(ok)
=============================================================================
