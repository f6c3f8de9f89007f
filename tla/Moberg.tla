------------------------------- MODULE Moberg -------------------------------
(***************************************************************************)
(* The library as its clients see it (moberg.c): channels are opened and   *)
(* closed, moberg_free asks for the struct to be freed, and free_if_unused *)
(* tears it down when that has been asked for and no channel is open: the  *)
(* devices first, then the channels of the five tables, then the libraries *)
(* whose last device context went.                                         *)
(***************************************************************************)
EXTENDS MobergLoad

CONSTANT Client
ASSUME ClientAssumption == IsFiniteSet(Client)
ASSUME SlotNullAssumption == NULL \notin Slot

VARIABLES
    open_channels,  \* moberg->open_channels
    should_free,    \* moberg->should_free
    opened,         \* per client: the slot it has open, or NULL
    handle          \* per client: the context pointer moberg_..._open gave it

clientVars == <<opened, handle>>
countVars == <<open_channels, should_free>>
vars == <<loadVars, clientVars, countVars>>

Init ==
    /\ LoadInit
    /\ open_channels = 0
    /\ should_free = FALSE
    /\ opened = [cl \in Client |-> NULL]
    /\ handle = [cl \in Client |-> NULL]

\* Seeded fault: channels that are still open do not delay the teardown.
free_if_unused_at_once(asked, n) ==
    pc' = IF asked THEN "free_config" ELSE "ready"

\* Seeded fault: the struct goes while one channel is still open.
free_if_unused_one_early(asked, n) ==
    pc' = IF asked /\ n <= 1 THEN "free_config" ELSE "ready"

\* Where the call goes on: nothing else happens unless the struct is unused.
free_if_unused(asked, n) ==
    pc' = IF asked /\ n = 0 THEN "free_config" ELSE "ready"

\* Seeded fault: a channel opened after moberg_free is not counted.
moberg_open_uncounted(cl, s) ==
    /\ pc = "ready" /\ opened[cl] = NULL
    /\ channel_list_get(s) # NULL
    /\ open_channels' = IF should_free THEN open_channels ELSE open_channels + 1
    /\ opened' = [opened EXCEPT ![cl] = s]
    /\ handle' = [handle EXCEPT ![cl] = channel_list_get(s)]
    /\ UNCHANGED <<loadVars, should_free>>

\* moberg_analog_in_open and its four siblings, where the driver agrees.
moberg_open(cl, s) ==
    /\ pc = "ready" /\ opened[cl] = NULL
    /\ channel_list_get(s) # NULL
    /\ open_channels' = open_channels + 1
    /\ opened' = [opened EXCEPT ![cl] = s]
    /\ handle' = [handle EXCEPT ![cl] = channel_list_get(s)]
    /\ UNCHANGED <<loadVars, should_free>>

\* Seeded fault: an open is counted before its driver is asked.
moberg_open_refused_counted(cl) ==
    /\ pc = "ready" /\ opened[cl] = NULL
    /\ open_channels' = open_channels + 1
    /\ UNCHANGED <<loadVars, clientVars, should_free>>

\* There is no channel of that index, or its driver refuses.
moberg_open_refused(cl) ==
    /\ pc = "ready" /\ opened[cl] = NULL
    /\ UNCHANGED vars

\* Seeded fault: only moberg_free itself looks whether the struct is unused.
moberg_close_without_free(cl) ==
    /\ pc = "ready" /\ opened[cl] # NULL
    /\ channel_list_get(opened[cl]) # NULL
    /\ channel_list_get(opened[cl]) = handle[cl]
    /\ open_channels' = open_channels - 1
    /\ opened' = [opened EXCEPT ![cl] = NULL]
    /\ handle' = [handle EXCEPT ![cl] = NULL]
    /\ UNCHANGED <<loadVars, should_free>>

\* moberg_analog_in_close and its four siblings: the handle has to be the one
\* the table holds.  The driver's own result does not matter to the count.
moberg_close(cl) ==
    /\ pc = "ready" /\ opened[cl] # NULL
    /\ channel_list_get(opened[cl]) # NULL
    /\ channel_list_get(opened[cl]) = handle[cl]
    /\ open_channels' = open_channels - 1
    /\ free_if_unused(should_free, open_channels - 1)
    /\ opened' = [opened EXCEPT ![cl] = NULL]
    /\ handle' = [handle EXCEPT ![cl] = NULL]
    /\ UNCHANGED <<heap, dl, config, parserVars, mapVars, cursorVars, tableVars,
                   should_free>>

moberg_free ==
    /\ pc = "ready"
    /\ should_free' = TRUE
    /\ free_if_unused(TRUE, open_channels)
    /\ UNCHANGED <<heap, dl, config, parserVars, mapVars, cursorVars, tableVars,
                   clientVars, open_channels>>

-----------------------------------------------------------------------------
(* The teardown *)

moberg_config_free(ok) ==
    /\ pc = "free_config" /\ config # << >>
    /\ moberg_device_free(Head(config), ok)
    /\ config' = Tail(config)
    /\ UNCHANGED <<pc, dl, parserVars, cursorVars, tableVars>>

moberg_config_freed ==
    /\ pc = "free_config" /\ config = << >>
    /\ pc' = "free_channels"
    /\ UNCHANGED <<heap, dl, config, parserVars, mapVars, cursorVars, tableVars>>

\* The five lists are walked in turn; any order of their channels is allowed.
channel_list_free(s, ok) ==
    /\ pc = "free_channels" /\ table[s] # NULL
    /\ heap' = channel_down(heap, table[s], ok)
    /\ table' = [table EXCEPT ![s] = NULL]
    /\ UNCHANGED <<pc, dl, config, parserVars, mapVars, cursorVars, capacity>>

channel_lists_freed ==
    /\ pc = "free_channels" /\ \A s \in Slot : table[s] = NULL
    /\ pc' = "deferred"
    /\ UNCHANGED <<heap, dl, config, parserVars, mapVars, cursorVars, tableVars>>

\* The pending actions have run: moberg_new returns, or the struct is freed.
deferred_done ==
    /\ pc = "deferred" /\ heap.deferred = << >>
    /\ pc' = IF should_free THEN "gone" ELSE "ready"
    /\ UNCHANGED <<heap, dl, config, parserVars, mapVars, cursorVars, tableVars>>

TeardownStep ==
    \/ \E ok \in Malloc : \/ moberg_config_free(ok)
                          \/ \E s \in Slot : channel_list_free(s, ok)
    \/ moberg_config_freed \/ channel_lists_freed

\* Every step the library takes on its own, inside a call.
LibraryStep ==
    /\ LoadStep \/ TeardownStep \/ run_deferred_action \/ deferred_done
    /\ UNCHANGED <<clientVars, countVars>>

\* The calls that are carried out.
ClientStep ==
    \/ \E cl \in Client : moberg_close(cl) \/ \E s \in Slot : moberg_open(cl, s)
    \/ moberg_free

Next == LibraryStep \/ ClientStep \/ \E cl \in Client : moberg_open_refused(cl)

\* A call that has been entered runs to its end; nobody has to make one.
Spec == Init /\ [][Next]_vars /\ WF_vars(LibraryStep)

-----------------------------------------------------------------------------
(* Safety *)

Phases == {"paths", "file", "device", "map", "discard", "install", "prune",
           "deferred", "ready", "free_config", "free_channels", "gone"}

Ranges == [kind : Kind, driver_kind : Kind, min : Nat, max : Index]

HeapOK ==
    /\ heap \in Heap
    /\ dl \in [Device -> {"unopened", "open", "closed"}]

ParserOK ==
    /\ text \in Nat
    /\ elements \in [Device -> Seq(Channel)]
    /\ mapped_to \in [Channel -> Slot \cup {NULL}]
    /\ file_config \in Seq(Device)
    /\ device \in Device \cup {NULL}
    /\ range \in Ranges \cup {NoRange}
    /\ pc = "map" => range \in Ranges
    /\ pc \in {"device", "map"} => device \in Device

InstallOK ==
    /\ config \in Seq(Device)
    /\ pos \in Nat \ {0}
    /\ elem \in Nat \ {0}
    /\ capacity \in [Kind -> Nat]
    /\ table \in [Slot -> Channel \cup {NULL}]

ClientsOK ==
    /\ open_channels \in Int
    /\ should_free \in BOOLEAN
    /\ opened \in [Client -> Slot \cup {NULL}]
    /\ handle \in [Client -> Channel \cup {NULL}]

\* Every variable has its type, and the fields a phase reads are set in it.
TypeOK == pc \in Phases /\ HeapOK /\ ParserOK /\ InstallOK /\ ClientsOK

\* The devices somebody will still call moberg_device_free for.
Owned == ToSet(config) \cup ToSet(file_config) \cup ({device} \ {NULL})

\* A device context lives exactly as long as its list entry or one of its
\* channels needs it, and its use_count says how many they are, in every phase
\* of loading, running and freeing (moberg_device.h: use-count of device).
UseCountsExact == Counted(heap, Owned)

\* Whatever the table holds can be called: the channel and its device are
\* allocated, the code of the plugin is loaded, the index is inside the array
\* and the channel is at the slot it was mapped to.  True also when an old
\* channel was released and the table could not grow (moberg.c:198-232).
NoDanglingChannel ==
    \A s \in Slot : table[s] # NULL =>
        LET c == table[s]
            d == heap.chan_dev[c]
        IN  /\ heap.chan[c] = "live" /\ heap.chan_use[c] = 1
            /\ heap.ctx[d] = "live" /\ dl[d] = "open"
            /\ mapped_to[c] = s
            /\ s[2] < capacity[s[1]]

\* A library is closed after its last context is gone and only once: device
\* contexts and up'ed channels always find their code, and what is pending in
\* deferred_action is open, without a context, and not pending twice.
LibraryOutlivesContext ==
    /\ \A d \in Device : heap.ctx[d] = "live" => dl[d] = "open"
    /\ \A i \in 1..Len(heap.deferred) :
          /\ dl[heap.deferred[i]] = "open"
          /\ heap.ctx[heap.deferred[i]] = "freed"
    /\ \A i, j \in 1..Len(heap.deferred) :
          heap.deferred[i] = heap.deferred[j] => i = j

\* moberg_..._close of an open channel finds the channel the client opened: no
\* EINVAL, no ENODEV and no freed struct, whatever other clients did and
\* whether or not moberg_free has been called in between.
CloseFindsItsChannel ==
    \A cl \in Client : opened[cl] # NULL =>
        /\ pc = "ready"
        /\ handle[cl] # NULL
        /\ channel_list_get(opened[cl]) = handle[cl]

\* open_channels, which decides when the struct may go, is the number of open
\* handles; the struct is whole while there is one or nobody asked.
OpenChannelsExact ==
    /\ open_channels = Cardinality({cl \in Client : opened[cl] # NULL})
    /\ pc \in {"free_config", "free_channels", "gone"}
          => should_free /\ open_channels = 0

Loaded == pc \in {"prune", "ready"} \/ (pc = "deferred" /\ ~should_free)

Positions == {p \in (1..Len(config)) \X (1..Cardinality(Channel)) :
                 p[2] <= Len(elements[config[p[1]]])}
ChannelAt(p) == elements[config[p[1]]][p[2]]
Before(p, q) == p[1] < q[1] \/ (p[1] = q[1] /\ p[2] < q[2])

\* A slot that several map statements name belongs to the last one, in the
\* order of files, blocks and statements, and a slot that is named is never
\* empty: later configuration files override earlier ones.
LastMappingWins ==
    Loaded => \A p \in Positions :
        LET s == mapped_to[ChannelAt(p)]
        IN  /\ table[s] # NULL
            /\ (\A q \in Positions : Before(p, q) => mapped_to[ChannelAt(q)] # s)
                  => table[s] = ChannelAt(p)

\* Once loaded, the configuration is exactly the devices that still serve a
\* slot: moberg_start and moberg_stop reach each of them and no other.
ConfigIsDevicesInUse ==
    pc = "ready" =>
        ToSet(config) = {heap.chan_dev[table[s]] : s \in {t \in Slot : table[t] # NULL}}

\* When the struct is gone nothing that was reachable is left: no context, no
\* loaded library, no channel that ever got a use (without allocation failures).
NothingHeldWhenGone ==
    pc = "gone" =>
        /\ \A d \in Device : heap.ctx[d] # "live" /\ dl[d] # "open"
        /\ \A c \in Channel : heap.chan_use[c] = 0
        /\ heap.deferred = << >>

-----------------------------------------------------------------------------
(* What a step may never do *)

\* No step touches the counters of a freed context or a freed channel, nor
\* brings one back, nor takes a use below zero.
NoUseAfterFree ==
    [][/\ \A d \in Device : heap.ctx[d] = "freed" =>
              heap'.ctx[d] = "freed" /\ heap'.use[d] = heap.use[d]
       /\ \A c \in Channel : heap.chan[c] = "freed" =>
              heap'.chan[c] = "freed" /\ heap'.chan_use[c] = heap.chan_use[c]
       /\ \A d \in Device : dl[d] = "closed" => dl'[d] = "closed"]_vars

-----------------------------------------------------------------------------
(* Liveness *)

\* Asked for and unused, the struct is freed.
UnusedIsFreed == should_free /\ open_channels = 0 ~> pc = "gone"

-----------------------------------------------------------------------------
(* Refinement: the library keeps the promises of MobergHandle *)

HandleState ==
    CASE pc \in {"free_config", "free_channels"} -> "reclaiming"
      [] pc = "deferred" -> IF should_free THEN "reclaiming" ELSE "loading"
      [] pc = "ready" -> "usable"
      [] pc = "gone" -> "gone"
      [] OTHER -> "loading"

Promise == INSTANCE MobergHandle WITH
    state <- HandleState,
    available <- IF pc = "ready" THEN {s \in Slot : channel_list_get(s) # NULL} ELSE {},
    asked <- should_free

\* Loading, opening, closing and freeing, as the library does them, are steps
\* of the abstract struct, which is reclaimed when its clients are done; and
\* moberg_new returns, whatever the configuration files contain.
HandlePromise == Promise!Spec

\* Any address but NULL.
Address == CHOOSE a \in {0, 1} : a # NULL

Calls == INSTANCE Library WITH Channel <- Slot, Struct <- {Address}

\* The struct as a binding knows it: there is none before moberg_new returns, nor
\* from the call on that starts the teardown.
Structs ==
    [a \in {Address} |->
        IF pc # "ready" THEN Calls!NoMoberg
        ELSE [alive |-> TRUE, should_free |-> should_free,
              opens |-> [s \in Slot |-> Cardinality({cl \in Client : opened[cl] = s})]]]

\* The calls are those that the models of the language bindings use: an open and a
\* close count for their channel, the struct goes inside the call after which it
\* is unused and was asked to go, and nothing a call does on its way shows.
CallsAsInLibrary ==
    [][/\ LibraryStep => \/ Structs' = Structs
                         \/ /\ Calls!Alive(Structs) = {}
                            /\ Structs' = Calls!moberg_new(Structs, Address)
       /\ \A cl \in Client :
             /\ \A s \in Slot : moberg_open(cl, s) =>
                   Structs' = Calls!moberg_open(Structs, Address, s)
             /\ moberg_close(cl) =>
                   Structs' = Calls!moberg_close(Structs, Address, opened[cl])
       /\ moberg_free => Structs' = Calls!moberg_free(Structs, Address)]_vars
=============================================================================
