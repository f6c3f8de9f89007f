------------------------------- MODULE Comedi -------------------------------
(***************************************************************************)
(* The comedi driver (plugins/comedi/comedi.c) under a loaded struct       *)
(* moberg: the device file is opened with the first open channel and       *)
(* closed with the last one, and unlike the other drivers an open takes a  *)
(* use of the channel, in addition to the one of the library's table.      *)
(*                                                                         *)
(* The use counts are those of Plugin, which comedi implements like        *)
(* libtest.  Loading and the order of the teardown are in MobergLoad and   *)
(* Moberg: here moberg_new has returned and the teardown is one step.      *)
(***************************************************************************)
EXTENDS Plugin

CONSTANTS
    Client,         \* handles clients may hold, one channel each
    MaxFailures     \* bound: opens that fail after the device was opened

ASSUME ClientAssumption == IsFiniteSet(Client)
ASSUME FailuresAssumption == MaxFailures \in Nat
ASSUME DeviceAssumption == IsFiniteSet(Device)

VARIABLES
    heap,           \* device contexts and channels with their use counts
    count,          \* per device: comedi.count
    handle,         \* per device: comedi.handle: "none", "open" or "closed"
    client,         \* per client: the channel it has open, or NULL
    open_channels, should_free, gone,   \* of struct moberg; gone: it is freed
    failures        \* number of opens that failed after device_open

vars == <<heap, count, handle, client, open_channels, should_free, gone, failures>>

\* As moberg_new leaves it: every device in the configuration, every channel
\* in the table.
LoadedHeap(dev) ==
    [ctx      |-> [d \in Device |-> "live"],
     use      |-> [d \in Device |-> 1 + Cardinality({c \in Channel : dev[c] = d})],
     chan     |-> [c \in Channel |-> "live"],
     chan_use |-> [c \in Channel |-> 1],
     chan_dev |-> dev,
     deferred |-> << >>]

Init ==
    /\ \E dev \in [Channel -> Device] : heap = LoadedHeap(dev)
    /\ count = [d \in Device |-> 0]
    /\ handle = [d \in Device |-> "none"]
    /\ client = [cl \in Client |-> NULL]
    /\ open_channels = 0 /\ should_free = FALSE /\ gone = FALSE
    /\ failures = 0

-----------------------------------------------------------------------------
(* The driver *)

\* device_open succeeds: the first one opens the device file.
device_open(d) ==
    /\ count' = [count EXCEPT ![d] = @ + 1]
    /\ handle' = IF count[d] = 0 THEN [handle EXCEPT ![d] = "open"] ELSE handle

\* What comedi_close returns decides what the close returns, and nothing else: the
\* count and open_channels go down and the handle is not used again all the same.
device_close(d) ==
    /\ count' = [count EXCEPT ![d] = @ - 1]
    /\ handle' = IF count[d] = 1 THEN [handle EXCEPT ![d] = "closed"] ELSE handle

\* Seeded fault: the open does not take a use of the channel.
channel_open_without_up(c) ==
    /\ device_open(heap.chan_dev[c])
    /\ heap' = heap

channel_open(c) ==
    /\ device_open(heap.chan_dev[c])
    /\ heap' = channel_up(heap, c)

\* What moberg_config_free, channel_list_free and the deferred actions do: each
\* device loses the use of the configuration, each channel that of the table.
Torn(h) ==
    LET devices  == FoldSet(LAMBDA d, g : device_down(g, d, TRUE), h, Device)
        channels == FoldSet(LAMBDA c, g : channel_down(g, c, TRUE), devices, Channel)
    IN  [channels EXCEPT !.deferred = << >>]

free_if_unused(h) ==
    IF should_free' /\ open_channels' = 0
    THEN gone' = TRUE /\ heap' = Torn(h)
    ELSE gone' = FALSE /\ heap' = h

-----------------------------------------------------------------------------
(* The library's operations; an open that comedi_open refuses changes nothing *)

moberg_open(cl, c) ==
    /\ ~gone /\ client[cl] = NULL
    /\ channel_open(c)
    /\ client' = [client EXCEPT ![cl] = c]
    /\ open_channels' = open_channels + 1
    /\ UNCHANGED <<should_free, gone, failures>>

\* The device has no range, no such line or no such route: channel_open returns
\* an error and leaves what it has opened and counted.
moberg_open_fails(c) ==
    /\ ~gone /\ failures < MaxFailures
    /\ channel_open(c)
    /\ failures' = failures + 1
    /\ UNCHANGED <<client, open_channels, should_free, gone>>

\* Seeded fault: the close forgets the use the open took.
moberg_close_without_down(cl) ==
    /\ ~gone /\ client[cl] # NULL
    /\ device_close(heap.chan_dev[client[cl]])
    /\ client' = [client EXCEPT ![cl] = NULL]
    /\ open_channels' = open_channels - 1
    /\ UNCHANGED <<should_free, failures>>
    /\ free_if_unused(heap)

moberg_close(cl) ==
    /\ ~gone /\ client[cl] # NULL
    /\ device_close(heap.chan_dev[client[cl]])
    /\ client' = [client EXCEPT ![cl] = NULL]
    /\ open_channels' = open_channels - 1
    /\ UNCHANGED <<should_free, failures>>
    /\ free_if_unused(channel_down(heap, client[cl], TRUE))

moberg_free ==
    /\ ~should_free
    /\ should_free' = TRUE
    /\ UNCHANGED <<count, handle, client, open_channels, failures>>
    /\ free_if_unused(heap)

Next ==
    \/ \E cl \in Client : moberg_close(cl) \/ \E c \in Channel : moberg_open(cl, c)
    \/ \E c \in Channel : moberg_open_fails(c)
    \/ moberg_free

Spec == Init /\ [][Next]_vars

-----------------------------------------------------------------------------
(* Safety *)

\* The types of the variables.
TypeOK ==
    /\ heap \in Heap
    /\ count \in [Device -> Nat]
    /\ handle \in [Device -> {"none", "open", "closed"}]
    /\ client \in [Client -> Channel \cup {NULL}]
    /\ open_channels \in 0..Cardinality(Client)
    /\ should_free \in BOOLEAN /\ gone \in BOOLEAN
    /\ failures \in 0..MaxFailures

ClientsOf(c) == {cl \in Client : client[cl] = c}
ClientsOn(d) == {cl \in Client : client[cl] # NULL /\ heap.chan_dev[client[cl]] = d}

\* A client with an open channel has a live channel on a live device whose file
\* is open, whatever other clients opened, failed to open, closed or freed.
OpenIsUsable ==
    \A cl \in Client : client[cl] # NULL =>
        LET d == heap.chan_dev[client[cl]]
        IN  heap.chan[client[cl]] = "live" /\ heap.ctx[d] = "live" /\ handle[d] = "open"

\* A channel is used by the table and by those who have it open, and a device by
\* the configuration and the uses of its channels (moberg_channel.h:38).
UseCountIsUses ==
    ~gone =>
        /\ \A c \in Channel : heap.chan_use[c] = 1 + Cardinality(ClientsOf(c))
        /\ \A d \in Device :
              heap.use[d] = 1 + Cardinality({c \in Channel : heap.chan_dev[c] = d})
                              + Cardinality(ClientsOn(d))

FilesOpenWhileUsed == \A d \in Device : handle[d] = "open" <=> ClientsOn(d) # {}

NothingHeldWhenGone ==
    gone => /\ \A c \in Channel : heap.chan[c] = "freed"
            /\ \A d \in Device : heap.ctx[d] = "freed"

\* Through every sequence of opens that succeed, closes and moberg_free it is so,
\* a device file is open exactly while somebody has a channel of it open, and
\* every channel and device is freed when the struct goes.
UsesExactUntilFailure ==
    failures = 0 => UseCountIsUses /\ FilesOpenWhileUsed /\ NothingHeldWhenGone
=============================================================================
