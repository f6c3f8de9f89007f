-------------------------- MODULE MobergInductive --------------------------
(***************************************************************************)
(* The inductive invariant of Moberg.  Its conjuncts fall into facts about *)
(* the heap alone, which the plugin operations preserve, and facts that    *)
(* tie the lists, the cursors and the table to the heap.                   *)
(*                                                                         *)
(* NothingLost is what holds besides it where no allocation fails: nothing *)
(* is held that the library does not know of, and the table holds what the *)
(* configuration says.                                                     *)
(***************************************************************************)
EXTENDS Moberg

\* A device is in one list, once, and only the parser's device is in none.
ListsSound ==
    /\ IsInjective(config) /\ IsInjective(file_config)
    /\ ToSet(config) \cap ToSet(file_config) = {}
    /\ device \notin ToSet(config) \cup ToSet(file_config)

Parsing == {"paths", "file", "device", "map", "discard"}

PhaseSound ==
    /\ pc \notin {"device", "map"} => device = NULL
    /\ pc \notin {"file", "device", "map", "discard"} => file_config = << >>
    /\ pc \in Parsing \cup {"install", "prune"} => ~should_free
    /\ pc \in {"free_config", "free_channels", "gone"} => should_free
    /\ pc # "ready" => \A cl \in Client : opened[cl] = NULL

\* What a device lists are its own channels, each once.
ElementsSound ==
    \A d \in Device :
        /\ d \notin Owned => elements[d] = << >>
        /\ IsInjective(elements[d])
        /\ \A i \in 1..Len(elements[d]) :
              /\ heap.chan[elements[d][i]] # "none"
              /\ heap.chan_dev[elements[d][i]] = d
              /\ mapped_to[elements[d][i]] \in Slot

\* Not yet installed: every element while the files are parsed, those from the
\* cursor on while the channels are installed.
Pending(d, i) ==
    \/ pc \in Parsing
    \/ /\ pc = "install"
       /\ \E p \in 1..Len(config) :
             config[p] = d /\ (p > pos \/ (p = pos /\ i >= elem))

PendingUnused ==
    \A d \in Device : \A i \in 1..Len(elements[d]) : Pending(d, i) =>
        /\ heap.chan[elements[d][i]] = "live"
        /\ heap.chan_use[elements[d][i]] = 0

TableSound ==
    \A s \in Slot : table[s] # NULL =>
        /\ heap.chan_use[table[s]] = 1
        /\ mapped_to[table[s]] = s
        /\ s[2] < capacity[s[1]]

ClientsSound ==
    /\ open_channels = Cardinality({cl \in Client : opened[cl] # NULL})
    /\ \A cl \in Client : opened[cl] # NULL =>
          handle[cl] # NULL /\ table[opened[cl]] = handle[cl]

IInv ==
    /\ TypeOK
    /\ HeapSound(heap, dl, Owned)
    /\ ListsSound
    /\ PhaseSound
    /\ ElementsSound
    /\ PendingUnused
    /\ TableSound
    /\ ClientsSound

-----------------------------------------------------------------------------
(* Without failing allocations *)

TornDown == pc = "gone" \/ (pc = "deferred" /\ should_free)
Returning == pc = "ready" \/ (pc = "deferred" /\ ~should_free)

\* Nothing is installed while files are parsed, nothing is left in the end; the
\* cursors start at the beginning.
EmptySound ==
    /\ pc = "free_channels" \/ TornDown => config = << >>
    /\ pc \in Parsing \/ TornDown => \A s \in Slot : table[s] = NULL
    /\ pc = "gone" => heap.deferred = << >>
    /\ pc \in Parsing => pos = 1 /\ elem = 1

\* What is up is in the table, and its device in the configuration until the
\* teardown starts.
HeldSound ==
    /\ \A c \in Channel : heap.chan_use[c] = 1 => \E s \in Slot : table[s] = c
    /\ pc \in {"install", "prune"} \/ Returning =>
          \A s \in Slot : table[s] # NULL => heap.chan_dev[table[s]] \in ToSet(config)

\* The devices the pruning has passed are in use.
PrunedSound ==
    \A i \in 1..Len(config) : (pc = "prune" /\ i < pos) \/ Returning =>
        Users(heap, config[i]) # {}

Installed(i, j) ==
    \/ Loaded
    \/ pc = "install" /\ (i < pos \/ (i = pos /\ j < elem))

\* The slot of an installed channel holds it, or one installed after it.
LaterWins ==
    \A i \in 1..Len(config) : \A j \in 1..Len(elements[config[i]]) : Installed(i, j) =>
        \E k \in 1..Len(config) : \E l \in 1..Len(elements[config[k]]) :
            /\ table[mapped_to[elements[config[i]][j]]] = elements[config[k]][l]
            /\ i < k \/ (i = k /\ j <= l)

NothingLost ==
    /\ LibrariesPending(heap, dl)
    /\ EmptySound
    /\ HeldSound
    /\ PrunedSound
    /\ LaterWins
=============================================================================
