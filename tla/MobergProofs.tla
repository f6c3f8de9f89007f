---------------------------- MODULE MobergProofs ----------------------------
(***************************************************************************)
(* IInv is an invariant of Moberg, for every set of devices, channels,     *)
(* clients and kinds, any amount of configuration text and with or without *)
(* failing allocations; and what it implies: also what a step may never    *)
(* do, that every step is one of the abstract struct of MobergHandle or    *)
(* changes nothing of it, that every call is the one of Library, and,      *)
(* where no allocation fails, what the table and the configuration hold    *)
(* once moberg_new has returned and that nothing is left when the struct   *)
(* is freed.                                                               *)
(***************************************************************************)
EXTENDS MobergInductive, PluginProofs, FoldProofs

USE DEF parserVars, mapVars, cursorVars, tableVars, clientVars, countVars

-----------------------------------------------------------------------------
(* The initial states *)

LEMMA InitIInv == Init => IInv
  <1> SUFFICES ASSUME Init PROVE IInv
    OBVIOUS
  <1> USE DEF Init, LoadInit
  <1>1. Owned = {}
    BY EmptyList DEF Owned
  <1>2. EmptyHeap \in Heap
    BY EmptyList DEF EmptyHeap, Heap, Lifetime
  <1>3. HeapSound(heap, dl, Owned)
    <2>1. ChannelsSound(heap)
      BY DEF EmptyHeap, ChannelsSound
    <2>2. LibrariesSound(heap, dl)
      BY EmptyList DEF EmptyHeap, LibrariesSound
    <2>3. Counted(heap, {})
      BY DEF EmptyHeap, Counted, Users
    <2> QED BY <1>1, <1>2, <2>1, <2>2, <2>3 DEF HeapSound
  <1>4. TypeOK
    <2>1. HeapOK
      BY <1>2 DEF HeapOK
    <2>2. ParserOK
      BY TextAssumption, EmptyList DEF ParserOK
    <2>3. InstallOK
      BY EmptyList DEF InstallOK
    <2>4. ClientsOK
      <3>1. /\ open_channels \in Int
            /\ opened \in [Client -> Slot \cup {NULL}]
            /\ handle \in [Client -> Channel \cup {NULL}]
        OBVIOUS
      <3>2. should_free \in BOOLEAN
        OBVIOUS
      <3> QED BY <3>1, <3>2 DEF ClientsOK
    <2> QED BY <2>1, <2>2, <2>3, <2>4 DEF TypeOK, Phases
  <1>5. ListsSound
    BY EmptyList DEF ListsSound
  <1>6. PhaseSound
    BY DEF PhaseSound, Parsing
  <1>7. ElementsSound /\ PendingUnused
    <2>1. \A d \in Device : elements[d] = << >> /\ Len(elements[d]) = 0
      OBVIOUS
    <2> QED BY <2>1, EmptyList DEF ElementsSound, PendingUnused
  <1>8. TableSound
    BY DEF TableSound
  <1>9. ClientsSound
    <2>1. {cl \in Client : opened[cl] # NULL} = {}
      OBVIOUS
    <2> QED BY <2>1, FS_EmptySet DEF ClientsSound
  <1> QED BY <1>3, <1>4, <1>5, <1>6, <1>7, <1>8, <1>9 DEF IInv

-----------------------------------------------------------------------------
(* Steps that only move on *)

\* What the lists, the heap, the table and the clients owe to IInv is kept by
\* a step that leaves them alone.
LEMMA MovesOn ==
    ASSUME IInv,
           UNCHANGED <<heap, dl, config, file_config, device, mapVars, tableVars,
                       clientVars, countVars>>,
           pc' \in Phases, text' \in Nat, range' \in Ranges \cup {NoRange},
           pos' \in Nat \ {0}, elem' \in Nat \ {0},
           pc' = "map" => range' \in Ranges,
           pc' \in {"device", "map"} => device \in Device,
           PhaseSound',
           \A d \in Device : \A i \in 1..Len(elements[d]) :
               Pending(d, i)' => Pending(d, i)
    PROVE  IInv'
  <1>1. TypeOK'
    <2>1. HeapOK' /\ ParserOK' /\ InstallOK' /\ ClientsOK'
      BY DEF IInv, TypeOK, HeapOK, ParserOK, InstallOK, ClientsOK
    <2> QED BY <2>1 DEF TypeOK
  <1>2. Owned' = Owned
    BY DEF Owned
  <1>3. HeapSound(heap, dl, Owned)'
    BY <1>2 DEF IInv
  <1>4. ListsSound'
    BY DEF IInv, ListsSound
  <1>5. ElementsSound'
    BY <1>2 DEF IInv, ElementsSound
  <1>6. PendingUnused'
    BY DEF IInv, PendingUnused
  <1>7. TableSound' /\ ClientsSound'
    BY DEF IInv, TableSound, ClientsSound
  <1> QED BY <1>1, <1>3, <1>4, <1>5, <1>6, <1>7 DEF IInv

LEMMA ParserMoves ==
    ASSUME IInv, UNCHANGED <<clientVars, countVars>>,
           \/ parse_config_at \/ parse_fails \/ end_map \/ discard_done
           \/ \E k, k1 \in Kind, lo, hi \in Index : moberg_device_parse_map(k, k1, lo, hi)
    PROVE  IInv'
  <1> USE DEF IInv, TypeOK, ParserOK, InstallOK, PhaseSound, Parsing, Phases, Pending
  <1>1. CASE parse_config_at
    BY <1>1, MovesOn DEF parse_config_at
  <1>2. CASE parse_fails
    BY <1>2, MovesOn DEF parse_fails
  <1>3. CASE end_map
    BY <1>3, MovesOn DEF end_map
  <1>4. CASE discard_done
    BY <1>4, MovesOn DEF discard_done
  <1>5. ASSUME NEW k \in Kind, NEW k1 \in Kind, NEW lo \in Index, NEW hi \in Index,
               moberg_device_parse_map(k, k1, lo, hi)
        PROVE  IInv'
    <2>1. [kind |-> k, driver_kind |-> k1, min |-> lo, max |-> hi] \in Ranges
      BY IndexAssumption DEF Ranges, Index
    <2> QED BY <1>5, <2>1, MovesOn DEF moberg_device_parse_map
  <1> QED BY <1>1, <1>2, <1>3, <1>4, <1>5

LEMMA InstallMoves ==
    ASSUME IInv, UNCHANGED <<clientVars, countVars>>,
           \/ install_config \/ next_device \/ installed \/ pruned
    PROVE  IInv'
  <1> USE DEF IInv, TypeOK, ParserOK, InstallOK, PhaseSound, Parsing, Phases, Pending
  <1>1. CASE install_config
    BY <1>1, MovesOn DEF install_config
  <1>2. CASE next_device
    <2>1. /\ pos \in Nat /\ elem \in Nat /\ pos' = pos + 1 /\ elem' = 1
          /\ pc' = pc /\ pc = "install" /\ config' = config
          /\ UNCHANGED <<heap, dl, text, file_config, device, range, mapVars, tableVars>>
      BY <1>2 DEF next_device
    <2>2. Len(config) \in Nat
      BY ListIndices
    <2>3. \A d \in Device : \A i \in 1..Len(elements[d]) :
              Pending(d, i)' => Pending(d, i)
      BY <2>1, <2>2
    <2> QED BY <2>1, <2>3, MovesOn
  <1>3. CASE installed
    BY <1>3, MovesOn DEF installed
  <1>4. CASE pruned
    BY <1>4, MovesOn DEF pruned
  <1> QED BY <1>1, <1>2, <1>3, <1>4

LEMMA TeardownMoves ==
    ASSUME IInv, UNCHANGED <<clientVars, countVars>>,
           moberg_config_freed \/ channel_lists_freed \/ deferred_done
    PROVE  IInv'
  <1> USE DEF IInv, TypeOK, ParserOK, InstallOK, ClientsOK, PhaseSound, Parsing, Phases, Pending
  <1>1. CASE moberg_config_freed
    BY <1>1, MovesOn DEF moberg_config_freed
  <1>2. CASE channel_lists_freed
    BY <1>2, MovesOn DEF channel_lists_freed
  <1>3. CASE deferred_done
    BY <1>3, MovesOn DEF deferred_done
  <1> QED BY <1>1, <1>2, <1>3

-----------------------------------------------------------------------------
(* Steps that hand a device from one list to another *)

LEMMA JoinStep ==
    ASSUME IInv, UNCHANGED <<clientVars, countVars>>, moberg_config_join
    PROVE  IInv'
  <1>1. /\ pc = "file" /\ pc' = "paths"
        /\ config' = config \o file_config /\ file_config' = << >>
        /\ UNCHANGED <<heap, dl, text, device, range, mapVars, cursorVars, tableVars>>
    BY DEF moberg_config_join
  <1>2. config \in Seq(Device) /\ file_config \in Seq(Device)
    BY DEF IInv, TypeOK, ParserOK, InstallOK
  <1>3. /\ config' \in Seq(Device)
        /\ ToSet(config') = ToSet(config) \cup ToSet(file_config)
        /\ IsInjective(config')
        /\ file_config' \in Seq(Device) /\ ToSet(file_config') = {}
        /\ IsInjective(file_config')
    BY <1>1, <1>2, ConcatElements, EmptyList DEF IInv, ListsSound
  <1>4. Owned' = Owned
    BY <1>1, <1>3 DEF Owned
  <1>5. TypeOK'
    <2>1. HeapOK' /\ ParserOK' /\ InstallOK' /\ ClientsOK'
      BY <1>1, <1>3 DEF IInv, TypeOK, HeapOK, ParserOK, InstallOK, ClientsOK
    <2> QED BY <1>1, <2>1 DEF TypeOK, Phases
  <1>6. HeapSound(heap, dl, Owned)' /\ ElementsSound'
    BY <1>1, <1>4 DEF IInv, ElementsSound
  <1>7. ListsSound'
    <2>1. device \notin ToSet(config) \cup ToSet(file_config)
      BY DEF IInv, ListsSound
    <2> QED BY <1>1, <1>3, <2>1 DEF ListsSound
  <1>8. PhaseSound'
    BY <1>1 DEF IInv, PhaseSound, Parsing
  <1>9. PendingUnused'
    BY <1>1 DEF IInv, PendingUnused, Pending, Parsing
  <1>10. TableSound' /\ ClientsSound'
    BY <1>1 DEF IInv, TableSound, ClientsSound
  <1> QED BY <1>5, <1>6, <1>7, <1>8, <1>9, <1>10 DEF IInv

LEMMA AddDeviceStep ==
    ASSUME IInv, UNCHANGED <<clientVars, countVars>>, moberg_config_add_device
    PROVE  IInv'
  <1>1. /\ pc = "device" /\ pc' = "file"
        /\ file_config' = Append(file_config, device) /\ device' = NULL
        /\ UNCHANGED <<heap, dl, config, text, range, mapVars, cursorVars, tableVars>>
    BY DEF moberg_config_add_device
  <1>2. file_config \in Seq(Device) /\ device \in Device /\ config \in Seq(Device)
    BY <1>1 DEF IInv, TypeOK, ParserOK, InstallOK
  <1>3. /\ device \notin ToSet(config) /\ device \notin ToSet(file_config)
        /\ IsInjective(file_config) /\ IsInjective(config)
        /\ ToSet(config) \cap ToSet(file_config) = {}
    BY DEF IInv, ListsSound
  <1>4. /\ file_config' \in Seq(Device)
        /\ ToSet(file_config') = ToSet(file_config) \cup {device}
        /\ IsInjective(file_config')
    BY <1>1, <1>2, <1>3, AppendElement
  <1>5. ToSet(config) \subseteq Device /\ ToSet(file_config) \subseteq Device
    BY <1>2, ListMembers
  <1>6. Owned' = Owned
    BY <1>1, <1>2, <1>4, NullAssumption DEF Owned
  <1>7. TypeOK'
    <2>1. HeapOK' /\ ParserOK' /\ InstallOK' /\ ClientsOK'
      BY <1>1, <1>4 DEF IInv, TypeOK, HeapOK, ParserOK, InstallOK, ClientsOK
    <2> QED BY <1>1, <2>1 DEF TypeOK, Phases
  <1>8. HeapSound(heap, dl, Owned)' /\ ElementsSound'
    BY <1>1, <1>6 DEF IInv, ElementsSound
  <1>9. ListsSound'
    BY <1>1, <1>2, <1>3, <1>4, <1>5, NullAssumption DEF ListsSound
  <1>10. PhaseSound'
    BY <1>1 DEF IInv, PhaseSound, Parsing
  <1>11. PendingUnused'
    BY <1>1 DEF IInv, PendingUnused, Pending, Parsing
  <1>12. TableSound' /\ ClientsSound'
    BY <1>1 DEF IInv, TableSound, ClientsSound
  <1> QED BY <1>7, <1>8, <1>9, <1>10, <1>11, <1>12 DEF IInv

-----------------------------------------------------------------------------
(* Steps that create a device or let go of one *)

LEMMA NewDeviceStep ==
    ASSUME IInv, UNCHANGED <<clientVars, countVars>>,
           NEW d \in Device, moberg_device_new(d)
    PROVE  IInv'
  <1>1. /\ pc = "file" /\ pc' = "device" /\ text > 0 /\ text' = text - 1
        /\ dl[d] = "unopened" /\ dl' = [dl EXCEPT ![d] = "open"]
        /\ heap' = device_up(new_context(heap, d), d) /\ device' = d
        /\ UNCHANGED <<config, file_config, range, mapVars, cursorVars, tableVars>>
    BY DEF moberg_device_new
  <1>2. /\ HeapSound(heap', dl', Owned \cup {d})
        /\ heap'.chan = heap.chan /\ heap'.chan_use = heap.chan_use
        /\ heap'.chan_dev = heap.chan_dev
    <2>1. HeapSound(heap, dl, Owned)
      BY DEF IInv
    <2> QED BY <1>1, <2>1, NewContext DEF SameChannels
  <1>3. device = NULL
    BY <1>1 DEF IInv, PhaseSound
  <1>4. Owned' = Owned \cup {d}
    BY <1>1, <1>3, NullAssumption DEF Owned
  <1>5. d \notin Owned
    BY <1>1, OwnedIsLive DEF IInv, HeapSound, LibrariesSound
  <1>6. HeapSound(heap, dl, Owned)'
    BY <1>2, <1>4
  <1>7. TypeOK'
    <2>1. HeapOK'
      BY <1>6 DEF HeapSound, HeapOK
    <2>2. text' \in Nat
      BY <1>1 DEF IInv, TypeOK, ParserOK
    <2>3. ParserOK' /\ InstallOK' /\ ClientsOK'
      BY <1>1, <2>2 DEF IInv, TypeOK, ParserOK, InstallOK, ClientsOK
    <2> QED BY <1>1, <2>1, <2>3 DEF TypeOK, Phases
  <1>8. ListsSound'
    BY <1>1, <1>5 DEF IInv, ListsSound, Owned
  <1>9. PhaseSound'
    BY <1>1 DEF IInv, PhaseSound, Parsing
  <1>10. ElementsSound'
    BY <1>1, <1>2, <1>4 DEF IInv, ElementsSound
  <1>11. PendingUnused'
    BY <1>1, <1>2 DEF IInv, PendingUnused, Pending, Parsing
  <1>12. TableSound' /\ ClientsSound'
    BY <1>1, <1>2 DEF IInv, TableSound, ClientsSound
  <1> QED BY <1>6, <1>7, <1>8, <1>9, <1>10, <1>11, <1>12 DEF IInv

\* moberg_device_free by the only owner: what the channels look like stays.
LEMMA LetGo ==
    ASSUME IInv, NEW d \in Owned, NEW ok, moberg_device_free(d, ok), dl' = dl
    PROVE  /\ HeapSound(heap', dl', Owned \ {d})
           /\ heap'.chan = heap.chan /\ heap'.chan_use = heap.chan_use
           /\ heap'.chan_dev = heap.chan_dev
           /\ elements' = [elements EXCEPT ![d] = << >>]
           /\ elements' \in [Device -> Seq(Channel)]
           /\ mapped_to' = mapped_to
  <1>1. /\ heap' = device_down(heap, d, ok)
        /\ elements' = [elements EXCEPT ![d] = << >>] /\ mapped_to' = mapped_to
    BY DEF moberg_device_free
  <1>2. elements \in [Device -> Seq(Channel)]
    BY DEF IInv, TypeOK, ParserOK
  <1>3. elements' \in [Device -> Seq(Channel)]
    BY <1>1, <1>2, EmptyList
  <1>4. /\ HeapSound(heap', dl', Owned \ {d})
        /\ heap'.chan = heap.chan /\ heap'.chan_use = heap.chan_use
        /\ heap'.chan_dev = heap.chan_dev
    BY <1>1, OwnerDown DEF IInv, SameChannels
  <1> QED BY <1>1, <1>3, <1>4

\* The same for everything in IInv that speaks of channels.
LEMMA LetGoKeeps ==
    ASSUME IInv, NEW d \in Owned, NEW ok, moberg_device_free(d, ok), dl' = dl,
           Owned' = Owned \ {d}, UNCHANGED <<tableVars, clientVars, countVars>>,
           \A e \in Device : \A i \in 1..Len(elements'[e]) :
               Pending(e, i)' => Pending(e, i)
    PROVE  /\ HeapSound(heap, dl, Owned)'
           /\ ElementsSound' /\ PendingUnused' /\ TableSound' /\ ClientsSound'
  <1>1. /\ HeapSound(heap', dl', Owned \ {d})
        /\ heap'.chan = heap.chan /\ heap'.chan_use = heap.chan_use
        /\ heap'.chan_dev = heap.chan_dev
        /\ elements' = [elements EXCEPT ![d] = << >>]
        /\ mapped_to' = mapped_to
    BY LetGo
  <1>2. elements \in [Device -> Seq(Channel)] /\ d \in Device
    BY DEF IInv, TypeOK, ParserOK, HeapSound
  <1>3. elements'[d] = << >> /\ \A e \in Device : e # d => elements'[e] = elements[e]
    BY <1>1, <1>2
  <1>4. ElementsSound'
    <2> SUFFICES ASSUME NEW e \in Device
                 PROVE  /\ e \notin Owned' => elements'[e] = << >>
                        /\ IsInjective(elements'[e])
                        /\ \A i \in 1..Len(elements'[e]) :
                              /\ heap'.chan[elements'[e][i]] # "none"
                              /\ heap'.chan_dev[elements'[e][i]] = e
                              /\ mapped_to'[elements'[e][i]] \in Slot
      BY DEF ElementsSound
    <2>1. CASE e = d
      BY <1>3, <2>1, EmptyList
    <2>2. CASE e # d
      BY <1>1, <1>3, <2>2 DEF IInv, ElementsSound
    <2> QED BY <2>1, <2>2
  <1>5. PendingUnused'
    <2> SUFFICES ASSUME NEW e \in Device, NEW i \in 1..Len(elements'[e]), Pending(e, i)'
                 PROVE  /\ heap'.chan[elements'[e][i]] = "live"
                        /\ heap'.chan_use[elements'[e][i]] = 0
      BY DEF PendingUnused
    <2>1. e # d /\ Pending(e, i)
      BY <1>3
    <2> QED BY <1>1, <1>3, <2>1 DEF IInv, PendingUnused
  <1>6. TableSound' /\ ClientsSound'
    BY <1>1 DEF IInv, TableSound, ClientsSound
  <1> QED BY <1>1, <1>4, <1>5, <1>6

LEMMA BlockFailsStep ==
    ASSUME IInv, UNCHANGED <<clientVars, countVars>>,
           NEW ok, parse_device_fails(ok)
    PROVE  IInv'
  <1>1. /\ pc \in {"device", "map"} /\ pc' = "discard"
        /\ moberg_device_free(device, ok) /\ device' = NULL /\ range' = NoRange
        /\ UNCHANGED <<dl, config, text, file_config, cursorVars, tableVars>>
    BY DEF parse_device_fails
  <1>2. device \in Device /\ device \in Owned
    BY <1>1, NullAssumption DEF IInv, TypeOK, ParserOK, Owned
  <1>3. Owned' = Owned \ {device}
    BY <1>1 DEF IInv, ListsSound, Owned
  <1>4. \A e \in Device : \A i \in 1..Len(elements'[e]) :
            Pending(e, i)' => Pending(e, i)
    BY <1>1 DEF Pending, Parsing
  <1>5. /\ HeapSound(heap, dl, Owned)'
        /\ ElementsSound' /\ PendingUnused' /\ TableSound' /\ ClientsSound'
    BY <1>1, <1>2, <1>3, <1>4, LetGoKeeps
  <1>6. TypeOK'
    <2>1. HeapOK'
      BY <1>5 DEF HeapSound, HeapOK
    <2>2. elements' \in [Device -> Seq(Channel)] /\ mapped_to' = mapped_to
      BY <1>1, <1>2, LetGo
    <2>3. ParserOK' /\ InstallOK' /\ ClientsOK'
      BY <1>1, <2>2 DEF IInv, TypeOK, ParserOK, InstallOK, ClientsOK
    <2> QED BY <1>1, <2>1, <2>3 DEF TypeOK, Phases
  <1>7. ListsSound'
    <2>1. ToSet(config) \cup ToSet(file_config) \subseteq Device
      BY DEF IInv, HeapSound, Owned
    <2> QED BY <1>1, <2>1, NullAssumption DEF IInv, ListsSound
  <1>8. PhaseSound'
    BY <1>1 DEF IInv, PhaseSound, Parsing
  <1> QED BY <1>5, <1>6, <1>7, <1>8 DEF IInv

LEMMA DiscardStep ==
    ASSUME IInv, UNCHANGED <<clientVars, countVars>>,
           NEW ok, discard_device(ok)
    PROVE  IInv'
  <1> DEFINE d == Head(file_config)
  <1>1. /\ pc = "discard" /\ file_config # << >> /\ pc' = pc
        /\ moberg_device_free(d, ok) /\ file_config' = Tail(file_config)
        /\ UNCHANGED <<dl, config, text, device, range, cursorVars, tableVars>>
    BY DEF discard_device
  <1>2. /\ d \in ToSet(file_config) /\ d \in Device
        /\ file_config' \in Seq(Device)
        /\ ToSet(file_config') = ToSet(file_config) \ {d}
        /\ IsInjective(file_config')
    <2>1. file_config \in Seq(Device) /\ IsInjective(file_config)
      BY DEF IInv, TypeOK, ParserOK, ListsSound
    <2> QED BY <1>1, <2>1, TailElements
  <1> HIDE DEF d
  <1>3. d \in Owned /\ d \notin ToSet(config) /\ d # device
    BY <1>2 DEF IInv, ListsSound, Owned
  <1>4. Owned' = Owned \ {d}
    BY <1>1, <1>2, <1>3 DEF Owned
  <1>5. \A e \in Device : \A i \in 1..Len(elements'[e]) :
            Pending(e, i)' => Pending(e, i)
    BY <1>1 DEF Pending, Parsing
  <1>6. /\ HeapSound(heap, dl, Owned)'
        /\ ElementsSound' /\ PendingUnused' /\ TableSound' /\ ClientsSound'
    BY <1>1, <1>3, <1>4, <1>5, LetGoKeeps
  <1>7. TypeOK'
    <2>1. HeapOK'
      BY <1>6 DEF HeapSound, HeapOK
    <2>2. elements' \in [Device -> Seq(Channel)] /\ mapped_to' = mapped_to
      BY <1>1, <1>3, LetGo
    <2>3. ParserOK' /\ InstallOK' /\ ClientsOK'
      BY <1>1, <1>2, <2>2 DEF IInv, TypeOK, ParserOK, InstallOK, ClientsOK
    <2> QED BY <1>1, <2>1, <2>3 DEF IInv, TypeOK
  <1>8. ListsSound'
    BY <1>1, <1>2 DEF IInv, ListsSound
  <1>9. PhaseSound'
    BY <1>1 DEF IInv, PhaseSound, Parsing
  <1> QED BY <1>6, <1>7, <1>8, <1>9 DEF IInv

LEMMA FreeDeviceStep ==
    ASSUME IInv, UNCHANGED <<clientVars, countVars>>,
           NEW ok, moberg_config_free(ok)
    PROVE  IInv'
  <1> DEFINE d == Head(config)
  <1>1. /\ pc = "free_config" /\ config # << >> /\ pc' = pc
        /\ moberg_device_free(d, ok) /\ config' = Tail(config)
        /\ UNCHANGED <<dl, parserVars, cursorVars, tableVars>>
    BY DEF moberg_config_free
  <1>2. /\ d \in ToSet(config) /\ d \in Device
        /\ config' \in Seq(Device)
        /\ ToSet(config') = ToSet(config) \ {d}
        /\ IsInjective(config')
    <2>1. config \in Seq(Device) /\ IsInjective(config)
      BY DEF IInv, TypeOK, InstallOK, ListsSound
    <2> QED BY <1>1, <2>1, TailElements
  <1> HIDE DEF d
  <1>3. d \in Owned /\ d \notin ToSet(file_config) /\ d # device
    BY <1>2 DEF IInv, ListsSound, Owned
  <1>4. Owned' = Owned \ {d}
    BY <1>1, <1>2, <1>3 DEF Owned
  <1>5. \A e \in Device : \A i \in 1..Len(elements'[e]) :
            Pending(e, i)' => Pending(e, i)
    BY <1>1 DEF Pending, Parsing
  <1>6. /\ HeapSound(heap, dl, Owned)'
        /\ ElementsSound' /\ PendingUnused' /\ TableSound' /\ ClientsSound'
    BY <1>1, <1>3, <1>4, <1>5, LetGoKeeps
  <1>7. TypeOK'
    <2>1. HeapOK'
      BY <1>6 DEF HeapSound, HeapOK
    <2>2. elements' \in [Device -> Seq(Channel)] /\ mapped_to' = mapped_to
      BY <1>1, <1>3, LetGo
    <2>3. ParserOK' /\ InstallOK' /\ ClientsOK'
      BY <1>1, <1>2, <2>2 DEF IInv, TypeOK, ParserOK, InstallOK, ClientsOK
    <2> QED BY <1>1, <2>1, <2>3 DEF IInv, TypeOK
  <1>8. ListsSound'
    BY <1>1, <1>2 DEF IInv, ListsSound
  <1>9. PhaseSound'
    BY <1>1 DEF IInv, PhaseSound, Parsing
  <1> QED BY <1>6, <1>7, <1>8, <1>9 DEF IInv

-----------------------------------------------------------------------------
(* Pruning *)

LEMMA KeepStep ==
    ASSUME IInv, UNCHANGED <<clientVars, countVars>>,
           NEW ok, keep_device(ok)
    PROVE  IInv'
  <1>1. /\ pc = "prune" /\ pos <= Len(config) /\ pc' = pc
        /\ heap' = device_down(device_up(heap, config[pos]), config[pos], ok)
        /\ pos' = pos + 1
        /\ UNCHANGED <<dl, config, parserVars, mapVars, elem, tableVars>>
    BY DEF keep_device, probe
  <1>2. config[pos] \in Owned
    <2>1. config \in Seq(Device) /\ pos \in 1..Len(config)
      BY <1>1, LenProperties DEF IInv, TypeOK, InstallOK
    <2> QED BY <2>1, ListIndices DEF Owned
  <1>3. Owned' = Owned
    BY <1>1 DEF Owned
  <1>4. /\ HeapSound(heap', dl, Owned)
        /\ heap'.chan = heap.chan /\ heap'.chan_use = heap.chan_use
        /\ heap'.chan_dev = heap.chan_dev
    <2>1. HeapSound(heap, dl, Owned)
      BY DEF IInv
    <2> QED BY <1>1, <1>2, <2>1, ProbeDevice DEF SameChannels
  <1>5. HeapSound(heap, dl, Owned)'
    BY <1>1, <1>3, <1>4
  <1>6. TypeOK'
    <2>1. HeapOK'
      BY <1>5 DEF HeapSound, HeapOK
    <2>2. ParserOK' /\ InstallOK' /\ ClientsOK'
      BY <1>1 DEF IInv, TypeOK, ParserOK, InstallOK, ClientsOK
    <2> QED BY <1>1, <2>1, <2>2 DEF IInv, TypeOK
  <1>7. ListsSound' /\ PhaseSound'
    BY <1>1 DEF IInv, ListsSound, PhaseSound
  <1>8. ElementsSound'
    BY <1>1, <1>3, <1>4 DEF IInv, ElementsSound
  <1>9. PendingUnused'
    BY <1>1 DEF PendingUnused, Pending, Parsing
  <1>10. TableSound' /\ ClientsSound'
    BY <1>1, <1>4 DEF IInv, TableSound, ClientsSound
  <1> QED BY <1>5, <1>6, <1>7, <1>8, <1>9, <1>10 DEF IInv

\* The probe changes nothing the rest of IInv can see, so a device that is
\* dropped is one the configuration lets go of.
LEMMA DropStep ==
    ASSUME IInv, UNCHANGED <<clientVars, countVars>>,
           NEW ok, drop_device(ok)
    PROVE  IInv'
  <1> DEFINE d == config[pos]
             g == device_down(device_up(heap, d), d, ok)
  <1>1. /\ pc = "prune" /\ pos <= Len(config) /\ pc' = pc
        /\ heap' = device_down(g, d, ok)
        /\ elements' = [elements EXCEPT ![d] = << >>]
        /\ config' = RemoveAt(config, pos)
        /\ UNCHANGED <<dl, parserVars, mapped_to, cursorVars, tableVars>>
    BY DEF drop_device, probe
  <1>2. /\ d \in ToSet(config) /\ d \in Device
        /\ config' \in Seq(Device)
        /\ ToSet(config') = ToSet(config) \ {d}
        /\ IsInjective(config')
    <2>1. /\ config \in Seq(Device) /\ IsInjective(config)
          /\ pos \in 1..Len(config)
      BY <1>1, LenProperties DEF IInv, TypeOK, InstallOK, ListsSound
    <2> QED BY <1>1, <2>1, RemoveElement
  <1>3. d \in Owned /\ d \notin ToSet(file_config) /\ d # device
    BY <1>2 DEF IInv, ListsSound, Owned
  <1>4. Owned' = Owned \ {d}
    BY <1>1, <1>2, <1>3 DEF Owned
  <1>5. /\ HeapSound(g, dl, Owned)
        /\ g.chan = heap.chan /\ g.chan_use = heap.chan_use
        /\ g.chan_dev = heap.chan_dev
    <2>1. HeapSound(heap, dl, Owned)
      BY DEF IInv
    <2> QED BY <1>3, <2>1, ProbeDevice DEF SameChannels
  <1>6. /\ HeapSound(heap', dl, Owned \ {d})
        /\ heap'.chan = heap.chan /\ heap'.chan_use = heap.chan_use
        /\ heap'.chan_dev = heap.chan_dev
    <2> HIDE DEF g, d
    <2>1. /\ HeapSound(device_down(g, d, ok), dl, Owned \ {d})
          /\ SameChannels(g, device_down(g, d, ok))
      BY <1>3, <1>5, OwnerDown
    <2> QED BY <1>1, <1>5, <2>1 DEF SameChannels
  <1> HIDE DEF g, d
  <1>7. HeapSound(heap, dl, Owned)'
    BY <1>1, <1>4, <1>6
  <1>8. elements \in [Device -> Seq(Channel)]
    BY DEF IInv, TypeOK, ParserOK
  <1>9. /\ elements' \in [Device -> Seq(Channel)] /\ elements'[d] = << >>
        /\ \A e \in Device : e # d => elements'[e] = elements[e]
    BY <1>1, <1>2, <1>8, EmptyList
  <1>10. TypeOK'
    <2>1. HeapOK'
      BY <1>7 DEF HeapSound, HeapOK
    <2>2. ParserOK' /\ InstallOK' /\ ClientsOK'
      BY <1>1, <1>2, <1>9 DEF IInv, TypeOK, ParserOK, InstallOK, ClientsOK
    <2> QED BY <1>1, <2>1, <2>2 DEF IInv, TypeOK
  <1>11. ListsSound' /\ PhaseSound'
    BY <1>1, <1>2 DEF IInv, ListsSound, PhaseSound
  <1>12. ElementsSound'
    <2> SUFFICES ASSUME NEW e \in Device
                 PROVE  /\ e \notin Owned' => elements'[e] = << >>
                        /\ IsInjective(elements'[e])
                        /\ \A i \in 1..Len(elements'[e]) :
                              /\ heap'.chan[elements'[e][i]] # "none"
                              /\ heap'.chan_dev[elements'[e][i]] = e
                              /\ mapped_to'[elements'[e][i]] \in Slot
      BY DEF ElementsSound
    <2>1. CASE e = d
      BY <1>9, <2>1, EmptyList
    <2>2. CASE e # d
      BY <1>1, <1>4, <1>6, <1>9, <2>2 DEF IInv, ElementsSound
    <2> QED BY <2>1, <2>2
  <1>13. PendingUnused'
    BY <1>1 DEF PendingUnused, Pending, Parsing
  <1>14. TableSound' /\ ClientsSound'
    BY <1>1, <1>6 DEF IInv, TableSound, ClientsSound
  <1> QED BY <1>7, <1>10, <1>11, <1>12, <1>13, <1>14 DEF IInv

-----------------------------------------------------------------------------
(* Closing libraries *)

LEMMA DeferredStep ==
    ASSUME IInv, UNCHANGED <<clientVars, countVars>>, run_deferred_action
    PROVE  IInv'
  <1> DEFINE n == Len(heap.deferred)
  <1>1. /\ pc = "deferred" /\ heap.deferred # << >> /\ pc' = pc
        /\ heap' = [heap EXCEPT !.deferred = SubSeq(heap.deferred, 1, n - 1)]
        /\ dl' = [dl EXCEPT ![heap.deferred[n]] = "closed"]
        /\ UNCHANGED <<config, parserVars, mapVars, cursorVars, tableVars>>
    BY DEF run_deferred_action
  <1>2. Owned' = Owned
    BY <1>1 DEF Owned
  <1>3. /\ HeapSound(heap', dl', Owned)
        /\ heap'.chan = heap.chan /\ heap'.chan_use = heap.chan_use
        /\ heap'.chan_dev = heap.chan_dev
    <2>1. HeapSound(heap, dl, Owned)
      BY DEF IInv
    <2> QED BY <1>1, <2>1, CloseLibrary DEF SameChannels
  <1>4. HeapSound(heap, dl, Owned)'
    BY <1>2, <1>3
  <1>5. TypeOK'
    <2>1. HeapOK'
      BY <1>4 DEF HeapSound, HeapOK
    <2>2. ParserOK' /\ InstallOK' /\ ClientsOK'
      BY <1>1 DEF IInv, TypeOK, ParserOK, InstallOK, ClientsOK
    <2> QED BY <1>1, <2>1, <2>2 DEF IInv, TypeOK
  <1>6. ListsSound' /\ PhaseSound'
    BY <1>1 DEF IInv, ListsSound, PhaseSound
  <1>7. ElementsSound'
    BY <1>1, <1>2, <1>3 DEF IInv, ElementsSound
  <1>8. PendingUnused'
    BY <1>1 DEF PendingUnused, Pending, Parsing
  <1>9. TableSound' /\ ClientsSound'
    BY <1>1, <1>3 DEF IInv, TableSound, ClientsSound
  <1> QED BY <1>4, <1>5, <1>6, <1>7, <1>8, <1>9 DEF IInv

-----------------------------------------------------------------------------
(* Steps that create a channel *)

\* A fresh channel is in no list and in no slot, so nothing else sees it.
LEMMA FreshChannel ==
    ASSUME IInv, NEW c \in Channel, heap.chan[c] = "none"
    PROVE  /\ \A d \in Device : /\ c \notin ToSet(elements[d])
                               /\ \A i \in 1..Len(elements[d]) : elements[d][i] # c
           /\ \A s \in Slot : table[s] # c
           /\ heap.chan_use[c] = 0
  <1>1. \A d \in Device : \A i \in 1..Len(elements[d]) : elements[d][i] # c
    BY DEF IInv, ElementsSound
  <1>2. \A d \in Device : elements[d] \in Seq(Channel)
    BY DEF IInv, TypeOK, ParserOK
  <1>3. \A d \in Device : c \notin ToSet(elements[d])
    BY <1>1, <1>2, ListIndices
  <1>4. heap.chan_use[c] = 0
    BY DEF IInv, HeapSound, ChannelsSound
  <1>5. c # NULL
    BY NullAssumption
  <1>6. \A s \in Slot : table[s] # c
    BY <1>4, <1>5 DEF IInv, TableSound
  <1> QED BY <1>1, <1>3, <1>4, <1>6

LEMMA RefusedStep ==
    ASSUME IInv, UNCHANGED <<clientVars, countVars>>,
           NEW c \in Channel, map_refuses(c)
    PROVE  IInv'
  <1>1. /\ pc = "map" /\ heap.chan[c] = "none"
        /\ heap' = init_channel(heap, c, device)
        /\ UNCHANGED <<pc, dl, config, parserVars, mapVars, cursorVars, tableVars>>
    BY DEF map_refuses
  <1>2. device \in Device
    BY <1>1 DEF IInv, TypeOK, ParserOK
  <1>3. /\ HeapSound(heap', dl, Owned)
        /\ CreatesChannel(heap, c, device, heap')
    BY <1>1, <1>2, InitChannel DEF IInv
  <1>4. Owned' = Owned
    BY <1>1 DEF Owned
  <1>5. HeapSound(heap, dl, Owned)'
    BY <1>1, <1>3, <1>4
  <1>6. /\ \A d \in Device : \A i \in 1..Len(elements[d]) :
              elements[d][i] # c /\ elements[d][i] \in Channel
        /\ heap.chan \in [Channel -> Lifetime]
        /\ heap.chan_dev \in [Channel -> Device \cup {NULL}]
    <2>1. \A d \in Device : elements[d] \in Seq(Channel)
      BY DEF IInv, TypeOK, ParserOK
    <2>2. \A d \in Device : \A i \in 1..Len(elements[d]) : elements[d][i] \in Channel
      BY <2>1, ListIndices
    <2> QED BY <1>1, <2>2, FreshChannel DEF IInv, HeapSound, Heap
  <1>7. TypeOK'
    <2>1. HeapOK'
      BY <1>5 DEF HeapSound, HeapOK
    <2>2. ParserOK' /\ InstallOK' /\ ClientsOK'
      BY <1>1 DEF IInv, TypeOK, ParserOK, InstallOK, ClientsOK
    <2> QED BY <1>1, <2>1, <2>2 DEF IInv, TypeOK
  <1>8. ListsSound' /\ PhaseSound'
    BY <1>1 DEF IInv, ListsSound, PhaseSound
  <1>9. ElementsSound'
    BY <1>1, <1>3, <1>4, <1>6 DEF IInv, ElementsSound, CreatesChannel
  <1>10. PendingUnused'
    BY <1>1, <1>3, <1>6 DEF IInv, PendingUnused, Pending, CreatesChannel
  <1>11. TableSound' /\ ClientsSound'
    BY <1>1, <1>3 DEF IInv, TableSound, ClientsSound, CreatesChannel
  <1> QED BY <1>5, <1>7, <1>8, <1>9, <1>10, <1>11 DEF IInv

LEMMA MapStep ==
    ASSUME IInv, UNCHANGED <<clientVars, countVars>>,
           NEW c \in Channel, map(c)
    PROVE  IInv'
  <1> DEFINE s == <<range.kind, range.min>>
  <1>1. /\ pc = "map" /\ heap.chan[c] = "none" /\ InRange
        /\ heap' = init_channel(heap, c, device)
        /\ elements' = [elements EXCEPT ![device] = Append(elements[device], c)]
        /\ mapped_to' = [mapped_to EXCEPT ![c] = s]
        /\ range' = [range EXCEPT !.min = range.min + 1]
        /\ UNCHANGED <<pc, dl, config, text, file_config, device, cursorVars, tableVars>>
    BY DEF map
  <1>2. device \in Device /\ range \in Ranges
    BY <1>1 DEF IInv, TypeOK, ParserOK
  <1>3. s \in Slot /\ range' \in Ranges
    BY <1>1, <1>2, IndexAssumption DEF InRange, Ranges, Slot, Index
  <1> HIDE DEF s
  <1>4. /\ HeapSound(heap', dl, Owned)
        /\ CreatesChannel(heap, c, device, heap')
    BY <1>1, <1>2, InitChannel DEF IInv
  <1>5. Owned' = Owned
    BY <1>1 DEF Owned
  <1>6. HeapSound(heap, dl, Owned)'
    BY <1>1, <1>4, <1>5
  <1>7. /\ elements \in [Device -> Seq(Channel)]
        /\ mapped_to \in [Channel -> Slot \cup {NULL}]
        /\ heap.chan \in [Channel -> Lifetime]
        /\ heap.chan_use \in [Channel -> Int]
        /\ heap.chan_dev \in [Channel -> Device \cup {NULL}]
    BY DEF IInv, TypeOK, ParserOK, HeapSound, Heap
  <1>8. /\ \A d \in Device : /\ c \notin ToSet(elements[d])
                            /\ \A i \in 1..Len(elements[d]) :
                                  elements[d][i] # c /\ elements[d][i] \in Channel
        /\ \A t \in Slot : table[t] # c
        /\ heap.chan_use[c] = 0
    BY <1>1, <1>7, FreshChannel, ListIndices
  <1>9. /\ elements'[device] \in Seq(Channel)
        /\ IsInjective(elements'[device])
        /\ Len(elements'[device]) = Len(elements[device]) + 1
        /\ \A i \in 1..Len(elements'[device]) :
              \/ elements'[device][i] = c
              \/ i \in 1..Len(elements[device])
                 /\ elements'[device][i] = elements[device][i]
    <2>1. elements[device] \in Seq(Channel) /\ IsInjective(elements[device])
      BY <1>2, <1>7 DEF IInv, ElementsSound
    <2>2. elements'[device] = Append(elements[device], c)
      BY <1>1, <1>2, <1>7
    <2>3. elements'[device] \in Seq(Channel) /\ IsInjective(elements'[device])
      BY <1>2, <1>8, <2>1, <2>2, AppendElement
    <2> QED BY <2>1, <2>2, <2>3, AppendProperties, LenProperties
  <1>10. \A d \in Device : d # device => elements'[d] = elements[d]
    BY <1>1, <1>7
  <1>11. TypeOK'
    <2>1. HeapOK'
      BY <1>6 DEF HeapSound, HeapOK
    <2>2. elements' \in [Device -> Seq(Channel)]
      BY <1>1, <1>2, <1>7, AppendElement
    <2>3. mapped_to' \in [Channel -> Slot \cup {NULL}]
      BY <1>1, <1>3, <1>7
    <2>4. ParserOK' /\ InstallOK' /\ ClientsOK'
      BY <1>1, <1>3, <2>2, <2>3 DEF IInv, TypeOK, ParserOK, InstallOK, ClientsOK
    <2> QED BY <1>1, <2>1, <2>4 DEF IInv, TypeOK
  <1>12. ListsSound' /\ PhaseSound'
    BY <1>1 DEF IInv, ListsSound, PhaseSound
  <1>13. ElementsSound'
    <2> SUFFICES ASSUME NEW e \in Device
                 PROVE  /\ e \notin Owned' => elements'[e] = << >>
                        /\ IsInjective(elements'[e])
                        /\ \A i \in 1..Len(elements'[e]) :
                              /\ heap'.chan[elements'[e][i]] # "none"
                              /\ heap'.chan_dev[elements'[e][i]] = e
                              /\ mapped_to'[elements'[e][i]] \in Slot
      BY DEF ElementsSound
    <2>1. \A i \in 1..Len(elements[e]) :
              /\ heap'.chan[elements[e][i]] # "none"
              /\ heap'.chan_dev[elements[e][i]] = e
              /\ mapped_to'[elements[e][i]] \in Slot
      BY <1>1, <1>4, <1>7, <1>8 DEF IInv, ElementsSound, CreatesChannel
    <2>2. /\ heap'.chan[c] # "none" /\ heap'.chan_dev[c] = device
          /\ mapped_to'[c] \in Slot
      BY <1>1, <1>3, <1>4, <1>7 DEF CreatesChannel
    <2>3. CASE e = device
      <3>1. device \in Owned'
        BY <1>2, <1>5, NullAssumption DEF Owned
      <3> QED BY <1>9, <2>1, <2>2, <2>3, <3>1
    <2>4. CASE e # device
      BY <1>5, <1>10, <2>1, <2>4 DEF IInv, ElementsSound
    <2> QED BY <2>3, <2>4
  <1>14. PendingUnused'
    <2> SUFFICES ASSUME NEW e \in Device, NEW i \in 1..Len(elements'[e])
                 PROVE  /\ heap'.chan[elements'[e][i]] = "live"
                        /\ heap'.chan_use[elements'[e][i]] = 0
      BY DEF PendingUnused
    <2>1. \A j \in 1..Len(elements[e]) :
              /\ heap'.chan[elements[e][j]] = "live"
              /\ heap'.chan_use[elements[e][j]] = 0
      BY <1>1, <1>4, <1>7, <1>8 DEF IInv, PendingUnused, Pending, Parsing, CreatesChannel
    <2>2. heap'.chan[c] = "live" /\ heap'.chan_use[c] = 0
      BY <1>4, <1>7, <1>8 DEF CreatesChannel
    <2>3. CASE e = device
      BY <1>9, <2>1, <2>2, <2>3
    <2>4. CASE e # device
      BY <1>10, <2>1, <2>4
    <2> QED BY <2>3, <2>4
  <1>15. TableSound' /\ ClientsSound'
    BY <1>1, <1>4, <1>7, <1>8 DEF IInv, TableSound, ClientsSound, CreatesChannel
  <1> QED BY <1>6, <1>11, <1>12, <1>13, <1>14, <1>15 DEF IInv

-----------------------------------------------------------------------------
(* Steps that put a channel into the table, or take one out *)

\* The index of a stored channel is inside the array: reading finds it.
LEMMA GetReadsTable ==
    ASSUME IInv, NEW s \in Slot
    PROVE  channel_list_get(s) = table[s]
  BY DEF IInv, TableSound, channel_list_get

\* A channel of the table that goes down gives its slot up, whoever empties it.
LEMMA TableChannelDown ==
    ASSUME IInv, NEW s \in Slot, table[s] # NULL, NEW ok
    PROVE  /\ table[s] \in Channel /\ heap.chan_use[table[s]] = 1
           /\ HeapSound(channel_down(heap, table[s], ok), dl, Owned)
           /\ FreesChannel(heap, table[s], channel_down(heap, table[s], ok))
  <1>1. table[s] \in Channel /\ heap.chan_use[table[s]] = 1
    BY DEF IInv, TypeOK, InstallOK, TableSound
  <1>2. HeapSound(heap, dl, Owned)
    BY DEF IInv
  <1> QED BY <1>1, <1>2, ChannelDown

LEMMA FreeChannelStep ==
    ASSUME IInv, UNCHANGED <<clientVars, countVars>>,
           NEW ok, NEW s \in Slot, channel_list_free(s, ok)
    PROVE  IInv'
  <1> DEFINE c == table[s]
  <1>1. /\ pc = "free_channels" /\ c # NULL /\ pc' = pc
        /\ heap' = channel_down(heap, c, ok)
        /\ table' = [table EXCEPT ![s] = NULL]
        /\ UNCHANGED <<dl, config, parserVars, mapVars, cursorVars, capacity>>
    BY DEF channel_list_free
  <1>2. /\ c \in Channel /\ heap.chan_use[c] = 1
        /\ HeapSound(heap', dl, Owned) /\ FreesChannel(heap, c, heap')
        /\ mapped_to[c] = s
    BY <1>1, TableChannelDown DEF IInv, TableSound
  <1> HIDE DEF c
  <1>3. Owned' = Owned
    BY <1>1 DEF Owned
  <1>4. HeapSound(heap, dl, Owned)'
    BY <1>1, <1>2, <1>3
  <1>5. /\ table \in [Slot -> Channel \cup {NULL}]
        /\ elements \in [Device -> Seq(Channel)]
        /\ heap.chan \in [Channel -> Lifetime]
        /\ heap.chan_use \in [Channel -> Int]
    BY DEF IInv, TypeOK, ParserOK, InstallOK, HeapSound, Heap
  <1>6. TypeOK'
    <2>1. HeapOK'
      BY <1>4 DEF HeapSound, HeapOK
    <2>2. table' \in [Slot -> Channel \cup {NULL}]
      BY <1>1, <1>5
    <2>3. ParserOK' /\ InstallOK' /\ ClientsOK'
      BY <1>1, <2>2 DEF IInv, TypeOK, ParserOK, InstallOK, ClientsOK
    <2> QED BY <1>1, <2>1, <2>3 DEF IInv, TypeOK
  <1>7. ListsSound' /\ PhaseSound'
    BY <1>1 DEF IInv, ListsSound, PhaseSound
  <1>8. ElementsSound'
    <2>1. \A d \in Device : \A i \in 1..Len(elements[d]) : elements[d][i] \in Channel
      BY <1>5, ListIndices
    <2> QED BY <1>1, <1>2, <1>3, <1>5, <2>1 DEF IInv, ElementsSound, FreesChannel
  <1>9. PendingUnused'
    BY <1>1 DEF PendingUnused, Pending, Parsing
  <1>10. TableSound'
    <2> SUFFICES ASSUME NEW t \in Slot, table'[t] # NULL
                 PROVE  /\ heap'.chan_use[table'[t]] = 1
                        /\ mapped_to'[table'[t]] = t
                        /\ t[2] < capacity'[t[1]]
      BY DEF TableSound
    <2>1. t # s /\ table'[t] = table[t] /\ table[t] \in Channel
      BY <1>1, <1>5
    <2>2. mapped_to[table[t]] = t /\ heap.chan_use[table[t]] = 1 /\ t[2] < capacity[t[1]]
      BY <2>1 DEF IInv, TableSound
    <2>3. table[t] # c
      BY <1>2, <2>1, <2>2
    <2> QED BY <1>1, <1>2, <1>5, <2>1, <2>2, <2>3 DEF FreesChannel
  <1>11. ClientsSound'
    BY <1>1, SlotNullAssumption DEF IInv, ClientsSound, PhaseSound
  <1> QED BY <1>4, <1>6, <1>7, <1>8, <1>9, <1>10, <1>11 DEF IInv

\* The slot a channel is mapped to, emptied for it.
LEMMA DownOld ==
    ASSUME IInv, NEW s \in Slot, NEW ok
    PROVE  LET g == down_old(s, ok)
           IN  /\ HeapSound(g, dl, Owned)
               /\ g.chan_dev = heap.chan_dev
               /\ \A x \in Channel :
                     /\ x # table[s] => /\ g.chan[x] = heap.chan[x]
                                        /\ g.chan_use[x] = heap.chan_use[x]
                     /\ heap.chan[x] # "none" => g.chan[x] # "none"
  <1>1. down_old(s, ok) = IF table[s] = NULL THEN heap
                          ELSE channel_down(heap, table[s], ok)
    BY GetReadsTable DEF down_old
  <1>2. /\ heap.chan \in [Channel -> Lifetime]
        /\ heap.chan_use \in [Channel -> Int]
        /\ HeapSound(heap, dl, Owned)
    BY DEF IInv, HeapSound, Heap
  <1>3. CASE table[s] = NULL
    BY <1>1, <1>2, <1>3
  <1>4. CASE table[s] # NULL
    <2>1. /\ table[s] \in Channel
          /\ HeapSound(channel_down(heap, table[s], ok), dl, Owned)
          /\ FreesChannel(heap, table[s], channel_down(heap, table[s], ok))
      BY <1>4, TableChannelDown
    <2> QED BY <1>1, <1>2, <1>4, <2>1 DEF FreesChannel
  <1> QED BY <1>3, <1>4

\* Whether or not the array grows, no other slot gets a channel it did not
\* have, and this one gets the new channel or stays empty.
LEMMA TableSet ==
    ASSUME IInv, NEW s \in Slot, NEW c \in Channel, channel_list_set(s, c)
    PROVE  /\ table' \in [Slot -> Channel \cup {NULL}]
           /\ capacity' \in [Kind -> Nat]
           /\ \A k \in Kind : capacity[k] <= capacity'[k]
           /\ \A t \in Slot : t # s => table'[t] \in {table[t], NULL}
           /\ (table'[s] = c /\ s[2] < capacity'[s[1]]) \/ table'[s] = NULL
  <1>1. /\ table \in [Slot -> Channel \cup {NULL}]
        /\ capacity \in [Kind -> Nat]
        /\ s[1] \in Kind /\ s[2] \in Nat
    BY IndexAssumption DEF IInv, TypeOK, InstallOK, Slot, Index
  <1>2. CASE /\ s[2] < capacity[s[1]]
             /\ table' = [table EXCEPT ![s] = c]
             /\ UNCHANGED capacity
    BY <1>1, <1>2
  <1>3. ASSUME capacity[s[1]] <= s[2],
               NEW n \in Capacities, Fits(n, s[2]),
               capacity' = [capacity EXCEPT ![s[1]] = n],
               table' = [t \in Slot |->
                   IF t = s THEN c
                   ELSE IF t[1] = s[1] /\ capacity[t[1]] <= t[2] THEN NULL
                   ELSE table[t]]
        PROVE  /\ table' \in [Slot -> Channel \cup {NULL}]
               /\ capacity' \in [Kind -> Nat]
               /\ \A k \in Kind : capacity[k] <= capacity'[k]
               /\ \A t \in Slot : t # s => table'[t] \in {table[t], NULL}
               /\ table'[s] = c /\ s[2] < capacity'[s[1]]
    <2>1. n \in Nat /\ n > s[2]
      BY <1>3, IndexAssumption DEF Capacities, Fits
    <2>2. table' \in [Slot -> Channel \cup {NULL}]
      BY <1>1, <1>3
    <2>3. \A t \in Slot : t # s => table'[t] \in {table[t], NULL}
      BY <1>3
    <2>4. table'[s] = c
      BY <1>3
    <2>5. /\ capacity' \in [Kind -> Nat]
          /\ \A k \in Kind : capacity[k] <= capacity'[k]
          /\ s[2] < capacity'[s[1]]
      BY <1>1, <1>3, <2>1
    <2> QED BY <2>2, <2>3, <2>4, <2>5
  <1>4. CASE capacity[s[1]] <= s[2] /\ UNCHANGED tableVars
    <2>1. table[s] = NULL
      BY <1>1, <1>4 DEF IInv, TableSound
    <2> QED BY <1>1, <1>4, <2>1
  <1> QED BY <1>2, <1>3, <1>4 DEF channel_list_set

\* The channel the cursor is at was never up, and the slot it goes to has been
\* emptied, its device still being there, when it is given its use.
LEMMA InstallElement ==
    ASSUME IInv, NEW ok, moberg_device_install_channels(ok),
           NEW d, d = config[pos], NEW c, c = elements[d][elem],
           NEW s, s = mapped_to[c], NEW g, g = down_old(s, ok)
    PROVE  /\ pc = "install" /\ pos \in 1..Len(config) /\ elem \in 1..Len(elements[d])
           /\ d \in Device /\ d \in Owned /\ c \in Channel /\ s \in Slot
           /\ heap.chan[c] = "live" /\ heap.chan_use[c] = 0 /\ heap.chan_dev[c] = d
           /\ c # table[s]
           /\ HeapSound(g, dl, Owned)
           /\ g.chan[c] = "live" /\ g.chan_use[c] = 0 /\ g.chan_dev[c] = d
           /\ g.ctx[d] = "live"
           /\ g.chan_dev = heap.chan_dev
           /\ \A x \in Channel :
                 /\ x # table[s] => /\ g.chan[x] = heap.chan[x]
                                    /\ g.chan_use[x] = heap.chan_use[x]
                 /\ heap.chan[x] # "none" => g.chan[x] # "none"
           /\ heap' = channel_up(g, c)
           /\ HeapSound(heap', dl, Owned) /\ HoldsChannel(g, c, heap')
           /\ channel_list_set(s, c)
           /\ elem' = elem + 1 /\ pc' = pc
           /\ UNCHANGED <<dl, config, parserVars, mapVars, pos>>
  <1>1. /\ pc = "install" /\ pos <= Len(config) /\ elem <= Len(elements[d])
        /\ heap' = channel_up(g, c) /\ channel_list_set(s, c)
        /\ elem' = elem + 1 /\ pc' = pc
        /\ UNCHANGED <<dl, config, parserVars, mapVars, pos>>
    BY DEF moberg_device_install_channels, install_channel, AtElement
  <1>2. /\ config \in Seq(Device) /\ pos \in Nat \ {0} /\ elem \in Nat \ {0}
        /\ elements \in [Device -> Seq(Channel)]
    BY DEF IInv, TypeOK, ParserOK, InstallOK
  <1>3. pos \in 1..Len(config) /\ d \in Device /\ d \in Owned
    <2>1. Len(config) \in Nat
      BY <1>2, LenProperties
    <2>2. pos \in 1..Len(config)
      BY <1>1, <1>2, <2>1
    <2> QED BY <1>2, <2>2, ListIndices DEF Owned
  <1>4. elem \in 1..Len(elements[d]) /\ c \in Channel
    <2>1. elements[d] \in Seq(Channel) /\ Len(elements[d]) \in Nat
      BY <1>2, <1>3, LenProperties
    <2>2. elem \in 1..Len(elements[d])
      BY <1>1, <1>2, <2>1
    <2> QED BY <2>1, <2>2, ListIndices
  <1>5. heap.chan[c] = "live" /\ heap.chan_use[c] = 0
    <2>1. Pending(d, elem)
      BY <1>1, <1>2, <1>3 DEF Pending
    <2> QED BY <1>3, <1>4, <2>1 DEF IInv, PendingUnused
  <1>6. heap.chan_dev[c] = d /\ s \in Slot
    BY <1>3, <1>4 DEF IInv, ElementsSound
  <1>7. /\ HeapSound(g, dl, Owned)
        /\ g.chan_dev = heap.chan_dev
        /\ \A x \in Channel :
              /\ x # table[s] => /\ g.chan[x] = heap.chan[x]
                                 /\ g.chan_use[x] = heap.chan_use[x]
              /\ heap.chan[x] # "none" => g.chan[x] # "none"
    BY <1>6, DownOld, SMTT(30)
  <1>8. c # table[s]
    <2>1. c # NULL
      BY <1>4, NullAssumption
    <2>2. ASSUME table[s] = c PROVE FALSE
      BY <1>5, <1>6, <2>1, <2>2 DEF IInv, TableSound
    <2> QED BY <2>2
  <1>9. /\ g.chan[c] = "live" /\ g.chan_use[c] = 0 /\ g.chan_dev[c] = d
        /\ g.ctx[d] = "live"
    <2>1. g.chan[c] = "live" /\ g.chan_use[c] = 0 /\ g.chan_dev[c] = d
      BY <1>4, <1>5, <1>6, <1>7, <1>8
    <2>2. d \in Owned /\ HeapSound(g, dl, Owned)
      BY <1>3, <1>7
    <2>3. \A o \in Owned : g.ctx[o] = "live"
      BY <2>2, OwnedIsLive
    <2> QED BY <2>1, <2>2, <2>3
  <1>10. /\ HeapSound(channel_up(g, c), dl, Owned)
         /\ HoldsChannel(g, c, channel_up(g, c))
    BY <1>4, <1>7, <1>9, ChannelUp
  <1> QED BY <1>1, <1>3, <1>4, <1>5, <1>6, <1>7, <1>8, <1>9, <1>10

LEMMA InstallStep ==
    ASSUME IInv, UNCHANGED <<clientVars, countVars>>,
           NEW ok, moberg_device_install_channels(ok)
    PROVE  IInv'
  <1> SUFFICES ASSUME NEW d, d = config[pos], NEW c, c = elements[d][elem],
                      NEW s, s = mapped_to[c], NEW g, g = down_old(s, ok)
               PROVE  IInv'
    OBVIOUS
  <1>1. /\ pc = "install" /\ channel_list_set(s, c)
        /\ elem' = elem + 1 /\ pc' = pc
        /\ UNCHANGED <<dl, config, parserVars, mapVars, pos>>
    BY InstallElement
  <1>2. /\ config \in Seq(Device) /\ pos \in Nat \ {0} /\ elem \in Nat \ {0}
        /\ elements \in [Device -> Seq(Channel)]
        /\ heap.chan \in [Channel -> Lifetime]
        /\ heap.chan_use \in [Channel -> Int]
    BY DEF IInv, TypeOK, ParserOK, InstallOK, HeapSound, Heap
  <1>3. pos \in 1..Len(config) /\ d \in Device /\ d \in Owned
    BY InstallElement
  <1>4. elem \in 1..Len(elements[d]) /\ c \in Channel
    BY InstallElement
  <1>5. heap.chan[c] = "live" /\ heap.chan_use[c] = 0
    BY InstallElement
  <1>6. heap.chan_dev[c] = d /\ s \in Slot
    BY InstallElement
  <1>7. /\ HeapSound(g, dl, Owned)
        /\ g.chan_dev = heap.chan_dev
        /\ \A x \in Channel :
              /\ x # table[s] => /\ g.chan[x] = heap.chan[x]
                                 /\ g.chan_use[x] = heap.chan_use[x]
              /\ heap.chan[x] # "none" => g.chan[x] # "none"
    BY InstallElement
  <1>8. table[s] \in Channel \cup {NULL}
        /\ (table[s] # NULL => heap.chan_use[table[s]] = 1 /\ mapped_to[table[s]] = s)
    BY <1>6 DEF IInv, TypeOK, InstallOK, TableSound
  <1>9. c # table[s]
    BY InstallElement
  <1>10. HeapSound(heap', dl, Owned) /\ HoldsChannel(g, c, heap')
    BY InstallElement
  <1>11. /\ table' \in [Slot -> Channel \cup {NULL}]
         /\ capacity' \in [Kind -> Nat]
         /\ \A k \in Kind : capacity[k] <= capacity'[k]
         /\ \A t \in Slot : t # s => table'[t] \in {table[t], NULL}
         /\ (table'[s] = c /\ s[2] < capacity'[s[1]]) \/ table'[s] = NULL
    BY <1>1, <1>4, <1>6, TableSet
  <1>12. g.chan \in [Channel -> Lifetime] /\ g.chan_use \in [Channel -> Int]
    BY <1>7 DEF HeapSound, Heap
  <1>13. /\ heap'.chan_dev = heap.chan_dev
         /\ heap'.chan_use[c] = 1
         /\ \A x \in Channel :
               /\ x # table[s] /\ x # c => /\ heap'.chan[x] = heap.chan[x]
                                           /\ heap'.chan_use[x] = heap.chan_use[x]
               /\ heap.chan[x] # "none" => heap'.chan[x] # "none"
    <2>1. heap'.chan_dev = heap.chan_dev /\ heap'.chan = g.chan
      BY <1>7, <1>10 DEF HoldsChannel
    <2>2. heap'.chan_use[c] = 1 /\ \A x \in Channel : x # c => heap'.chan_use[x] = g.chan_use[x]
      BY <1>4, <1>10, <1>12 DEF HoldsChannel
    <2> QED BY <1>7, <2>1, <2>2, ZenonT(30)
  <1>14. Owned' = Owned
    BY <1>1 DEF Owned
  <1>15. HeapSound(heap, dl, Owned)'
    BY <1>1, <1>10, <1>14
  <1>16. TypeOK'
    <2>1. HeapOK'
      BY <1>15 DEF HeapSound, HeapOK
    <2>2. elem' \in Nat \ {0}
      BY <1>1, <1>2
    <2>3. ParserOK' /\ InstallOK' /\ ClientsOK'
      BY <1>1, <1>11, <2>2 DEF IInv, TypeOK, ParserOK, InstallOK, ClientsOK
    <2> QED BY <1>1, <2>1, <2>3 DEF IInv, TypeOK
  <1>17. ListsSound' /\ PhaseSound'
    BY <1>1 DEF IInv, ListsSound, PhaseSound
  <1>18. \A e \in Device : \A i \in 1..Len(elements[e]) : elements[e][i] \in Channel
    BY <1>2, ListIndices
  <1>19. ElementsSound'
    BY <1>1, <1>13, <1>14, <1>18 DEF IInv, ElementsSound
  <1>20. PendingUnused'
    <2> SUFFICES ASSUME NEW e \in Device, NEW i \in 1..Len(elements[e]), Pending(e, i)'
                 PROVE  /\ heap'.chan[elements[e][i]] = "live"
                        /\ heap'.chan_use[elements[e][i]] = 0
      BY <1>1 DEF PendingUnused
    <2>1. PICK p \in 1..Len(config) :
              config[p] = e /\ (p > pos \/ (p = pos /\ i >= elem + 1))
      BY <1>1 DEF Pending, Parsing
    <2>2. Pending(e, i)
      <3>1. p > pos \/ (p = pos /\ i >= elem)
        BY <1>2, <2>1
      <3> QED BY <1>1, <2>1, <3>1 DEF Pending
    <2>3. heap.chan[elements[e][i]] = "live" /\ heap.chan_use[elements[e][i]] = 0
      BY <2>2 DEF IInv, PendingUnused
    <2>4. elements[e][i] # c
      <3>1. heap.chan_dev[elements[e][i]] = e /\ IsInjective(elements[e])
        BY DEF IInv, ElementsSound
      <3>2. CASE e # d
        BY <1>6, <3>1, <3>2
      <3>3. CASE e = d
        <4>1. p = pos
          BY <1>2, <1>3, <2>1, <3>3, ListIndices DEF IInv, ListsSound
        <4>2. i # elem
          BY <1>2, <2>1, <4>1
        <4>3. elements[d] \in Seq(Channel) /\ IsInjective(elements[d])
          BY <1>2, <1>3, <3>1, <3>3
        <4>4. i \in 1..Len(elements[d]) /\ elem \in 1..Len(elements[d])
          BY <1>4, <3>3
        <4>5. \A m, n \in 1..Len(elements[d]) : elements[d][m] = elements[d][n] => m = n
          BY <4>3, ListIndices
        <4> QED BY <3>3, <4>2, <4>4, <4>5
      <3> QED BY <3>2, <3>3
    <2>5. elements[e][i] # table[s]
      <3> DEFINE x == elements[e][i]
      <3>1. x # NULL /\ heap.chan_use[x] = 0
        BY <1>18, <2>3, NullAssumption
      <3> HIDE DEF x
      <3>2. ASSUME table[s] = x PROVE FALSE
        BY <1>8, <3>1, <3>2
      <3> QED BY <3>2 DEF x
    <2> QED BY <1>13, <1>18, <2>3, <2>4, <2>5
  <1>21. TableSound'
    <2> SUFFICES ASSUME NEW t \in Slot, table'[t] # NULL
                 PROVE  /\ heap'.chan_use[table'[t]] = 1
                        /\ mapped_to'[table'[t]] = t
                        /\ t[2] < capacity'[t[1]]
      BY DEF TableSound
    <2>1. CASE t = s
      BY <1>1, <1>11, <1>13, <2>1
    <2>2. CASE t # s
      <3>1. table'[t] = table[t] /\ table[t] \in Channel /\ table[t] # NULL
        BY <1>11, <2>2 DEF IInv, TypeOK, InstallOK
      <3>2. /\ mapped_to[table[t]] = t /\ heap.chan_use[table[t]] = 1
            /\ t[2] < capacity[t[1]]
        BY <3>1 DEF IInv, TableSound
      <3>3. table[t] # c /\ table[t] # table[s]
        BY <1>8, <2>2, <3>1, <3>2
      <3>4. t[2] < capacity'[t[1]]
        <4>1. t[1] \in Kind /\ t[2] \in Nat
          BY IndexAssumption DEF Slot, Index
        <4>2. capacity[t[1]] \in Nat /\ capacity'[t[1]] \in Nat
              /\ capacity[t[1]] <= capacity'[t[1]]
          BY <1>11, <4>1 DEF IInv, TypeOK, InstallOK
        <4> QED BY <3>2, <4>1, <4>2
      <3> QED BY <1>1, <1>13, <3>1, <3>2, <3>3, <3>4
    <2> QED BY <2>1, <2>2
  <1>22. ClientsSound'
    BY <1>1 DEF IInv, ClientsSound, PhaseSound
  <1> QED BY <1>15, <1>16, <1>17, <1>19, <1>20, <1>21, <1>22 DEF IInv

-----------------------------------------------------------------------------
(* Steps of the clients *)

OpenClients == {cl \in Client : opened[cl] # NULL}

LEMMA OpenClientsFinite ==
    IsFiniteSet(OpenClients) /\ Cardinality(OpenClients) \in Nat
  <1>1. OpenClients \in SUBSET Client
    BY DEF OpenClients
  <1> QED BY <1>1, ClientAssumption, FS_Subset, FS_CardinalityType

\* What a client step leaves alone, in IInv.
LEMMA ClientStepKeeps ==
    ASSUME IInv, pc = "ready", pc' \in {"ready", "free_config"},
           UNCHANGED <<heap, dl, config, parserVars, mapVars, cursorVars, tableVars>>,
           ClientsOK', ClientsSound',
           pc' = "free_config" => should_free' /\ \A cl \in Client : opened'[cl] = NULL
    PROVE  IInv'
  <1>1. Owned' = Owned
    BY DEF Owned
  <1>2. HeapSound(heap, dl, Owned)'
    BY <1>1 DEF IInv
  <1>3. TypeOK'
    <2>1. HeapOK' /\ ParserOK' /\ InstallOK'
      BY DEF IInv, TypeOK, HeapOK, ParserOK, InstallOK
    <2> QED BY <2>1 DEF TypeOK, Phases
  <1>4. ListsSound' /\ TableSound'
    BY DEF IInv, ListsSound, TableSound
  <1>5. PhaseSound'
    BY DEF IInv, PhaseSound, Parsing
  <1>6. ElementsSound'
    BY <1>1 DEF IInv, ElementsSound
  <1>7. PendingUnused'
    BY DEF PendingUnused, Pending, Parsing
  <1> QED BY <1>2, <1>3, <1>4, <1>5, <1>6, <1>7 DEF IInv

LEMMA OpenStep ==
    ASSUME IInv, NEW cl \in Client, NEW s \in Slot, moberg_open(cl, s)
    PROVE  IInv'
  <1>1. /\ pc = "ready" /\ opened[cl] = NULL /\ table[s] # NULL
        /\ open_channels' = open_channels + 1
        /\ opened' = [opened EXCEPT ![cl] = s]
        /\ handle' = [handle EXCEPT ![cl] = table[s]]
        /\ pc' = pc /\ should_free' = should_free
        /\ UNCHANGED <<heap, dl, config, parserVars, mapVars, cursorVars, tableVars>>
    BY GetReadsTable DEF moberg_open, loadVars
  <1>2. /\ opened \in [Client -> Slot \cup {NULL}]
        /\ handle \in [Client -> Channel \cup {NULL}]
        /\ open_channels \in Int /\ should_free \in BOOLEAN
        /\ table[s] \in Channel
    BY <1>1 DEF IInv, TypeOK, ClientsOK, InstallOK
  <1>3. ClientsOK'
    <2>1. open_channels' \in Int /\ opened' \in [Client -> Slot \cup {NULL}]
          /\ handle' \in [Client -> Channel \cup {NULL}]
      BY <1>1, <1>2
    <2>2. should_free' \in BOOLEAN
      BY <1>1, <1>2
    <2> QED BY <2>1, <2>2 DEF ClientsOK
  <1>4. ClientsSound'
    <2>1. OpenClients' = OpenClients \cup {cl} /\ cl \notin OpenClients
      BY <1>1, <1>2, SlotNullAssumption DEF OpenClients
    <2>2. Cardinality(OpenClients') = Cardinality(OpenClients) + 1
      BY <2>1, OpenClientsFinite, FS_AddElement
    <2>3. open_channels = Cardinality(OpenClients)
      BY DEF IInv, ClientsSound, OpenClients
    <2>4. open_channels' = Cardinality(OpenClients')
      BY <1>1, <2>2, <2>3
    <2>5. \A c1 \in Client : opened'[c1] # NULL =>
             handle'[c1] # NULL /\ table'[opened'[c1]] = handle'[c1]
      BY <1>1, <1>2 DEF IInv, ClientsSound
    <2> QED BY <2>4, <2>5 DEF ClientsSound, OpenClients
  <1> QED BY <1>1, <1>3, <1>4, ClientStepKeeps

LEMMA CloseStep ==
    ASSUME IInv, NEW cl \in Client, moberg_close(cl)
    PROVE  IInv'
  <1>1. /\ pc = "ready" /\ opened[cl] # NULL
        /\ open_channels' = open_channels - 1
        /\ opened' = [opened EXCEPT ![cl] = NULL]
        /\ handle' = [handle EXCEPT ![cl] = NULL]
        /\ should_free' = should_free
        /\ pc' = IF should_free /\ open_channels - 1 = 0 THEN "free_config" ELSE "ready"
        /\ UNCHANGED <<heap, dl, config, parserVars, mapVars, cursorVars, tableVars>>
    BY DEF moberg_close, free_if_unused
  <1>2. /\ opened \in [Client -> Slot \cup {NULL}]
        /\ handle \in [Client -> Channel \cup {NULL}]
        /\ open_channels \in Int /\ should_free \in BOOLEAN
    BY DEF IInv, TypeOK, ClientsOK
  <1>3. ClientsOK'
    <2>1. open_channels' \in Int /\ opened' \in [Client -> Slot \cup {NULL}]
          /\ handle' \in [Client -> Channel \cup {NULL}]
      BY <1>1, <1>2
    <2>2. should_free' \in BOOLEAN
      BY <1>1, <1>2
    <2> QED BY <2>1, <2>2 DEF ClientsOK
  <1>4. /\ open_channels' = Cardinality(OpenClients')
        /\ IsFiniteSet(OpenClients')
    <2>1. OpenClients' = OpenClients \ {cl} /\ cl \in OpenClients
      BY <1>1, <1>2 DEF OpenClients
    <2>2. /\ Cardinality(OpenClients') = Cardinality(OpenClients) - 1
          /\ IsFiniteSet(OpenClients')
      BY <2>1, OpenClientsFinite, FS_RemoveElement
    <2>3. open_channels = Cardinality(OpenClients)
      BY DEF IInv, ClientsSound, OpenClients
    <2> QED BY <1>1, <2>2, <2>3
  <1>5. ClientsSound'
    <2>1. \A c1 \in Client : opened'[c1] # NULL =>
             handle'[c1] # NULL /\ table'[opened'[c1]] = handle'[c1]
      BY <1>1, <1>2 DEF IInv, ClientsSound
    <2> QED BY <1>4, <2>1 DEF ClientsSound, OpenClients
  <1>6. ASSUME pc' = "free_config"
        PROVE  should_free' /\ \A c1 \in Client : opened'[c1] = NULL
    <2>1. should_free /\ open_channels' = 0
      BY <1>1, <1>6
    <2>2. OpenClients' = {}
      BY <1>4, <2>1, FS_EmptySet
    <2> QED BY <1>1, <2>1, <2>2 DEF OpenClients
  <1> QED BY <1>1, <1>3, <1>5, <1>6, ClientStepKeeps

LEMMA FreeStep ==
    ASSUME IInv, moberg_free
    PROVE  IInv'
  <1>1. /\ pc = "ready" /\ should_free' = TRUE
        /\ pc' = IF open_channels = 0 THEN "free_config" ELSE "ready"
        /\ open_channels' = open_channels /\ opened' = opened /\ handle' = handle
        /\ UNCHANGED <<heap, dl, config, parserVars, mapVars, cursorVars, tableVars>>
    BY DEF moberg_free, free_if_unused
  <1>2. ClientsOK' /\ ClientsSound'
    BY <1>1 DEF IInv, TypeOK, ClientsOK, ClientsSound
  <1>3. ASSUME pc' = "free_config"
        PROVE  \A cl \in Client : opened'[cl] = NULL
    <2>1. open_channels = 0 /\ open_channels = Cardinality(OpenClients)
      BY <1>1, <1>3 DEF IInv, ClientsSound, OpenClients
    <2>2. OpenClients = {}
      BY <2>1, OpenClientsFinite, FS_EmptySet
    <2> QED BY <1>1, <2>2 DEF OpenClients
  <1> QED BY <1>1, <1>2, <1>3, ClientStepKeeps

-----------------------------------------------------------------------------
(* The invariant *)

LEMMA NextIInv == IInv /\ [Next]_vars => IInv'
  <1> SUFFICES ASSUME IInv, [Next]_vars PROVE IInv'
    OBVIOUS
  <1>1. ASSUME LoadStep, UNCHANGED <<clientVars, countVars>> PROVE IInv'
    <2>1. CASE \/ parse_config_at \/ parse_fails \/ end_map \/ discard_done
               \/ \E k, k1 \in Kind, lo, hi \in Index :
                     moberg_device_parse_map(k, k1, lo, hi)
      BY <1>1, <2>1, ParserMoves
    <2>2. CASE install_config \/ next_device \/ installed \/ pruned
      BY <1>1, <2>2, InstallMoves
    <2>3. CASE moberg_config_join
      BY <1>1, <2>3, JoinStep
    <2>4. CASE moberg_config_add_device
      BY <1>1, <2>4, AddDeviceStep
    <2>5. CASE \E d \in Device : moberg_device_new(d)
      BY <1>1, <2>5, NewDeviceStep
    <2>6. CASE \E c \in Channel : map(c) \/ map_refuses(c)
      BY <1>1, <2>6, MapStep, RefusedStep
    <2>7. CASE \E ok \in Malloc : parse_device_fails(ok) \/ discard_device(ok)
      BY <1>1, <2>7, BlockFailsStep, DiscardStep
    <2>8. CASE \E ok \in Malloc : \/ moberg_device_install_channels(ok)
                                  \/ keep_device(ok) \/ drop_device(ok)
      BY <1>1, <2>8, InstallStep, KeepStep, DropStep
    <2> QED BY <1>1, <2>1, <2>2, <2>3, <2>4, <2>5, <2>6, <2>7, <2>8 DEF LoadStep
  <1>2. ASSUME TeardownStep, UNCHANGED <<clientVars, countVars>> PROVE IInv'
    <2>1. CASE \E ok \in Malloc : \/ moberg_config_free(ok)
                                  \/ \E s \in Slot : channel_list_free(s, ok)
      BY <1>2, <2>1, FreeDeviceStep, FreeChannelStep
    <2>2. CASE moberg_config_freed \/ channel_lists_freed
      BY <1>2, <2>2, TeardownMoves
    <2> QED BY <1>2, <2>1, <2>2 DEF TeardownStep
  <1>3. ASSUME run_deferred_action, UNCHANGED <<clientVars, countVars>> PROVE IInv'
    BY <1>3, DeferredStep
  <1>4. ASSUME deferred_done, UNCHANGED <<clientVars, countVars>> PROVE IInv'
    BY <1>4, TeardownMoves
  <1>5. CASE LibraryStep
    BY <1>1, <1>2, <1>3, <1>4, <1>5 DEF LibraryStep
  <1>6. CASE ClientStep
    BY <1>6, OpenStep, CloseStep, FreeStep DEF ClientStep
  <1>7. CASE UNCHANGED vars
    <2>1. UNCHANGED <<pc, heap, dl, config, parserVars, mapVars, cursorVars, tableVars,
                      clientVars, countVars>>
      BY <1>7 DEF vars, loadVars
    <2>2. PhaseSound'
      BY <2>1 DEF IInv, PhaseSound
    <2> QED BY <2>1, <2>2, MovesOn DEF IInv, TypeOK, ParserOK, InstallOK, Pending
  <1> QED BY <1>5, <1>6, <1>7 DEF Next, moberg_open_refused

\* IInv holds in every state the library can reach.
THEOREM Invariance == Spec => []IInv
  <1>1. Init => IInv
    BY InitIInv
  <1>2. IInv /\ [Next]_vars => IInv'
    BY NextIInv
  <1> QED BY <1>1, <1>2, PTL DEF Spec

\* Every variable has its type in every phase of the library.
THEOREM TypeCorrect == Spec => []TypeOK
  <1>1. IInv => TypeOK
    BY DEF IInv
  <1> QED BY <1>1, Invariance, PTL

\* The use counts of the device contexts are exact (device_up, device_down).
THEOREM CountsCorrect == Spec => []UseCountsExact
  <1>1. IInv => UseCountsExact
    BY DEF IInv, HeapSound, UseCountsExact
  <1> QED BY <1>1, Invariance, PTL

\* A channel of the table is allocated, as is its device, and its code loaded.
THEOREM TableCorrect == Spec => []NoDanglingChannel
  <1>1. IInv => NoDanglingChannel
    <2> SUFFICES ASSUME IInv, NEW s \in Slot, table[s] # NULL
                 PROVE  LET c == table[s]
                            d == heap.chan_dev[c]
                        IN  /\ heap.chan[c] = "live" /\ heap.chan_use[c] = 1
                            /\ heap.ctx[d] = "live" /\ dl[d] = "open"
                            /\ mapped_to[c] = s
                            /\ s[2] < capacity[s[1]]
      BY DEF NoDanglingChannel
    <2>1. /\ table[s] \in Channel /\ heap.chan_use[table[s]] = 1
          /\ mapped_to[table[s]] = s /\ s[2] < capacity[s[1]]
      BY DEF IInv, TypeOK, InstallOK, TableSound
    <2>2. HeapSound(heap, dl, Owned)
      BY DEF IInv
    <2>3. heap.chan[table[s]] = "live"
      BY <2>1, <2>2 DEF HeapSound, ChannelsSound
    <2>4. /\ heap.chan_dev[table[s]] \in Device
          /\ heap.ctx[heap.chan_dev[table[s]]] = "live"
      BY <2>1, <2>2, OwnedIsLive
    <2>5. dl[heap.chan_dev[table[s]]] = "open"
      BY <2>2, <2>4 DEF HeapSound, LibrariesSound
    <2> QED BY <2>1, <2>3, <2>4, <2>5
  <1> QED BY <1>1, Invariance, PTL

\* The code of a plugin stays loaded while a context of its may run it.
THEOREM LibrariesCorrect == Spec => []LibraryOutlivesContext
  <1>1. IInv => LibraryOutlivesContext
    <2> SUFFICES ASSUME IInv PROVE LibraryOutlivesContext
      OBVIOUS
    <2>1. LibrariesSound(heap, dl) /\ heap.deferred \in Seq(Device)
      BY DEF IInv, HeapSound, Heap
    <2>2. \A i, j \in 1..Len(heap.deferred) :
             heap.deferred[i] = heap.deferred[j] => i = j
      BY <2>1, ListIndices DEF LibrariesSound
    <2> QED BY <2>1, <2>2 DEF LibrariesSound, LibraryOutlivesContext
  <1> QED BY <1>1, Invariance, PTL

\* Whoever has a channel open can close it, before and after moberg_free.
THEOREM CloseCorrect == Spec => []CloseFindsItsChannel
  <1>1. IInv => CloseFindsItsChannel
    <2> SUFFICES ASSUME IInv, NEW cl \in Client, opened[cl] # NULL
                 PROVE  /\ pc = "ready"
                        /\ handle[cl] # NULL
                        /\ channel_list_get(opened[cl]) = handle[cl]
      BY DEF CloseFindsItsChannel
    <2>1. pc = "ready" /\ handle[cl] # NULL /\ table[opened[cl]] = handle[cl]
      BY DEF IInv, PhaseSound, ClientsSound
    <2>2. opened[cl] \in Slot
      BY DEF IInv, TypeOK, ClientsOK
    <2> QED BY <2>1, <2>2, GetReadsTable
  <1> QED BY <1>1, Invariance, PTL

\* open_channels is the number of open handles, and 0 during the teardown.
THEOREM OpenCorrect == Spec => []OpenChannelsExact
  <1>1. IInv => OpenChannelsExact
    <2> SUFFICES ASSUME IInv PROVE OpenChannelsExact
      OBVIOUS
    <2>1. open_channels = Cardinality({cl \in Client : opened[cl] # NULL})
      BY DEF IInv, ClientsSound
    <2>2. ASSUME pc \in {"free_config", "free_channels", "gone"}
          PROVE  should_free /\ open_channels = 0
      <3>1. should_free /\ {cl \in Client : opened[cl] # NULL} = {}
        BY <2>2 DEF IInv, PhaseSound
      <3> QED BY <2>1, <3>1, FS_EmptySet
    <2> QED BY <2>1, <2>2 DEF OpenChannelsExact
  <1> QED BY <1>1, Invariance, PTL

-----------------------------------------------------------------------------
(* No use after free *)

\* What NoUseAfterFree asks of one step.
FreedKept ==
    /\ FreedUntouched(heap, heap')
    /\ \A d \in Device : dl[d] = "closed" => dl'[d] = "closed"

\* The steps that leave the heap and the libraries alone.
LEMMA SameHeapKeepsFreed ==
    ASSUME UNCHANGED <<heap, dl>>
    PROVE  FreedKept
  BY DEF FreedKept, FreedUntouched

\* The steps that free a device the program owns.
LEMMA FreeingKeepsFreed ==
    ASSUME IInv, NEW d \in Owned, NEW ok, moberg_device_free(d, ok), dl' = dl
    PROVE  FreedKept
  <1>1. HeapSound(heap, dl, Owned)
    BY DEF IInv
  <1>2. heap \in Heap /\ d \in Device /\ heap.ctx[d] = "live"
    BY <1>1, OwnedIsLive DEF HeapSound
  <1>3. FreedUntouched(heap, heap')
    BY <1>2, DeviceDownUntouched DEF moberg_device_free
  <1> QED BY <1>3 DEF FreedKept

\* Installing releases the channel that had the index and holds the new one.
LEMMA InstallKeepsFreed ==
    ASSUME IInv, NEW ok, moberg_device_install_channels(ok)
    PROVE  FreedKept
  <1> SUFFICES ASSUME NEW d, d = config[pos], NEW c, c = elements[d][elem],
                      NEW s, s = mapped_to[c], NEW g, g = down_old(s, ok)
               PROVE  FreedKept
    OBVIOUS
  <1>1. /\ s \in Slot /\ c \in Channel /\ dl' = dl
        /\ HeapSound(g, dl, Owned) /\ heap' = channel_up(g, c)
        /\ g.chan[c] = "live" /\ g.ctx[g.chan_dev[c]] = "live"
    BY InstallElement
  <1>2. FreedUntouched(heap, g)
    <2>1. g = IF table[s] = NULL THEN heap ELSE channel_down(heap, table[s], ok)
      BY <1>1, GetReadsTable DEF down_old
    <2>2. CASE table[s] = NULL
      BY <2>1, <2>2 DEF FreedUntouched
    <2>3. CASE table[s] # NULL
      <3>1. /\ table[s] \in Channel /\ heap.chan_use[table[s]] = 1
            /\ HeapSound(heap, dl, Owned)
        BY <1>1, <2>3, TableChannelDown DEF IInv
      <3> QED BY <2>1, <2>3, <3>1, ChannelDownUntouched
    <2> QED BY <2>2, <2>3
  <1>3. FreedUntouched(g, heap')
    BY <1>1, ChannelUpUntouched
  <1> QED BY <1>1, <1>2, <1>3, FreedUntouchedTwice DEF FreedKept

LEMMA LoadKeepsFreed ==
    ASSUME IInv, LoadStep
    PROVE  FreedKept
  <1>0. HeapSound(heap, dl, Owned) /\ heap \in Heap
    BY DEF IInv, HeapSound
  <1>1. CASE \/ parse_config_at \/ parse_fails \/ end_map \/ discard_done
             \/ moberg_config_join \/ moberg_config_add_device
             \/ install_config \/ next_device \/ installed \/ pruned
    BY <1>1, SameHeapKeepsFreed
       DEF parse_config_at, parse_fails, end_map, discard_done, moberg_config_join,
           moberg_config_add_device, install_config, next_device, installed, pruned
  <1>2. CASE \E k, k1 \in Kind, lo, hi \in Index : moberg_device_parse_map(k, k1, lo, hi)
    BY <1>2, SameHeapKeepsFreed DEF moberg_device_parse_map
  <1>3. ASSUME NEW d \in Device, moberg_device_new(d) PROVE FreedKept
    <2>1. /\ dl[d] = "unopened" /\ dl' = [dl EXCEPT ![d] = "open"]
          /\ heap' = device_up(new_context(heap, d), d)
      BY <1>3 DEF moberg_device_new
    <2>2. FreedUntouched(heap, heap')
      BY <1>0, <2>1, NewContextUntouched
    <2>3. \A e \in Device : dl[e] = "closed" => dl'[e] = "closed"
      BY <1>0, <2>1 DEF HeapSound
    <2> QED BY <2>2, <2>3 DEF FreedKept
  <1>4. ASSUME NEW c \in Channel, map(c) \/ map_refuses(c) PROVE FreedKept
    <2>1. heap.chan[c] = "none" /\ heap' = init_channel(heap, c, device) /\ dl' = dl
      BY <1>4 DEF map, map_refuses
    <2>2. FreedUntouched(heap, heap')
      BY <1>0, <2>1, InitChannelUntouched
    <2> QED BY <2>1, <2>2 DEF FreedKept
  <1>5. ASSUME NEW ok, parse_device_fails(ok) PROVE FreedKept
    <2>1. moberg_device_free(device, ok) /\ dl' = dl /\ pc \in {"device", "map"}
      BY <1>5 DEF parse_device_fails
    <2>2. device \in Owned
      BY <2>1, NullAssumption DEF IInv, TypeOK, ParserOK, Owned
    <2> QED BY <2>1, <2>2, FreeingKeepsFreed
  <1>6. ASSUME NEW ok, discard_device(ok) PROVE FreedKept
    <2>1. moberg_device_free(Head(file_config), ok) /\ dl' = dl /\ file_config # << >>
      BY <1>6 DEF discard_device
    <2>2. Head(file_config) \in Owned
      BY <2>1, TailElements DEF IInv, TypeOK, ParserOK, ListsSound, Owned
    <2> QED BY <2>1, <2>2, FreeingKeepsFreed
  <1>7. ASSUME NEW ok, moberg_device_install_channels(ok) PROVE FreedKept
    BY <1>7, InstallKeepsFreed
  <1>8. ASSUME NEW ok, keep_device(ok) \/ drop_device(ok) PROVE FreedKept
    <2> DEFINE d == config[pos]
               g == device_down(device_up(heap, d), d, ok)
    <2>1. /\ heap' = g \/ heap' = device_down(g, d, ok)
          /\ dl' = dl /\ pos <= Len(config)
      BY <1>8 DEF keep_device, drop_device, probe
    <2>2. d \in Owned
      <3>1. config \in Seq(Device) /\ pos \in 1..Len(config)
        BY <2>1, LenProperties DEF IInv, TypeOK, InstallOK
      <3> QED BY <3>1, ListIndices DEF Owned
    <2>3. FreedUntouched(heap, g)
      BY <1>0, <2>2, ProbeUntouched
    <2>4. FreedUntouched(heap, device_down(g, d, ok))
      <3>1. HeapSound(g, dl, Owned)
        BY <1>0, <2>2, ProbeDevice
      <3> HIDE DEF g, d
      <3>2. g \in Heap /\ d \in Device /\ g.ctx[d] = "live"
        BY <2>2, <3>1, OwnedIsLive DEF HeapSound
      <3>3. FreedUntouched(g, device_down(g, d, ok))
        BY <3>2, DeviceDownUntouched
      <3> QED BY <2>3, <3>3, FreedUntouchedTwice
    <2> QED BY <2>1, <2>3, <2>4 DEF FreedKept
  <1> QED BY <1>1, <1>2, <1>3, <1>4, <1>5, <1>6, <1>7, <1>8 DEF LoadStep

LEMMA TeardownKeepsFreed ==
    ASSUME IInv, TeardownStep
    PROVE  FreedKept
  <1>1. ASSUME NEW ok, moberg_config_free(ok) PROVE FreedKept
    <2>1. moberg_device_free(Head(config), ok) /\ dl' = dl /\ config # << >>
      BY <1>1 DEF moberg_config_free
    <2>2. Head(config) \in Owned
      BY <2>1, TailElements DEF IInv, TypeOK, InstallOK, ListsSound, Owned
    <2> QED BY <2>1, <2>2, FreeingKeepsFreed
  <1>2. ASSUME NEW ok, NEW s \in Slot, channel_list_free(s, ok) PROVE FreedKept
    <2>1. table[s] # NULL /\ heap' = channel_down(heap, table[s], ok) /\ dl' = dl
      BY <1>2 DEF channel_list_free
    <2>2. /\ table[s] \in Channel /\ heap.chan_use[table[s]] = 1
          /\ HeapSound(heap, dl, Owned)
      BY <2>1, TableChannelDown DEF IInv
    <2>3. FreedUntouched(heap, heap')
      BY <2>1, <2>2, ChannelDownUntouched
    <2> QED BY <2>1, <2>3 DEF FreedKept
  <1>3. CASE moberg_config_freed \/ channel_lists_freed
    BY <1>3, SameHeapKeepsFreed DEF moberg_config_freed, channel_lists_freed
  <1> QED BY <1>1, <1>2, <1>3 DEF TeardownStep

LEMMA DeferredKeepsFreed ==
    ASSUME IInv, run_deferred_action
    PROVE  FreedKept
  <1>1. /\ heap' = [heap EXCEPT !.deferred = SubSeq(@, 1, Len(heap.deferred) - 1)]
        /\ dl' = [dl EXCEPT ![heap.deferred[Len(heap.deferred)]] = "closed"]
    BY DEF run_deferred_action
  <1>2. FreedUntouched(heap, heap')
    BY <1>1 DEF FreedUntouched, IInv, HeapSound, Heap
  <1>3. \A d \in Device : dl[d] = "closed" => dl'[d] = "closed"
    BY <1>1 DEF IInv, HeapSound
  <1> QED BY <1>2, <1>3 DEF FreedKept

LEMMA NextKeepsFreed == IInv /\ [Next]_vars => FreedKept
  <1> SUFFICES ASSUME IInv, [Next]_vars PROVE FreedKept
    OBVIOUS
  <1>1. CASE LibraryStep
    <2>1. CASE deferred_done
      BY <2>1, SameHeapKeepsFreed DEF deferred_done
    <2> QED BY <1>1, <2>1, LoadKeepsFreed, TeardownKeepsFreed, DeferredKeepsFreed
            DEF LibraryStep
  <1>2. CASE ClientStep
    BY <1>2, SameHeapKeepsFreed
       DEF ClientStep, moberg_open, moberg_close, moberg_free, loadVars
  <1>3. CASE UNCHANGED vars
    BY <1>3, SameHeapKeepsFreed DEF vars, loadVars
  <1> QED BY <1>1, <1>2, <1>3 DEF Next, moberg_open_refused

\* No step counts the uses of a freed context or channel, frees one again or
\* opens a closed library again: whatever files are read, whichever allocation
\* fails and whenever the clients call.
THEOREM FreedIsGone == Spec => NoUseAfterFree
  <1>1. IInv /\ [Next]_vars =>
           [/\ \A d \in Device : heap.ctx[d] = "freed" =>
                  heap'.ctx[d] = "freed" /\ heap'.use[d] = heap.use[d]
            /\ \A c \in Channel : heap.chan[c] = "freed" =>
                  heap'.chan[c] = "freed" /\ heap'.chan_use[c] = heap.chan_use[c]
            /\ \A d \in Device : dl[d] = "closed" => dl'[d] = "closed"]_vars
    BY NextKeepsFreed DEF FreedKept, FreedUntouched
  <1> QED BY <1>1, Invariance, PTL DEF Spec, NoUseAfterFree

-----------------------------------------------------------------------------
(* The library implements MobergHandle *)

\* The slots that can be opened, as Moberg has it for MobergHandle.
Available == IF pc = "ready" THEN {s \in Slot : channel_list_get(s) # NULL} ELSE {}

Loading == pc \in Parsing \cup {"install", "prune"} \/ (pc = "deferred" /\ ~should_free)
Reclaiming == pc \in {"free_config", "free_channels"} \/ (pc = "deferred" /\ should_free)

\* What the clients see in each phase.
PhasesSeen ==
    /\ Loading => HandleState = "loading" /\ Available = {}
    /\ Reclaiming => HandleState = "reclaiming" /\ Available = {}
    /\ pc = "ready" => HandleState = "usable"
    /\ pc = "gone" => HandleState = "gone" /\ Available = {}

LEMMA HandleStates == PhasesSeen /\ PhasesSeen'
  <1>1. PhasesSeen
    BY DEF PhasesSeen, HandleState, Available, Loading, Reclaiming, Parsing
  <1>2. PhasesSeen'
    BY DEF PhasesSeen, HandleState, Available, Loading, Reclaiming, Parsing
  <1> QED BY <1>1, <1>2

\* In a call the library is on its way to being usable, or to being gone.
LEMMA LibraryIsBusy ==
    ASSUME IInv, LibraryStep
    PROVE  /\ UNCHANGED <<opened, should_free>>
           /\ \/ Loading /\ (Loading' \/ pc' = "ready")
              \/ Reclaiming /\ (Reclaiming' \/ pc' = "gone")
  <1>0. UNCHANGED <<opened, should_free>>
    BY DEF LibraryStep
  <1>1. /\ pc \in Parsing \cup {"install", "prune"} => ~should_free
        /\ pc \in {"free_config", "free_channels", "gone"} => should_free
    BY DEF IInv, PhaseSound
  <1>2. CASE LoadStep
    BY <1>0, <1>1, <1>2
       DEF LoadStep, parse_config_at, parse_fails, end_map, discard_done, moberg_config_join,
           moberg_config_add_device, install_config, next_device, installed, pruned,
           moberg_device_new, moberg_device_parse_map, map, map_refuses,
           parse_device_fails, discard_device, moberg_device_install_channels,
           keep_device, drop_device, Loading, Parsing
  <1>3. CASE TeardownStep
    BY <1>0, <1>1, <1>3 DEF TeardownStep, moberg_config_free, channel_list_free,
       moberg_config_freed, channel_lists_freed, Reclaiming
  <1>4. CASE run_deferred_action \/ deferred_done
    BY <1>0, <1>4 DEF run_deferred_action, deferred_done, Loading, Reclaiming, IInv,
       TypeOK, ClientsOK
  <1> QED BY <1>0, <1>2, <1>3, <1>4 DEF LibraryStep

\* moberg_new returns, the struct is freed, or nothing the clients see happens.
LEMMA LibraryRefines ==
    ASSUME IInv, LibraryStep
    PROVE  [Promise!Next]_(Promise!vars)
  <1>1. UNCHANGED <<opened, should_free>>
    BY LibraryIsBusy
  <1>2. CASE (Loading /\ Loading') \/ (Reclaiming /\ Reclaiming')
    <2>1. HandleState' = HandleState /\ Available' = Available
      BY <1>2, HandleStates DEF PhasesSeen
    <2> QED BY <1>1, <2>1 DEF Promise!vars, Available
  <1>3. CASE Loading /\ pc' = "ready"
    <2>1. HandleState = "loading" /\ HandleState' = "usable" /\ Available' \in SUBSET Slot
      BY <1>3, HandleStates DEF PhasesSeen, Available
    <2>2. Promise!Ready
      BY <1>1, <2>1 DEF Promise!Ready, Available
    <2> QED BY <2>2 DEF Promise!Next
  <1>4. CASE Reclaiming /\ pc' = "gone"
    <2>1. /\ HandleState = "reclaiming" /\ HandleState' = "gone"
          /\ Available' = Available
      BY <1>4, HandleStates DEF PhasesSeen
    <2>2. Promise!Reclaim
      BY <1>1, <2>1 DEF Promise!Reclaim, Available
    <2> QED BY <2>2 DEF Promise!Next
  <1> QED BY <1>2, <1>3, <1>4, LibraryIsBusy

\* The clients' calls are those of the abstract struct: the last close, or
\* moberg_free when nothing is open, is what starts the reclaiming.
LEMMA ClientRefines ==
    ASSUME IInv, ClientStep
    PROVE  Promise!Next
  <1>0. IInv'
    BY NextIInv DEF Next
  <1>1. ASSUME NEW cl \in Client, NEW s \in Slot, moberg_open(cl, s)
        PROVE  Promise!Open(cl, s)
    <2>1. /\ pc = "ready" /\ opened[cl] = NULL /\ channel_list_get(s) # NULL
          /\ opened' = [opened EXCEPT ![cl] = s]
          /\ UNCHANGED <<pc, capacity, table, should_free>>
      BY <1>1 DEF moberg_open, loadVars
    <2>2. HandleState = "usable" /\ HandleState' = "usable"
      BY <2>1, HandleStates DEF PhasesSeen
    <2>3. s \in Available /\ Available' = Available
      BY <2>1 DEF Available, channel_list_get
    <2> QED BY <2>1, <2>2, <2>3 DEF Promise!Open, Available
  <1>2. ASSUME pc = "ready", UNCHANGED <<capacity, table>>,
               pc' = IF should_free' /\ open_channels' = 0 THEN "free_config" ELSE "ready"
        PROVE  HandleState = "usable" /\ Promise!Leave
    <2>1. open_channels' = Cardinality(OpenClients') /\ IsFiniteSet(OpenClients')
      <3>1. IsFiniteSet(OpenClients')
        <4>1. OpenClients' \in SUBSET Client
          BY DEF OpenClients
        <4> QED BY <4>1, ClientAssumption, FS_Subset
      <3> QED BY <1>0, <3>1 DEF IInv, ClientsSound, OpenClients
    <2>2. open_channels' = 0 <=> OpenClients' = {}
      BY <2>1, FS_EmptySet
    <2>3. open_channels' = 0 <=> Promise!NobodyHasOpen'
      BY <2>2 DEF OpenClients, Promise!NobodyHasOpen
    <2>4. CASE should_free' /\ open_channels' = 0
      <3>1. HandleState' = "reclaiming" /\ Available' = {} /\ HandleState = "usable"
        BY <1>2, <2>4, HandleStates DEF PhasesSeen, Reclaiming
      <3> QED BY <2>3, <2>4, <3>1 DEF Promise!Leave, Available
    <2>5. CASE ~(should_free' /\ open_channels' = 0)
      <3>1. HandleState' = "usable" /\ HandleState = "usable" /\ Available' = Available
        BY <1>2, <2>5, HandleStates DEF PhasesSeen, Available, channel_list_get
      <3> QED BY <2>3, <2>5, <3>1 DEF Promise!Leave, Available
    <2> QED BY <2>4, <2>5
  <1>3. ASSUME NEW cl \in Client, moberg_close(cl) PROVE Promise!Close(cl)
    <2>1. /\ pc = "ready" /\ opened[cl] # NULL
          /\ opened' = [opened EXCEPT ![cl] = NULL]
          /\ UNCHANGED <<capacity, table, should_free>>
          /\ pc' = IF should_free' /\ open_channels' = 0 THEN "free_config" ELSE "ready"
      BY <1>3 DEF moberg_close, free_if_unused
    <2> QED BY <1>2, <2>1 DEF Promise!Close
  <1>4. CASE moberg_free
    <2>1. /\ pc = "ready" /\ should_free' = TRUE
          /\ UNCHANGED <<opened, capacity, table>>
          /\ pc' = IF should_free' /\ open_channels' = 0 THEN "free_config" ELSE "ready"
      BY <1>4 DEF moberg_free, free_if_unused
    <2>2. Promise!Free
      BY <1>2, <2>1 DEF Promise!Free
    <2> QED BY <2>2 DEF Promise!Next
  <1> QED BY <1>1, <1>3, <1>4 DEF ClientStep, Promise!Next

\* Whatever happens inside, the clients see the struct of MobergHandle: a
\* channel opened stays open until it is closed, and nothing is reclaimed
\* before it was asked for and the last client left.
THEOREM PromiseKept == Spec => Promise!Safety
  <1>1. Init => Promise!Init
    BY HandleStates DEF PhasesSeen, Init, LoadInit, Promise!Init, Loading, Parsing, Available
  <1>2. IInv /\ [Next]_vars => [Promise!Next]_(Promise!vars)
    <2>1. ASSUME UNCHANGED vars PROVE UNCHANGED Promise!vars
      BY <2>1 DEF vars, loadVars, Promise!vars, HandleState, channel_list_get
    <2> QED BY <2>1, LibraryRefines, ClientRefines DEF Next, moberg_open_refused
  <1> QED BY <1>1, <1>2, Invariance, PTL DEF Spec, Promise!Safety

-----------------------------------------------------------------------------
(* The library of the language bindings *)

\* The opens of each slot, as the clients have them.
OpensOf(o) == [s \in Slot |-> Cardinality({cl \in Client : o[cl] = s})]

\* A struct that is there, one that was asked to go, and a new one.
Live(asked, opens) == [alive |-> TRUE, should_free |-> asked, opens |-> opens]
Asked(opens) == [alive |-> TRUE, should_free |-> TRUE, opens |-> opens]
New == [alive |-> TRUE, should_free |-> FALSE, opens |-> [s \in Slot |-> 0]]

One(m) == [a \in {Address} |-> m]

LEMMA StructsAre ==
    /\ pc = "ready" => Structs = One(Live(should_free, OpensOf(opened)))
    /\ pc # "ready" => Structs = One(Calls!NoMoberg)
    /\ pc' = "ready" => Structs' = One(Live(should_free', OpensOf(opened')))
    /\ pc' = "ready" /\ should_free' = TRUE => Structs' = One(Asked(OpensOf(opened')))
    /\ pc' # "ready" => Structs' = One(Calls!NoMoberg)
  BY DEF Structs, One, Live, Asked, OpensOf

\* The library of the bindings sums as FoldProofs does.
LEMMA SameSum ==
    ASSUME NEW f
    PROVE  Calls!SumFunction(f) = SumFunction(f)
  BY Zenon DEF SumFunction, SumFunctionOnSet, FoldFunctionOnSet, MapThenFoldSet,
     Calls!SumFunction, Calls!SumFunctionOnSet, Calls!FoldFunctionOnSet, Calls!MapThenFoldSet

\* No slot is open exactly if no client has one.
LEMMA OpensSum ==
    ASSUME IsFiniteSet(Slot), NEW o \in [Client -> Slot \cup {NULL}]
    PROVE  /\ OpensOf(o) \in [Slot -> Nat]
           /\ Calls!SumFunction(OpensOf(o)) = 0 <=> \A cl \in Client : o[cl] = NULL
  <1>1. \A s \in Slot : /\ IsFiniteSet({cl \in Client : o[cl] = s})
                        /\ Cardinality({cl \in Client : o[cl] = s}) \in Nat
    BY ClientAssumption, FS_Subset, FS_CardinalityType
  <1>2. PICK f : f = OpensOf(o)
    OBVIOUS
  <1>3. f \in [Slot -> Nat] /\ \A s \in Slot : f[s] = Cardinality({cl \in Client : o[cl] = s})
    BY <1>1, <1>2 DEF OpensOf
  <1>4. /\ SumFunction(f) \in Nat /\ \A s \in Slot : f[s] <= SumFunction(f)
        /\ (\A s \in Slot : f[s] = 0) => SumFunction(f) = 0
    BY <1>3, SumOfNaturals
  <1>5. \A s \in Slot : f[s] \in Nat
    BY <1>3
  <1>6. SumFunction(f) = 0 <=> \A s \in Slot : f[s] = 0
    BY <1>4, <1>5
  <1>7. \A s \in Slot : f[s] = 0 <=> {cl \in Client : o[cl] = s} = {}
    BY <1>1, <1>3, FS_EmptySet
  <1>8. (\A s \in Slot : f[s] = 0) <=> \A cl \in Client : o[cl] = NULL
    BY <1>7, SlotNullAssumption
  <1>9. Calls!SumFunction(f) = SumFunction(f)
    BY SameSum
  <1> QED BY <1>2, <1>3, <1>6, <1>8, <1>9

\* One more and one less, for one slot.
More(n, s) == [n EXCEPT ![s] = @ + 1]
Less(n, s) == [n EXCEPT ![s] = @ - 1]

LEMMA LessAfterMore ==
    ASSUME NEW n \in [Slot -> Nat], NEW s \in Slot
    PROVE  Less(More(n, s), s) = n
  <1> DEFINE m == More(n, s)
  <1>1. m \in [Slot -> Nat] /\ m[s] = n[s] + 1 /\ \A t \in Slot : t # s => m[t] = n[t]
    BY DEF More
  <1> HIDE DEF m
  <1>2. Less(m, s) = [t \in Slot |-> IF t = s THEN m[s] - 1 ELSE m[t]]
    BY <1>1 DEF Less
  <1>3. \A t \in Slot : (IF t = s THEN m[s] - 1 ELSE m[t]) = n[t]
    BY <1>1
  <1> QED BY <1>2, <1>3 DEF m

\* An open and a close count once, for their slot.
LEMMA OpensChange ==
    ASSUME NEW o \in [Client -> Slot \cup {NULL}], NEW cl \in Client, NEW s \in Slot, o[cl] = NULL,
           NEW o2 \in [Client -> Slot \cup {NULL}], o2[cl] = s,
           \A c \in Client : c # cl => o2[c] = o[c]
    PROVE  OpensOf(o2) = More(OpensOf(o), s) /\ OpensOf(o) = Less(OpensOf(o2), s)
  <1>1. \A t \in Slot : IsFiniteSet({c \in Client : o[c] = t})
                        /\ Cardinality({c \in Client : o[c] = t}) \in Nat
    BY ClientAssumption, FS_Subset, FS_CardinalityType
  <1>2. \A t \in Slot : t # s => {c \in Client : o2[c] = t} = {c \in Client : o[c] = t}
    BY SlotNullAssumption
  <1>3. /\ {c \in Client : o2[c] = s} = {c \in Client : o[c] = s} \cup {cl}
        /\ cl \notin {c \in Client : o[c] = s}
    BY SlotNullAssumption
  <1>4. Cardinality({c \in Client : o2[c] = s}) = Cardinality({c \in Client : o[c] = s}) + 1
    BY <1>1, <1>3, FS_AddElement
  <1>5. OpensOf(o2) = More(OpensOf(o), s)
    BY <1>2, <1>4 DEF OpensOf, More
  <1>6. OpensOf(o) \in [Slot -> Nat]
    BY <1>1 DEF OpensOf
  <1> QED BY <1>5, <1>6, LessAfterMore

LEMMA RecordFields ==
    ASSUME NEW a, NEW b, NEW c, NEW x
    PROVE  /\ [[alive |-> a, should_free |-> b, opens |-> c] EXCEPT !.alive = x]
                 = [alive |-> x, should_free |-> b, opens |-> c]
           /\ [[alive |-> a, should_free |-> b, opens |-> c] EXCEPT !.should_free = x]
                 = [alive |-> a, should_free |-> x, opens |-> c]
           /\ [[alive |-> a, should_free |-> b, opens |-> c] EXCEPT !.opens = x]
                 = [alive |-> a, should_free |-> b, opens |-> x]
  OBVIOUS

LEMMA StructFields ==
    ASSUME NEW asked, NEW opens
    PROVE  /\ Live(asked, opens).opens = opens
           /\ \A x : [Live(asked, opens) EXCEPT !.opens = x] = Live(asked, x)
           /\ [Live(asked, opens) EXCEPT !.should_free = TRUE] = Asked(opens)
           /\ [Calls!NoMoberg EXCEPT !.alive = TRUE] = New
  <1>1. PICK t : t = TRUE
    BY Zenon
  <1>2. PICK f : f = FALSE
    BY Zenon
  <1>3. PICK z : z = [s \in Slot |-> 0]
    BY Zenon
  <1>4. Live(asked, opens).opens = opens
    BY DEF Live
  <1>5. ASSUME NEW x PROVE [Live(asked, opens) EXCEPT !.opens = x] = Live(asked, x)
    <2>1. [[alive |-> t, should_free |-> asked, opens |-> opens] EXCEPT !.opens = x]
             = [alive |-> t, should_free |-> asked, opens |-> x]
      BY RecordFields
    <2> QED BY <1>1, <2>1, Zenon DEF Live
  <1>6. [Live(asked, opens) EXCEPT !.should_free = TRUE] = Asked(opens)
    <2>1. [[alive |-> t, should_free |-> asked, opens |-> opens] EXCEPT !.should_free = t]
             = [alive |-> t, should_free |-> t, opens |-> opens]
      BY RecordFields
    <2> QED BY <1>1, <2>1, Zenon DEF Live, Asked
  <1>7. [Calls!NoMoberg EXCEPT !.alive = TRUE] = New
    <2>1. [[alive |-> f, should_free |-> f, opens |-> z] EXCEPT !.alive = t]
             = [alive |-> t, should_free |-> f, opens |-> z]
      BY RecordFields
    <2> QED BY <1>1, <1>2, <1>3, <2>1, Zenon DEF New, Calls!NoMoberg
  <1> QED BY <1>4, <1>5, <1>6, <1>7

\* What the calls of the library do to one struct.
LEMMA OneStruct ==
    ASSUME NEW asked, NEW n
    PROVE  /\ \A s \in Slot :
                 /\ Calls!moberg_open(One(Live(asked, n)), Address, s)
                       = One(Live(asked, More(n, s)))
                 /\ Calls!moberg_close(One(Live(asked, n)), Address, s)
                       = One(Calls!free_if_unused(Live(asked, Less(n, s))))
           /\ Calls!moberg_free(One(Live(asked, n)), Address)
                 = One(Calls!free_if_unused(Asked(n)))
           /\ Calls!moberg_new(One(Calls!NoMoberg), Address) = One(New)
  <1>1. Address # NULL
    <2>1. \E a \in {0, 1} : a # NULL
      OBVIOUS
    <2> QED BY <2>1 DEF Address
  <1>2. \A m, p : [One(m) EXCEPT ![Address] = p] = One(p) /\ One(m)[Address] = m
    BY DEF One
  <1>3. PICK r : r = Live(asked, n)
    OBVIOUS
  <1>4. /\ r.opens = n /\ \A p : [r EXCEPT !.opens = p] = Live(asked, p)
        /\ [r EXCEPT !.should_free = TRUE] = Asked(n)
    BY <1>3, StructFields
  <1>5. ASSUME NEW s \in Slot
        PROVE  Calls!moberg_open(One(r), Address, s) = One(Live(asked, More(n, s)))
    <2>1. [r EXCEPT !.opens[s] = @ + 1] = [r EXCEPT !.opens = More(r.opens, s)]
      BY DEF More
    <2>2. [One(r) EXCEPT ![Address].opens[s] = @ + 1] = One([r EXCEPT !.opens[s] = @ + 1])
      BY DEF One
    <2>3. Calls!moberg_open(One(r), Address, s) = One([r EXCEPT !.opens = More(r.opens, s)])
      BY <2>1, <2>2, Zenon DEF Calls!moberg_open
    <2> QED BY <1>4, <2>3
  <1>6. ASSUME NEW s \in Slot
        PROVE  Calls!moberg_close(One(r), Address, s)
                  = One(Calls!free_if_unused(Live(asked, Less(n, s))))
    <2>1. [r EXCEPT !.opens[s] = @ - 1] = [r EXCEPT !.opens = Less(r.opens, s)]
      BY DEF Less
    <2>2. Calls!moberg_close(One(r), Address, s)
             = One(Calls!free_if_unused([r EXCEPT !.opens[s] = @ - 1]))
      BY <1>2 DEF Calls!moberg_close
    <2> QED BY <1>4, <2>1, <2>2
  <1>7. Calls!moberg_free(One(r), Address) = One(Calls!free_if_unused(Asked(n)))
    <2>1. Calls!moberg_free(One(r), Address)
             = One(Calls!free_if_unused([r EXCEPT !.should_free = TRUE]))
      BY <1>1, <1>2 DEF Calls!moberg_free
    <2> QED BY <1>4, <2>1
  <1>8. Calls!moberg_new(One(Calls!NoMoberg), Address) = One(New)
    BY <1>2, StructFields DEF Calls!moberg_new
  <1> QED BY <1>3, <1>5, <1>6, <1>7, <1>8

\* A struct goes when it was asked to and no client has anything open.
LEMMA Freed ==
    ASSUME IsFiniteSet(Slot), NEW o \in [Client -> Slot \cup {NULL}]
    PROVE  /\ Calls!free_if_unused(Asked(OpensOf(o)))
                 = IF \A cl \in Client : o[cl] = NULL THEN Calls!NoMoberg ELSE Asked(OpensOf(o))
           /\ \A asked \in BOOLEAN : Calls!free_if_unused(Live(asked, OpensOf(o)))
                 = IF asked /\ \A cl \in Client : o[cl] = NULL THEN Calls!NoMoberg
                   ELSE Live(asked, OpensOf(o))
  <1>1. Calls!SumFunction(OpensOf(o)) = 0 <=> \A cl \in Client : o[cl] = NULL
    BY OpensSum
  <1>2. /\ Asked(OpensOf(o)).should_free = TRUE /\ Asked(OpensOf(o)).opens = OpensOf(o)
        /\ \A asked \in BOOLEAN : /\ Live(asked, OpensOf(o)).should_free = asked
                                  /\ Live(asked, OpensOf(o)).opens = OpensOf(o)
    BY DEF Asked, Live
  <1> QED BY <1>1, <1>2 DEF Calls!free_if_unused

\* moberg_new returns, or nothing a binding sees happens.
LEMMA LibraryCallsNothing ==
    ASSUME IInv, LibraryStep
    PROVE  \/ Structs' = Structs
           \/ Calls!Alive(Structs) = {} /\ Structs' = Calls!moberg_new(Structs, Address)
  <1>1. UNCHANGED <<opened, should_free>>
    BY LibraryIsBusy
  <1>2. pc # "ready"
    BY LibraryIsBusy DEF Loading, Reclaiming, Parsing
  <1>3. CASE pc' # "ready"
    BY <1>2, <1>3, StructsAre
  <1>4. CASE pc' = "ready"
    <2>1. Loading
      BY <1>4, LibraryIsBusy DEF Reclaiming
    <2>2. should_free = FALSE
      BY <2>1 DEF Loading, IInv, PhaseSound, TypeOK, ClientsOK, Parsing
    <2>3. \A cl \in Client : opened[cl] = NULL
      BY <1>2 DEF IInv, PhaseSound
    <2>4. OpensOf(opened) = [s \in Slot |-> 0]
      <3>1. \A s \in Slot : Cardinality({cl \in Client : opened[cl] = s}) = 0
        <4>1. \A s \in Slot : {cl \in Client : opened[cl] = s} = {}
          BY <2>3, SlotNullAssumption
        <4> QED BY <4>1, FS_EmptySet
      <3> QED BY <3>1 DEF OpensOf
    <2>5. Structs' = One(New)
      <3>1. Structs' = One(Live(should_free, OpensOf(opened)))
        BY <1>1, <1>4, StructsAre
      <3>2. Live(should_free, [s \in Slot |-> 0]) = New
        BY <2>2 DEF Live, New
      <3> QED BY <2>4, <3>1, <3>2
    <2>6. Structs = One(Calls!NoMoberg)
      BY <1>2, StructsAre
    <2>7. Calls!Alive(Structs) = {}
      BY <2>6 DEF Calls!Alive, One, Calls!NoMoberg
    <2>8. Calls!moberg_new(One(Calls!NoMoberg), Address) = One(New)
      BY OneStruct
    <2> QED BY <2>5, <2>6, <2>7, <2>8
  <1> QED BY <1>3, <1>4

LEMMA OpenCalls ==
    ASSUME IInv, NEW cl \in Client, NEW s \in Slot, moberg_open(cl, s)
    PROVE  Structs' = Calls!moberg_open(Structs, Address, s)
  <1>1. /\ pc = "ready" /\ pc' = "ready" /\ should_free' = should_free
        /\ opened[cl] = NULL /\ opened' = [opened EXCEPT ![cl] = s]
    BY DEF moberg_open, loadVars
  <1>2. opened \in [Client -> Slot \cup {NULL}]
    BY DEF IInv, TypeOK, ClientsOK
  <1>3. OpensOf(opened') = More(OpensOf(opened), s)
    <2>1. /\ opened' \in [Client -> Slot \cup {NULL}] /\ opened'[cl] = s
          /\ \A c \in Client : c # cl => opened'[c] = opened[c]
      BY <1>1, <1>2
    <2>2. opened[cl] = NULL
      BY <1>1
    <2> QED BY <1>2, <2>1, <2>2, OpensChange
  <1>4. Structs' = One(Live(should_free, More(OpensOf(opened), s)))
    <2>1. Structs' = One(Live(should_free, OpensOf(opened')))
      BY <1>1, StructsAre
    <2> QED BY <1>3, <2>1
  <1>5. Structs = One(Live(should_free, OpensOf(opened)))
    BY <1>1, StructsAre
  <1>6. Calls!moberg_open(One(Live(should_free, OpensOf(opened))), Address, s)
           = One(Live(should_free, More(OpensOf(opened), s)))
    BY OneStruct
  <1> QED BY <1>4, <1>5, <1>6

LEMMA CloseCalls ==
    ASSUME IsFiniteSet(Slot), IInv, NEW cl \in Client, moberg_close(cl)
    PROVE  Structs' = Calls!moberg_close(Structs, Address, opened[cl])
  <1>0. opened \in [Client -> Slot \cup {NULL}] /\ should_free \in BOOLEAN
    BY DEF IInv, TypeOK, ClientsOK
  <1>1. /\ pc = "ready" /\ should_free' = should_free /\ opened[cl] # NULL
        /\ opened' = [opened EXCEPT ![cl] = NULL]
        /\ open_channels' = open_channels - 1
        /\ pc' = IF should_free /\ open_channels' = 0 THEN "free_config" ELSE "ready"
    BY DEF moberg_close, free_if_unused
  <1>2. PICK s \in Slot : s = opened[cl]
    BY <1>0, <1>1
  <1>3. opened' \in [Client -> Slot \cup {NULL}] /\ opened'[cl] = NULL
        /\ \A c \in Client : c # cl => opened[c] = opened'[c]
    BY <1>0, <1>1
  <1>4. OpensOf(opened') = Less(OpensOf(opened), s)
    <2>1. opened[cl] = s
      BY <1>2
    <2> QED BY <1>0, <1>3, <2>1, OpensChange
  <1>5. open_channels' = 0 <=> \A c \in Client : opened'[c] = NULL
    <2>1. IInv'
      BY CloseStep
    <2>2. open_channels' = Cardinality(OpenClients') /\ OpenClients' \in SUBSET Client
      BY <2>1 DEF IInv, ClientsSound, OpenClients
    <2>3. open_channels' = 0 <=> OpenClients' = {}
      BY <2>2, ClientAssumption, FS_Subset, FS_EmptySet
    <2> QED BY <2>3 DEF OpenClients
  <1>6. Calls!free_if_unused(Live(should_free, OpensOf(opened')))
           = IF should_free /\ open_channels' = 0 THEN Calls!NoMoberg
             ELSE Live(should_free, OpensOf(opened'))
    BY <1>0, <1>3, <1>5, Freed
  <1>7. Structs' = One(Calls!free_if_unused(Live(should_free, OpensOf(opened'))))
    BY <1>1, <1>6, StructsAre
  <1>8. Structs' = One(Calls!free_if_unused(Live(should_free, Less(OpensOf(opened), s))))
    BY <1>4, <1>7
  <1>9. Structs = One(Live(should_free, OpensOf(opened)))
    BY <1>1, StructsAre
  <1>10. Calls!moberg_close(One(Live(should_free, OpensOf(opened))), Address, s)
            = One(Calls!free_if_unused(Live(should_free, Less(OpensOf(opened), s))))
    BY OneStruct
  <1> QED BY <1>2, <1>8, <1>9, <1>10

LEMMA FreeCalls ==
    ASSUME IsFiniteSet(Slot), IInv, moberg_free
    PROVE  Structs' = Calls!moberg_free(Structs, Address)
  <1>0. opened \in [Client -> Slot \cup {NULL}]
    BY DEF IInv, TypeOK, ClientsOK
  <1>1. /\ pc = "ready" /\ should_free' = TRUE /\ opened' = opened
        /\ pc' = IF open_channels = 0 THEN "free_config" ELSE "ready"
    BY DEF moberg_free, free_if_unused
  <1>2. open_channels = 0 <=> \A cl \in Client : opened[cl] = NULL
    <2>1. open_channels = Cardinality(OpenClients)
      BY DEF IInv, ClientsSound, OpenClients
    <2>2. open_channels = 0 <=> OpenClients = {}
      BY <2>1, OpenClientsFinite, FS_EmptySet
    <2> QED BY <2>2 DEF OpenClients
  <1>3. Calls!free_if_unused(Asked(OpensOf(opened)))
           = IF open_channels = 0 THEN Calls!NoMoberg ELSE Asked(OpensOf(opened))
    BY <1>0, <1>2, Freed
  <1>4. Structs' = One(Calls!free_if_unused(Asked(OpensOf(opened))))
    BY <1>1, <1>3, StructsAre
  <1>5. Structs = One(Live(should_free, OpensOf(opened)))
    BY <1>1, StructsAre
  <1>6. Calls!moberg_free(One(Live(should_free, OpensOf(opened))), Address)
           = One(Calls!free_if_unused(Asked(OpensOf(opened))))
    BY OneStruct
  <1> QED BY <1>4, <1>5, <1>6

\* The library implements what the models of the language bindings make of it: every
\* call takes the struct where Library says, whatever happens inside the call.
THEOREM CallsKept ==
    ASSUME IsFiniteSet(Kind)
    PROVE  Spec => CallsAsInLibrary
  <1>0. IsFiniteSet(Slot)
    <2>1. IsFiniteSet(Index)
      BY IndexAssumption, FS_Interval DEF Index
    <2> QED BY <2>1, FS_Product DEF Slot
  <1> DEFINE Step ==
       /\ LibraryStep => \/ Structs' = Structs
                         \/ /\ Calls!Alive(Structs) = {}
                            /\ Structs' = Calls!moberg_new(Structs, Address)
       /\ \A cl \in Client :
             /\ \A s \in Slot : moberg_open(cl, s) =>
                   Structs' = Calls!moberg_open(Structs, Address, s)
             /\ moberg_close(cl) =>
                   Structs' = Calls!moberg_close(Structs, Address, opened[cl])
       /\ moberg_free => Structs' = Calls!moberg_free(Structs, Address)
  <1>1. IInv /\ [Next]_vars => [Step]_vars
    BY <1>0, LibraryCallsNothing, OpenCalls, CloseCalls, FreeCalls
  <1> QED BY <1>1, Invariance, PTL DEF Spec, CallsAsInLibrary

-----------------------------------------------------------------------------
(* Where no allocation fails *)

LEMMA MallocSucceeds ==
    ASSUME ~AllocMayFail
    PROVE  Malloc = {TRUE}
  BY DEF Malloc

LEMMA InitNothingLost == Init => NothingLost
  <1> SUFFICES ASSUME Init PROVE NothingLost
    OBVIOUS
  <1> USE DEF Init, LoadInit
  <1>1. LibrariesPending(heap, dl)
    BY DEF LibrariesPending
  <1>2. EmptySound
    BY DEF EmptySound, TornDown
  <1>3. \A c \in Channel : heap.chan_use[c] = 0
    BY DEF EmptyHeap
  <1>4. HeldSound /\ PrunedSound /\ LaterWins
    BY <1>3 DEF HeldSound, PrunedSound, LaterWins, Returning, Installed, Loaded
  <1> QED BY <1>1, <1>2, <1>4 DEF NothingLost

-----------------------------------------------------------------------------
(* Steps that install nothing *)

\* While files are parsed, only the libraries have to be accounted for.
LEMMA ParsingLosesNothing ==
    ASSUME IInv, NothingLost, pc \in Parsing, pc' \in Parsing,
           table' = table, pos' = pos, elem' = elem,
           heap'.chan_use = heap.chan_use,
           LibrariesPending(heap', dl')
    PROVE  NothingLost'
  <1>1. (\A s \in Slot : table[s] = NULL) /\ pos = 1 /\ elem = 1
    BY DEF NothingLost, EmptySound
  <1>2. EmptySound'
    BY <1>1 DEF EmptySound, TornDown, Parsing
  <1>3. HeldSound'
    <2>1. \A c \in Channel : heap.chan_use[c] = 1 => \E s \in Slot : table[s] = c
      BY DEF NothingLost, HeldSound
    <2> QED BY <1>1, <2>1 DEF HeldSound
  <1>4. PrunedSound' /\ LaterWins'
    BY DEF PrunedSound, LaterWins, Returning, Installed, Loaded, Parsing
  <1> QED BY <1>2, <1>3, <1>4 DEF NothingLost

\* Afterwards, a step that leaves the table, the lists and the channels alone,
\* and makes no promise the state before did not keep.
LEMMA StayingLosesNothing ==
    ASSUME NothingLost,
           UNCHANGED <<table, config, elements, mapped_to>>,
           heap'.chan_use = heap.chan_use, heap'.chan_dev = heap.chan_dev,
           LibrariesPending(heap', dl'), EmptySound',
           pc' \in {"install", "prune"} \/ Returning' =>
               pc \in {"install", "prune"} \/ Returning \/ \A s \in Slot : table[s] = NULL,
           \A i \in 1..Len(config) : (pc' = "prune" /\ i < pos') \/ Returning' =>
               (pc = "prune" /\ i < pos) \/ Returning \/ Users(heap, config[i]) # {},
           \A i \in 1..Len(config) : \A j \in 1..Len(elements[config[i]]) :
               Installed(i, j)' => Installed(i, j)
    PROVE  NothingLost'
  <1>1. HeldSound'
    BY DEF NothingLost, HeldSound
  <1>2. \A d \in Device : Users(heap', d) = Users(heap, d)
    BY UsersSame
  <1>3. PrunedSound'
    BY DEF NothingLost, PrunedSound, Users
  <1>4. LaterWins'
    BY DEF NothingLost, LaterWins
  <1> QED BY <1>1, <1>3, <1>4 DEF NothingLost

LEMMA ParserLosesNothing ==
    ASSUME IInv, NothingLost, ~AllocMayFail,
           \/ parse_config_at \/ moberg_config_join \/ parse_fails \/ end_map
           \/ moberg_config_add_device \/ discard_done
           \/ \E k, k1 \in Kind, lo, hi \in Index : moberg_device_parse_map(k, k1, lo, hi)
    PROVE  NothingLost'
  <1>1. /\ pc \in Parsing /\ pc' \in Parsing
        /\ UNCHANGED <<table, pos, elem, heap, dl>>
    BY DEF parse_config_at, moberg_config_join, parse_fails, end_map, discard_done,
           moberg_config_add_device, moberg_device_parse_map, Parsing
  <1>2. LibrariesPending(heap', dl')
    BY <1>1 DEF NothingLost
  <1> QED BY <1>1, <1>2, ParsingLosesNothing

LEMMA DeviceLosesNothing ==
    ASSUME IInv, NothingLost, ~AllocMayFail,
           \/ \E d \in Device : moberg_device_new(d)
           \/ \E c \in Channel : map(c) \/ map_refuses(c)
           \/ parse_device_fails(TRUE) \/ discard_device(TRUE)
    PROVE  NothingLost'
  <1>0. /\ HeapSound(heap, dl, Owned) /\ heap \in Heap /\ dl \in Handles
        /\ LibrariesPending(heap, dl)
    BY DEF IInv, HeapSound, NothingLost, Handles
  <1>1. ASSUME NEW d \in Device, moberg_device_new(d) PROVE NothingLost'
    <2>1. /\ pc \in Parsing /\ pc' \in Parsing /\ UNCHANGED <<table, pos, elem>>
          /\ heap' = device_up(new_context(heap, d), d)
          /\ dl[d] = "unopened" /\ dl' = [dl EXCEPT ![d] = "open"]
      BY <1>1 DEF moberg_device_new, Parsing
    <2>2. heap'.chan_use = heap.chan_use
      BY <1>0, <2>1, NewContext DEF SameChannels
    <2>3. LibrariesPending(heap', dl')
      BY <1>0, <2>1, NewContextPending
    <2> QED BY <2>1, <2>2, <2>3, ParsingLosesNothing
  <1>2. ASSUME NEW c \in Channel, map(c) \/ map_refuses(c) PROVE NothingLost'
    <2>1. /\ pc \in Parsing /\ pc' \in Parsing /\ UNCHANGED <<table, pos, elem, dl>>
          /\ pc = "map" /\ heap.chan[c] = "none"
          /\ heap' = init_channel(heap, c, device)
      BY <1>2 DEF map, map_refuses, Parsing
    <2>2. device \in Device
      BY <2>1 DEF IInv, TypeOK, ParserOK
    <2>3. heap'.chan_use = heap.chan_use
      BY <1>0, <2>1, <2>2, InitChannel, ZenonT(30) DEF CreatesChannel
    <2>4. heap'.ctx = heap.ctx /\ heap'.deferred = heap.deferred
      BY <1>0, <2>1 DEF init_channel, Heap
    <2>5. LibrariesPending(heap', dl')
      BY <1>0, <2>1, <2>4, PendingSame
    <2> QED BY <2>1, <2>3, <2>5, ParsingLosesNothing
  <1>3. ASSUME NEW d \in Owned, moberg_device_free(d, TRUE), dl' = dl
        PROVE  heap'.chan_use = heap.chan_use /\ LibrariesPending(heap', dl')
    <2>1. heap' = device_down(heap, d, TRUE) /\ d \in Device
      BY <1>0, <1>3 DEF moberg_device_free, HeapSound
    <2>2. heap'.chan_use = heap.chan_use
      BY <1>3, LetGo
    <2>3. LibrariesPending(heap', dl')
      BY <1>0, <1>3, <2>1, DeviceDownPending
    <2> QED BY <2>2, <2>3
  <1>4. CASE parse_device_fails(TRUE)
    <2>1. /\ pc \in Parsing /\ pc' \in Parsing /\ UNCHANGED <<table, pos, elem, dl>>
          /\ moberg_device_free(device, TRUE) /\ pc \in {"device", "map"}
      BY <1>4 DEF parse_device_fails, Parsing
    <2>2. device \in Owned
      BY <2>1, NullAssumption DEF IInv, TypeOK, ParserOK, Owned
    <2> QED BY <1>3, <2>1, <2>2, ParsingLosesNothing
  <1>5. CASE discard_device(TRUE)
    <2>1. /\ pc \in Parsing /\ pc' \in Parsing /\ UNCHANGED <<table, pos, elem, dl>>
          /\ moberg_device_free(Head(file_config), TRUE) /\ file_config # << >>
      BY <1>5 DEF discard_device, Parsing
    <2>2. Head(file_config) \in Owned
      BY <2>1, TailElements DEF IInv, TypeOK, ParserOK, ListsSound, Owned
    <2> QED BY <1>3, <2>1, <2>2, ParsingLosesNothing
  <1> QED BY <1>1, <1>2, <1>4, <1>5

LEMMA CursorLosesNothing ==
    ASSUME IInv, NothingLost, UNCHANGED countVars,
           install_config \/ next_device \/ installed \/ pruned
    PROVE  NothingLost'
  <1>0. LibrariesPending(heap, dl) /\ EmptySound /\ pos \in Nat /\ elem \in Nat
    BY DEF NothingLost, IInv, TypeOK, InstallOK
  <1>1. /\ UNCHANGED <<table, config, elements, mapped_to, heap, dl>>
        /\ LibrariesPending(heap', dl')
    BY <1>0 DEF install_config, next_device, installed, pruned
  <1>2. Len(config) \in Nat /\ \A i \in 1..Len(config) : Len(elements[config[i]]) \in Nat
    <2>1. config \in Seq(Device) /\ elements \in [Device -> Seq(Channel)]
      BY DEF IInv, TypeOK, ParserOK, InstallOK
    <2>2. \A i \in 1..Len(config) : elements[config[i]] \in Seq(Channel)
      BY <2>1, ListIndices
    <2> QED BY <2>1, <2>2, LenProperties
  <1>3. EmptySound'
    BY <1>0, <1>1 DEF EmptySound, TornDown, Parsing, install_config, next_device, installed,
       pruned, IInv, PhaseSound
  <1>4. CASE install_config
    <2>1. pc' = "install" /\ pos' = 1 /\ elem' = 1 /\ \A s \in Slot : table[s] = NULL
      BY <1>0, <1>4 DEF install_config, EmptySound, Parsing
    <2>2. \A i, j \in Nat \ {0} : ~Installed(i, j)'
      BY <2>1 DEF Installed, Loaded
    <2> QED BY <1>1, <1>2, <1>3, <2>1, <2>2, StayingLosesNothing DEF Returning
  <1>5. CASE next_device
    <2>1. pc = "install" /\ pc' = "install" /\ pos <= Len(config) /\ ~AtElement
          /\ pos' = pos + 1 /\ elem' = 1
      BY <1>5 DEF next_device
    <2>2. \A i \in 1..Len(config) : \A j \in 1..Len(elements[config[i]]) :
              Installed(i, j)' => Installed(i, j)
      BY <1>0, <1>1, <1>2, <2>1 DEF Installed, Loaded, AtElement
    <2> QED BY <1>1, <1>3, <2>1, <2>2, StayingLosesNothing DEF Returning
  <1>6. CASE installed
    <2>1. pc = "install" /\ pc' = "prune" /\ pos > Len(config) /\ pos' = 1
      BY <1>6 DEF installed
    <2>2. \A i \in 1..Len(config) : \A j \in 1..Len(elements[config[i]]) : Installed(i, j)
      BY <1>0, <1>2, <2>1 DEF Installed
    <2> QED BY <1>1, <1>2, <1>3, <2>1, <2>2, StayingLosesNothing DEF Returning
  <1>7. CASE pruned
    <2>1. pc = "prune" /\ pc' = "deferred" /\ pos > Len(config)
      BY <1>7 DEF pruned
    <2> QED BY <1>0, <1>1, <1>2, <1>3, <2>1, StayingLosesNothing
            DEF Returning, Installed, Loaded
  <1> QED BY <1>4, <1>5, <1>6, <1>7

LEMMA WaitingLosesNothing ==
    ASSUME IInv, NothingLost,
           \/ ClientStep
           \/ /\ moberg_config_freed \/ channel_lists_freed \/ deferred_done
              /\ UNCHANGED countVars
    PROVE  NothingLost'
  <1>0. LibrariesPending(heap, dl) /\ EmptySound
    BY DEF NothingLost
  <1>1. /\ UNCHANGED <<table, config, elements, mapped_to, heap, dl>>
        /\ LibrariesPending(heap', dl')
    BY <1>0 DEF moberg_config_freed, channel_lists_freed, deferred_done,
       ClientStep, moberg_open, moberg_close, moberg_free, loadVars
  <1>2. CASE ClientStep
    <2>1. pc = "ready" /\ pc' \in {"ready", "free_config"}
      BY <1>2 DEF ClientStep, moberg_open, moberg_close, moberg_free, free_if_unused, loadVars
    <2>2. EmptySound'
      BY <1>1, <2>1 DEF EmptySound, TornDown, Parsing
    <2> QED BY <1>1, <2>1, <2>2, StayingLosesNothing DEF Returning, Installed, Loaded
  <1>3. CASE moberg_config_freed /\ UNCHANGED countVars
    <2>1. pc = "free_config" /\ pc' = "free_channels" /\ config = << >>
      BY <1>3 DEF moberg_config_freed
    <2>2. EmptySound'
      BY <1>1, <2>1 DEF EmptySound, TornDown, Parsing
    <2> QED BY <1>1, <2>1, <2>2, StayingLosesNothing DEF Returning, Installed, Loaded
  <1>4. CASE channel_lists_freed /\ UNCHANGED countVars
    <2>1. /\ pc = "free_channels" /\ pc' = "deferred" /\ should_free /\ should_free'
          /\ \A s \in Slot : table[s] = NULL
      BY <1>4 DEF channel_lists_freed, IInv, PhaseSound
    <2>2. EmptySound'
      BY <1>0, <1>1, <2>1 DEF EmptySound, TornDown, Parsing
    <2> QED BY <1>1, <2>1, <2>2, StayingLosesNothing DEF Returning, Installed, Loaded
  <1>5. CASE deferred_done /\ UNCHANGED countVars
    <2>1. /\ pc = "deferred" /\ heap.deferred = << >> /\ should_free' = should_free
          /\ pc' = IF should_free THEN "gone" ELSE "ready"
      BY <1>5 DEF deferred_done
    <2>2. EmptySound'
      BY <1>0, <1>1, <2>1 DEF EmptySound, TornDown, Parsing
    <2> QED BY <1>1, <2>1, <2>2, StayingLosesNothing DEF Returning, Installed, Loaded
  <1> QED BY <1>2, <1>3, <1>4, <1>5

LEMMA ClosingLosesNothing ==
    ASSUME IInv, NothingLost, UNCHANGED countVars, run_deferred_action
    PROVE  NothingLost'
  <1>1. /\ pc = "deferred" /\ pc' = pc /\ heap.deferred # << >>
        /\ heap' = [heap EXCEPT !.deferred = SubSeq(heap.deferred, 1, Len(heap.deferred) - 1)]
        /\ dl' = [dl EXCEPT ![heap.deferred[Len(heap.deferred)]] = "closed"]
        /\ UNCHANGED <<table, config, elements, mapped_to, should_free>>
    BY DEF run_deferred_action
  <1>2. LibrariesPending(heap', dl')
    BY <1>1, CloseLibraryPending DEF NothingLost, IInv, HeapSound, Handles
  <1>3. heap'.chan_use = heap.chan_use /\ heap'.chan_dev = heap.chan_dev
    BY <1>1 DEF IInv, HeapSound, Heap
  <1>4. EmptySound'
    BY <1>1 DEF NothingLost, EmptySound, TornDown, Parsing
  <1> QED BY <1>1, <1>2, <1>3, <1>4, StayingLosesNothing DEF Returning, Installed, Loaded

-----------------------------------------------------------------------------
(* Installing *)

\* A table that can grow takes the channel and loses no other.
LEMMA TableSetExact ==
    ASSUME IInv, ~AllocMayFail, NEW s \in Slot, NEW c \in Channel, channel_list_set(s, c)
    PROVE  table'[s] = c /\ \A t \in Slot : t # s => table'[t] = table[t]
  <1>1. /\ table \in [Slot -> Channel \cup {NULL}]
        /\ capacity \in [Kind -> Nat]
        /\ \A t \in Slot : t[1] \in Kind /\ t[2] \in Nat
    BY IndexAssumption DEF IInv, TypeOK, InstallOK, Slot, Index
  <1>2. CASE table' = [table EXCEPT ![s] = c]
    BY <1>1, <1>2
  <1>3. CASE table' = [t \in Slot |->
                   IF t = s THEN c
                   ELSE IF t[1] = s[1] /\ capacity[t[1]] <= t[2] THEN NULL
                   ELSE table[t]]
    <2>1. \A t \in Slot : table[t] # NULL => t[2] < capacity[t[1]]
      BY DEF IInv, TableSound
    <2>2. \A t \in Slot : capacity[t[1]] <= t[2] => table[t] = NULL
      BY <1>1, <2>1
    <2> QED BY <1>3, <2>2
  <1> QED BY <1>2, <1>3 DEF channel_list_set

\* The channel that leaves the slot leaves its use; its library is accounted for.
LEMMA DownOldLosesNothing ==
    ASSUME IInv, NothingLost, ~AllocMayFail, NEW s \in Slot, NEW ok \in Malloc
    PROVE  LET g == down_old(s, ok)
           IN  /\ LibrariesPending(g, dl)
               /\ table[s] # NULL => g.chan_use[table[s]] = 0
  <1> SUFFICES LET g == down_old(s, TRUE)
               IN  /\ LibrariesPending(g, dl)
                   /\ table[s] # NULL => g.chan_use[table[s]] = 0
    BY MallocSucceeds
  <1>1. LibrariesPending(heap, dl) /\ channel_list_get(s) = table[s]
    BY GetReadsTable DEF NothingLost
  <1>2. CASE table[s] = NULL
    BY <1>1, <1>2 DEF down_old
  <1>3. CASE table[s] # NULL
    <2> DEFINE c == table[s]
               g == channel_down(heap, c, TRUE)
    <2>1. c \in Channel /\ heap.chan_use[c] = 1 /\ FreesChannel(heap, c, g)
      BY <1>3, TableChannelDown
    <2>2. heap \in Heap /\ heap.chan_dev[c] \in Device
      BY <2>1, OwnedIsLive DEF IInv, HeapSound
    <2>3. down_old(s, TRUE) = g
      BY <1>1, <1>3 DEF down_old
    <2> HIDE DEF g, c
    <2>4. LibrariesPending(channel_down(heap, c, TRUE), dl)
      BY <1>1, <2>1, <2>2, ChannelDownPending
    <2>5. g.chan_use[c] = 0
      BY <2>1, <2>2 DEF FreesChannel, Heap
    <2> QED BY <2>3, <2>4, <2>5 DEF g, c
  <1> QED BY <1>2, <1>3

LEMMA InstallLosesNothing ==
    ASSUME IInv, NothingLost, ~AllocMayFail, UNCHANGED countVars,
           NEW ok \in Malloc, moberg_device_install_channels(ok)
    PROVE  NothingLost'
  <1> SUFFICES ASSUME NEW d, d = config[pos], NEW c, c = elements[d][elem],
                      NEW s, s = mapped_to[c], NEW g, g = down_old(s, ok)
               PROVE  NothingLost'
    OBVIOUS
  <1>1. /\ pc = "install" /\ pc' = pc
        /\ pos \in 1..Len(config) /\ elem \in 1..Len(elements[d])
        /\ d \in Device /\ c \in Channel /\ s \in Slot
        /\ heap' = channel_up(g, c) /\ channel_list_set(s, c)
        /\ elem' = elem + 1 /\ UNCHANGED <<dl, config, elements, mapped_to, pos>>
    <2>1. pc = "install" /\ pos \in 1..Len(config) /\ elem \in 1..Len(elements[d])
      BY InstallElement
    <2>2. d \in Device /\ c \in Channel /\ s \in Slot
      BY InstallElement
    <2>3. heap' = channel_up(g, c) /\ channel_list_set(s, c)
      BY InstallElement
    <2>4. pc' = pc /\ elem' = elem + 1 /\ UNCHANGED <<dl, config, elements, mapped_to, pos>>
      BY DEF moberg_device_install_channels
    <2> QED BY <2>1, <2>2, <2>3, <2>4
  <1>2. /\ HeapSound(g, dl, Owned) /\ HoldsChannel(g, c, heap')
        /\ g.chan_dev = heap.chan_dev /\ heap.chan_dev[c] = d
        /\ \A x \in Channel : x # table[s] => g.chan_use[x] = heap.chan_use[x]
    <2>1. HeapSound(g, dl, Owned) /\ HoldsChannel(g, c, heap')
      BY InstallElement
    <2>2. g.chan_dev = heap.chan_dev /\ heap.chan_dev[c] = d
      BY InstallElement
    <2>3. \A x \in Channel : x # table[s] => g.chan_use[x] = heap.chan_use[x]
      BY InstallElement
    <2> QED BY <2>1, <2>2, <2>3
  <1>3. table'[s] = c /\ \A t \in Slot : t # s => table'[t] = table[t]
    BY <1>1, TableSetExact
  <1>4. LibrariesPending(g, dl) /\ (table[s] # NULL => g.chan_use[table[s]] = 0)
    BY <1>1, DownOldLosesNothing
  <1>5. LibrariesPending(heap', dl')
    BY <1>1, <1>2, <1>4, ChannelUpPending DEF HeapSound
  <1>6. /\ heap'.chan_dev = heap.chan_dev
        /\ \A x \in Channel : x # c => heap'.chan_use[x] = g.chan_use[x]
    <2>1. heap'.chan_use = [g.chan_use EXCEPT ![c] = 1] /\ heap'.chan_dev = g.chan_dev
      BY <1>2 DEF HoldsChannel
    <2>2. g.chan_use \in [Channel -> Int]
      BY <1>2 DEF HeapSound, Heap
    <2> QED BY <1>1, <1>2, <2>1, <2>2
  <1>7. EmptySound'
    BY <1>1 DEF EmptySound, TornDown, Parsing
  <1>8. HeldSound'
    <2>1. ASSUME NEW x \in Channel, heap'.chan_use[x] = 1
          PROVE  \E t \in Slot : table'[t] = x
      <3>1. CASE x = c
        BY <1>1, <1>3, <3>1
      <3>2. CASE x # c
        <4>1. g.chan_use[x] = 1
          BY <1>6, <2>1, <3>2
        <4>2. x # table[s]
          <5>1. x # NULL
            BY <2>1, NullAssumption
          <5> QED BY <1>4, <4>1, <5>1
        <4>3. PICK t \in Slot : table[t] = x
          BY <1>2, <4>1, <4>2 DEF NothingLost, HeldSound
        <4> QED BY <1>3, <4>2, <4>3
      <3> QED BY <3>1, <3>2
    <2>2. ASSUME NEW t \in Slot, table'[t] # NULL
          PROVE  heap'.chan_dev[table'[t]] \in ToSet(config)
      <3>1. CASE t = s
        <4>1. d \in ToSet(config)
          BY <1>1, ListIndices DEF IInv, TypeOK, InstallOK
        <4> QED BY <1>2, <1>3, <1>6, <3>1, <4>1
      <3>2. CASE t # s
        BY <1>1, <1>3, <1>6, <2>2, <3>2 DEF NothingLost, HeldSound
      <3> QED BY <3>1, <3>2
    <2> QED BY <1>1, <2>1, <2>2 DEF HeldSound
  <1>9. PrunedSound'
    BY <1>1 DEF PrunedSound, Returning
  <1>10. LaterWins'
    <2> SUFFICES ASSUME NEW i \in 1..Len(config), NEW j \in 1..Len(elements[config[i]]),
                        i < pos \/ (i = pos /\ j < elem + 1)
                 PROVE  \E k \in 1..Len(config) : \E l \in 1..Len(elements[config[k]]) :
                            /\ table'[mapped_to[elements[config[i]][j]]] = elements[config[k]][l]
                            /\ i < k \/ (i = k /\ j <= l)
      <3>1. \A i, j : Installed(i, j)' <=> i < pos \/ (i = pos /\ j < elem + 1)
        BY <1>1 DEF Installed, Loaded
      <3> QED BY <1>1, <3>1, ZenonT(30) DEF LaterWins
    <2>0. elem \in Nat /\ pos \in Nat /\ i \in Nat /\ j \in Nat
      BY DEF IInv, TypeOK, InstallOK
    <2>1. config[i] \in Device
      BY ListIndices DEF IInv, TypeOK, InstallOK
    <2>2. mapped_to[elements[config[i]][j]] \in Slot
      BY <2>1 DEF IInv, ElementsSound
    <2>3. CASE mapped_to[elements[config[i]][j]] = s
      <3>1. table'[mapped_to[elements[config[i]][j]]] = elements[config[pos]][elem]
        BY <1>3, <2>3
      <3>2. i < pos \/ (i = pos /\ j <= elem)
        BY <2>0
      <3> QED BY <1>1, <3>1, <3>2
    <2>4. CASE mapped_to[elements[config[i]][j]] # s
      <3>1. ~(i = pos /\ j = elem)
        BY <2>4
      <3>2. Installed(i, j)
        BY <1>1, <2>0, <3>1 DEF Installed
      <3> QED BY <1>3, <2>2, <2>4, <3>2 DEF NothingLost, LaterWins
    <2> QED BY <2>3, <2>4
  <1> QED BY <1>5, <1>7, <1>8, <1>9, <1>10 DEF NothingLost

-----------------------------------------------------------------------------
(* Pruning *)

\* What moberg_device_in_use counts besides the owner's use are the channels.
LEMMA UseTellsUsers ==
    ASSUME NEW h, NEW handles, NEW owned, HeapSound(h, handles, owned), NEW d \in owned
    PROVE  h.use[d] > 1 <=> Users(h, d) # {}
  <1>1. d \in Device /\ h.use[d] = Cardinality(Users(h, d)) + 1
    BY OwnedIsLive DEF HeapSound, Counted
  <1>2. IsFiniteSet(Users(h, d)) /\ Cardinality(Users(h, d)) \in Nat
    BY UsersFinite
  <1>3. Cardinality(Users(h, d)) = 0 <=> Users(h, d) = {}
    BY <1>2, FS_EmptySet
  <1> QED BY <1>1, <1>2, <1>3

LEMMA KeepLosesNothing ==
    ASSUME IInv, NothingLost, UNCHANGED countVars, keep_device(TRUE)
    PROVE  NothingLost'
  <1> SUFFICES ASSUME NEW d, d = config[pos] PROVE NothingLost'
    OBVIOUS
  <1>1. /\ pc = "prune" /\ pc' = pc /\ pos <= Len(config) /\ pos' = pos + 1
        /\ heap' = device_down(device_up(heap, d), d, TRUE) /\ heap'.use[d] > 1
        /\ UNCHANGED <<dl, table, config, elements, mapped_to>>
    BY DEF keep_device, probe
  <1>2. pos \in 1..Len(config) /\ d \in Owned /\ d \in Device
    <2>1. config \in Seq(Device) /\ pos \in 1..Len(config)
      BY <1>1, LenProperties DEF IInv, TypeOK, InstallOK
    <2> QED BY <2>1, ListIndices DEF Owned
  <1>3. HeapSound(heap, dl, Owned)
    BY DEF IInv
  <1>4. HeapSound(heap', dl, Owned) /\ SameChannels(heap, heap')
    BY <1>1, <1>2, <1>3, ProbeDevice
  <1>5. heap'.chan_use = heap.chan_use /\ heap'.chan_dev = heap.chan_dev
    BY <1>4 DEF SameChannels
  <1>6. LibrariesPending(heap', dl')
    BY <1>1, <1>2, <1>3, ProbePending DEF NothingLost, HeapSound
  <1>7. Users(heap, d) # {}
    <2>1. Users(heap', d) # {}
      BY <1>1, <1>2, <1>4, UseTellsUsers
    <2> QED BY <1>5, <2>1, UsersSame
  <1>8. EmptySound'
    BY <1>1 DEF EmptySound, TornDown, Parsing
  <1>9. \A i \in 1..Len(config) : i < pos' => i < pos \/ Users(heap, config[i]) # {}
    BY <1>1, <1>2, <1>7
  <1>10. Installed(1, 1)' => Installed(1, 1)
    BY <1>1 DEF Installed, Loaded
  <1> QED BY <1>1, <1>5, <1>6, <1>8, <1>9, StayingLosesNothing
          DEF Returning, Installed, Loaded

\* A device that is dropped serves no slot, so the table, and the devices whose
\* channels are in it, stay; those behind it move up by one.
LEMMA DropLosesNothing ==
    ASSUME IInv, NothingLost, ~AllocMayFail, UNCHANGED countVars,
           NEW ok \in Malloc, drop_device(ok)
    PROVE  NothingLost'
  <1> SUFFICES ASSUME NEW d, d = config[pos],
                      NEW g, g = device_down(device_up(heap, d), d, ok)
               PROVE  NothingLost'
    OBVIOUS
  <1>1. /\ pc = "prune" /\ pc' = pc /\ pos <= Len(config) /\ pos' = pos
        /\ g.use[d] <= 1 /\ heap' = device_down(g, d, ok)
        /\ elements' = [elements EXCEPT ![d] = << >>]
        /\ config' = RemoveAt(config, pos)
        /\ UNCHANGED <<dl, table, mapped_to>>
    BY DEF drop_device, probe
  <1>2. /\ config \in Seq(Device) /\ IsInjective(config) /\ pos \in 1..Len(config)
        /\ Len(config) \in Nat /\ pos \in Nat
    BY <1>1, LenProperties DEF IInv, TypeOK, InstallOK, ListsSound
  <1>3. /\ d \in ToSet(config) /\ d \in Device /\ d \in Owned
        /\ config' \in Seq(Device) /\ ToSet(config') = ToSet(config) \ {d}
        /\ Len(config') = Len(config) - 1
        /\ \A i \in 1..(Len(config) - 1) :
              config'[i] = IF i < pos THEN config[i] ELSE config[i + 1]
    <2>1. d \in ToSet(config) /\ d \in Device
      BY <1>2, RemoveElement
    <2>2. config' \in Seq(Device) /\ ToSet(config') = ToSet(config) \ {d}
      BY <1>1, <1>2, RemoveElement
    <2>3. /\ Len(RemoveAt(config, pos)) = Len(config) - 1
          /\ \A i \in 1..(Len(config) - 1) :
                RemoveAt(config, pos)[i] = IF i < pos THEN config[i] ELSE config[i + 1]
      BY <1>2, RemoveElement, Zenon
    <2> QED BY <1>1, <2>1, <2>2, <2>3 DEF Owned
  <1>4. HeapSound(heap, dl, Owned)
    BY DEF IInv
  <1>5. HeapSound(g, dl, Owned) /\ SameChannels(heap, g)
    BY <1>3, <1>4, ProbeDevice
  <1>6. SameChannels(g, heap')
    BY <1>1, <1>3, <1>5, OwnerDown
  <1>7. heap'.chan_use = heap.chan_use /\ heap'.chan_dev = heap.chan_dev
    BY <1>5, <1>6 DEF SameChannels
  <1>8. LibrariesPending(heap', dl')
    <2>1. heap \in Heap /\ g \in Heap /\ LibrariesPending(heap, dl)
      BY <1>4, <1>5 DEF HeapSound, NothingLost
    <2>2. LibrariesPending(device_down(device_up(heap, d), d, TRUE), dl)
      BY <1>3, <2>1, ProbePending
    <2>3. LibrariesPending(g, dl)
      BY <2>2, MallocSucceeds
    <2>4. LibrariesPending(device_down(g, d, TRUE), dl)
      BY <1>3, <2>1, <2>3, DeviceDownPending
    <2> QED BY <1>1, <2>4, MallocSucceeds
  <1>9. Users(heap, d) = {}
    <2>1. Users(g, d) = {}
      <3>1. g.use[d] \in Int
        BY <1>3, <1>5 DEF HeapSound, Heap
      <3> QED BY <1>1, <1>3, <1>5, <3>1, UseTellsUsers
    <2> QED BY <1>5, <2>1, UsersSame DEF SameChannels
  <1>10. \A s \in Slot : table[s] # NULL => heap.chan_dev[table[s]] # d
    <2> SUFFICES ASSUME NEW s \in Slot, table[s] # NULL
                 PROVE  heap.chan_dev[table[s]] # d
      OBVIOUS
    <2>1. table[s] \in Channel /\ heap.chan_use[table[s]] = 1
      BY DEF IInv, TypeOK, InstallOK, TableSound
    <2> QED BY <1>9, <2>1 DEF Users
  <1>11. EmptySound'
    BY <1>1 DEF EmptySound, TornDown, Parsing
  <1>12. HeldSound'
    <2>1. \A s \in Slot : table[s] # NULL => heap.chan_dev[table[s]] \in ToSet(config')
      BY <1>1, <1>3, <1>10 DEF NothingLost, HeldSound
    <2>2. \A c \in Channel : heap.chan_use[c] = 1 => \E s \in Slot : table[s] = c
      BY DEF NothingLost, HeldSound
    <2> QED BY <1>1, <1>7, <2>1, <2>2 DEF HeldSound
  <1>13. PrunedSound'
    <2>1. \A e : Users(heap', e) = Users(heap, e)
      BY <1>7, UsersSame
    <2>2. \A i \in 1..Len(config') : i < pos => config'[i] = config[i] /\ i \in 1..Len(config)
      BY <1>2, <1>3
    <2>3. \A i \in 1..Len(config) : i < pos => Users(heap, config[i]) # {}
      BY <1>1 DEF NothingLost, PrunedSound
    <2>4. \A i \in 1..Len(config') : i < pos => Users(heap', config'[i]) # {}
      BY <2>1, <2>2, <2>3
    <2>5. /\ \A i : (pc' = "prune" /\ i < pos') \/ Returning' => i < pos
          /\ pc' = "prune"
      BY <1>1 DEF Returning
    <2> QED BY <2>4, <2>5 DEF PrunedSound, Users
  <1>14. LaterWins'
    <2> DEFINE Was(i) == IF i < pos THEN i ELSE i + 1
               Is(k) == IF k < pos THEN k ELSE k - 1
    <2>1. \A i \in 1..Len(config') :
              /\ Was(i) \in 1..Len(config) /\ Was(i) # pos /\ config'[i] = config[Was(i)]
      BY <1>2, <1>3
    <2>2. \A k \in 1..Len(config) : k # pos =>
              /\ Is(k) \in 1..Len(config') /\ config'[Is(k)] = config[k]
              /\ \A i \in 1..Len(config') :
                    /\ Was(i) < k => i < Is(k)
                    /\ Was(i) = k => i = Is(k)
      BY <1>2, <1>3
    <2>3. \A k \in 1..Len(config) : k # pos => elements'[config[k]] = elements[config[k]]
      <3>1. \A k \in 1..Len(config) : config[k] \in Device /\ (config[k] = d => k = pos)
        BY <1>2, ListIndices
      <3>2. elements \in [Device -> Seq(Channel)]
        BY DEF IInv, TypeOK, ParserOK
      <3> QED BY <1>1, <3>1, <3>2
    <2> HIDE DEF Was, Is
    <2>4. SUFFICES ASSUME NEW i \in 1..Len(config'), NEW j \in 1..Len(elements'[config'[i]])
          PROVE  \E k \in 1..Len(config') : \E l \in 1..Len(elements'[config'[k]]) :
                     /\ table[mapped_to[elements'[config'[i]][j]]] = elements'[config'[k]][l]
                     /\ i < k \/ (i = k /\ j <= l)
      BY <1>1 DEF LaterWins
    <2>5. /\ Was(i) \in 1..Len(config) /\ Was(i) # pos /\ config'[i] = config[Was(i)]
          /\ elements'[config'[i]] = elements[config[Was(i)]]
          /\ j \in 1..Len(elements[config[Was(i)]])
      BY <2>1, <2>3
    <2>6. Installed(Was(i), j)
      BY <1>1 DEF Installed, Loaded
    <2>7. PICK k \in 1..Len(config) : \E l \in 1..Len(elements[config[k]]) :
              /\ table[mapped_to[elements[config[Was(i)]][j]]] = elements[config[k]][l]
              /\ Was(i) < k \/ (Was(i) = k /\ j <= l)
      BY <2>5, <2>6 DEF NothingLost, LaterWins
    <2>8. PICK l \in 1..Len(elements[config[k]]) :
              /\ table[mapped_to[elements[config[Was(i)]][j]]] = elements[config[k]][l]
              /\ Was(i) < k \/ (Was(i) = k /\ j <= l)
      BY <2>7
    <2>9. k # pos
      <3>1. config[k] \in Device /\ config[Was(i)] \in Device
        BY <1>2, <2>5, ListIndices
      <3>2. heap.chan_dev[elements[config[k]][l]] = config[k]
        BY <3>1 DEF IInv, ElementsSound
      <3>3. elements[config[k]][l] \in Channel
        BY <3>1, ListIndices DEF IInv, TypeOK, ParserOK
      <3>4. mapped_to[elements[config[Was(i)]][j]] \in Slot
        BY <2>5, <3>1 DEF IInv, ElementsSound
      <3> QED BY <1>10, <2>8, <3>2, <3>3, <3>4, NullAssumption
    <2>10. /\ Is(k) \in 1..Len(config') /\ config'[Is(k)] = config[k]
           /\ Was(i) < k => i < Is(k)
           /\ Was(i) = k => i = Is(k)
      BY <2>2, <2>9
    <2>11. elements'[config'[Is(k)]] = elements[config[k]]
      BY <2>3, <2>9, <2>10
    <2>12. l \in 1..Len(elements'[config'[Is(k)]])
      BY <2>11
    <2>13. i < Is(k) \/ (i = Is(k) /\ j <= l)
      BY <2>8, <2>10
    <2>14. table[mapped_to[elements'[config'[i]][j]]] = elements'[config'[Is(k)]][l]
      BY <2>5, <2>8, <2>11
    <2> QED BY <2>10, <2>12, <2>13, <2>14
  <1> QED BY <1>8, <1>11, <1>12, <1>13, <1>14 DEF NothingLost

-----------------------------------------------------------------------------
(* The teardown *)

LEMMA FreeDeviceLosesNothing ==
    ASSUME IInv, NothingLost, ~AllocMayFail, UNCHANGED countVars,
           NEW ok \in Malloc, moberg_config_free(ok)
    PROVE  NothingLost'
  <1> SUFFICES ASSUME NEW d, d = Head(config) PROVE NothingLost'
    OBVIOUS
  <1>1. /\ pc = "free_config" /\ pc' = pc /\ config # << >>
        /\ moberg_device_free(d, ok) /\ UNCHANGED <<dl, table>>
    BY DEF moberg_config_free
  <1>2. d \in Owned /\ d \in Device
    BY <1>1, TailElements DEF IInv, TypeOK, InstallOK, ListsSound, Owned
  <1>3. heap'.chan_use = heap.chan_use
    BY <1>1, <1>2, LetGo
  <1>4. LibrariesPending(heap', dl')
    <2>1. heap \in Heap /\ LibrariesPending(heap, dl)
      BY DEF IInv, HeapSound, NothingLost
    <2>2. LibrariesPending(device_down(heap, d, TRUE), dl)
      BY <1>2, <2>1, DeviceDownPending
    <2> QED BY <1>1, <2>2, MallocSucceeds DEF moberg_device_free
  <1>5. EmptySound'
    BY <1>1 DEF EmptySound, TornDown, Parsing
  <1>6. HeldSound' /\ PrunedSound' /\ LaterWins'
    BY <1>1, <1>3 DEF NothingLost, HeldSound, PrunedSound, LaterWins, Returning, Installed, Loaded
  <1> QED BY <1>4, <1>5, <1>6 DEF NothingLost

LEMMA FreeChannelLosesNothing ==
    ASSUME IInv, NothingLost, ~AllocMayFail, UNCHANGED countVars,
           NEW s \in Slot, NEW ok \in Malloc, channel_list_free(s, ok)
    PROVE  NothingLost'
  <1> SUFFICES ASSUME NEW c, c = table[s] PROVE NothingLost'
    OBVIOUS
  <1>1. /\ pc = "free_channels" /\ pc' = pc /\ c # NULL
        /\ heap' = channel_down(heap, c, ok)
        /\ table' = [table EXCEPT ![s] = NULL] /\ UNCHANGED <<dl, config>>
    BY DEF channel_list_free
  <1>2. c \in Channel /\ heap.chan_use[c] = 1 /\ FreesChannel(heap, c, heap')
    BY <1>1, TableChannelDown
  <1>3. heap \in Heap /\ heap.chan_dev[c] \in Device
    BY <1>2, OwnedIsLive DEF IInv, HeapSound
  <1>4. LibrariesPending(heap', dl')
    <2>1. LibrariesPending(channel_down(heap, c, TRUE), dl)
      BY <1>2, <1>3, ChannelDownPending DEF NothingLost
    <2> QED BY <1>1, <2>1, MallocSucceeds
  <1>5. EmptySound'
    BY <1>1 DEF NothingLost, EmptySound, TornDown, Parsing
  <1>6. \A x \in Channel : heap'.chan_use[x] = 1 => \E t \in Slot : table'[t] = x
    <2> SUFFICES ASSUME NEW x \in Channel, heap'.chan_use[x] = 1
                 PROVE  \E t \in Slot : table'[t] = x
      OBVIOUS
    <2>1. x # c /\ heap.chan_use[x] = 1
      <3>1. heap'.chan_use = [heap.chan_use EXCEPT ![c] = 0]
        BY <1>2 DEF FreesChannel
      <3> QED BY <1>2, <1>3, <3>1 DEF Heap
    <2>2. PICK t \in Slot : table[t] = x
      BY <2>1 DEF NothingLost, HeldSound
    <2> QED BY <1>1, <2>1, <2>2 DEF IInv, TypeOK, InstallOK
  <1>7. HeldSound' /\ PrunedSound' /\ LaterWins'
    BY <1>1, <1>6 DEF HeldSound, PrunedSound, LaterWins, Returning, Installed, Loaded
  <1> QED BY <1>4, <1>5, <1>7 DEF NothingLost

-----------------------------------------------------------------------------
(* The invariant and what follows from it *)

LEMMA NextNothingLost ==
    ASSUME IInv, NothingLost, ~AllocMayFail, [Next]_vars
    PROVE  NothingLost'
  <1>1. CASE UNCHANGED vars
    BY <1>1 DEF vars, loadVars, NothingLost, LibrariesPending, EmptySound, TornDown, HeldSound,
       PrunedSound, Users, LaterWins, Returning, Installed, Loaded
  <1>2. CASE ClientStep
    BY <1>2, WaitingLosesNothing
  <1>3. CASE LibraryStep
    <2>0. UNCHANGED countVars /\ Malloc = {TRUE}
      BY <1>3, MallocSucceeds DEF LibraryStep
    <2>1. CASE LoadStep
      BY <2>0, <2>1, ParserLosesNothing, DeviceLosesNothing, CursorLosesNothing,
         InstallLosesNothing, KeepLosesNothing, DropLosesNothing DEF LoadStep
    <2>2. CASE TeardownStep
      BY <2>0, <2>2, WaitingLosesNothing, FreeDeviceLosesNothing, FreeChannelLosesNothing
         DEF TeardownStep
    <2>3. CASE run_deferred_action
      BY <2>0, <2>3, ClosingLosesNothing
    <2>4. CASE deferred_done
      BY <2>0, <2>4, WaitingLosesNothing
    <2> QED BY <1>3, <2>1, <2>2, <2>3, <2>4 DEF LibraryStep
  <1> QED BY <1>1, <1>2, <1>3 DEF Next, moberg_open_refused

\* Where no allocation fails, every use and every library is known to somebody
\* who will release it, the table holds the last mapping of each slot, and the
\* devices that have passed the pruning serve one (moberg_new to the teardown).
THEOREM NothingIsLost ==
    ASSUME ~AllocMayFail
    PROVE  Spec => []NothingLost
  <1>1. Init => NothingLost
    BY InitNothingLost
  <1>2. IInv /\ NothingLost /\ [Next]_vars => NothingLost'
    BY NextNothingLost
  <1> QED BY <1>1, <1>2, Invariance, PTL DEF Spec

\* A slot that is named holds a channel, and the last one that was mapped to
\* it: later statements, blocks and files override earlier ones
\* (install_channel in moberg.c).
THEOREM LastMappingCorrect ==
    ASSUME ~AllocMayFail
    PROVE  Spec => []LastMappingWins
  <1>1. IInv /\ NothingLost => LastMappingWins
    <2> SUFFICES ASSUME IInv, NothingLost, Loaded, NEW p \in Positions,
                        NEW s, s = mapped_to[ChannelAt(p)]
                 PROVE  /\ table[s] # NULL
                        /\ (\A q \in Positions : Before(p, q) => mapped_to[ChannelAt(q)] # s)
                              => table[s] = ChannelAt(p)
      BY DEF LastMappingWins
    <2>1. PICK i \in 1..Len(config), j \in 1..Cardinality(Channel) :
              p = <<i, j>> /\ j <= Len(elements[config[i]])
      BY DEF Positions
    <2>2. /\ Cardinality(Channel) \in Nat
          /\ \A k \in 1..Len(config) :
                /\ config[k] \in Device /\ Len(elements[config[k]]) \in Nat
                /\ Len(elements[config[k]]) <= Cardinality(Channel)
                /\ \A l \in 1..Len(elements[config[k]]) : elements[config[k]][l] \in Channel
      <3>1. \A k \in 1..Len(config) : config[k] \in Device
        BY ListIndices DEF IInv, TypeOK, InstallOK
      <3>2. \A d \in Device : elements[d] \in Seq(Channel) /\ IsInjective(elements[d])
        BY DEF IInv, TypeOK, ParserOK, ElementsSound
      <3>3. \A d \in Device : /\ Len(elements[d]) \in Nat
                              /\ \A l \in 1..Len(elements[d]) : elements[d][l] \in Channel
        BY <3>2, ListIndices
      <3>4. \A d \in Device : Len(elements[d]) <= Cardinality(Channel)
        BY <3>2, InjectiveLength, ChannelAssumption
      <3> QED BY <3>1, <3>3, <3>4, FS_CardinalityType, ChannelAssumption
    <2>3. j \in 1..Len(elements[config[i]]) /\ s = mapped_to[elements[config[i]][j]]
      BY <2>1, <2>2 DEF ChannelAt
    <2>4. PICK k \in 1..Len(config) : \E l \in 1..Len(elements[config[k]]) :
              /\ table[s] = elements[config[k]][l]
              /\ i < k \/ (i = k /\ j <= l)
      BY <2>3, ZenonT(30) DEF NothingLost, LaterWins, Installed
    <2>5. PICK l \in 1..Len(elements[config[k]]) :
              /\ table[s] = elements[config[k]][l]
              /\ i < k \/ (i = k /\ j <= l)
      BY <2>4
    <2>6. table[s] \in Channel /\ table[s] # NULL
      BY <2>2, <2>5, NullAssumption
    <2>7. s \in Slot /\ mapped_to[table[s]] = s
      <3>1. s \in Slot
        BY <2>2, <2>3 DEF IInv, ElementsSound
      <3> QED BY <2>6, <3>1 DEF IInv, TableSound
    <2>8. <<k, l>> \in Positions /\ ChannelAt(<<k, l>>) = table[s]
      <3> DEFINE q == <<k, l>>
      <3>1. l \in Nat \ {0} /\ l <= Len(elements[config[k]])
        BY <2>2, <2>5
      <3>2. l \in 1..Cardinality(Channel)
        BY <2>2, <3>1
      <3>3. q \in (1..Len(config)) \X (1..Cardinality(Channel)) /\ q[1] = k /\ q[2] = l
        BY <3>2
      <3> HIDE DEF q
      <3>4. q \in Positions /\ ChannelAt(q) = table[s]
        BY <2>5, <3>1, <3>3 DEF Positions, ChannelAt
      <3> QED BY <3>4 DEF q
    <2>9. ASSUME \A q \in Positions : Before(p, q) => mapped_to[ChannelAt(q)] # s
          PROVE  table[s] = ChannelAt(p)
      <3>1. ~Before(p, <<k, l>>)
        BY <2>7, <2>8, <2>9
      <3>2. i = k /\ j = l
        BY <2>1, <2>2, <2>5, <3>1 DEF Before
      <3> QED BY <2>1, <2>8, <3>2
    <2> QED BY <2>6, <2>9
  <1> QED BY <1>1, NothingIsLost, Invariance, PTL

\* When moberg_new returns, the devices of the configuration are those that
\* serve a slot of the tables (moberg_config_device_in_use).
THEOREM ConfigCorrect ==
    ASSUME ~AllocMayFail
    PROVE  Spec => []ConfigIsDevicesInUse
  <1>1. IInv /\ NothingLost => ConfigIsDevicesInUse
    <2> SUFFICES ASSUME IInv, NothingLost, pc = "ready"
                 PROVE  ToSet(config) =
                        {heap.chan_dev[table[s]] : s \in {t \in Slot : table[t] # NULL}}
      BY DEF ConfigIsDevicesInUse
    <2>1. ASSUME NEW d \in ToSet(config)
          PROVE  \E s \in Slot : table[s] # NULL /\ d = heap.chan_dev[table[s]]
      <3>1. PICK i \in 1..Len(config) : d = config[i]
        BY ListIndices DEF IInv, TypeOK, InstallOK
      <3>2. Users(heap, d) # {}
        BY <3>1 DEF NothingLost, PrunedSound, Returning
      <3>3. PICK c \in Channel : heap.chan_dev[c] = d /\ heap.chan_use[c] = 1
        BY <3>2 DEF Users
      <3>4. PICK s \in Slot : table[s] = c
        BY <3>3 DEF NothingLost, HeldSound
      <3> QED BY <3>3, <3>4, NullAssumption
    <2>2. \A s \in Slot : table[s] # NULL => heap.chan_dev[table[s]] \in ToSet(config)
      BY DEF NothingLost, HeldSound, Returning
    <2> QED BY <2>1, <2>2
  <1> QED BY <1>1, NothingIsLost, Invariance, PTL

\* When the struct is freed no device context and no channel that ever got a use is
\* live and no library is open (moberg_free, free_if_unused).
THEOREM TeardownCorrect ==
    ASSUME ~AllocMayFail
    PROVE  Spec => []NothingHeldWhenGone
  <1>1. IInv /\ NothingLost => NothingHeldWhenGone
    <2> SUFFICES ASSUME IInv, NothingLost, pc = "gone"
                 PROVE  /\ \A d \in Device : heap.ctx[d] # "live" /\ dl[d] # "open"
                        /\ \A c \in Channel : heap.chan_use[c] = 0
                        /\ heap.deferred = << >>
      BY DEF NothingHeldWhenGone
    <2>1. config = << >> /\ heap.deferred = << >> /\ \A s \in Slot : table[s] = NULL
      BY DEF NothingLost, EmptySound, TornDown
    <2>2. \A c \in Channel : heap.chan_use[c] = 0
      <3>1. \A c \in Channel : heap.chan_use[c] \in {0, 1}
        BY DEF IInv, HeapSound, ChannelsSound
      <3>2. \A c \in Channel : heap.chan_use[c] # 1
        BY <2>1, NullAssumption DEF NothingLost, HeldSound
      <3> QED BY <3>1, <3>2
    <2>3. Owned = {}
      BY <2>1, EmptyList DEF IInv, PhaseSound, Parsing, Owned
    <2>4. \A d \in Device : heap.ctx[d] # "live"
      <3> SUFFICES ASSUME NEW d \in Device, heap.ctx[d] = "live" PROVE FALSE
        OBVIOUS
      <3>1. heap.use[d] = Cardinality(Users(heap, d)) /\ heap.use[d] > 0
        BY <2>3, UsersFinite DEF IInv, HeapSound, Counted
      <3>2. Users(heap, d) = {}
        BY <2>2 DEF Users
      <3>3. Cardinality(Users(heap, d)) = 0
        BY <3>2, FS_EmptySet
      <3> QED BY <3>1, <3>3
    <2>5. \A d \in Device : dl[d] # "open"
      BY <2>1, <2>4, EmptyList DEF NothingLost, LibrariesPending
    <2> QED BY <2>1, <2>2, <2>4, <2>5
  <1> QED BY <1>1, NothingIsLost, Invariance, PTL
=============================================================================
