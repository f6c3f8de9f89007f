---------------------------- MODULE BindingProofs ----------------------------
(***************************************************************************)
(* The Java binding: with one program thread, channels are allocated       *)
(* exclusively, however many objects, classes and channels there are and   *)
(* whenever the collector finalizes; with any number of them, every list   *)
(* counts its users and the struct is used as often as all lists together  *)
(* count.                                                                  *)
(*                                                                         *)
(* The Simulink binding: whatever opens fail, the struct is used as often  *)
(* as the lists have elements, blocks hold pointers of their own, and a    *)
(* simulation gives back what it took.                                     *)
(*                                                                         *)
(* Both stand on the same counted struct, and so do the proofs.  They are  *)
(* different programs: no theorem is about Spec and SimulinkSpec together. *)
(***************************************************************************)
EXTENDS JavaMoberg, SimulinkMoberg, FoldProofs

HasBit == {"allocated", "garbage"}

ObjectsOK ==
    /\ state \in [Object -> States]
    /\ slot \in [Object -> Slots]
    /\ allocations \subseteq Slots
    /\ maker \in [Object -> Thread \cup {NULL}]

\* Two constructors at once are of two threads.
OneMaker ==
    \A o, p \in Object : state[o] \in Making /\ state[p] \in Making /\ maker[o] = maker[p] => o = p

MakersAreThreads == \A o \in Object : state[o] \in Making => maker[o] \in Thread

\* Between the second test of a constructor and its set, the bit stays clear.
FreeIsClear == \A o \in Object : state[o] = "free" => slot[o] \notin allocations

HeldIsSet == \A o \in Object : state[o] \in HasBit => slot[o] \in allocations

SetIsHeld == \A s \in allocations : \E o \in Object : slot[o] = s /\ state[o] \in HasBit

HeldOnce ==
    \A o, p \in Object : state[o] \in HasBit /\ state[p] \in HasBit /\ slot[o] = slot[p] => o = p

\* BitsAreHolders alone is not inductive: that allocate_set adds no second holder
\* follows from its own earlier test, and that nobody else has set the bit since.
AllocationInv ==
    ObjectsOK /\ OneMaker /\ MakersAreThreads /\ FreeIsClear /\ HeldIsSet /\ SetIsHeld /\ HeldOnce

\* The initial state: nothing is made, no bit is set.
LEMMA AllocationInit == Init => AllocationInv
  BY DEF Init, AllocationInv, ObjectsOK, OneMaker, MakersAreThreads, FreeIsClear, HeldIsSet,
         SetIsHeld, HeldOnce, HasBit, Making, States

\* One program thread makes one object at a time: every step keeps the invariant.
LEMMA AllocationStep ==
    ASSUME NEW t, Thread = {t}, AllocationInv, [Next]_vars
    PROVE  AllocationInv'
<1> USE DEF AllocationInv, ObjectsOK, OneMaker, MakersAreThreads, FreeIsClear, HeldIsSet,
            SetIsHeld, HeldOnce, HasBit, Making, States
<1>1. ASSUME NEW o \in Object, NEW u \in Thread, open(u, o)
      PROVE  AllocationInv'
  <2>1. state[o] = "none" /\ u = t /\ allocations' = allocations /\ slot' = slot
        /\ maker' = [maker EXCEPT ![o] = u] /\ \A p \in Object : state[p] \notin Making
    BY <1>1 DEF open, Idle
  <2>2. state' = [state EXCEPT ![o] = "opened"] \/ state' = [state EXCEPT ![o] = "refused"]
    BY <1>1 DEF open
  <2> QED BY <2>1, <2>2
<1>2. ASSUME NEW o \in Object, allocate_first(o)
      PROVE  AllocationInv'
  BY <1>2 DEF allocate_first, Becomes
<1>3. ASSUME NEW o \in Object, runFinalization(o)
      PROVE  AllocationInv'
  BY <1>3 DEF runFinalization, Becomes
<1>4. ASSUME NEW o \in Object, allocate_second(o)
      PROVE  AllocationInv'
  BY <1>4 DEF allocate_second, Becomes
<1>5. ASSUME NEW o \in Object, allocate_set(o)
      PROVE  AllocationInv'
  BY <1>5 DEF allocate_set, Becomes
<1>6. ASSUME NEW o \in Object, drop(o)
      PROVE  AllocationInv'
  BY <1>6 DEF drop, Becomes
<1>7. ASSUME NEW o \in Object, deallocate_clear(o)
      PROVE  AllocationInv'
  BY <1>7 DEF deallocate_clear, Becomes
<1>8. ASSUME NEW o \in Object, deallocate_close(o)
      PROVE  AllocationInv'
  BY <1>8 DEF deallocate_close, Becomes
<1>9. CASE UNCHANGED vars
  BY <1>9 DEF vars
<1> QED
  BY <1>1, <1>2, <1>3, <1>4, <1>5, <1>6, <1>7, <1>8, <1>9 DEF Next

\* The holders of a slot are none or one, and the bit says which.
LEMMA AllocationSafe == AllocationInv => BitsAreHolders
<1> SUFFICES ASSUME AllocationInv, NEW s \in Slots
             PROVE  Cardinality(Holders(s)) <= 1 /\ (s \in allocations <=> Holders(s) # {})
  BY DEF BitsAreHolders
<1>1. s \in allocations <=> Holders(s) # {}
  BY DEF AllocationInv, HeldIsSet, SetIsHeld, Holders, HasBit
<1>2. CASE Holders(s) = {}
  BY <1>1, <1>2, FS_EmptySet
<1>3. CASE Holders(s) # {}
  <2>1. PICK o \in Holders(s) : TRUE
    BY <1>3
  <2>2. Holders(s) = {o}
    BY <2>1 DEF AllocationInv, HeldOnce, Holders, HasBit
  <2> QED BY <1>1, <2>2, FS_Singleton
<1> QED BY <1>2, <1>3

\* BitsAreHolders of the run, for any number of objects, classes and channels:
\* a bit of IOChannel.allocations is set exactly while one object of its class
\* holds the channel.
THEOREM AllocationCorrect ==
    ASSUME NEW t, Thread = {t}
    PROVE  Spec => []BitsAreHolders
<1>1. AllocationInv /\ [Next]_vars => AllocationInv'
  BY AllocationStep
<1> QED
  BY <1>1, AllocationInit, AllocationSafe, PTL DEF Spec

-----------------------------------------------------------------------------
(* The refinement of Allocation *)

\* Under the invariant the holder is the only object there is to choose.
LEMMA HolderIsHolder ==
    ASSUME AllocationInv, NEW s \in Slots, NEW o \in Holders(s)
    PROVE  Holder(s) = o
<1>1. Holders(s) = {o}
  BY DEF AllocationInv, HeldOnce, Holders, HasBit
<1> QED BY <1>1 DEF Holder

\* Who holds a slot depends on its holders only.
LEMMA SameHolders ==
    ASSUME NEW s, Holders(s)' = Holders(s)
    PROVE  Holder(s)' = Holder(s)
BY DEF Holder

\* A function that differs from another one at s only.
LEMMA ChangedAt ==
    ASSUME NEW S, NEW h, NEW k, NEW s \in S, NEW x,
           h = [r \in S |-> h[r]], k = [r \in S |-> k[r]],
           k[s] = x, \A r \in S \ {s} : k[r] = h[r]
    PROVE  k = [h EXCEPT ![s] = x]
OBVIOUS

\* The set of a bit gives the slot to the object in its constructor.
LEMMA SetAllocates ==
    ASSUME AllocationInv, AllocationInv', NEW o \in Object, allocate_set(o)
    PROVE  Promise!Next
<1>0. PICK s : s = slot[o]
  OBVIOUS
<1>1. /\ s \in Slots /\ o # NULL
      /\ state[o] = "free" /\ s \notin allocations
      /\ slot' = slot /\ state' = [state EXCEPT ![o] = "allocated"]
  BY <1>0, ObjectAssumption DEF allocate_set, Becomes, AllocationInv, ObjectsOK, FreeIsClear
<1>2. Holders(s) = {} /\ o \in Holders(s)'
  BY <1>0, <1>1 DEF AllocationInv, ObjectsOK, HeldIsSet, HasBit, Holders
<1>3. Holder(s) = NULL /\ Holder(s)' = o
  <2>1. Holders(s)' = {o}
    BY <1>0, <1>1, <1>2 DEF AllocationInv, ObjectsOK, HeldOnce, HasBit, Holders
  <2> QED BY <1>2, <2>1 DEF Holder
<1>4. \A r \in Slots \ {s} : Holder(r)' = Holder(r)
  <2> TAKE r \in Slots \ {s}
  <2>1. Holders(r)' = Holders(r)
    BY <1>0, <1>1 DEF AllocationInv, ObjectsOK, Holders
  <2> QED BY <2>1, SameHolders
<1>5. \A r \in Slots : Holder(r) # o
  <2> TAKE r \in Slots
  <2>1. CASE Holders(r) = {}
    BY <1>0, <1>1, <2>1 DEF Holder
  <2>2. CASE Holders(r) # {}
    <3>1. Holder(r) \in Holders(r)
      BY <2>2 DEF Holder
    <3> QED BY <1>0, <1>1, <3>1 DEF Holders
  <2> QED BY <2>1, <2>2
<1>6. Promise!Allocate(o, s)
  <2>1. PICK h : h = [r \in Slots |-> Holder(r)]
    OBVIOUS
  <2>2. PICK k : k = [r \in Slots |-> Holder(r)']
    OBVIOUS
  <2>3. k = [h EXCEPT ![s] = o]
    <3>1. k[s] = o /\ \A r \in Slots \ {s} : k[r] = h[r]
      BY <1>0, <1>1, <1>3, <1>4, <2>1, <2>2
    <3> QED BY <1>0, <1>1, <2>1, <2>2, <3>1, ChangedAt
  <2>4. h[s] = NULL /\ \A r \in Slots : h[r] # o
    BY <1>0, <1>1, <1>3, <1>5, <2>1
  <2> QED BY <2>1, <2>2, <2>3, <2>4 DEF Promise!Allocate
<1> QED
  BY <1>0, <1>1, <1>6 DEF Promise!Next

\* finalize clears the bit of the object that holds the slot, or nothing.
LEMMA ClearDeallocates ==
    ASSUME AllocationInv, NEW o \in Object, deallocate_clear(o)
    PROVE  Promise!Next \/ \A r \in Slots : Holder(r)' = Holder(r)
<1>0. PICK s : s = slot[o]
  OBVIOUS
<1>1. /\ s \in Slots /\ o # NULL /\ slot' = slot
      /\ \/ state[o] = "garbage" /\ state' = [state EXCEPT ![o] = "cleared"]
         \/ state[o] = "refused" /\ state' = [state EXCEPT ![o] = "gone"]
  BY <1>0, ObjectAssumption DEF deallocate_clear, Becomes, AllocationInv, ObjectsOK
<1>2. ASSUME state[o] = "refused", NEW r \in Slots
      PROVE  Holder(r)' = Holder(r)
  <2>1. Holders(r)' = Holders(r)
    BY <1>0, <1>1, <1>2 DEF AllocationInv, ObjectsOK, Holders
  <2> QED BY <2>1, SameHolders
<1>3. CASE state[o] = "garbage"
  <2>1. Holder(s) = o
    BY <1>0, <1>1, <1>3, HolderIsHolder DEF Holders
  <2>2. Holder(s)' = NULL
    <3>1. Holders(s)' = {}
      BY <1>0, <1>1, <1>3 DEF AllocationInv, ObjectsOK, HeldOnce, HasBit, Holders
    <3> QED BY <3>1 DEF Holder
  <2>3. \A r \in Slots \ {s} : Holder(r)' = Holder(r)
    <3> TAKE r \in Slots \ {s}
    <3>1. Holders(r)' = Holders(r)
      BY <1>0, <1>1, <1>3 DEF AllocationInv, ObjectsOK, Holders
    <3> QED BY <3>1, SameHolders
  <2>4. Promise!Deallocate(s)
    <3>1. PICK h : h = [r \in Slots |-> Holder(r)]
      OBVIOUS
    <3>2. PICK k : k = [r \in Slots |-> Holder(r)']
      OBVIOUS
    <3>3. k = [h EXCEPT ![s] = NULL]
      <4>1. k[s] = NULL /\ \A r \in Slots \ {s} : k[r] = h[r]
        BY <1>0, <1>1, <2>2, <2>3, <3>1, <3>2
      <4> QED BY <1>0, <1>1, <3>1, <3>2, <4>1, ChangedAt
    <3>4. h[s] # NULL
      BY <1>0, <1>1, <2>1, <3>1
    <3> QED BY <3>1, <3>2, <3>3, <3>4 DEF Promise!Deallocate
  <2> QED BY <1>0, <1>1, <2>4 DEF Promise!Next
<1> QED BY <1>0, <1>1, <1>2, <1>3

\* No other step moves an object into or out of HasBit.
LEMMA HoldersStay ==
    ASSUME AllocationInv, [Next]_vars,
           \A o \in Object : ~allocate_set(o) /\ ~deallocate_clear(o)
    PROVE  \A r \in Slots : Holder(r)' = Holder(r)
<1> TAKE r \in Slots
<1>1. CASE UNCHANGED vars
  BY <1>1, SameHolders DEF vars, Holders
<1>2. CASE Next
  <2>1. PICK o \in Object : \/ \E u \in Thread : open(u, o)
                            \/ allocate_first(o) \/ runFinalization(o) \/ allocate_second(o)
                            \/ drop(o) \/ deallocate_close(o)
    BY <1>2 DEF Next
  <2>2. slot' = slot /\ state' = [state EXCEPT ![o] = state'[o]]
    BY <2>1 DEF open, allocate_first, runFinalization, allocate_second, drop, deallocate_close,
                Becomes, AllocationInv, ObjectsOK
  <2>3. state[o] \in HasBit <=> state'[o] \in HasBit
    BY <2>1 DEF open, allocate_first, runFinalization, allocate_second, drop, deallocate_close,
                Becomes, AllocationInv, ObjectsOK, HasBit
  <2>4. Holders(r)' = Holders(r)
    BY <2>2, <2>3 DEF AllocationInv, ObjectsOK, Holders, HasBit
  <2> QED BY <2>4, SameHolders
<1> QED BY <1>1, <1>2

\* AllocationPromise of the run: IOChannel with one program thread implements
\* exclusive allocation, step by step.
THEOREM AllocationRefined ==
    ASSUME NEW t, Thread = {t}
    PROVE  Spec => AllocationPromise
<1>1. Init => Promise!Init
  BY DEF Init, Promise!Init, Holder, Holders
<1>2. AllocationInv /\ [Next]_vars => AllocationInv'
  BY AllocationStep
<1>3. AllocationInv /\ AllocationInv' /\ [Next]_vars
      => [Promise!Next]_[s \in Slots |-> Holder(s)]
  BY SetAllocates, ClearDeallocates, HoldersStay
<1> QED
  BY <1>1, <1>2, <1>3, AllocationInit, PTL DEF Spec, AllocationPromise, Promise!Spec

-----------------------------------------------------------------------------
(* Counting the opens *)

\* Only finitely many objects have a channel open, however many there may be.
CountInv ==
    /\ ObjectsOK
    /\ count \in [Channel -> Nat] /\ unrecorded \in [Channel -> Nat]
    /\ \A c \in Channel : IsFiniteSet(Users(c))
    /\ CountsAreUsers

\* At first no object has a channel.
LEMMA CountInit == Init => CountInv
<1> SUFFICES ASSUME Init PROVE CountInv
  OBVIOUS
<1>1. \A c \in Channel : Users(c) = {}
  BY DEF Init, Users, Making
<1>2. \A c \in Channel : IsFiniteSet(Users(c)) /\ Cardinality(Users(c)) = 0
  BY <1>1, FS_EmptySet
<1> QED
  BY <1>2 DEF Init, CountInv, ObjectsOK, CountsAreUsers, States

\* A constructor opens the channel of its object, and the list may count it.
LEMMA CountOpen ==
    ASSUME CountInv, NEW t \in Thread, NEW o \in Object, open(t, o)
    PROVE  CountInv'
<1> SUFFICES ASSUME NEW b, b = slot[o][2] PROVE CountInv'
  OBVIOUS
<1>1. /\ ~crashed /\ state[o] = "none" /\ slot' = slot /\ allocations' = allocations
      /\ maker' = [maker EXCEPT ![o] = t]
  BY DEF open
<1>2. b \in Channel
  BY DEF CountInv, ObjectsOK, Slots
<1>3. ObjectsOK'
  BY <1>1 DEF open, CountInv, ObjectsOK, States, Making
<1>4. CASE state' = [state EXCEPT ![o] = "opened"]
           /\ (channel_up(b) \/ open_recorded(b) \/ open_unrecorded(b))
  <2>1. /\ Users(b)' = Users(b) \cup {o} /\ o \notin Users(b)
        /\ \A c \in Channel \ {b} : Users(c)' = Users(c)
    BY <1>1, <1>4 DEF Users, ChannelOf, Making, CountInv, ObjectsOK, States
  <2>2. /\ IsFiniteSet(Users(b)')
        /\ Cardinality(Users(b)') = Cardinality(Users(b)) + 1
    BY <1>2, <2>1, FS_AddElement DEF CountInv
  <2>3. \/ count' = [count EXCEPT ![b] = count[b] + 1] /\ unrecorded' = unrecorded
        \/ count' = count /\ unrecorded' = [unrecorded EXCEPT ![b] = unrecorded[b] + 1]
    BY <1>2, <1>4 DEF channel_up, open_recorded, open_unrecorded, CountInv
  <2>4. /\ count' \in [Channel -> Nat] /\ unrecorded' \in [Channel -> Nat]
        /\ \A c \in Channel \ {b} : count'[c] = count[c] /\ unrecorded'[c] = unrecorded[c]
        /\ unrecorded'[b] = 0 => unrecorded[b] = 0 /\ count'[b] = count[b] + 1
    BY <1>2, <2>3 DEF CountInv
  <2>5. \A c \in Channel : IsFiniteSet(Users(c)')
    BY <2>1, <2>2 DEF CountInv
  <2>6. CountsAreUsers'
    <3>1. \A c \in Channel : unrecorded[c] = 0 => count[c] = Cardinality(Users(c))
      BY <1>1 DEF CountInv, CountsAreUsers
    <3>2. unrecorded'[b] = 0 => count'[b] = Cardinality(Users(b)')
      BY <1>2, <2>2, <2>4, <3>1
    <3>3. \A c \in Channel \ {b} : unrecorded'[c] = 0 => count'[c] = Cardinality(Users(c)')
      BY <2>1, <2>4, <3>1
    <3> QED BY <3>2, <3>3 DEF CountsAreUsers
  <2> QED
    BY <1>3, <2>4, <2>5, <2>6 DEF CountInv
<1>5. CASE state' = [state EXCEPT ![o] = "refused"] /\ open_refused(b)
  <2>1. \A c \in Channel : Users(c)' = Users(c)
    BY <1>1, <1>5 DEF Users, ChannelOf, Making, CountInv, ObjectsOK
  <2> QED
    BY <1>1, <1>3, <1>5, <2>1 DEF open_refused, CountInv, CountsAreUsers
<1> QED
  BY <1>4, <1>5 DEF open, ChannelOf

\* A close is of an object that had the channel open: the list counts it, unless
\* the count is not exact any more.
LEMMA CountClose ==
    ASSUME CountInv, NEW o \in Object, ~crashed, nativeClose(ChannelOf(o)), ObjectsOK',
           slot' = slot, state[o] \in {"tested", "cleared"},
           NEW st \in {"refused", "gone"}, state' = [state EXCEPT ![o] = st]
    PROVE  CountInv'
<1> SUFFICES ASSUME NEW b, b = slot[o][2] PROVE CountInv'
  OBVIOUS
<1>1. b \in Channel
  BY DEF CountInv, ObjectsOK, Slots
<1>2. /\ Users(b)' = Users(b) \ {o} /\ o \in Users(b)
      /\ \A c \in Channel \ {b} : Users(c)' = Users(c)
  BY DEF Users, ChannelOf, Making, CountInv, ObjectsOK, States
<1>3. /\ IsFiniteSet(Users(b)') /\ Cardinality(Users(b)) \in Nat
      /\ Cardinality(Users(b)') = Cardinality(Users(b)) - 1 /\ Cardinality(Users(b)) # 0
  <2>1. IsFiniteSet(Users(b)) /\ Users(b) # {}
    BY <1>1, <1>2 DEF CountInv
  <2>2. Cardinality(Users(b)) \in Nat /\ Cardinality(Users(b)) # 0
    BY <2>1, FS_EmptySet, FS_CardinalityType
  <2>3. IsFiniteSet(Users(b)') /\ Cardinality(Users(b)') = Cardinality(Users(b)) - 1
    BY <1>2, <2>1, FS_RemoveElement
  <2> QED BY <2>2, <2>3
<1>4. /\ unrecorded' = unrecorded
      /\ count' = IF count[b] = 0 THEN count ELSE [count EXCEPT ![b] = count[b] - 1]
  BY DEF nativeClose, native, ChannelOf
<1>5. /\ count' \in [Channel -> Nat]
      /\ \A c \in Channel \ {b} : count'[c] = count[c]
      /\ count[b] # 0 => count'[b] = count[b] - 1
  BY <1>1, <1>4 DEF CountInv
<1>6. \A c \in Channel : IsFiniteSet(Users(c)')
  BY <1>2, <1>3 DEF CountInv
<1>7. CountsAreUsers'
  BY <1>1, <1>2, <1>3, <1>4, <1>5 DEF CountInv, CountsAreUsers
<1> QED
  BY <1>4, <1>5, <1>6, <1>7 DEF CountInv

\* The other steps neither open nor close.
LEMMA CountFrame ==
    ASSUME CountInv, NEW o \in Object, UNCHANGED native, ObjectsOK', slot' = slot,
           NEW st, state' = [state EXCEPT ![o] = st],
           state[o] \in Making \cup {"allocated", "garbage", "cleared"}
              <=> st \in Making \cup {"allocated", "garbage", "cleared"}
    PROVE  CountInv'
<1>1. \A c \in Channel : Users(c)' = Users(c)
  BY DEF Users, ChannelOf, CountInv, ObjectsOK
<1> QED
  BY <1>1 DEF native, CountInv, CountsAreUsers

\* Every step keeps the counts, whatever the threads and the collector do.
LEMMA CountStep == CountInv /\ [Next]_vars => CountInv'
<1> SUFFICES ASSUME CountInv, [Next]_vars PROVE CountInv'
  OBVIOUS
<1>0. ASSUME NEW o \in Object, NEW st \in States, Becomes(o, st),
             allocations' = allocations \/ allocations' = allocations \cup {slot[o]}
                \/ allocations' = allocations \ {slot[o]}
      PROVE  ObjectsOK' /\ slot' = slot /\ state' = [state EXCEPT ![o] = st]
  BY <1>0 DEF Becomes, CountInv, ObjectsOK
<1> USE DEF States, Making
<1>1. ASSUME NEW o \in Object, NEW t \in Thread, open(t, o) PROVE CountInv'
  BY <1>1, CountOpen
<1>2. ASSUME NEW o \in Object, allocate_first(o) PROVE CountInv'
  <2>1. PICK st \in {"collecting", "tested"} : Becomes(o, st)
    BY <1>2 DEF allocate_first
  <2> QED BY <1>0, <1>2, <2>1, CountFrame DEF allocate_first
<1>3. ASSUME NEW o \in Object, runFinalization(o) PROVE CountInv'
  BY <1>0, <1>3, CountFrame DEF runFinalization
<1>4. ASSUME NEW o \in Object, allocate_second(o) PROVE CountInv'
  <2>1. CASE nativeClose(ChannelOf(o)) /\ Becomes(o, "refused")
    BY <1>0, <1>4, <2>1, CountClose DEF allocate_second
  <2>2. CASE UNCHANGED native /\ Becomes(o, "free")
    BY <1>0, <1>4, <2>2, CountFrame DEF allocate_second
  <2> QED BY <1>4, <2>1, <2>2 DEF allocate_second
<1>5. ASSUME NEW o \in Object, allocate_set(o) PROVE CountInv'
  BY <1>0, <1>5, CountFrame DEF allocate_set
<1>6. ASSUME NEW o \in Object, drop(o) PROVE CountInv'
  BY <1>0, <1>6, CountFrame DEF drop
<1>7. ASSUME NEW o \in Object, deallocate_clear(o) PROVE CountInv'
  <2>1. CASE state[o] = "garbage"
    BY <1>0, <1>7, <2>1, CountFrame DEF deallocate_clear
  <2>2. CASE state[o] = "refused"
    BY <1>0, <1>7, <2>2, CountFrame DEF deallocate_clear
  <2> QED BY <1>7, <2>1, <2>2 DEF deallocate_clear
<1>8. ASSUME NEW o \in Object, deallocate_close(o) PROVE CountInv'
  BY <1>0, <1>8, CountClose DEF deallocate_close
<1>9. CASE UNCHANGED vars
  <2>1. \A c \in Channel : Users(c)' = Users(c)
    BY <1>9 DEF vars, Users, ChannelOf
  <2> QED BY <1>9, <2>1 DEF vars, CountInv, ObjectsOK, CountsAreUsers
<1> QED
  BY <1>1, <1>2, <1>3, <1>4, <1>5, <1>6, <1>7, <1>8, <1>9 DEF Next

\* CountsAreUsers of the run, for any number of objects, classes, channels and
\* program threads: the count in the list of a channel is the number of objects
\* that have it open, unless an open of it could not be recorded.
THEOREM CountsCorrect == Spec => []CountsAreUsers
<1>1. CountInv => CountsAreUsers
  BY DEF CountInv
<1> QED
  BY <1>1, CountInit, CountStep, PTL DEF Spec

-----------------------------------------------------------------------------
(* The struct behind the counts *)

\* h has n uses: there is one struct, with the opens o, unless n is 0.
Serves(h, n, o) ==
    /\ h \in Global /\ n \in Nat /\ h.count = n
    /\ o \in [Channel -> Int]
    /\ n = 0 => Alive(h.structs) = {} /\ \A c \in Channel : o[c] = 0
    /\ n > 0 => /\ h.moberg \in Struct /\ Alive(h.structs) = {h.moberg}
                /\ h.structs[h.moberg].opens = o /\ ~h.structs[h.moberg].should_free

\* The address of the next struct.
LEMMA NewStruct ==
    ASSUME NEW S \in SUBSET Struct, S # Struct
    PROVE  Min(Struct \ S) \in Struct \ S
<1>1. Struct \ S # {} /\ Struct \ S \in SUBSET Nat
  BY StructAssumption
<1> QED BY <1>1, LeastPicks

\* The global with other fields.
GlobalIs(f, i, p, q) == f \in Global /\ f.count = i /\ f.moberg = p /\ f.structs = q

LEMMA GlobalFields ==
    ASSUME NEW h \in Global, NEW i \in Nat, NEW p \in Struct \cup {NULL},
           NEW q \in [Struct -> Moberg],
           NEW f, f = [h EXCEPT !.count = i, !.moberg = p, !.structs = q]
    PROVE  GlobalIs(f, i, p, q)
<1> DEFINE f1 == [h EXCEPT !.count = i]
           f2 == [f1 EXCEPT !.moberg = p]
           f3 == [f2 EXCEPT !.structs = q]
<1>1. f1 \in Global /\ f1.count = i
  BY DEF Global
<1>2. f = f3
  OBVIOUS
<1> HIDE DEF f1
<1>3. f2 \in Global /\ f2.count = i /\ f2.moberg = p
  BY <1>1 DEF Global
<1> HIDE DEF f2
<1>4. f3 \in Global /\ f3.count = i /\ f3.moberg = p /\ f3.structs = q
  BY <1>3 DEF Global
<1> HIDE DEF f3
<1> QED BY <1>2, <1>4 DEF GlobalIs

LEMMA UpServes ==
    ASSUME NEW h, NEW n, NEW o, Serves(h, n, o), Struct # {}
    PROVE  Serves(up(h), n + 1, o)
<1>1. /\ h \in Global /\ n \in Nat /\ h.count = n /\ o \in [Channel -> Int]
      /\ h.structs \in [Struct -> Moberg]
  BY DEF Serves, Global
<1>2. CASE n = 0
  <2> DEFINE s == Min(Struct \ Alive(h.structs))
             m == [NoMoberg EXCEPT !.alive = TRUE]
             new == [h.structs EXCEPT ![s] = m]
  <2>1. s \in Struct /\ s \notin Alive(h.structs) /\ Alive(h.structs) = {}
    BY <1>2, NewStruct DEF Serves
  <2>2. up(h) = [h EXCEPT !.count = h.count + 1, !.moberg = s, !.structs = new]
    BY <1>1, <1>2 DEF up, moberg_new
  <2> HIDE DEF s
  <2>3. m \in Moberg /\ m.alive /\ ~m.should_free /\ m.opens = o
    BY <1>1, <1>2 DEF NoMoberg, Moberg, Serves
  <2> HIDE DEF m
  <2>4. new \in [Struct -> Moberg] /\ new[s] = m /\ Alive(new) = {s}
    BY <1>1, <2>1, <2>3 DEF Alive
  <2> HIDE DEF new
  <2>5. up(h) \in Global /\ up(h).count = n + 1 /\ up(h).moberg = s /\ up(h).structs = new
    <3>1. h.count + 1 = n + 1 /\ h.count + 1 \in Nat
      BY <1>1
    <3>3. s \in Struct \cup {NULL} /\ new \in [Struct -> Moberg]
      BY <2>1, <2>4
    <3>4. GlobalIs(up(h), h.count + 1, s, new)
      <4> HIDE DEF Global
      <4> QED BY <1>1, <2>2, <3>1, <3>3, GlobalFields
    <3> QED BY <3>1, <3>4 DEF GlobalIs
  <2> QED BY <1>1, <1>2, <2>1, <2>3, <2>4, <2>5 DEF Serves
<1>3. CASE n > 0
  <2>1. up(h) = [h EXCEPT !.count = h.count + 1]
    BY <1>1, <1>3 DEF up
  <2>2. /\ up(h) \in Global /\ up(h).count = n + 1
        /\ up(h).moberg = h.moberg /\ up(h).structs = h.structs
    BY <1>1, <2>1 DEF Global
  <2> QED BY <1>1, <1>3, <2>2 DEF Serves
<1> QED BY <1>1, <1>2, <1>3

\* A use that is not the last one leaves the struct alone.
LEMMA DownServes ==
    ASSUME NEW h, NEW n, NEW o, Serves(h, n, o), n > 1
    PROVE  Serves(down(h), n - 1, o) /\ down(h).moberg # NULL
<1>1. h \in Global /\ n \in Nat /\ h.count = n
  BY DEF Serves
<1>2. down(h) = [h EXCEPT !.count = h.count - 1]
  BY <1>1 DEF down
<1>3. /\ down(h) \in Global /\ down(h).count = n - 1
      /\ down(h).moberg = h.moberg /\ down(h).structs = h.structs
  BY <1>1, <1>2 DEF Global
<1> QED BY <1>1, <1>3, StructAssumption DEF Serves

\* The last one asks it to go, and it goes unless a channel is open.
LEMMA LastDownServes ==
    ASSUME NEW h, NEW o, Serves(h, 1, o)
    PROVE  /\ down(h).count = 0 /\ down(h).moberg = NULL /\ down(h) \in Global
           /\ (\A c \in Channel : o[c] = 0) => Serves(down(h), 0, o)
<1> DEFINE s == h.moberg
           m == [h.structs[s] EXCEPT !.should_free = TRUE]
           l == free_if_unused(m)
           left == [h.structs EXCEPT ![s] = l]
<1>1. /\ h \in Global /\ h.count = 1 /\ s \in Struct /\ s # NULL /\ Alive(h.structs) = {s}
      /\ h.structs \in [Struct -> Moberg] /\ h.structs[s].opens = o
      /\ o \in [Channel -> Int]
  BY StructAssumption DEF Serves, Global
<1>2. down(h) = [h EXCEPT !.count = h.count - 1, !.moberg = NULL,
                          !.structs = moberg_free(h.structs, h.moberg)]
  BY <1>1 DEF down
<1>3. moberg_free(h.structs, s) = left
  BY <1>1 DEF moberg_free
<1>4. m \in Moberg /\ m.should_free /\ m.opens = o
  BY <1>1 DEF Moberg
<1>5. NoMoberg \in Moberg /\ ~NoMoberg.alive
  BY DEF NoMoberg, Moberg
<1> HIDE DEF m
<1>6. l \in Moberg
  BY <1>4, <1>5 DEF free_if_unused
<1>7. (\A c \in Channel : o[c] = 0) => ~l.alive
  <2>1. ASSUME \A c \in Channel : o[c] = 0
        PROVE  SumFunction(o) = 0
    <3>1. o \in [Channel -> Nat]
      BY <1>1, <2>1
    <3> QED BY <2>1, <3>1, SumOfNaturals, BindingChannelAssumption
  <2> QED BY <1>4, <1>5, <2>1 DEF free_if_unused
<1> HIDE DEF l
<1>8. left \in [Struct -> Moberg] /\ (~l.alive => Alive(left) = {})
  BY <1>1, <1>6 DEF Alive
<1> HIDE DEF left, s
<1>9. down(h) \in Global /\ down(h).count = 0 /\ down(h).moberg = NULL /\ down(h).structs = left
  <2>1. down(h) = [h EXCEPT !.count = h.count - 1, !.moberg = NULL, !.structs = left]
    BY <1>2, <1>3 DEF s
  <2>2. h.count - 1 = 0 /\ h.count - 1 \in Nat
    BY <1>1
  <2>4. NULL \in Struct \cup {NULL}
    OBVIOUS
  <2>5. GlobalIs(down(h), h.count - 1, NULL, left)
    BY <1>1, <1>8, <2>1, <2>2, <2>4, GlobalFields
  <2> QED BY <2>2, <2>5 DEF GlobalIs
<1> QED BY <1>1, <1>7, <1>8, <1>9 DEF Serves

\* A use that is taken and given back.
LEMMA UpDownServes ==
    ASSUME NEW h, NEW n, NEW o, Serves(h, n, o), Struct # {}
    PROVE  Serves(down(up(h)), n, o)
<1>1. Serves(up(h), n + 1, o) /\ n \in Nat
  BY UpServes DEF Serves
<1>2. CASE n = 0
  <2>1. Serves(up(h), 1, o) /\ \A c \in Channel : o[c] = 0
    BY <1>1, <1>2 DEF Serves
  <2> QED BY <1>2, <2>1, LastDownServes
<1>3. CASE n # 0
  <2>1. n + 1 > 1 /\ (n + 1) - 1 = n
    BY <1>1, <1>3
  <2>2. Serves(down(up(h)), (n + 1) - 1, o)
    BY <1>1, <2>1, DownServes
  <2> QED BY <2>1, <2>2
<1> QED BY <1>2, <1>3

\* An open or a close changes the opens of its channel by n.
LEMMA CallServes ==
    ASSUME NEW h, NEW k, NEW o, Serves(h, k, o), k > 0, NEW c \in Channel
    PROVE  /\ Serves(opened(h, c), k, [o EXCEPT ![c] = o[c] + 1])
           /\ Serves(closed(h, c), k, [o EXCEPT ![c] = o[c] - 1])
<1> DEFINE s == h.moberg
<1>1. /\ h \in Global /\ h.count = k /\ s \in Struct /\ Alive(h.structs) = {s} /\ k \in Nat
      /\ h.structs \in [Struct -> Moberg] /\ h.structs[s] \in Moberg
      /\ h.structs[s].opens = o /\ ~h.structs[s].should_free /\ h.structs[s].alive
      /\ o \in [Channel -> Int]
  BY DEF Serves, Global, Alive
<1>2. ASSUME NEW t \in [Channel -> Int], NEW m, NEW new, NEW f,
             m = [h.structs[s] EXCEPT !.opens = t],
             new = [h.structs EXCEPT ![s] = m],
             f = [h EXCEPT !.structs = new]
      PROVE  Serves(f, k, t)
  <2>1. m \in Moberg /\ m.alive /\ ~m.should_free /\ m.opens = t
    BY <1>1, <1>2 DEF Moberg
  <2>2. new \in [Struct -> Moberg] /\ new[s] = m /\ Alive(new) = {s}
    BY <1>1, <1>2, <2>1 DEF Alive
  <2>3. f \in Global /\ f.count = k /\ f.moberg = s /\ f.structs = new
    BY <1>1, <1>2, <2>2 DEF Global
  <2> QED BY <1>1, <2>1, <2>2, <2>3 DEF Serves
<1> QED
  <2>1. Serves(opened(h, c), k, [o EXCEPT ![c] = o[c] + 1])
    <3> DEFINE t == [o EXCEPT ![c] = o[c] + 1]
               m == [h.structs[s] EXCEPT !.opens = t]
               new == [h.structs EXCEPT ![s] = m]
    <3>1. moberg_open(h.structs, s, c) = new
      BY <1>1 DEF moberg_open, Moberg
    <3>2. opened(h, c) = [h EXCEPT !.structs = moberg_open(h.structs, h.moberg, c)]
      BY DEF opened
    <3>3. t \in [Channel -> Int]
      BY <1>1
    <3>4. opened(h, c) = [h EXCEPT !.structs = new]
      BY <3>1, <3>2
    <3> HIDE DEF t
    <3>5. Serves(opened(h, c), k, t)
      BY <1>2, <3>3, <3>4
    <3> QED BY <3>5 DEF t
  <2>2. Serves(closed(h, c), k, [o EXCEPT ![c] = o[c] - 1])
    <3> DEFINE t == [o EXCEPT ![c] = o[c] - 1]
               m == [h.structs[s] EXCEPT !.opens = t]
               new == [h.structs EXCEPT ![s] = m]
    <3>1. moberg_close(h.structs, s, c) = new
      BY <1>1 DEF moberg_close, free_if_unused, Moberg
    <3>2. closed(h, c) = [h EXCEPT !.structs = moberg_close(h.structs, h.moberg, c)]
      BY DEF closed
    <3>3. t \in [Channel -> Int]
      BY <1>1
    <3>4. closed(h, c) = [h EXCEPT !.structs = new]
      BY <3>1, <3>2
    <3> HIDE DEF t
    <3>5. Serves(closed(h, c), k, t)
      BY <1>2, <3>3, <3>4
    <3> QED BY <3>5 DEF t
  <2> QED BY <2>1, <2>2

\* What is open through the struct.
Opens(n, more) == [c \in Channel |-> (IF n[c] > 0 THEN 1 ELSE 0) + more[c]]

StructInv ==
    /\ CountInv
    /\ g \in Global /\ g.count = SumFunction(count) + SumFunction(unrecorded)
    /\ ~crashed => Serves(g, g.count, Opens(count, unrecorded))
    /\ crashed => g.moberg = NULL /\ \A c \in Channel : Users(c) = {}

\* Both sums are natural numbers, as are their terms.
LEMMA CountSums ==
    ASSUME NEW n \in [Channel -> Nat]
    PROVE  /\ SumFunction(n) \in Nat
           /\ \A c \in Channel : n[c] <= SumFunction(n)
           /\ (\A c \in Channel : n[c] = 0) => SumFunction(n) = 0
           /\ SumFunction(n) = 0 => \A c \in Channel : n[c] = 0
<1>1. /\ SumFunction(n) \in Nat
      /\ \A c \in Channel : n[c] <= SumFunction(n)
      /\ (\A c \in Channel : n[c] = 0) => SumFunction(n) = 0
  BY BindingChannelAssumption, SumOfNaturals
<1>2. ASSUME SumFunction(n) = 0, NEW c \in Channel PROVE n[c] = 0
  <2>1. n[c] <= 0 /\ n[c] \in Nat
    BY <1>1, <1>2
  <2> QED BY <2>1
<1> QED BY <1>1, <1>2

\* One term changes by k, and the sum with it.
OneChanged(n, b, k, now) == now = [n EXCEPT ![b] = n[b] + k] /\ n[b] + k \in Nat

LEMMA CountSumChange ==
    ASSUME NEW n \in [Channel -> Nat], NEW b \in Channel, NEW k \in Int,
           NEW now, OneChanged(n, b, k, now)
    PROVE  SumFunction(now) = SumFunction(n) + k
<1>1. ASSUME NEW f \in [Channel -> Int], NEW h \in [Channel -> Int],
             h[b] = f[b] + k, \A c \in Channel : c # b => h[c] = f[c]
      PROVE  SumFunction(h) = SumFunction(f) + k
  BY <1>1, BindingChannelAssumption, SumChange
<1>2. n \in [Channel -> Int] /\ now \in [Channel -> Int]
  BY DEF OneChanged
<1>3. now[b] = n[b] + k /\ \A c \in Channel : c # b => now[c] = n[c]
  BY DEF OneChanged
<1> QED BY <1>1, <1>2, <1>3

\* At first there is no struct and nothing is counted.
LEMMA StructInit == Init => StructInv
<1> SUFFICES ASSUME Init PROVE StructInv
  OBVIOUS
<1>1. /\ g = EmptyGlobal /\ ~crashed
      /\ count \in [Channel -> Nat] /\ unrecorded \in [Channel -> Nat]
      /\ \A c \in Channel : count[c] = 0 /\ unrecorded[c] = 0
  BY DEF Init
<1>2. /\ g \in Global /\ g.count = 0 /\ Alive(g.structs) = {}
  BY <1>1 DEF EmptyGlobal, Global, NoMoberg, Moberg, Alive
<1>3. SumFunction(count) = 0 /\ SumFunction(unrecorded) = 0
  BY <1>1, CountSums
<1>4. /\ Opens(count, unrecorded) \in [Channel -> Int]
      /\ \A c \in Channel : Opens(count, unrecorded)[c] = 0
  BY <1>1 DEF Opens
<1>5. Serves(g, g.count, Opens(count, unrecorded))
  BY <1>2, <1>4 DEF Serves
<1> QED BY <1>1, <1>2, <1>3, <1>5, CountInit DEF StructInv

\* A constructor makes or shares the struct and opens the channel, unless it is
\* refused.
LEMMA StructOpen ==
    ASSUME Struct # {}, StructInv, CountInv', NEW t \in Thread, NEW o \in Object, open(t, o)
    PROVE  StructInv'
<1> SUFFICES ASSUME NEW b, b = slot[o][2] PROVE StructInv'
  OBVIOUS
<1> DEFINE n == g.count
           z == Opens(count, unrecorded)
<1>1. /\ ~crashed /\ b \in Channel /\ crashed' = crashed
      /\ channel_up(b) \/ open_recorded(b) \/ open_unrecorded(b) \/ open_refused(b)
  BY DEF open, ChannelOf, channel_up, open_recorded, open_unrecorded, open_refused,
         StructInv, CountInv, ObjectsOK, Slots
<1>2. /\ Serves(g, n, z) /\ n = SumFunction(count) + SumFunction(unrecorded) /\ n \in Nat
      /\ count \in [Channel -> Nat] /\ unrecorded \in [Channel -> Nat]
  BY <1>1 DEF StructInv, CountInv, Serves
<1>3. z \in [Channel -> Int] /\ z[b] = (IF count[b] > 0 THEN 1 ELSE 0) + unrecorded[b]
  BY <1>1, <1>2 DEF Opens
<1>4. SumFunction(count) \in Nat /\ SumFunction(unrecorded) \in Nat
  BY <1>2, CountSums
<1>5. Serves(up(g), n + 1, z)
  BY <1>2, UpServes
<1>0. n + 1 > 0
  BY <1>2
<1>6. SUFFICES /\ g'.count = SumFunction(count') + SumFunction(unrecorded')
               /\ Serves(g', g'.count, Opens(count', unrecorded'))
  BY <1>1, <1>6 DEF StructInv, Serves
<1>7. CASE channel_up(b)
  <2>1. count[b] > 0 /\ g' = up(g) /\ unrecorded' = unrecorded
        /\ count' = [count EXCEPT ![b] = count[b] + 1]
    BY <1>7 DEF channel_up
  <2>2. SumFunction(count') = SumFunction(count) + 1
    <3>1. OneChanged(count, b, 1, count')
      BY <1>1, <1>2, <2>1 DEF OneChanged
    <3>2. 1 \in Int
      OBVIOUS
    <3> QED BY <1>1, <1>2, <3>1, <3>2, CountSumChange
  <2>3. Opens(count', unrecorded') = z
    BY <1>1, <1>2, <2>1 DEF Opens
  <2>4. g'.count = n + 1 /\ n + 1 = SumFunction(count') + SumFunction(unrecorded')
    BY <1>2, <1>4, <1>5, <2>1, <2>2 DEF Serves
  <2> QED BY <1>5, <2>1, <2>3, <2>4
<1>8. CASE open_recorded(b)
  <2>1. count[b] = 0 /\ g' = opened(up(g), b) /\ unrecorded' = unrecorded
        /\ count' = [count EXCEPT ![b] = 1]
    BY <1>8 DEF open_recorded
  <2>2. SumFunction(count') = SumFunction(count) + 1
    <3>1. OneChanged(count, b, 1, count')
      BY <1>1, <1>2, <2>1 DEF OneChanged
    <3>2. 1 \in Int
      OBVIOUS
    <3> QED BY <1>1, <1>2, <3>1, <3>2, CountSumChange
  <2>3. Opens(count', unrecorded') = [z EXCEPT ![b] = z[b] + 1]
    BY <1>1, <1>2, <2>1 DEF Opens
  <2>4. Serves(g', n + 1, [z EXCEPT ![b] = z[b] + 1])
    BY <1>0, <1>1, <1>5, <2>1, CallServes
  <2>5. g'.count = n + 1 /\ n + 1 = SumFunction(count') + SumFunction(unrecorded')
    BY <1>2, <1>4, <2>1, <2>2, <2>4 DEF Serves
  <2> QED BY <2>3, <2>4, <2>5
<1>9. CASE open_unrecorded(b)
  <2>1. count[b] = 0 /\ g' = opened(up(g), b) /\ count' = count
        /\ unrecorded' = [unrecorded EXCEPT ![b] = unrecorded[b] + 1]
    BY <1>9 DEF open_unrecorded
  <2>2. SumFunction(unrecorded') = SumFunction(unrecorded) + 1
    <3>1. OneChanged(unrecorded, b, 1, unrecorded')
      BY <1>1, <1>2, <2>1 DEF OneChanged
    <3>2. 1 \in Int
      OBVIOUS
    <3> QED BY <1>1, <1>2, <3>1, <3>2, CountSumChange
  <2>3. Opens(count', unrecorded') = [z EXCEPT ![b] = z[b] + 1]
    BY <1>1, <1>2, <2>1 DEF Opens
  <2>4. Serves(g', n + 1, [z EXCEPT ![b] = z[b] + 1])
    BY <1>0, <1>1, <1>5, <2>1, CallServes
  <2>5. g'.count = n + 1 /\ n + 1 = SumFunction(count') + SumFunction(unrecorded')
    BY <1>2, <1>4, <2>1, <2>2, <2>4 DEF Serves
  <2> QED BY <2>3, <2>4, <2>5
<1>10. CASE open_refused(b)
  <2>1. g' = down(up(g)) /\ count' = count /\ unrecorded' = unrecorded
    BY <1>10 DEF open_refused
  <2>2. Serves(g', n, z)
    BY <1>2, <2>1, UpDownServes
  <2> QED BY <1>2, <2>1, <2>2 DEF Serves
<1> QED BY <1>1, <1>7, <1>8, <1>9, <1>10

\* A close gives a use up and, if it is the last of its channel, closes that;
\* the last one of all finds no struct, but nobody uses a channel then.
LEMMA StructClose ==
    ASSUME StructInv, CountInv', NEW o \in Object, ~crashed, nativeClose(ChannelOf(o)),
           slot' = slot, state[o] \in {"tested", "cleared"},
           NEW st \in {"refused", "gone"}, state' = [state EXCEPT ![o] = st]
    PROVE  StructInv'
<1> SUFFICES ASSUME NEW b, b = slot[o][2] PROVE StructInv'
  OBVIOUS
<1> DEFINE n == g.count
           z == Opens(count, unrecorded)
<1>1. b \in Channel
  BY DEF StructInv, CountInv, ObjectsOK, Slots
<1>2. /\ Serves(g, n, z) /\ n = SumFunction(count) + SumFunction(unrecorded) /\ n \in Nat
      /\ count \in [Channel -> Nat] /\ unrecorded \in [Channel -> Nat]
  BY DEF StructInv, CountInv, Serves
<1>3. SumFunction(count) \in Nat /\ SumFunction(unrecorded) \in Nat
  BY <1>2, CountSums
<1>4. CASE count[b] = 0
  <2>1. /\ g' = g /\ count' = count /\ unrecorded' = unrecorded /\ crashed' = crashed
    BY <1>4 DEF nativeClose, native, ChannelOf
  <2> QED BY <2>1 DEF StructInv
<1>5. CASE count[b] # 0
  <2>1. /\ count' = [count EXCEPT ![b] = count[b] - 1] /\ unrecorded' = unrecorded
        /\ crashed' = (count[b] = 1 /\ down(g).moberg = NULL)
        /\ g' = IF count[b] = 1 /\ ~crashed' THEN closed(down(g), b) ELSE down(g)
    BY <1>5 DEF nativeClose, ChannelOf
  <2>2. SumFunction(count') = SumFunction(count) - 1
    <3>0. count[b] \in Nat /\ count[b] - 1 = count[b] + (-1) /\ count[b] + (-1) \in Nat
      BY <1>1, <1>2, <1>5
    <3>1. OneChanged(count, b, -1, count')
      BY <2>1, <3>0 DEF OneChanged
    <3>2. -1 \in Int
      OBVIOUS
    <3>3. SumFunction(count') = SumFunction(count) + (-1)
      BY <1>1, <1>2, <3>1, <3>2, CountSumChange
    <3> QED BY <1>3, <3>3
  <2>3. n - 1 = SumFunction(count') + SumFunction(unrecorded')
    BY <1>2, <1>3, <2>1, <2>2
  <2>4. count[b] \in Nat /\ count[b] <= SumFunction(count) /\ count[b] > 0 /\ n > 0
    <3>1. count[b] \in Nat /\ count[b] <= SumFunction(count)
      BY <1>1, <1>2, CountSums
    <3> QED BY <1>2, <1>3, <1>5, <3>1
  <2>5. CASE n = 1
    <3>1. /\ count[b] = 1 /\ SumFunction(count) = 1
          /\ SumFunction(unrecorded) = 0 /\ SumFunction(count') = 0
      <4>1. \A x, y, w \in Nat : x > 0 /\ x <= y /\ 1 = y + w => x = 1 /\ y = 1 /\ w = 0
        OBVIOUS
      <4>2. count[b] = 1 /\ SumFunction(count) = 1 /\ SumFunction(unrecorded) = 0
        BY <1>2, <1>3, <2>4, <2>5, <4>1
      <4> QED BY <2>2, <4>2
    <3>2. /\ down(g).count = 0 /\ down(g).moberg = NULL /\ down(g) \in Global
      BY <1>2, <2>5, LastDownServes
    <3>3. crashed' /\ g' = down(g)
      BY <2>1, <3>1, <3>2
    <3>4. \A c \in Channel : count'[c] = 0 /\ unrecorded[c] = 0
      <4>1. count' \in [Channel -> Nat]
        BY DEF CountInv
      <4> QED BY <1>2, <3>1, <4>1, CountSums
    <3>5. \A c \in Channel : Users(c)' = {}
      <4>1. ASSUME NEW c \in Channel, c # b
            PROVE  Users(c)' = {}
        <5>1. count[c] = 0 /\ unrecorded[c] = 0
          BY <1>1, <1>2, <2>1, <3>4, <4>1
        <5>2. IsFiniteSet(Users(c)) /\ Cardinality(Users(c)) = 0
          BY <5>1 DEF StructInv, CountInv, CountsAreUsers
        <5>3. Users(c) = {}
          BY <5>2, FS_EmptySet
        <5>4. Users(c)' = Users(c)
          BY <4>1 DEF Users, ChannelOf, StructInv, CountInv, ObjectsOK
        <5> QED BY <5>3, <5>4
      <4>2. Users(b)' = {}
        <5>1. count[b] = 1 /\ unrecorded[b] = 0
          BY <1>1, <3>1, <3>4
        <5>2. IsFiniteSet(Users(b)) /\ Cardinality(Users(b)) = 1
          BY <1>1, <5>1 DEF StructInv, CountInv, CountsAreUsers
        <5>3. /\ Users(b)' = Users(b) \ {o} /\ o \in Users(b)
          BY DEF Users, ChannelOf, Making, StructInv, CountInv, ObjectsOK, States
        <5>4. Cardinality(Users(b) \ {o}) = 0 /\ IsFiniteSet(Users(b) \ {o})
          BY <5>2, <5>3, FS_RemoveElement
        <5> QED BY <5>3, <5>4, FS_EmptySet
      <4> QED BY <4>1, <4>2
    <3>6. g'.count = SumFunction(count') + SumFunction(unrecorded')
      BY <2>1, <3>1, <3>2, <3>3
    <3> QED BY <3>2, <3>3, <3>5, <3>6 DEF StructInv
  <2>6. CASE n # 1
    <3>1. n > 1
      BY <1>2, <2>4, <2>6
    <3>2. Serves(down(g), n - 1, z) /\ down(g).moberg # NULL
      BY <1>2, <3>1, DownServes
    <3>3. ~crashed'
      BY <2>1, <3>2
    <3>4. z \in [Channel -> Int] /\ n - 1 > 0
      BY <1>2, <3>1 DEF Serves
    <3>5. Serves(g', n - 1, Opens(count', unrecorded'))
      <4>1. CASE count[b] = 1
        <5>1. g' = closed(down(g), b)
          BY <2>1, <3>3, <4>1
        <5>2. Opens(count', unrecorded') = [z EXCEPT ![b] = z[b] - 1]
          BY <1>1, <1>2, <2>1, <4>1 DEF Opens
        <5>3. Serves(closed(down(g), b), n - 1, [z EXCEPT ![b] = z[b] - 1])
          BY <1>1, <3>2, <3>4, CallServes
        <5> QED BY <5>1, <5>2, <5>3
      <4>2. CASE count[b] # 1
        <5>1. g' = down(g)
          BY <2>1, <4>2
        <5>2. Opens(count', unrecorded') = z
          BY <1>1, <1>2, <2>1, <2>4, <4>2 DEF Opens
        <5> QED BY <3>2, <5>1, <5>2
      <4> QED BY <4>1, <4>2
    <3>6. g'.count = n - 1 /\ g' \in Global
      BY <3>5 DEF Serves
    <3> QED BY <2>3, <3>3, <3>5, <3>6 DEF StructInv
  <2> QED BY <2>5, <2>6
<1> QED BY <1>4, <1>5

\* The other steps leave the natives' state and the users alone.
LEMMA StructFrame ==
    ASSUME StructInv, CountInv', ~crashed, UNCHANGED native
    PROVE  StructInv'
BY DEF native, StructInv

LEMMA StructStep ==
    ASSUME Struct # {}, StructInv, [Next]_vars
    PROVE  StructInv'
<1>0. CountInv /\ CountInv'
  BY CountStep DEF StructInv
<1>1. ASSUME NEW o \in Object, NEW t \in Thread, open(t, o) PROVE StructInv'
  BY <1>0, <1>1, StructOpen
<1>2. ASSUME NEW o \in Object,
             allocate_first(o) \/ runFinalization(o) \/ allocate_set(o) \/ drop(o)
                \/ deallocate_clear(o)
      PROVE  StructInv'
  <2>1. ~crashed /\ UNCHANGED native
    BY <1>2 DEF allocate_first, runFinalization, allocate_set, drop, deallocate_clear
  <2> QED BY <1>0, <2>1, StructFrame
<1>3. ASSUME NEW o \in Object, allocate_second(o) PROVE StructInv'
  <2>1. ~crashed /\ state[o] = "tested"
    BY <1>3 DEF allocate_second
  <2>2. CASE UNCHANGED native
    BY <1>0, <2>1, <2>2, StructFrame
  <2>3. CASE nativeClose(ChannelOf(o)) /\ Becomes(o, "refused")
    <3>1. slot' = slot /\ state' = [state EXCEPT ![o] = "refused"]
      BY <2>3 DEF Becomes
    <3> QED BY <1>0, <2>1, <2>3, <3>1, StructClose
  <2> QED BY <1>3, <2>2, <2>3 DEF allocate_second
<1>4. ASSUME NEW o \in Object, deallocate_close(o) PROVE StructInv'
  <2>1. /\ ~crashed /\ state[o] = "cleared" /\ nativeClose(ChannelOf(o))
        /\ slot' = slot /\ state' = [state EXCEPT ![o] = "gone"]
    BY <1>4 DEF deallocate_close, Becomes
  <2> QED BY <1>0, <2>1, StructClose
<1>5. CASE UNCHANGED vars
  <2>1. \A c \in Channel : Users(c)' = Users(c)
    BY <1>5 DEF vars, Users, ChannelOf
  <2> QED BY <1>0, <1>5, <2>1 DEF vars, StructInv
<1> QED BY <1>1, <1>2, <1>3, <1>4, <1>5 DEF Next

LEMMA StructInvUsed == StructInv => StructIsUsed
<1> SUFFICES ASSUME StructInv PROVE StructIsUsed
  OBVIOUS
<1>1. ~crashed => Alive(g.structs) = IF g.count = 0 THEN {} ELSE {g.moberg}
  BY DEF StructInv, Serves
<1>2. ASSUME ~crashed, g.count > 0, NEW c \in Channel
      PROVE  g.structs[g.moberg].opens[c] = (IF count[c] > 0 THEN 1 ELSE 0) + unrecorded[c]
  <2>1. g.structs[g.moberg].opens = Opens(count, unrecorded)
    BY <1>2 DEF StructInv, Serves
  <2> QED BY <2>1 DEF Opens
<1> QED BY <1>1, <1>2 DEF StructInv, StructIsUsed

\* StructIsUsed of the run, for any number of objects, classes, channels and
\* threads, if there is an address for a struct: there is one struct while
\* something is counted and none else, every channel of it is open once however
\* many objects share it, and the only close that finds no struct is the last of
\* the process, of a channel nobody uses any more.
THEOREM StructCorrect ==
    ASSUME Struct # {}
    PROVE  Spec => []StructIsUsed
<1>1. StructInv /\ [Next]_vars => StructInv'
  BY StructStep
<1>2. StructInv => StructIsUsed
  BY StructInvUsed
<1> QED BY <1>1, <1>2, StructInit, PTL DEF Spec

\* The room of the lists and the refusals: an entry is in a list that has room.
RoomOK ==
    /\ capacity \subseteq Channel /\ \A c \in Channel : count[c] > 0 => c \in capacity
    /\ failures \in 0..MaxFailures
    /\ crashed \in BOOLEAN

\* What a close does to them, and a step that does not touch the natives' state.
LEMMA CloseKeepsRoom ==
    ASSUME StructInv, RoomOK, NEW c \in Channel, nativeClose(c)
    PROVE  RoomOK'
<1>1. capacity' = capacity /\ failures' = failures
  BY DEF nativeClose, native
<1>2. \A b \in Channel : count'[b] > 0 => count[b] > 0
  <2>1. count \in [Channel -> Nat]
    BY DEF StructInv, CountInv
  <2>2. count' = count \/ count' = [count EXCEPT ![c] = count[c] - 1]
    BY DEF nativeClose, native
  <2> QED BY <2>1, <2>2
<1>3. crashed' \in BOOLEAN
  <2>1. CASE count[c] = 0
    BY <2>1 DEF nativeClose, native, RoomOK
  <2>2. CASE count[c] # 0
    BY <2>2, Zenon DEF nativeClose
  <2> QED BY <2>1, <2>2
<1> QED BY <1>1, <1>2, <1>3 DEF RoomOK

LEMMA StepKeepsRoom ==
    ASSUME StructInv, RoomOK, [Next]_vars
    PROVE  RoomOK'
<1>0. ASSUME UNCHANGED native PROVE RoomOK'
  BY <1>0 DEF native, RoomOK
<1>1. ASSUME NEW o \in Object PROVE ChannelOf(o) \in Channel
  BY <1>1 DEF StructInv, CountInv, ObjectsOK, ChannelOf, Slots
<1>2. ASSUME NEW o \in Object, NEW t \in Thread, open(t, o) PROVE RoomOK'
  <2> DEFINE b == ChannelOf(o)
  <2>1. b \in Channel
    BY <1>1
  <2>2. channel_up(b) \/ open_recorded(b) \/ open_unrecorded(b) \/ open_refused(b)
    BY <1>2 DEF open
  <2> HIDE DEF b
  <2>3. count \in [Channel -> Nat]
    BY DEF StructInv, CountInv
  <2>4. CASE channel_up(b)
    BY <2>1, <2>3, <2>4 DEF channel_up, RoomOK
  <2>5. CASE open_recorded(b)
    BY <2>1, <2>3, <2>5 DEF open_recorded, RoomOK
  <2>6. CASE open_unrecorded(b) \/ open_refused(b)
    <3>1. /\ count' = count /\ capacity' = capacity /\ crashed' = crashed
          /\ failures < MaxFailures /\ failures' = failures + 1
      BY <2>6 DEF open_unrecorded, open_refused
    <3>2. failures' \in 0..MaxFailures
      BY <3>1, MaxFailuresAssumption DEF RoomOK
    <3> QED BY <3>1, <3>2 DEF RoomOK
  <2> QED BY <2>2, <2>4, <2>5, <2>6
<1>3. ASSUME NEW o \in Object, allocate_second(o) PROVE RoomOK'
  <2>1. UNCHANGED native \/ nativeClose(ChannelOf(o))
    BY <1>3 DEF allocate_second
  <2> QED BY <1>0, <1>1, <2>1, CloseKeepsRoom
<1>4. ASSUME NEW o \in Object, deallocate_close(o) PROVE RoomOK'
  <2>1. nativeClose(ChannelOf(o))
    BY <1>4 DEF deallocate_close
  <2> QED BY <1>1, <2>1, CloseKeepsRoom
<1>5. ASSUME NEW o \in Object,
             allocate_first(o) \/ runFinalization(o) \/ allocate_set(o) \/ drop(o)
                \/ deallocate_clear(o)
      PROVE  RoomOK'
  <2>1. UNCHANGED native
    BY <1>5 DEF allocate_first, runFinalization, allocate_set, drop, deallocate_clear
  <2> QED BY <1>0, <2>1
<1>6. CASE UNCHANGED vars
  BY <1>0, <1>6 DEF vars, native
<1> QED BY <1>2, <1>3, <1>4, <1>5, <1>6 DEF Next

\* The types of JavaMoberg: no count goes below zero, also where a struct is freed
\* by the close before the last one, and no list counts what it has no room for.
THEOREM JavaTypeCorrect ==
    ASSUME Struct # {}
    PROVE  Spec => []TypeOK
<1>1. Init => RoomOK
  <2> SUFFICES ASSUME Init PROVE RoomOK
    OBVIOUS
  <2>1. \A c \in Channel : count[c] = 0
    BY DEF Init
  <2>2. capacity = {} /\ failures \in 0..MaxFailures
    BY MaxFailuresAssumption DEF Init
  <2>3. crashed \in BOOLEAN
    BY Zenon DEF Init
  <2> QED BY <2>1, <2>2, <2>3 DEF RoomOK
<1>2. StructInv /\ RoomOK /\ [Next]_vars => StructInv' /\ RoomOK'
  BY StructStep, StepKeepsRoom
<1>3. StructInv /\ RoomOK => TypeOK
  BY DEF StructInv, CountInv, ObjectsOK, RoomOK, TypeOK
<1> QED BY <1>1, <1>2, <1>3, StructInit, PTL DEF Spec

-----------------------------------------------------------------------------
(* The Simulink binding: elements are uses *)

ElementsOf(l) == {e \in Element : l[e] # NULL}
With(l, c) == {e \in Element : l[e] = c}
OpensOf(l) == [c \in Channel |-> Cardinality(With(l, c))]

\* The lists l count the uses of the struct and what is open through it.
Uses(h, l) ==
    /\ l \in [Element -> Channel \cup {NULL}]
    /\ IsFiniteSet(ElementsOf(l))
    /\ Serves(h, Cardinality(ElementsOf(l)), OpensOf(l))

LEMMA WithFinite ==
    ASSUME NEW l \in [Element -> Channel \cup {NULL}], IsFiniteSet(ElementsOf(l))
    PROVE  \A c \in Channel : IsFiniteSet(With(l, c)) /\ Cardinality(With(l, c)) \in Nat
<1>1. ASSUME NEW c \in Channel PROVE With(l, c) \subseteq ElementsOf(l)
  BY BindingChannelAssumption DEF With, ElementsOf
<1> QED BY <1>1, FS_Subset, FS_CardinalityType

\* m is l with an element e of the channel c more.
Inserted(l, m, e, c) ==
    /\ e \in Element /\ l[e] = NULL /\ m = [l EXCEPT ![e] = c]

\* What that does to the numbers of m, and what taking it out does to those of l.
CountsMore(l, m, c) ==
    /\ m \in [Element -> Channel \cup {NULL}] /\ IsFiniteSet(ElementsOf(m))
    /\ Cardinality(ElementsOf(m)) = Cardinality(ElementsOf(l)) + 1
    /\ OpensOf(m) = [OpensOf(l) EXCEPT ![c] = OpensOf(l)[c] + 1]
    /\ Cardinality(ElementsOf(l)) \in Nat

CountsLess(l, m, c) ==
    /\ IsFiniteSet(ElementsOf(m))
    /\ Cardinality(ElementsOf(l)) = Cardinality(ElementsOf(m)) + 1
    /\ Cardinality(ElementsOf(m)) \in Nat
    /\ OpensOf(m) = [OpensOf(l) EXCEPT ![c] = OpensOf(l)[c] - 1]

LEMMA InsertCounts ==
    ASSUME NEW l \in [Element -> Channel \cup {NULL}], IsFiniteSet(ElementsOf(l)),
           NEW e, NEW c \in Channel, NEW m, Inserted(l, m, e, c)
    PROVE  CountsMore(l, m, c)
<1>1. m \in [Element -> Channel \cup {NULL}]
  BY DEF Inserted
<1>2. ElementsOf(m) = ElementsOf(l) \cup {e} /\ e \notin ElementsOf(l)
  BY BindingChannelAssumption DEF Inserted, ElementsOf
<1>3. IsFiniteSet(ElementsOf(m)) /\ Cardinality(ElementsOf(m)) = Cardinality(ElementsOf(l)) + 1
  BY <1>2, FS_AddElement
<1>4. With(m, c) = With(l, c) \cup {e} /\ e \notin With(l, c)
  BY BindingChannelAssumption DEF Inserted, With
<1>5. Cardinality(With(m, c)) = Cardinality(With(l, c)) + 1
  BY <1>4, WithFinite, FS_AddElement
<1>6. ASSUME NEW b \in Channel, b # c PROVE With(m, b) = With(l, b)
  BY <1>6, BindingChannelAssumption DEF Inserted, With
<1>7. OpensOf(m) = [OpensOf(l) EXCEPT ![c] = OpensOf(l)[c] + 1]
  BY <1>5, <1>6 DEF OpensOf
<1> QED BY <1>1, <1>3, <1>7, FS_CardinalityType DEF CountsMore

LEMMA RemoveCounts ==
    ASSUME NEW l \in [Element -> Channel \cup {NULL}], IsFiniteSet(ElementsOf(l)),
           NEW e, NEW c \in Channel, NEW m, Inserted(m, l, e, c), m \in [Element -> Channel \cup {NULL}]
    PROVE  CountsLess(l, m, c)
<1>1. IsFiniteSet(ElementsOf(m))
  <2>1. ElementsOf(m) \subseteq ElementsOf(l)
    BY BindingChannelAssumption DEF Inserted, ElementsOf
  <2> QED BY <2>1, FS_Subset
<1>2. /\ Cardinality(ElementsOf(l)) = Cardinality(ElementsOf(m)) + 1
      /\ OpensOf(l) = [OpensOf(m) EXCEPT ![c] = OpensOf(m)[c] + 1]
      /\ Cardinality(ElementsOf(m)) \in Nat
  <2>1. Inserted(m, l, e, c) /\ c \in Channel
    OBVIOUS
  <2> QED BY <1>1, <2>1, InsertCounts DEF CountsMore
<1>3. OpensOf(m) \in [Channel -> Nat]
  BY <1>1, WithFinite DEF OpensOf
<1>4. OpensOf(m) = [OpensOf(l) EXCEPT ![c] = OpensOf(l)[c] - 1]
  <2> HIDE DEF OpensOf
  <2> DEFINE u == OpensOf(l)
             v == OpensOf(m)
  <2>1. u = [v EXCEPT ![c] = v[c] + 1] /\ v \in [Channel -> Nat]
    BY <1>2, <1>3
  <2> HIDE DEF u, v
  <2>2. v = [u EXCEPT ![c] = u[c] - 1]
    <3>1. u \in [Channel -> Nat] /\ u[c] = v[c] + 1 /\ v[c] \in Nat
      BY <2>1
    <3>2. u[c] - 1 = v[c]
      BY <3>1
    <3>3. \A b \in Channel : b # c => u[b] = v[b]
      BY <2>1
    <3> QED BY <2>1, <3>1, <3>2, <3>3
  <2> QED BY <2>2 DEF u, v
<1> QED BY <1>1, <1>2, <1>4 DEF CountsLess

LEMMA InsertUses ==
    ASSUME Struct # {}, NEW h, NEW l, Uses(h, l),
           NEW e, NEW c \in Channel, NEW m, Inserted(l, m, e, c)
    PROVE  Uses(opened(up(h), c), m)
<1>0. /\ l \in [Element -> Channel \cup {NULL}] /\ IsFiniteSet(ElementsOf(l))
      /\ Serves(h, Cardinality(ElementsOf(l)), OpensOf(l))
  BY DEF Uses
<1>1. CountsMore(l, m, c)
  BY <1>0, InsertCounts
<1> DEFINE n == Cardinality(ElementsOf(l))
           o == OpensOf(l)
<1>2. /\ m \in [Element -> Channel \cup {NULL}] /\ IsFiniteSet(ElementsOf(m))
      /\ Cardinality(ElementsOf(m)) = n + 1 /\ n \in Nat
      /\ OpensOf(m) = [o EXCEPT ![c] = o[c] + 1] /\ Serves(h, n, o)
  BY <1>0, <1>1 DEF CountsMore
<1> HIDE DEF n, o
<1>3. Serves(up(h), n + 1, o) /\ n + 1 > 0
  BY <1>2, UpServes
<1>4. Serves(opened(up(h), c), n + 1, [o EXCEPT ![c] = o[c] + 1])
  BY <1>3, CallServes
<1> QED BY <1>2, <1>4 DEF Uses

LEMMA RemoveUses ==
    ASSUME NEW h, NEW l, Uses(h, l),
           NEW e, NEW c \in Channel, NEW m, Inserted(m, l, e, c),
           m \in [Element -> Channel \cup {NULL}]
    PROVE  Uses(down(closed(h, c)), m)
<1>0. /\ l \in [Element -> Channel \cup {NULL}] /\ IsFiniteSet(ElementsOf(l))
      /\ Serves(h, Cardinality(ElementsOf(l)), OpensOf(l))
  BY DEF Uses
<1>9. CountsLess(l, m, c)
  BY <1>0, RemoveCounts
<1> DEFINE n == Cardinality(ElementsOf(m))
           o == OpensOf(l)
           q == OpensOf(m)
<1>1. Serves(h, Cardinality(ElementsOf(l)), o)
  BY <1>0
<1>2. /\ IsFiniteSet(ElementsOf(m)) /\ n \in Nat
      /\ Cardinality(ElementsOf(l)) = n + 1
      /\ q = [o EXCEPT ![c] = o[c] - 1]
  BY <1>9 DEF CountsLess
<1>3. n = 0 => \A b \in Channel : q[b] = 0
  <2>1. SUFFICES ASSUME n = 0, NEW b \in Channel PROVE Cardinality(With(m, b)) = 0
    BY <2>1 DEF OpensOf
  <2>2. ElementsOf(m) = {}
    BY <1>2, <2>1, FS_EmptySet
  <2>3. With(m, b) = {}
    BY <2>2, BindingChannelAssumption DEF With, ElementsOf
  <2> QED BY <2>3, FS_EmptySet
<1> HIDE DEF n, o, q
<1>4. n + 1 > 0 /\ (n + 1) - 1 = n /\ (n # 0 => n + 1 > 1)
  BY <1>2
<1>5. Serves(closed(h, c), n + 1, q)
  <2>1. Serves(closed(h, c), n + 1, [o EXCEPT ![c] = o[c] - 1])
    BY <1>1, <1>2, <1>4, CallServes
  <2> QED BY <1>2, <2>1
<1>6. Serves(down(closed(h, c)), n, q)
  <2>1. CASE n = 0
    <3>1. Serves(closed(h, c), 1, q)
      BY <1>5, <2>1
    <3> QED BY <1>3, <2>1, <3>1, LastDownServes
  <2>2. CASE n # 0
    <3>1. Serves(down(closed(h, c)), (n + 1) - 1, q)
      BY <1>4, <1>5, <2>2, DownServes
    <3> QED BY <1>4, <3>1
  <2> QED BY <2>1, <2>2
<1> QED BY <1>2, <1>6 DEF Uses, n, q

-----------------------------------------------------------------------------
(* The Simulink binding: the open and the close of one channel *)

Pointer == Element \cup {NULL}
Lists == [Element -> Channel \cup {NULL}]

\* What a fold over the channels of a block works on.
Work == [g : Global, list : Lists, pointers : Seq(Pointer)]
Working == {w \in Work : Uses(w.g, w.list)}

\* w and the pointer e it returned have become v.
IsOpened(w, v, c, e) ==
    /\ v \in Working
    /\ e \in Pointer /\ v.pointers = Append(w.pointers, e)
    /\ IF e = NULL THEN v.list = w.list ELSE Inserted(w.list, v.list, e, c)

LEMMA UnusedElement ==
    ASSUME NEW l, Unused(l) # {}
    PROVE  Min(Unused(l)) \in Element /\ l[Min(Unused(l))] = NULL
<1>1. Unused(l) \in SUBSET Nat
  BY ElementAssumption DEF Unused
<1>2. Min(Unused(l)) \in Unused(l)
  BY <1>1, LeastPicks
<1> QED BY <1>2 DEF Unused

LEMMA OpenKeeps ==
    ASSUME Struct # {}, NEW w \in Working, NEW c \in Channel, NEW ok \in BOOLEAN
    PROVE  \E e : IsOpened(w, moberg4simulink_open(w, c, ok), c, e)
<1> DEFINE e == Min(Unused(w.list))
           v == moberg4simulink_open(w, c, ok)
<1>1. /\ w.g \in Global /\ w.list \in Lists /\ w.pointers \in Seq(Pointer)
      /\ Uses(w.g, w.list)
  BY DEF Working, Work
<1>2. CASE ok /\ Unused(w.list) # {}
  <2> DEFINE m == [w.list EXCEPT ![e] = c]
             p == Append(w.pointers, e)
             h == opened(up(w.g), c)
  <2>1. v = [g |-> h, list |-> m, pointers |-> p]
    BY <1>2 DEF moberg4simulink_open
  <2>2. e \in Element /\ e \in Pointer /\ e # NULL /\ w.list[e] = NULL
    BY <1>2, UnusedElement, ElementAssumption DEF Pointer
  <2> HIDE DEF e
  <2>3. Inserted(w.list, m, e, c)
    BY <2>2 DEF Inserted
  <2>4. Uses(h, m)
    <3> HIDE DEF m, h
    <3>1. Uses(opened(up(w.g), c), m)
      BY <1>1, <2>3, InsertUses
    <3> QED BY <3>1 DEF h
  <2>5. h \in Global /\ m \in Lists /\ p \in Seq(Pointer)
    <3>1. h \in Global
      BY <2>4 DEF Uses, Serves
    <3>2. m \in Lists
      BY <1>1, <2>2 DEF Lists
    <3> QED BY <1>1, <2>2, <3>1, <3>2
  <2> HIDE DEF h, m, v
  <2>6. v \in Work /\ v.g = h /\ v.list = m /\ v.pointers = p
    BY <2>1, <2>5 DEF Work
  <2> QED BY <2>2, <2>3, <2>4, <2>6 DEF IsOpened, Working, v
<1>3. CASE ~(ok /\ Unused(w.list) # {})
  <2> DEFINE p == Append(w.pointers, NULL)
             h == down(up(w.g))
  <2>1. v = [w EXCEPT !.g = h, !.pointers = p]
    BY <1>3 DEF moberg4simulink_open
  <2>2. Uses(h, w.list)
    BY <1>1, UpDownServes DEF Uses
  <2>3. h \in Global /\ p \in Seq(Pointer) /\ NULL \in Pointer
    BY <1>1, <2>2 DEF Uses, Serves, Pointer
  <2> HIDE DEF h, v
  <2>4. v \in Work /\ v.g = h /\ v.list = w.list /\ v.pointers = p
    BY <1>1, <2>1, <2>3 DEF Work, Working
  <2> QED BY <2>2, <2>3, <2>4 DEF IsOpened, Working, v
<1> QED BY <1>2, <1>3

\* A close works on more than the states of the binding: a fold is a function.
LooseGlobal == [count : Int, moberg : Struct \cup {NULL}, structs : [Struct -> Moberg]]
LooseWork == [g : LooseGlobal, list : Lists, pointers : {<< >>}]

LEMMA DownLoose ==
    ASSUME NEW h \in LooseGlobal, NEW c \in Channel
    PROVE  down(closed(h, c)) \in LooseGlobal
<1>1. h.structs \in [Struct -> Moberg] /\ h.count \in Int /\ h.moberg \in Struct \cup {NULL}
  BY DEF LooseGlobal
<1>2. ASSUME NEW m \in Moberg PROVE free_if_unused(m) \in Moberg
  BY DEF free_if_unused, NoMoberg, Moberg
<1>3. ASSUME NEW q \in [Struct -> Moberg], NEW s \in Struct \cup {NULL}
      PROVE  moberg_close(q, s, c) \in [Struct -> Moberg] /\ moberg_free(q, s) \in [Struct -> Moberg]
  <2>1. ASSUME s = NULL
        PROVE  moberg_close(q, s, c) = q /\ moberg_free(q, s) = q
    <3>1. s \notin Struct
      BY <2>1, StructAssumption
    <3>2. \A m : [q EXCEPT ![s] = m] = q
      BY <3>1
    <3> QED BY <2>1, <3>2 DEF moberg_close, moberg_free
  <2>2. ASSUME s \in Struct
        PROVE  moberg_close(q, s, c) \in [Struct -> Moberg] /\ moberg_free(q, s) \in [Struct -> Moberg]
    <3>1. q[s] \in Moberg
      BY <2>2
    <3>2. /\ [q[s] EXCEPT !.opens[c] = q[s].opens[c] - 1] \in Moberg
          /\ [q[s] EXCEPT !.should_free = TRUE] \in Moberg
      <4> DEFINE t == [q[s].opens EXCEPT ![c] = q[s].opens[c] - 1]
      <4>1. t \in [Channel -> Int]
        BY <3>1 DEF Moberg
      <4>2. [q[s] EXCEPT !.opens[c] = q[s].opens[c] - 1] = [q[s] EXCEPT !.opens = t]
        BY <3>1 DEF Moberg
      <4> HIDE DEF t
      <4>3. [q[s] EXCEPT !.opens = t] \in Moberg
        BY <3>1, <4>1 DEF Moberg
      <4>4. [q[s] EXCEPT !.should_free = TRUE] \in Moberg
        BY <3>1 DEF Moberg
      <4> QED BY <4>2, <4>3, <4>4
    <3>3. /\ free_if_unused([q[s] EXCEPT !.opens[c] = q[s].opens[c] - 1]) \in Moberg
          /\ free_if_unused([q[s] EXCEPT !.should_free = TRUE]) \in Moberg
      BY <1>2, <3>2
    <3>4. \A m \in Moberg : [q EXCEPT ![s] = m] \in [Struct -> Moberg]
      BY <2>2
    <3> QED BY <3>3, <3>4 DEF moberg_close, moberg_free
  <2> QED BY <2>1, <2>2
<1> DEFINE q == moberg_close(h.structs, h.moberg, c)
           k == closed(h, c)
<1>4. k = [h EXCEPT !.structs = q] /\ q \in [Struct -> Moberg]
  BY <1>1, <1>3 DEF closed
<1> HIDE DEF q, k
<1>5. k \in LooseGlobal /\ k.structs = q /\ k.moberg = h.moberg /\ k.count = h.count
  BY <1>4 DEF LooseGlobal
<1>6. CASE k.count <= 1
  <2> DEFINE r == moberg_free(k.structs, k.moberg)
  <2>1. r \in [Struct -> Moberg]
    BY <1>1, <1>3, <1>4, <1>5
  <2>2. down(k) = [k EXCEPT !.count = k.count - 1, !.moberg = NULL, !.structs = r]
    BY <1>6 DEF down
  <2> HIDE DEF r
  <2> DEFINE k1 == [k EXCEPT !.count = k.count - 1]
             k2 == [k1 EXCEPT !.moberg = NULL]
             k3 == [k2 EXCEPT !.structs = r]
  <2>3. k1 \in LooseGlobal
    BY <1>5 DEF LooseGlobal
  <2>4. down(k) = k3
    BY <2>2
  <2> HIDE DEF k1
  <2>5. k2 \in LooseGlobal
    BY <2>3 DEF LooseGlobal
  <2> HIDE DEF k2
  <2>6. k3 \in LooseGlobal
    BY <2>1, <2>5 DEF LooseGlobal
  <2> QED BY <2>4, <2>6 DEF k
<1>7. CASE ~(k.count <= 1)
  <2>1. down(k) = [k EXCEPT !.count = k.count - 1]
    BY <1>7 DEF down
  <2>2. down(k) \in LooseGlobal
    BY <1>5, <2>1 DEF LooseGlobal
  <2> QED BY <2>2 DEF k
<1> QED BY <1>6, <1>7

LEMMA CloseLoose ==
    ASSUME NEW w \in LooseWork, NEW e \in Element, NEW c \in Channel
    PROVE  moberg4simulink_close(w, e, c) \in LooseWork
<1> DEFINE v == moberg4simulink_close(w, e, c)
           h == down(closed(w.g, c))
           m == [w.list EXCEPT ![e] = NULL]
<1>1. v = [w EXCEPT !.g = h, !.list = m]
  BY DEF moberg4simulink_close
<1>2. h \in LooseGlobal
  BY DownLoose DEF LooseWork
<1>3. m \in Lists
  BY DEF LooseWork, Lists
<1> HIDE DEF h, m
<1>4. v \in LooseWork
  BY <1>1, <1>2, <1>3 DEF LooseWork
<1> QED BY <1>4

\* The close of an element that is in its list.
LEMMA CloseKeeps ==
    ASSUME NEW w \in LooseWork, NEW e \in Element, NEW c \in Channel, Uses(w.g, w.list),
           w.list[e] = c
    PROVE  LET v == moberg4simulink_close(w, e, c)
           IN  v.list = [w.list EXCEPT ![e] = NULL] /\ Uses(v.g, v.list)
<1> DEFINE m == [w.list EXCEPT ![e] = NULL]
           v == moberg4simulink_close(w, e, c)
<1>1. w.list \in Lists
  BY DEF LooseWork
<1>2. m \in [Element -> Channel \cup {NULL}] /\ Inserted(m, w.list, e, c)
  BY <1>1 DEF Lists, Inserted
<1>3. Uses(down(closed(w.g, c)), m)
  <2> HIDE DEF m
  <2> QED BY <1>2, RemoveUses
<1>4. v.list = m /\ v.g = down(closed(w.g, c))
  BY DEF moberg4simulink_close, LooseWork
<1> QED BY <1>3, <1>4

-----------------------------------------------------------------------------
(* The Simulink binding: the channels of a block, one after the other *)

AtFirst == [g |-> g, list |-> list, pointers |-> << >>]

\* One channel of a block, with its pointer, is closed.
Closing(w, e, c) == IF e = NULL THEN w ELSE moberg4simulink_close(w, e, c)

\* OpenAll opens the channels in order.
LEMMA OpensFolded ==
    ASSUME Struct # {}, NEW b, NEW n \in Nat, channels[b] \in [1..n -> Channel],
           Uses(g, list), NEW ok \in [1..n -> BOOLEAN]
    PROVE  \E p : /\ p \in [0..n -> Working] /\ p[0] = AtFirst
                  /\ \A i \in 1..n :
                        p[i] = moberg4simulink_open(p[i - 1], channels[b][i], ok[i])
                  /\ OpenAll(b, ok) = p[n]
<1> DEFINE index == [i \in DOMAIN channels[b] |-> i]
           base == AtFirst
           D == 1..n
           Is(k) == k = [s \in SUBSET DOMAIN index |->
                           IF s = {} THEN base
                           ELSE LET x == CHOOSE x \in s : \A y \in s : x >= y
                                IN  moberg4simulink_open(k[s \ {x}], channels[b][index[x]], ok[index[x]])]
           k == CHOOSE k : Is(k)
           step == [i \in D |-> [w \in Working |-> moberg4simulink_open(w, channels[b][i], ok[i])]]
<1>1. OpenAll(b, ok) = k[DOMAIN index]
  BY Zenon DEF OpenAll, AtFirst, FoldLeftDomain, FoldLeft, MapThenFoldSet, Max
<1>2. DOMAIN index = D /\ \A x \in D : index[x] = x
  OBVIOUS
<1>3. \A w \in Working : \A i \in D :
         moberg4simulink_open(w, channels[b][i], ok[i]) \in Working
  <2> SUFFICES ASSUME NEW w \in Working, NEW i \in D
               PROVE  moberg4simulink_open(w, channels[b][i], ok[i]) \in Working
    OBVIOUS
  <2>1. channels[b][i] \in Channel /\ ok[i] \in BOOLEAN
    OBVIOUS
  <2> QED BY <2>1, OpenKeeps DEF IsOpened
<1>4. base \in Working
  <2>1. g \in Global /\ list \in Lists /\ << >> \in Seq(Pointer)
    BY DEF Uses, Serves, Lists
  <2>2. base.g = g /\ base.list = list
    BY DEF AtFirst
  <2>3. base \in Work
    BY <2>1 DEF AtFirst, Work
  <2> QED BY <2>2, <2>3 DEF Working
<1>5. step \in [D -> [Working -> Working]]
  BY <1>3
<1>6. PICK f : Solves(f, D, Working, base, step, Largest(n))
  <2>1. IsFiniteSet(D)
    <3>1. 1 \in Int /\ n \in Int
      OBVIOUS
    <3> QED BY <3>1, FS_Interval
  <2>2. \A s \in SUBSET D : s # {} => Largest(n)[s] \in s
    BY LargestPicks
  <2> HIDE DEF step, base, D
  <2> QED BY <1>4, <1>5, <2>1, <2>2, SolutionExists
<1> HIDE DEF index, base
<1>7. f = [s \in SUBSET D |-> f[s]] /\ \A s \in SUBSET D : f[s] \in Working
  BY <1>6 DEF Solves
<1>8. ASSUME NEW s \in SUBSET D
      PROVE  f[s] = IF s = {} THEN base
                    ELSE LET x == CHOOSE x \in s : \A y \in s : x >= y
                         IN  moberg4simulink_open(f[s \ {x}], channels[b][index[x]], ok[index[x]])
  <2>1. CASE s = {}
    BY <1>6, <2>1 DEF Solves
  <2>2. CASE s # {}
    <3> DEFINE x == CHOOSE x \in s : \A y \in s : x >= y
    <3>1. x = Largest(n)[s] /\ x \in D
      <4>1. Largest(n)[s] \in s
        BY <2>2, LargestPicks
      <4>2. Largest(n)[s] = x
        BY DEF Largest
      <4> QED BY <4>1, <4>2
    <3>2. f[s] = step[x][f[s \ {x}]] /\ f[s \ {x}] \in Working
      <4> HIDE DEF step
      <4> QED BY <1>6, <2>2, <3>1 DEF Solves
    <3> HIDE DEF x
    <3>3. f[s] = moberg4simulink_open(f[s \ {x}], channels[b][x], ok[x])
      BY <3>1, <3>2
    <3> QED BY <1>2, <2>2, <3>1, <3>3 DEF x
  <2> QED BY <2>1, <2>2
<1>9. Is(f)
  BY <1>2, <1>7, <1>8, Zenon
<1>10. Is(k)
  <2> HIDE DEF Is
  <2> QED BY <1>9, Zenon
<1>11. \A s \in SUBSET D : k[s] = IF s = {} THEN base
                    ELSE LET x == CHOOSE x \in s : \A y \in s : x >= y
                         IN  moberg4simulink_open(k[s \ {x}], channels[b][index[x]], ok[index[x]])
  <2> HIDE DEF k
  <2> QED BY <1>2, <1>10
<1> HIDE DEF k
<1> DEFINE p == [i \in 0..n |-> k[1..i]]
<1>12. p[0] = base
  <2>1. 1..0 = {} /\ 1..0 \in SUBSET D
    OBVIOUS
  <2>2. p[0] = k[1..0]
    OBVIOUS
  <2> QED BY <1>11, <2>1, <2>2
<1>13. ASSUME NEW i \in 1..n
       PROVE  p[i] = moberg4simulink_open(p[i - 1], channels[b][i], ok[i])
  <2>1. 1..i \in SUBSET D /\ 1..i # {} /\ (1..i) \ {i} = 1..(i - 1)
    BY InitialPart
  <2>2. (CHOOSE x \in 1..i : \A y \in 1..i : x >= y) = i
    BY <2>1, LargestPicks DEF Largest
  <2>3. k[1..i] = moberg4simulink_open(k[1..(i - 1)], channels[b][i], ok[i])
    BY <1>2, <1>11, <2>1, <2>2
  <2>4. i \in 0..n /\ i - 1 \in 0..n
    OBVIOUS
  <2>5. \A j \in 0..n : p[j] = k[1..j]
    OBVIOUS
  <2> HIDE DEF p
  <2> QED BY <2>3, <2>4, <2>5
<1>14. \A i \in 0..n : p[i] \in Working
  <2> DEFINE G == {i \in 0..n : p[i] \in Working}
  <2> HIDE DEF p
  <2>1. 0 \in G
    BY <1>4, <1>12
  <2>2. ASSUME NEW i \in 1..n, i - 1 \in G PROVE i \in G
    BY <1>3, <1>13, <2>2
  <2>3. 0..n \subseteq G
    <3> HIDE DEF G
    <3> QED BY <2>1, <2>2, UpTo
  <2> QED BY <2>3
<1>15. p \in [0..n -> Working] /\ OpenAll(b, ok) = p[n]
  <2>1. p[n] = k[1..n]
    OBVIOUS
  <2>2. p = [i \in 0..n |-> p[i]]
    OBVIOUS
  <2> HIDE DEF p
  <2> QED BY <1>1, <1>2, <1>14, <2>1, <2>2
<1> HIDE DEF p
<1> QED BY <1>12, <1>13, <1>15 DEF base
\* CloseAll closes those that have a pointer, in order.
LEMMA ClosesFolded ==
    ASSUME NEW b, NEW n \in Nat, channels[b] \in [1..n -> Channel],
           pwork[b] \in [1..n -> Pointer], Uses(g, list)
    PROVE  \E p : /\ p \in [0..n -> LooseWork] /\ p[0] = AtFirst
                  /\ \A i \in 1..n : p[i] = Closing(p[i - 1], pwork[b][i], channels[b][i])
                  /\ CloseAll(b) = p[n]
<1> DEFINE index == [i \in DOMAIN channels[b] |-> i]
           base == AtFirst
           D == 1..n
           Is(k) == k = [s \in SUBSET DOMAIN index |->
                           IF s = {} THEN base
                           ELSE LET x == CHOOSE x \in s : \A y \in s : x >= y
                                IN  Closing(k[s \ {x}], pwork[b][index[x]], channels[b][index[x]])]
           k == CHOOSE k : Is(k)
           step == [i \in D |-> [w \in LooseWork |-> Closing(w, pwork[b][i], channels[b][i])]]
<1>1. CloseAll(b) = k[DOMAIN index]
  BY Zenon DEF CloseAll, Closing, AtFirst, FoldLeftDomain, FoldLeft, MapThenFoldSet, Max
<1>2. DOMAIN index = D /\ \A x \in D : index[x] = x
  OBVIOUS
<1>3. \A w \in LooseWork : \A i \in D :
         Closing(w, pwork[b][i], channels[b][i]) \in LooseWork
  <2> SUFFICES ASSUME NEW w \in LooseWork, NEW i \in D
               PROVE  Closing(w, pwork[b][i], channels[b][i]) \in LooseWork
    OBVIOUS
  <2>1. channels[b][i] \in Channel /\ (pwork[b][i] # NULL => pwork[b][i] \in Element)
    BY DEF Pointer
  <2> QED BY <2>1, CloseLoose DEF Closing
<1>4. base \in LooseWork
  <2>1. g \in LooseGlobal /\ list \in Lists
    BY DEF Uses, Serves, Lists, Global, LooseGlobal
  <2> QED BY <2>1 DEF AtFirst, LooseWork
<1>5. step \in [D -> [LooseWork -> LooseWork]]
  BY <1>3
<1>6. PICK f : Solves(f, D, LooseWork, base, step, Largest(n))
  <2>1. IsFiniteSet(D)
    <3>1. 1 \in Int /\ n \in Int
      OBVIOUS
    <3> QED BY <3>1, FS_Interval
  <2>2. \A s \in SUBSET D : s # {} => Largest(n)[s] \in s
    BY LargestPicks
  <2> HIDE DEF step, base, D
  <2> QED BY <1>4, <1>5, <2>1, <2>2, SolutionExists
<1> HIDE DEF index, base
<1>7. f = [s \in SUBSET D |-> f[s]] /\ \A s \in SUBSET D : f[s] \in LooseWork
  BY <1>6 DEF Solves
<1>8. ASSUME NEW s \in SUBSET D
      PROVE  f[s] = IF s = {} THEN base
                    ELSE LET x == CHOOSE x \in s : \A y \in s : x >= y
                         IN  Closing(f[s \ {x}], pwork[b][index[x]], channels[b][index[x]])
  <2>1. CASE s = {}
    BY <1>6, <2>1 DEF Solves
  <2>2. CASE s # {}
    <3> DEFINE x == CHOOSE x \in s : \A y \in s : x >= y
    <3>1. x = Largest(n)[s] /\ x \in D
      <4>1. Largest(n)[s] \in s
        BY <2>2, LargestPicks
      <4>2. Largest(n)[s] = x
        BY DEF Largest
      <4> QED BY <4>1, <4>2
    <3>2. f[s] = step[x][f[s \ {x}]] /\ f[s \ {x}] \in LooseWork
      <4> HIDE DEF step
      <4> QED BY <1>6, <2>2, <3>1 DEF Solves
    <3> HIDE DEF x
    <3>3. f[s] = Closing(f[s \ {x}], pwork[b][x], channels[b][x])
      BY <3>1, <3>2
    <3> QED BY <1>2, <2>2, <3>1, <3>3 DEF x
  <2> QED BY <2>1, <2>2
<1>9. Is(f)
  BY <1>2, <1>7, <1>8, Zenon
<1>10. Is(k)
  <2> HIDE DEF Is
  <2> QED BY <1>9, Zenon
<1>11. \A s \in SUBSET D : k[s] = IF s = {} THEN base
                    ELSE LET x == CHOOSE x \in s : \A y \in s : x >= y
                         IN  Closing(k[s \ {x}], pwork[b][index[x]], channels[b][index[x]])
  <2> HIDE DEF k
  <2> QED BY <1>2, <1>10
<1> HIDE DEF k
<1> DEFINE p == [i \in 0..n |-> k[1..i]]
<1>12. p[0] = base
  <2>1. 1..0 = {} /\ 1..0 \in SUBSET D
    OBVIOUS
  <2>2. p[0] = k[1..0]
    OBVIOUS
  <2> QED BY <1>11, <2>1, <2>2
<1>13. ASSUME NEW i \in 1..n
       PROVE  p[i] = Closing(p[i - 1], pwork[b][i], channels[b][i])
  <2>1. 1..i \in SUBSET D /\ 1..i # {} /\ (1..i) \ {i} = 1..(i - 1)
    BY InitialPart
  <2>2. (CHOOSE x \in 1..i : \A y \in 1..i : x >= y) = i
    BY <2>1, LargestPicks DEF Largest
  <2>3. k[1..i] = Closing(k[1..(i - 1)], pwork[b][i], channels[b][i])
    BY <1>2, <1>11, <2>1, <2>2
  <2>4. i \in 0..n /\ i - 1 \in 0..n
    OBVIOUS
  <2>5. \A j \in 0..n : p[j] = k[1..j]
    OBVIOUS
  <2> HIDE DEF p
  <2> QED BY <2>3, <2>4, <2>5
<1>14. \A i \in 0..n : p[i] \in LooseWork
  <2> DEFINE G == {i \in 0..n : p[i] \in LooseWork}
  <2> HIDE DEF p
  <2>1. 0 \in G
    BY <1>4, <1>12
  <2>2. ASSUME NEW i \in 1..n, i - 1 \in G PROVE i \in G
    BY <1>3, <1>13, <2>2
  <2>3. 0..n \subseteq G
    <3> HIDE DEF G
    <3> QED BY <2>1, <2>2, UpTo
  <2> QED BY <2>3
<1>15. p \in [0..n -> LooseWork] /\ CloseAll(b) = p[n]
  <2>1. p[n] = k[1..n]
    OBVIOUS
  <2>2. p = [i \in 0..n |-> p[i]]
    OBVIOUS
  <2> HIDE DEF p
  <2> QED BY <1>1, <1>2, <1>14, <2>1, <2>2
<1> HIDE DEF p
<1> QED BY <1>12, <1>13, <1>15 DEF base

-----------------------------------------------------------------------------
(* The Simulink binding: pointers *)

\* The pointers of the blocks B are to elements of their channels, each of its own.
Owned(l, pw, chs, B) ==
    \A b \in B : \A i \in DOMAIN chs[b] :
        pw[b][i] # NULL => /\ l[pw[b][i]] = chs[b][i]
                           /\ \A d \in B : \A j \in DOMAIN chs[d] :
                                  pw[d][j] = pw[b][i] => d = b /\ j = i

\* Every element is that of a pointer of B.
Kept(l, pw, chs, B) ==
    \A e \in Element : l[e] # NULL => \E b \in B : \E i \in DOMAIN chs[b] : pw[b][i] = e

SimulinkShape ==
    /\ channels \in [Block -> Inputs]
    /\ pwork \in [Block -> Seq(Element \cup {NULL})]
    /\ \A b \in Block : Len(pwork[b]) = Len(channels[b])
    /\ phase \in {"stopped", "starting", "running", "ending"}
    /\ called \subseteq Block /\ error \in BOOLEAN /\ resets \in Nat

SimulinkInv ==
    /\ SimulinkShape
    /\ Uses(g, list)
    /\ Owned(list, pwork, channels, Held)
    /\ phase = "starting" =>
          \A b \in Block \ called : \A i \in DOMAIN channels[b] : pwork[b][i] = NULL
    /\ resets = 0 => Kept(list, pwork, channels, Held)

\* A vector of channels and the pointers of a block are functions on its indices.
LEMMA BlockShape ==
    ASSUME SimulinkShape, NEW b \in Block
    PROVE  \E n \in Nat : /\ DOMAIN channels[b] = 1..n
                          /\ channels[b] \in [1..n -> Channel]
                          /\ pwork[b] \in [1..n -> Pointer] /\ Len(pwork[b]) = n
<1> DEFINE n == Len(channels[b])
<1>1. channels[b] \in Seq(Channel)
  BY InputsAssumption DEF SimulinkShape
<1>2. n \in Nat /\ channels[b] \in [1..n -> Channel] /\ DOMAIN channels[b] = 1..n
  BY <1>1
<1>3. pwork[b] \in Seq(Pointer) /\ Len(pwork[b]) = n
  BY DEF SimulinkShape, Pointer
<1>4. pwork[b] \in [1..n -> Pointer]
  BY <1>2, <1>3
<1> QED BY <1>2, <1>3, <1>4

\* w is what the lists l have become when the first i channels of cs are opened.
Done(w, i, l, cs) ==
    /\ w.pointers \in [1..i -> Pointer]
    /\ \A j \in 1..i : w.pointers[j] # NULL =>
          /\ l[w.pointers[j]] = NULL
          /\ w.list[w.pointers[j]] = cs[j]
          /\ \A k \in 1..i : w.pointers[k] = w.pointers[j] => k = j
    /\ \A e \in Element : l[e] # NULL => w.list[e] = l[e]
    /\ \A e \in Element : w.list[e] # NULL /\ l[e] = NULL =>
          \E j \in 1..i : w.pointers[j] = e

LEMMA DoneStep ==
    ASSUME NEW n \in Nat, NEW cs \in [1..n -> Channel], NEW l \in Lists, NEW i \in 1..n,
           NEW w \in Working, Done(w, i - 1, l, cs),
           NEW v, NEW e, IsOpened(w, v, cs[i], e)
    PROVE  Done(v, i, l, cs)
<1> DEFINE p == w.pointers
           q == v.pointers
<1>1. i - 1 \in Nat /\ p \in [1..(i - 1) -> Pointer] /\ p \in Seq(Pointer) /\ Len(p) = i - 1
  <2>1. i - 1 \in Nat /\ p \in [1..(i - 1) -> Pointer] /\ p \in Seq(Pointer)
    BY DEF Done, Working, Work
  <2>2. DOMAIN p = 1..(i - 1) /\ DOMAIN p = 1..Len(p) /\ Len(p) \in Nat
    BY <2>1
  <2> QED BY <2>1, <2>2
<1>2. /\ q \in [1..i -> Pointer] /\ q[i] = e
      /\ \A j \in 1..i : j # i => q[j] = p[j] /\ j \in 1..(i - 1)
  <2>1. q = Append(p, e) /\ e \in Pointer
    BY DEF IsOpened
  <2>2. q \in Seq(Pointer) /\ Len(q) = i
    BY <1>1, <2>1
  <2>3. q[i] = e
    BY <1>1, <2>1
  <2>4. \A j \in 1..i : j # i => q[j] = p[j] /\ j \in 1..(i - 1)
    BY <1>1, <2>1
  <2>5. q \in [1..i -> Pointer]
    BY <2>2
  <2> QED BY <2>3, <2>4, <2>5
<1>3. \A j \in 1..(i - 1) : j \in 1..i /\ j # i /\ cs[j] \in Channel /\ cs[j] # NULL
  BY BindingChannelAssumption
<1>4. cs[i] \in Channel /\ cs[i] # NULL
  BY BindingChannelAssumption
<1>5. w.list \in Lists
  BY DEF Working, Work
<1> HIDE DEF p, q
<1>6. CASE e = NULL
  <2>1. v.list = w.list
    BY <1>6 DEF IsOpened
  <2>2. ASSUME NEW j \in 1..i, q[j] # NULL
        PROVE  /\ l[q[j]] = NULL /\ v.list[q[j]] = cs[j]
               /\ \A k \in 1..i : q[k] = q[j] => k = j
    <3>1. j # i /\ j \in 1..(i - 1) /\ q[j] = p[j]
      BY <1>2, <1>6, <2>2
    <3>2. ASSUME NEW k \in 1..i, q[k] = q[j] PROVE k = j
      <4>1. k # i /\ k \in 1..(i - 1) /\ q[k] = p[k]
        BY <1>2, <1>6, <2>2, <3>2
      <4> QED BY <2>2, <3>1, <3>2, <4>1 DEF Done, p
    <3> QED BY <2>1, <2>2, <3>1, <3>2 DEF Done, p
  <2>3. ASSUME NEW x \in Element, v.list[x] # NULL, l[x] = NULL
        PROVE  \E j \in 1..i : q[j] = x
    <3>1. PICK j \in 1..(i - 1) : p[j] = x
      BY <2>1, <2>3 DEF Done, p
    <3> QED BY <1>2, <1>3, <3>1
  <2>4. \A x \in Element : l[x] # NULL => v.list[x] = l[x]
    BY <2>1 DEF Done
  <2> QED BY <1>2, <2>2, <2>3, <2>4 DEF Done, q
<1>7. CASE e # NULL
  <2>1. e \in Element /\ w.list[e] = NULL /\ v.list = [w.list EXCEPT ![e] = cs[i]]
    BY <1>7 DEF IsOpened, Inserted
  <2>2. l[e] = NULL
    BY <2>1 DEF Done
  <2>3. \A j \in 1..(i - 1) : p[j] # e
    BY <1>3, <1>7, <2>1 DEF Done, p
  <2>4. v.list[e] = cs[i] /\ \A x \in Element : x # e => v.list[x] = w.list[x]
    BY <1>5, <2>1 DEF Lists
  <2>5. ASSUME NEW j \in 1..i, q[j] # NULL
        PROVE  /\ l[q[j]] = NULL /\ v.list[q[j]] = cs[j]
               /\ \A k \in 1..i : q[k] = q[j] => k = j
    <3>1. CASE j = i
      <4>1. \A k \in 1..i : q[k] = q[j] => k = j
        BY <1>2, <2>3, <3>1
      <4> QED BY <1>2, <2>2, <2>4, <3>1, <4>1
    <3>2. CASE j # i
      <4>1. j \in 1..(i - 1) /\ q[j] = p[j] /\ p[j] # e /\ p[j] \in Element
        BY <1>1, <1>2, <2>3, <2>5, <3>2 DEF Pointer
      <4>2. \A k \in 1..i : q[k] = q[j] => k \in 1..(i - 1) /\ q[k] = p[k]
        BY <1>2, <4>1
      <4>3. /\ l[p[j]] = NULL /\ w.list[p[j]] = cs[j]
            /\ \A k \in 1..(i - 1) : p[k] = p[j] => k = j
        BY <2>5, <4>1 DEF Done, p
      <4>4. \A k \in 1..i : q[k] = q[j] => k = j
        BY <4>1, <4>2, <4>3
      <4> QED BY <2>4, <4>1, <4>3, <4>4
    <3> QED BY <3>1, <3>2
  <2>6. ASSUME NEW x \in Element, v.list[x] # NULL, l[x] = NULL
        PROVE  \E j \in 1..i : q[j] = x
    <3>1. CASE x = e
      BY <1>2, <3>1
    <3>2. CASE x # e
      <4>1. PICK j \in 1..(i - 1) : p[j] = x
        BY <2>4, <2>6, <3>2 DEF Done, p
      <4> QED BY <1>2, <1>3, <4>1
    <3> QED BY <3>1, <3>2
  <2>7. ASSUME NEW x \in Element, l[x] # NULL PROVE v.list[x] = l[x]
    <3>1. x # e /\ w.list[x] = l[x]
      BY <2>2, <2>7 DEF Done
    <3> QED BY <2>4, <3>1
  <2> QED BY <1>2, <2>5, <2>6, <2>7 DEF Done, q
<1> QED BY <1>6, <1>7

\* What mdlInitializeConditions of a block does to the lists.
LEMMA BlockOpened ==
    ASSUME Struct # {}, NEW b, NEW n \in Nat, channels[b] \in [1..n -> Channel],
           Uses(g, list), NEW ok \in [1..n -> BOOLEAN], NEW w, w = OpenAll(b, ok)
    PROVE  w \in Working /\ Done(w, n, list, channels[b])
<1>1. PICK p : /\ p \in [0..n -> Working] /\ p[0] = AtFirst
               /\ \A i \in 1..n :
                     p[i] = moberg4simulink_open(p[i - 1], channels[b][i], ok[i])
               /\ OpenAll(b, ok) = p[n]
  BY OpensFolded
<1> DEFINE G == {i \in 0..n : Done(p[i], i, list, channels[b])}
<1>2. 0 \in G
  <2>1. p[0].list = list /\ p[0].pointers = << >>
    BY <1>1 DEF AtFirst
  <2>2. << >> \in [1..0 -> Pointer] /\ 1..0 = {}
    OBVIOUS
  <2>3. Done(p[0], 0, list, channels[b])
    BY <2>1, <2>2 DEF Done
  <2> QED BY <2>3
<1>3. ASSUME NEW i \in 1..n, i - 1 \in G PROVE i \in G
  <2>1. p[i - 1] \in Working /\ Done(p[i - 1], i - 1, list, channels[b]) /\ i \in 0..n
    BY <1>1, <1>3
  <2>2. channels[b][i] \in Channel /\ ok[i] \in BOOLEAN /\ list \in Lists
    BY DEF Uses, Lists
  <2>3. PICK e : IsOpened(p[i - 1], moberg4simulink_open(p[i - 1], channels[b][i], ok[i]),
                          channels[b][i], e)
    BY <2>1, <2>2, OpenKeeps
  <2>4. IsOpened(p[i - 1], p[i], channels[b][i], e)
    BY <1>1, <2>3
  <2>5. Done(p[i], i, list, channels[b])
    BY <2>1, <2>2, <2>4, DoneStep
  <2> QED BY <2>1, <2>5
<1>4. n \in G
  <2>1. n \in 0..n
    OBVIOUS
  <2> HIDE DEF G
  <2> QED BY <1>2, <1>3, <2>1, UpTo
<1> QED BY <1>1, <1>4

\* w is what the lists l have become when the elements at the first i of the
\* pointers q are closed.
Closed(w, i, l, q) ==
    /\ Uses(w.g, w.list)
    /\ \A e \in Element : w.list[e] = IF \E j \in 1..i : q[j] = e THEN NULL ELSE l[e]

LEMMA BlockClosed ==
    ASSUME SimulinkShape, Uses(g, list), NEW B, Owned(list, pwork, channels, B),
           NEW b \in Block, b \in B,
           NEW n \in Nat, channels[b] \in [1..n -> Channel], pwork[b] \in [1..n -> Pointer],
           NEW w, w = CloseAll(b)
    PROVE  Closed(w, n, list, pwork[b])
<1> DEFINE q == pwork[b]
           cs == channels[b]
<1>0. \A i \in 1..n : q[i] # NULL =>
          q[i] \in Element /\ list[q[i]] = cs[i] /\ \A j \in 1..n : q[j] = q[i] => j = i
  <2>1. b \in B /\ DOMAIN channels[b] = 1..n
    OBVIOUS
  <2> QED BY <2>1 DEF Owned, Pointer
<1>1. PICK p : /\ p \in [0..n -> LooseWork] /\ p[0] = AtFirst
               /\ \A i \in 1..n : p[i] = Closing(p[i - 1], q[i], cs[i])
               /\ CloseAll(b) = p[n]
  BY ClosesFolded
<1>9. cs \in [1..n -> Channel]
  OBVIOUS
<1> HIDE DEF q, cs
<1> DEFINE G == {i \in 0..n : Closed(p[i], i, list, q)}
<1>2. 0 \in G
  <2>1. p[0].list = list /\ p[0].g = g
    BY <1>1 DEF AtFirst
  <2>2. 1..0 = {}
    OBVIOUS
  <2> QED BY <2>1, <2>2 DEF Closed
<1>3. ASSUME NEW i \in 1..n, i - 1 \in G PROVE i \in G
  <2> DEFINE u == p[i - 1]
             v == p[i]
  <2>1. u \in LooseWork /\ Closed(u, i - 1, list, q) /\ v = Closing(u, q[i], cs[i]) /\ i \in 0..n
    BY <1>1, <1>3
  <2>2. \A j : j \in 1..i <=> j = i \/ j \in 1..(i - 1)
    OBVIOUS
  <2>3. \A j \in 1..(i - 1) : j # i /\ j \in 1..n
    OBVIOUS
  <2> HIDE DEF u, v
  <2>4. CASE q[i] = NULL
    <3>1. v = u
      BY <2>1, <2>4 DEF Closing
    <3>2. \A e \in Element : q[i] # e
      BY <2>4, ElementAssumption
    <3>3. Closed(v, i, list, q)
      BY <2>1, <2>2, <3>1, <3>2 DEF Closed
    <3> QED BY <2>1, <3>3 DEF v
  <2>5. CASE q[i] # NULL
    <3> DEFINE e == q[i]
    <3>1. /\ e \in Element /\ list[e] = cs[i]
          /\ \A j \in 1..n : q[j] = e => j = i
      BY <1>0, <2>5
    <3>2. \A j \in 1..(i - 1) : q[j] # e
      BY <2>3, <3>1
    <3>3. u.list[e] = cs[i]
      BY <2>1, <3>1, <3>2 DEF Closed
    <3>4. v = moberg4simulink_close(u, e, cs[i])
      BY <2>1, <2>5 DEF Closing
    <3>5. cs[i] \in Channel /\ Uses(u.g, u.list)
      BY <1>9, <2>1 DEF Closed
    <3> HIDE DEF e
    <3>6. v.list = [u.list EXCEPT ![e] = NULL] /\ Uses(v.g, v.list)
      BY <2>1, <3>1, <3>3, <3>4, <3>5, CloseKeeps
    <3>7. u.list \in Lists
      BY <2>1 DEF LooseWork
    <3>8. ASSUME NEW x \in Element
          PROVE  v.list[x] = IF \E j \in 1..i : q[j] = x THEN NULL ELSE list[x]
      <4>1. CASE x = e
        <5>1. v.list[x] = NULL
          BY <3>1, <3>6, <3>7, <4>1 DEF Lists
        <5>2. q[i] = x /\ i \in 1..i
          BY <2>2, <4>1 DEF e
        <5> QED BY <5>1, <5>2
      <4>2. CASE x # e
        <5>1. v.list[x] = u.list[x]
          BY <3>6, <3>7, <4>2 DEF Lists
        <5>2. q[i] # x
          BY <4>2 DEF e
        <5> QED BY <2>1, <2>2, <5>1, <5>2 DEF Closed
      <4> QED BY <4>1, <4>2
    <3>9. Closed(v, i, list, q)
      BY <3>6, <3>8 DEF Closed
    <3> QED BY <2>1, <3>9 DEF v
  <2> QED BY <2>4, <2>5
<1>4. n \in G
  <2>1. n \in 0..n
    OBVIOUS
  <2> HIDE DEF G
  <2> QED BY <1>2, <1>3, <2>1, UpTo
<1> QED BY <1>1, <1>4 DEF q

-----------------------------------------------------------------------------
(* The Simulink binding: its steps *)

LEMMA SimulinkStart == SimulinkInit => SimulinkInv
<1> SUFFICES ASSUME SimulinkInit PROVE SimulinkInv
  OBVIOUS
<1>1. /\ channels \in [Block -> Inputs] /\ pwork = NoPointers(channels)
      /\ g = EmptyGlobal /\ list = [e \in Element |-> NULL]
      /\ phase = "stopped" /\ called = {} /\ error = FALSE /\ resets = 0
  BY DEF SimulinkInit
<1>2. SimulinkShape
  <2>1. ASSUME NEW b \in Block
        PROVE  pwork[b] \in Seq(Element \cup {NULL}) /\ Len(pwork[b]) = Len(channels[b])
    <3>1. channels[b] \in Seq(Channel)
      BY <1>1, InputsAssumption
    <3>2. pwork[b] = [i \in DOMAIN channels[b] |-> NULL]
      BY <1>1 DEF NoPointers
    <3>3. DOMAIN channels[b] = 1..Len(channels[b]) /\ Len(channels[b]) \in Nat
      BY <3>1
    <3> QED BY <3>2, <3>3
  <2>2. pwork \in [Block -> Seq(Element \cup {NULL})]
    BY <1>1, <2>1 DEF NoPointers
  <2> QED BY <1>1, <2>1, <2>2 DEF SimulinkShape
<1>3. Uses(g, list)
  <2>1. /\ g \in Global /\ g.count = 0 /\ Alive(g.structs) = {}
    BY <1>1 DEF EmptyGlobal, Global, NoMoberg, Moberg, Alive
  <2>2. ElementsOf(list) = {} /\ \A c \in Channel : With(list, c) = {}
    BY <1>1, BindingChannelAssumption DEF ElementsOf, With
  <2>3. Cardinality(ElementsOf(list)) = 0 /\ IsFiniteSet(ElementsOf(list))
    BY <2>2, FS_EmptySet
  <2>4. \A c \in Channel : OpensOf(list)[c] = 0
    BY <2>2, FS_EmptySet DEF OpensOf
  <2>5. OpensOf(list) \in [Channel -> Int]
    BY <2>4 DEF OpensOf
  <2>6. Serves(g, 0, OpensOf(list))
    BY <2>1, <2>4, <2>5 DEF Serves
  <2> QED BY <1>1, <2>3, <2>6 DEF Uses
<1>4. Held = {}
  BY <1>1 DEF Held
<1> QED BY <1>1, <1>2, <1>3, <1>4 DEF SimulinkInv, Owned, Kept

\* The initial conditions of a block are set.
LEMMA ConditionsKeep ==
    ASSUME Struct # {}, SimulinkInv, phase \in {"starting", "running"},
           NEW b \in Block, mdlInitializeConditions(b),
           UNCHANGED <<channels, phase>>,
           called' \in {called, called \cup {b}}, phase = "starting" => called' = called \cup {b},
           resets' \in Nat,
           resets' = 0 => resets = 0 /\ phase = "starting" /\ b \notin called
    PROVE  SimulinkInv'
<1>1. PICK n \in Nat : /\ DOMAIN channels[b] = 1..n /\ channels[b] \in [1..n -> Channel]
                       /\ pwork[b] \in [1..n -> Pointer] /\ Len(pwork[b]) = n
  BY BlockShape DEF SimulinkInv
<1>2. PICK ok \in [1..n -> BOOLEAN] :
         LET w == OpenAll(b, ok)
         IN  /\ g' = w.g /\ list' = w.list
             /\ pwork' = [pwork EXCEPT ![b] = w.pointers]
             /\ error' = (error \/ \E i \in DOMAIN ok : w.pointers[i] = NULL)
  BY <1>1 DEF mdlInitializeConditions
<1> DEFINE w == OpenAll(b, ok)
           q == w.pointers
<1>3. w \in Working /\ Done(w, n, list, channels[b])
  BY <1>1, BlockOpened DEF SimulinkInv
<1>4. /\ g' = w.g /\ list' = w.list /\ pwork' = [pwork EXCEPT ![b] = q]
      /\ error' \in BOOLEAN
  BY <1>2
<1> HIDE DEF w
<1>5. Uses(g', list')
  BY <1>3, <1>4 DEF Working
<1>6. q \in Seq(Pointer) /\ q \in [1..n -> Pointer] /\ Len(q) = n
  <2>1. q \in Seq(Pointer) /\ q \in [1..n -> Pointer]
    BY <1>3 DEF Done, Working, Work
  <2>2. DOMAIN q = 1..n /\ DOMAIN q = 1..Len(q) /\ Len(q) \in Nat
    BY <2>1
  <2> QED BY <2>1, <2>2
<1>7. pwork' \in [Block -> Seq(Element \cup {NULL})] /\ pwork'[b] = q
      /\ \A d \in Block : d # b => pwork'[d] = pwork[d]
  BY <1>4, <1>6 DEF SimulinkInv, SimulinkShape, Pointer
<1>8. SimulinkShape'
  <2>1. \A d \in Block : Len(pwork'[d]) = Len(channels[d])
    <3>1. Len(pwork[b]) = Len(channels[b])
      BY DEF SimulinkInv, SimulinkShape
    <3> QED BY <1>1, <1>6, <1>7, <3>1 DEF SimulinkInv, SimulinkShape
  <2> QED BY <1>4, <1>7, <2>1 DEF SimulinkInv, SimulinkShape
<1>9. Held = Block /\ Held' = Block
  BY DEF Held
<1>10. /\ Owned(list, pwork, channels, Block)
       /\ resets = 0 => Kept(list, pwork, channels, Block)
  BY <1>9 DEF SimulinkInv
<1>11. \A d \in Block : \A i \in DOMAIN channels[d] :
          channels[d][i] # NULL /\ (pwork[d][i] # NULL => pwork[d][i] \in Element)
  <2> SUFFICES ASSUME NEW d \in Block, NEW i \in DOMAIN channels[d]
               PROVE  channels[d][i] # NULL /\ (pwork[d][i] # NULL => pwork[d][i] \in Element)
    OBVIOUS
  <2>1. PICK m \in Nat : /\ DOMAIN channels[d] = 1..m /\ channels[d] \in [1..m -> Channel]
                         /\ pwork[d] \in [1..m -> Pointer]
    BY BlockShape DEF SimulinkInv
  <2>2. i \in 1..m
    BY <2>1
  <2>3. channels[d][i] \in Channel /\ pwork[d][i] \in Pointer
    BY <2>1, <2>2
  <2> QED BY <2>3, BindingChannelAssumption DEF Pointer
\* A pointer of another block is to what it was.
<1>12. ASSUME NEW d \in Block, d # b, NEW i \in DOMAIN channels[d], pwork[d][i] # NULL
       PROVE  /\ list[pwork[d][i]] = channels[d][i] /\ w.list[pwork[d][i]] = channels[d][i]
              /\ \A j \in 1..n : q[j] # pwork[d][i]
  <2>1. list[pwork[d][i]] = channels[d][i] /\ channels[d][i] # NULL /\ pwork[d][i] \in Element
    BY <1>10, <1>11, <1>12 DEF Owned
  <2> QED BY <1>3, <1>12, <2>1 DEF Done
<1>13. Owned(list', pwork', channels, Block)
  <2> SUFFICES ASSUME NEW d \in Block, NEW i \in DOMAIN channels[d], pwork'[d][i] # NULL
               PROVE  /\ w.list[pwork'[d][i]] = channels[d][i]
                      /\ \A x \in Block : \A j \in DOMAIN channels[x] :
                            pwork'[x][j] = pwork'[d][i] => x = d /\ j = i
    BY <1>4 DEF Owned
  <2>1. CASE d = b
    <3>1. w.list[q[i]] = channels[b][i] /\ \A j \in 1..n : q[j] = q[i] => j = i
      BY <1>1, <1>3, <1>7, <2>1 DEF Done
    <3>2. ASSUME NEW x \in Block, NEW j \in DOMAIN channels[x], pwork'[x][j] = q[i]
          PROVE  x = b /\ j = i
      <4>1. x = b
        BY <1>1, <1>7, <1>12, <2>1, <3>2
      <4> QED BY <1>1, <1>7, <3>1, <3>2, <4>1
    <3> QED BY <1>7, <2>1, <3>1, <3>2
  <2>2. CASE d # b
    <3>1. pwork'[d][i] = pwork[d][i] /\ pwork[d][i] # NULL
      BY <1>7, <2>2
    <3>2. ASSUME NEW x \in Block, NEW j \in DOMAIN channels[x], pwork'[x][j] = pwork[d][i]
          PROVE  x = d /\ j = i
      <4>1. x # b
        BY <1>1, <1>7, <1>12, <2>2, <3>1, <3>2
      <4> QED BY <1>7, <1>10, <3>1, <3>2, <4>1 DEF Owned
    <3> QED BY <1>12, <2>2, <3>1, <3>2
  <2> QED BY <2>1, <2>2
<1>14. ASSUME resets' = 0 PROVE Kept(list', pwork', channels, Block)
  <2>1. /\ Kept(list, pwork, channels, Block)
        /\ \A i \in DOMAIN channels[b] : pwork[b][i] = NULL
    BY <1>10, <1>14 DEF SimulinkInv
  <2>2. ASSUME NEW e \in Element, w.list[e] # NULL
        PROVE  \E d \in Block : \E i \in DOMAIN channels[d] : pwork'[d][i] = e
    <3>1. CASE list[e] = NULL
      <4>1. PICK j \in 1..n : q[j] = e
        BY <1>3, <2>2, <3>1 DEF Done
      <4> QED BY <1>1, <1>7, <4>1
    <3>2. CASE list[e] # NULL
      <4>1. PICK d \in Block : \E i \in DOMAIN channels[d] : pwork[d][i] = e
        BY <2>1, <3>2 DEF Kept
      <4>2. d # b
        BY <2>1, <4>1, ElementAssumption
      <4> QED BY <1>7, <4>1, <4>2
    <3> QED BY <3>1, <3>2
  <2> QED BY <1>4, <2>2 DEF Kept
<1>15. phase = "starting" =>
          \A d \in Block \ called' : \A i \in DOMAIN channels[d] : pwork'[d][i] = NULL
  <2> SUFFICES ASSUME phase = "starting", NEW d \in Block \ called', NEW i \in DOMAIN channels[d]
               PROVE  pwork'[d][i] = NULL
    OBVIOUS
  <2>1. called' = called \cup {b}
    OBVIOUS
  <2>2. d # b /\ d \notin called
    BY <2>1
  <2> QED BY <1>7, <2>2 DEF SimulinkInv
<1> QED BY <1>5, <1>8, <1>9, <1>13, <1>14, <1>15 DEF SimulinkInv

\* A block is terminated.
LEMMA TerminateKeeps ==
    ASSUME SimulinkInv, NEW b \in Block, mdlTerminate(b)
    PROVE  SimulinkInv'
<1> DEFINE w == CloseAll(b)
           q == pwork[b]
<1>1. PICK n \in Nat : /\ DOMAIN channels[b] = 1..n /\ channels[b] \in [1..n -> Channel]
                       /\ pwork[b] \in [1..n -> Pointer]
  BY BlockShape DEF SimulinkInv
<1>2. /\ phase = "ending" /\ b \notin called /\ called' = called \cup {b}
      /\ g' = w.g /\ list' = w.list
      /\ channels' = channels /\ pwork' = pwork /\ phase' = phase
      /\ error' = error /\ resets' = resets
  BY DEF mdlTerminate, engine
<1>3. Held = Block \ called /\ Held' = Held \ {b} /\ b \in Held
  BY <1>2 DEF Held
<1>4. Closed(w, n, list, q)
  BY <1>1, <1>3, BlockClosed DEF SimulinkInv
<1> HIDE DEF w
<1>5. Uses(g', list')
  BY <1>2, <1>4 DEF Closed
<1>6. SimulinkShape'
  BY <1>2 DEF SimulinkInv, SimulinkShape
<1>7. Owned(list, pwork, channels, Held) /\ (resets = 0 => Kept(list, pwork, channels, Held))
  BY DEF SimulinkInv
<1>8. \A e \in Element : list'[e] = IF \E j \in 1..n : q[j] = e THEN NULL ELSE list[e]
  BY <1>2, <1>4 DEF Closed
<1>9. \A d \in Block : \A i \in DOMAIN channels[d] : pwork[d][i] # NULL => pwork[d][i] \in Element
  <2> SUFFICES ASSUME NEW d \in Block, NEW i \in DOMAIN channels[d]
               PROVE  pwork[d][i] # NULL => pwork[d][i] \in Element
    OBVIOUS
  <2>1. PICK m \in Nat : DOMAIN channels[d] = 1..m /\ pwork[d] \in [1..m -> Pointer]
    BY BlockShape DEF SimulinkInv
  <2>2. i \in 1..m
    BY <2>1
  <2> QED BY <2>1, <2>2 DEF Pointer
<1>10. Owned(list', pwork, channels, Held \ {b})
  <2> SUFFICES ASSUME NEW d \in Held \ {b}, NEW i \in DOMAIN channels[d], pwork[d][i] # NULL
               PROVE  /\ list'[pwork[d][i]] = channels[d][i]
                      /\ \A x \in Held \ {b} : \A j \in DOMAIN channels[x] :
                            pwork[x][j] = pwork[d][i] => x = d /\ j = i
    BY DEF Owned
  <2>1. /\ list[pwork[d][i]] = channels[d][i]
        /\ \A x \in Held : \A j \in DOMAIN channels[x] :
              pwork[x][j] = pwork[d][i] => x = d /\ j = i
    BY <1>7 DEF Owned
  <2>2. \A j \in 1..n : q[j] # pwork[d][i]
    BY <1>1, <1>3, <2>1
  <2>3. pwork[d][i] \in Element
    BY <1>3, <1>9
  <2> QED BY <1>8, <2>1, <2>2, <2>3
<1>11. ASSUME resets = 0 PROVE Kept(list', pwork, channels, Held \ {b})
  <2> SUFFICES ASSUME NEW e \in Element, list'[e] # NULL
               PROVE  \E d \in Held \ {b} : \E i \in DOMAIN channels[d] : pwork[d][i] = e
    BY DEF Kept
  <2>1. list[e] # NULL /\ \A j \in 1..n : q[j] # e
    BY <1>8
  <2>2. PICK d \in Held : \E i \in DOMAIN channels[d] : pwork[d][i] = e
    BY <1>7, <1>11, <2>1 DEF Kept
  <2>3. d # b
    BY <1>1, <2>1, <2>2
  <2> QED BY <2>2, <2>3
<1> QED BY <1>2, <1>3, <1>5, <1>6, <1>10, <1>11 DEF SimulinkInv

\* A simulation starts with new work vectors; what the last one has left open
\* stays in the lists.
LEMMA StartKeeps ==
    ASSUME SimulinkInv, Start
    PROVE  SimulinkInv'
<1>1. /\ phase = "stopped" /\ phase' = "starting" /\ called' = {} /\ error' = FALSE
      /\ channels' \in [Block -> Inputs] /\ pwork' = NoPointers(channels')
      /\ g' = g /\ list' = list /\ resets' = resets
  BY DEF Start
<1>2. Held = {} /\ Held' = Block
  BY <1>1 DEF Held
<1>3. \A b \in Block : \A i \in DOMAIN channels'[b] : pwork'[b][i] = NULL
  BY <1>1 DEF NoPointers
<1>4. SimulinkShape'
  <2>1. ASSUME NEW b \in Block
        PROVE  pwork'[b] \in Seq(Element \cup {NULL}) /\ Len(pwork'[b]) = Len(channels'[b])
    <3>1. channels'[b] \in Seq(Channel)
      BY <1>1, InputsAssumption
    <3>2. pwork'[b] = [i \in DOMAIN channels'[b] |-> NULL]
      BY <1>1 DEF NoPointers
    <3>3. DOMAIN channels'[b] = 1..Len(channels'[b]) /\ Len(channels'[b]) \in Nat
      BY <3>1
    <3> QED BY <3>2, <3>3
  <2>2. pwork' \in [Block -> Seq(Element \cup {NULL})]
    BY <1>1, <2>1 DEF NoPointers
  <2>3. resets' \in Nat /\ called' \subseteq Block /\ error' \in BOOLEAN
    BY <1>1 DEF SimulinkInv, SimulinkShape
  <2> QED BY <1>1, <2>1, <2>2, <2>3 DEF SimulinkShape
<1>5. Owned(list', pwork', channels', Held')
  BY <1>2, <1>3 DEF Owned
<1>6. resets' = 0 => Kept(list', pwork', channels', Held')
  <2>1. resets = 0 => \A e \in Element : list[e] = NULL
    BY <1>2 DEF SimulinkInv, Kept
  <2> QED BY <1>1, <2>1 DEF Kept
<1>7. Uses(g', list')
  BY <1>1 DEF SimulinkInv
<1> QED BY <1>1, <1>3, <1>4, <1>5, <1>6, <1>7 DEF SimulinkInv

LEMMA SimulinkStep ==
    ASSUME Struct # {}, SimulinkInv, [SimulinkNext]_simulinkVars
    PROVE  SimulinkInv'
\* Steps that leave the lists and the pointers alone.
<1>1. ASSUME UNCHANGED <<g, list, channels, pwork, resets>>, error' \in BOOLEAN,
             called' \subseteq Block, phase' \in {"stopped", "starting", "running", "ending"},
             Held' = Held, phase' = "starting" => phase = "starting" /\ called' = called
      PROVE  SimulinkInv'
  <2>1. SimulinkShape'
    BY <1>1 DEF SimulinkInv, SimulinkShape
  <2> QED BY <1>1, <2>1 DEF SimulinkInv
<1>2. CASE Start
  BY <1>2, StartKeeps
<1>3. called \subseteq Block /\ error \in BOOLEAN
      /\ phase \in {"stopped", "starting", "running", "ending"} /\ resets \in Nat
  BY DEF SimulinkInv, SimulinkShape
<1>4. CASE Run
  <2>1. Held' = Held
    BY <1>4 DEF Run, Held
  <2> QED BY <1>1, <1>3, <1>4, <2>1 DEF Run
<1>5. CASE End
  <2>1. Held' = Held
    BY <1>5 DEF End, Held
  <2> QED BY <1>1, <1>3, <1>5, <2>1 DEF End
<1>6. CASE Stop
  <2>1. Held' = Held
    BY <1>6 DEF Stop, Held
  <2> QED BY <1>1, <1>3, <1>6, <2>1 DEF Stop
<1>7. ASSUME NEW b \in Block, Initialize(b) PROVE SimulinkInv'
  <2>1. /\ phase = "starting" /\ b \notin called /\ mdlInitializeConditions(b)
        /\ called' = called \cup {b} /\ resets' = resets
        /\ UNCHANGED <<channels, phase>>
    BY <1>7 DEF Initialize, engine
  <2> QED BY <1>3, <2>1, ConditionsKeep
<1>8. ASSUME NEW b \in Block, InitializeAgain(b) PROVE SimulinkInv'
  <2>1. /\ phase = "running" /\ mdlInitializeConditions(b)
        /\ called' = called /\ resets' = resets + 1
        /\ UNCHANGED <<channels, phase>>
    BY <1>8 DEF InitializeAgain, engine
  <2>2. resets' \in Nat /\ resets' # 0
    BY <1>3, <2>1
  <2> QED BY <2>1, <2>2, ConditionsKeep
<1>9. ASSUME NEW b \in Block, mdlOutputs(b) PROVE SimulinkInv'
  <2>1. Held' = Held
    BY <1>9 DEF mdlOutputs, engine, Held
  <2> QED BY <1>1, <1>3, <1>9, <2>1 DEF mdlOutputs, engine
<1>10. ASSUME NEW b \in Block, mdlTerminate(b) PROVE SimulinkInv'
  BY <1>10, TerminateKeeps
<1>11. CASE UNCHANGED simulinkVars
  <2>1. Held' = Held
    BY <1>11 DEF simulinkVars, Held
  <2> QED BY <1>1, <1>3, <1>11, <2>1 DEF simulinkVars
<1> QED
  BY <1>2, <1>4, <1>5, <1>6, <1>7, <1>8, <1>9, <1>10, <1>11 DEF SimulinkNext

LEMMA SimulinkInvariance ==
    ASSUME Struct # {}
    PROVE  SimulinkSpec => []SimulinkInv
<1>1. SimulinkInv /\ [SimulinkNext]_simulinkVars => SimulinkInv'
  BY SimulinkStep
<1> QED BY <1>1, SimulinkStart, PTL DEF SimulinkSpec

\* ElementsAreOpens of the run: whatever opens fail and whatever is left open,
\* the count of g_moberg is the number of elements in the lists, and each of them
\* is one open channel of the only struct.
THEOREM ElementsCorrect ==
    ASSUME Struct # {}
    PROVE  SimulinkSpec => []ElementsAreOpens
<1>1. SimulinkInv => ElementsAreOpens
  <2> SUFFICES ASSUME SimulinkInv PROVE ElementsAreOpens
    OBVIOUS
  <2>1. Elements = ElementsOf(list) /\ \A c \in Channel : {e \in Element : list[e] = c} = With(list, c)
    BY DEF Elements, ElementsOf, With
  <2>2. IsFiniteSet(Elements) /\ Serves(g, Cardinality(Elements), OpensOf(list))
    BY <2>1 DEF SimulinkInv, Uses
  <2>3. Elements = {} <=> Cardinality(Elements) = 0
    BY <2>2, FS_EmptySet
  <2>4. Cardinality(Elements) \in Nat /\ (Cardinality(Elements) # 0 => Cardinality(Elements) > 0)
    BY <2>2 DEF Serves
  <2>5. \A c \in Channel : OpensOf(list)[c] = Cardinality({e \in Element : list[e] = c})
    BY <2>1 DEF OpensOf
  <2> HIDE DEF Elements
  <2> QED BY <2>2, <2>3, <2>4, <2>5 DEF Serves, ElementsAreOpens
<1> QED BY <1>1, SimulinkInvariance, PTL

\* PointersAreOwn of the run: the pointers of all blocks that have to be
\* terminated are different and to elements of their channels, for any blocks
\* and channel vectors.
THEOREM PointersCorrect ==
    ASSUME Struct # {}
    PROVE  SimulinkSpec => []PointersAreOwn
<1>1. SimulinkInv => PointersAreOwn
  <2> SUFFICES ASSUME SimulinkInv, NEW p \in Pointers, pwork[p[1]][p[2]] # NULL
               PROVE  /\ list[pwork[p[1]][p[2]]] = channels[p[1]][p[2]]
                      /\ \A q \in Pointers \ {p} : pwork[q[1]][q[2]] # pwork[p[1]][p[2]]
    BY DEF PointersAreOwn
  <2>1. \A q \in Pointers : /\ q[1] \in Held /\ q[2] \in DOMAIN channels[q[1]]
                            /\ q = <<q[1], q[2]>>
    BY DEF Pointers
  <2>2. Owned(list, pwork, channels, Held)
    BY DEF SimulinkInv
  <2>3. list[pwork[p[1]][p[2]]] = channels[p[1]][p[2]]
    BY <2>1, <2>2 DEF Owned
  <2>4. ASSUME NEW q \in Pointers, pwork[q[1]][q[2]] = pwork[p[1]][p[2]] PROVE q = p
    <3>1. q[1] = p[1] /\ q[2] = p[2]
      BY <2>1, <2>2, <2>4 DEF Owned
    <3> QED BY <2>1, <3>1
  <2> QED BY <2>3, <2>4
<1> QED BY <1>1, SimulinkInvariance, PTL

\* ReleasedWhenStopped of the run: a simulation that has ended, or failed to start,
\* leaves nothing open and no struct, unless initial conditions were set again.
THEOREM ReleaseCorrect ==
    ASSUME Struct # {}
    PROVE  SimulinkSpec => []ReleasedWhenStopped
<1>1. SimulinkInv => ReleasedWhenStopped
  <2> SUFFICES ASSUME SimulinkInv, phase = "stopped", resets = 0
               PROVE  Elements = {} /\ Alive(g.structs) = {}
    BY DEF ReleasedWhenStopped
  <2>1. Held = {}
    BY DEF Held
  <2>2. \A e \in Element : list[e] = NULL
    BY <2>1 DEF SimulinkInv, Kept
  <2>3. ElementsOf(list) = {} /\ Elements = {}
    BY <2>2 DEF ElementsOf, Elements
  <2>4. Cardinality(ElementsOf(list)) = 0
    BY <2>3, FS_EmptySet
  <2>5. Serves(g, 0, OpensOf(list))
    BY <2>4 DEF SimulinkInv, Uses
  <2> QED BY <2>3, <2>5 DEF Serves
<1> QED BY <1>1, SimulinkInvariance, PTL

\* The types of SimulinkMoberg: a block has a pointer to an element, or none, for
\* each of its channels, whatever was opened, failed and was closed.
THEOREM SimulinkTypeCorrect ==
    ASSUME Struct # {}
    PROVE  SimulinkSpec => []SimulinkTypeOK
<1>1. SimulinkInv => SimulinkTypeOK
  <2> SUFFICES ASSUME SimulinkInv PROVE SimulinkTypeOK
    OBVIOUS
  <2>1. ASSUME NEW b \in Block
        PROVE  /\ DOMAIN pwork[b] = DOMAIN channels[b]
               /\ \A i \in DOMAIN pwork[b] : pwork[b][i] \in Element \cup {NULL}
    BY BlockShape DEF SimulinkInv, Pointer
  <2>2. g \in Global /\ list \in [Element -> Channel \cup {NULL}]
    BY DEF SimulinkInv, Uses, Serves, Lists
  <2> QED BY <2>1, <2>2 DEF SimulinkInv, SimulinkShape, SimulinkTypeOK
<1> QED BY <1>1, SimulinkInvariance, PTL
=============================================================================
