---------------------------- MODULE ScriptProofs ----------------------------
(***************************************************************************)
(* A Python or Julia program never calls the library with a struct that is *)
(* gone, and finds every channel it holds open, however many objects it    *)
(* has and in whatever order they go: in Python the counted references see *)
(* to it, in Julia that the library frees a struct after its channels.     *)
(* And no struct or channel stays open that no object needs any more.      *)
(***************************************************************************)
EXTENDS PythonMoberg, JuliaMoberg, FoldProofs

PythonSpec == ScriptInit /\ [][PythonNext]_scriptVars

\* The channel objects that refer to m, and those that were opened on c of s.
HoldersOf(m) == {o \in Object : state[o] = "held" /\ parent[o] = m}
OpenOn(s, c) == {o \in Object : state[o] = "held" /\ pointer[o] = s /\ channel[o] = c}

ScriptTypes ==
    /\ structs \in [Struct -> Moberg] /\ made \in Nat
    /\ state \in [Manager \cup Object -> Lives]
    /\ handle \in [Manager -> Struct \cup {NULL}]
    /\ refcnt \in [Manager -> Int]
    /\ parent \in [Object -> Manager \cup {NULL}]
    /\ pointer \in [Object -> Struct \cup {NULL}]
    /\ channel \in [Object -> Channel]

\* Nothing in Python is closed by hand or finalised later.
NothingByHand == byhand = {} /\ stray = FALSE /\ \A o \in Object : state[o] \notin {"kept", "dropped"}

\* A Moberg object that is there has a struct of its own, which is alive and was
\* not freed.
HandlesAlive ==
    /\ \A m \in Manager : handle[m] # NULL <=> state[m] \in {"held", "kept"}
    /\ \A m \in Manager : handle[m] # NULL =>
          handle[m] <= made /\ structs[handle[m]].alive /\ ~structs[handle[m]].should_free
    /\ \A m, n \in Manager : handle[m] # NULL /\ handle[m] = handle[n] => m = n

\* The reference count is the program's reference and those of the channel objects.
RefsExact ==
    \A m \in Manager :
       /\ refcnt[m] = (IF state[m] = "held" THEN 1 ELSE 0) + Cardinality(HoldersOf(m))
       /\ state[m] = "kept" => HoldersOf(m) # {}
       /\ HoldersOf(m) # {} => state[m] \in {"held", "kept"}

\* A channel object refers to the Moberg object it was made with, and the struct it
\* was opened in is alive; no other Moberg object has that struct.
PointersAlive ==
    \A o \in Object : state[o] = "held" =>
       /\ parent[o] \in Manager /\ pointer[o] \in Struct
       /\ pointer[o] <= made /\ structs[pointer[o]].alive
       /\ \A m \in Manager : handle[m] = pointer[o] => m = parent[o]

\* A struct has a channel open at least once for each object that has.
OpensEnough == \A s \in Struct, c \in Channel : Cardinality(OpenOn(s, c)) <= structs[s].opens[c]

\* NoStrayCall and LiveIsOpen follow from what keeps a struct alive: its Moberg
\* object, which a count keeps, which every channel object is counted in.
PythonInv ==
    /\ ScriptTypes /\ NothingByHand /\ HandlesAlive
    /\ RefsExact /\ PointersAlive /\ OpensEnough

-----------------------------------------------------------------------------
(* The library *)

\* A struct without channels becomes what has none.
LEMMA NoStruct ==
    /\ NoMoberg \in Moberg /\ ~NoMoberg.should_free
    /\ \A c \in Channel : NoMoberg.opens[c] = 0
  BY DEF NoMoberg, Moberg

\* The structs after moberg_new.
LEMMA NewStruct ==
    ASSUME NEW st \in [Struct -> Moberg], NEW s \in Struct
    PROVE  /\ moberg_new(st, s) \in [Struct -> Moberg]
           /\ moberg_new(st, s)[s].alive /\ ~moberg_new(st, s)[s].should_free
           /\ \A c \in Channel : moberg_new(st, s)[s].opens[c] = 0
           /\ \A t \in Struct \ {s} : moberg_new(st, s)[t] = st[t]
<1> DEFINE n == [NoMoberg EXCEPT !.alive = TRUE]
<1>1. /\ n \in Moberg /\ n.alive /\ ~n.should_free /\ \A c \in Channel : n.opens[c] = 0
  BY NoStruct DEF Moberg
<1>2. moberg_new(st, s) = [st EXCEPT ![s] = n]
  BY DEF moberg_new
<1> HIDE DEF n
<1> QED BY <1>1, <1>2

\* moberg_free changes no other struct, and the opens only where it leaves none.
LEMMA FreeStruct ==
    ASSUME NEW st \in [Struct -> Moberg], NEW s \in Struct
    PROVE  /\ moberg_free(st, s) \in [Struct -> Moberg]
           /\ \A t \in Struct \ {s} : moberg_free(st, s)[t] = st[t]
           /\ \/ moberg_free(st, s)[s].opens = st[s].opens
              \/ \A c \in Channel : moberg_free(st, s)[s].opens[c] = 0
<1> DEFINE f == [st[s] EXCEPT !.should_free = TRUE]
<1>1. f \in Moberg /\ f.opens = st[s].opens
  BY DEF Moberg
<1>2. free_if_unused(f) \in {f, NoMoberg}
  BY DEF free_if_unused
<1>3. moberg_free(st, s) = [st EXCEPT ![s] = free_if_unused(f)]
  BY StructAssumption DEF moberg_free
<1> HIDE DEF f
<1> QED BY <1>1, <1>2, <1>3, NoStruct

\* moberg_open.
LEMMA OpenStruct ==
    ASSUME NEW st \in [Struct -> Moberg], NEW s \in Struct, NEW c \in Channel
    PROVE  /\ moberg_open(st, s, c) \in [Struct -> Moberg]
           /\ \A t \in Struct \ {s} : moberg_open(st, s, c)[t] = st[t]
           /\ st[s].alive => moberg_open(st, s, c)[s].alive
           /\ ~st[s].should_free => ~moberg_open(st, s, c)[s].should_free
           /\ moberg_open(st, s, c)[s].opens[c] = st[s].opens[c] + 1
           /\ \A d \in Channel \ {c} : moberg_open(st, s, c)[s].opens[d] = st[s].opens[d]
<1> DEFINE n == [st[s] EXCEPT !.opens[c] = @ + 1]
<1>1. /\ n \in Moberg /\ n.alive = st[s].alive /\ n.should_free = st[s].should_free
      /\ n.opens[c] = st[s].opens[c] + 1
      /\ \A d \in Channel \ {c} : n.opens[d] = st[s].opens[d]
  BY DEF Moberg
<1>2. moberg_open(st, s, c) = [st EXCEPT ![s] = n]
  BY DEF moberg_open
<1> HIDE DEF n
<1> QED BY <1>1, <1>2

\* moberg_close of a struct that was not freed.
LEMMA CloseStruct ==
    ASSUME NEW st \in [Struct -> Moberg], NEW s \in Struct, NEW c \in Channel,
           ~st[s].should_free
    PROVE  /\ moberg_close(st, s, c) \in [Struct -> Moberg]
           /\ \A t \in Struct \ {s} : moberg_close(st, s, c)[t] = st[t]
           /\ st[s].alive => moberg_close(st, s, c)[s].alive
           /\ ~st[s].should_free => ~moberg_close(st, s, c)[s].should_free
           /\ moberg_close(st, s, c)[s].opens[c] = st[s].opens[c] - 1
           /\ \A d \in Channel \ {c} : moberg_close(st, s, c)[s].opens[d] = st[s].opens[d]
<1> DEFINE n == [st[s] EXCEPT !.opens[c] = @ - 1]
<1>1. /\ n \in Moberg /\ n.alive = st[s].alive /\ n.should_free = st[s].should_free
      /\ n.opens[c] = st[s].opens[c] - 1
      /\ \A d \in Channel \ {c} : n.opens[d] = st[s].opens[d]
  BY DEF Moberg
<1>2. free_if_unused(n) = n
  BY <1>1 DEF free_if_unused
<1>3. moberg_close(st, s, c) = [st EXCEPT ![s] = free_if_unused(n)]
  BY DEF moberg_close
<1> HIDE DEF n
<1> QED BY <1>1, <1>2, <1>3
-----------------------------------------------------------------------------
(* The actions *)

\* The sets that are counted are finite.
LEMMA CountedFinite ==
    /\ \A m \in Manager : IsFiniteSet(HoldersOf(m)) /\ Cardinality(HoldersOf(m)) \in Nat
    /\ \A s, c : IsFiniteSet(OpenOn(s, c)) /\ Cardinality(OpenOn(s, c)) \in Nat
<1>1. \A m \in Manager : IsFiniteSet(HoldersOf(m))
  BY ScriptAssumption, FS_Subset DEF HoldersOf
<1>2. \A s, c : IsFiniteSet(OpenOn(s, c))
  BY ScriptAssumption, FS_Subset DEF OpenOn
<1> QED
  BY <1>1, <1>2, FS_CardinalityType

\* At first there is nothing.
LEMMA PythonInit == ScriptInit => PythonInv
<1> SUFFICES ASSUME ScriptInit PROVE PythonInv
  OBVIOUS
<1>1. ScriptTypes
  BY NoStruct DEF ScriptInit, ScriptTypes, Lives
<1>2. NothingByHand /\ HandlesAlive /\ PointersAlive
  BY DEF ScriptInit, NothingByHand, HandlesAlive, PointersAlive
<1>3. \A m \in Manager : HoldersOf(m) = {}
  BY DEF ScriptInit, HoldersOf
<1>4. \A s \in Struct, c \in Channel : OpenOn(s, c) = {} /\ structs[s].opens[c] = 0
  BY NoStruct DEF ScriptInit, OpenOn
<1>5. RefsExact
  BY <1>3, FS_EmptySet DEF ScriptInit, RefsExact
<1>6. OpensEnough
  <2>1. \A s \in Struct, c \in Channel : Cardinality(OpenOn(s, c)) = 0
    BY <1>4, FS_EmptySet
  <2> QED BY <1>4, <2>1 DEF OpensEnough
<1> QED
  BY <1>1, <1>2, <1>5, <1>6 DEF PythonInv

\* A struct is made and becomes that of m, of which nobody has a channel open.
LEMMA MakesStruct ==
    ASSUME PythonInv, NEW m \in Manager, MakeStruct,
           handle' = [handle EXCEPT ![m] = made'],
           state' \in [Manager \cup Object -> Lives], state'[m] \in {"held", "kept"},
           \A x \in (Manager \cup Object) \ {m} : state'[x] = state[x],
           refcnt' \in [Manager -> Int], RefsExact',
           UNCHANGED <<parent, pointer, channel, byhand>>
    PROVE  PythonInv'
<1>1. /\ made \in Nat /\ made' = made + 1 /\ made' \in Struct /\ made' # NULL
      /\ structs' = moberg_new(structs, made') /\ stray' = stray
      /\ structs \in [Struct -> Moberg]
  BY StructAssumption DEF MakeStruct, PythonInv, ScriptTypes
<1>2. /\ structs' \in [Struct -> Moberg]
      /\ structs'[made'].alive /\ ~structs'[made'].should_free
      /\ \A c \in Channel : structs'[made'].opens[c] = 0
      /\ \A t \in Struct \ {made'} : structs'[t] = structs[t]
  BY <1>1, NewStruct
<1>3. m \notin Object /\ \A o \in Object : state'[o] = state[o]
  BY ScriptAssumption
<1>4. \A o \in Object : state[o] = "held" =>
         pointer[o] \in Struct /\ pointer[o] \in Nat /\ pointer[o] <= made
  BY StructAssumption DEF PythonInv, PointersAlive
<1>5. \A n \in Manager : handle[n] # NULL =>
         handle[n] \in Struct /\ handle[n] \in Nat /\ handle[n] <= made
  BY StructAssumption DEF PythonInv, HandlesAlive, ScriptTypes
<1>6. handle'[m] = made' /\ \A n \in Manager \ {m} : handle'[n] = handle[n]
  BY DEF PythonInv, ScriptTypes
<1>7. ScriptTypes'
  <2>1. handle' \in [Manager -> Struct \cup {NULL}]
    BY <1>1 DEF PythonInv, ScriptTypes
  <2> QED
    BY <1>1, <1>2, <2>1 DEF PythonInv, ScriptTypes
<1>8. NothingByHand'
  BY <1>1, <1>3 DEF PythonInv, NothingByHand
<1>9. HandlesAlive'
  BY <1>1, <1>2, <1>5, <1>6 DEF PythonInv, HandlesAlive
<1>10. PointersAlive'
  BY <1>1, <1>2, <1>3, <1>4, <1>6 DEF PythonInv, PointersAlive
<1>11. OpensEnough'
  <2> SUFFICES ASSUME NEW s \in Struct, NEW c \in Channel
               PROVE  Cardinality(OpenOn(s, c)') <= structs'[s].opens[c]
    BY DEF OpensEnough
  <2>1. OpenOn(s, c)' = OpenOn(s, c)
    BY <1>3 DEF OpenOn
  <2>2. CASE s = made'
    <3>1. OpenOn(s, c) = {}
      BY <1>1, <1>4, <2>2 DEF OpenOn
    <3> QED
      BY <1>2, <2>1, <2>2, <3>1, FS_EmptySet
  <2>3. CASE s # made'
    BY <1>2, <2>1, <2>3 DEF PythonInv, OpensEnough
  <2> QED BY <2>2, <2>3
<1> QED
  BY <1>7, <1>8, <1>9, <1>10, <1>11 DEF PythonInv

\* Moberg().
LEMMA Moberg_newKeeps ==
    ASSUME PythonInv, NEW m \in Manager, Moberg_new(m)
    PROVE  PythonInv'
<1>1. /\ state[m] = "none" /\ MakeStruct /\ handle' = [handle EXCEPT ![m] = made']
      /\ refcnt' = [refcnt EXCEPT ![m] = 1] /\ state' = [state EXCEPT ![m] = "held"]
      /\ UNCHANGED <<parent, pointer, channel, byhand>>
  BY DEF Moberg_new, Becomes
<1>2. /\ state' \in [Manager \cup Object -> Lives] /\ state'[m] = "held"
      /\ \A x \in (Manager \cup Object) \ {m} : state'[x] = state[x]
      /\ refcnt' \in [Manager -> Int]
  BY <1>1 DEF PythonInv, ScriptTypes, Lives
<1>3. \A n \in Manager : HoldersOf(n)' = HoldersOf(n)
  BY <1>1, <1>2, ScriptAssumption DEF HoldersOf
<1>4. HoldersOf(m) = {}
  BY <1>1 DEF PythonInv, RefsExact
<1>5. refcnt'[m] = 1 /\ \A n \in Manager \ {m} : refcnt'[n] = refcnt[n]
  BY <1>1 DEF PythonInv, ScriptTypes
<1>6. RefsExact'
  <2>1. Cardinality(HoldersOf(m)) = 0
    BY <1>4, FS_EmptySet
  <2> SUFFICES ASSUME NEW n \in Manager
               PROVE  /\ refcnt'[n] = (IF state'[n] = "held" THEN 1 ELSE 0)
                                        + Cardinality(HoldersOf(n))
                      /\ state'[n] = "kept" => HoldersOf(n) # {}
                      /\ HoldersOf(n) # {} => state'[n] \in {"held", "kept"}
    BY <1>3 DEF RefsExact
  <2>2. CASE n = m
    BY <1>2, <1>4, <1>5, <2>1, <2>2
  <2>3. CASE n # m
    BY <1>2, <1>5, <2>3 DEF PythonInv, RefsExact
  <2> QED BY <2>2, <2>3
<1> QED
  BY <1>1, <1>2, <1>6, MakesStruct

\* __init__ again.
LEMMA Moberg_init_againKeeps ==
    ASSUME PythonInv, NEW m \in Manager, Moberg_init_again(m)
    PROVE  PythonInv'
<1>1. /\ state[m] = "held" /\ MakeStruct /\ handle' = [handle EXCEPT ![m] = made']
      /\ UNCHANGED <<state, refcnt, parent, pointer, channel, byhand>>
  BY DEF Moberg_init_again
<1>2. RefsExact'
  BY <1>1 DEF PythonInv, RefsExact, HoldersOf
<1> QED
  BY <1>1, <1>2, MakesStruct DEF PythonInv, ScriptTypes

\* m.analog_in(index): the new object counts, and so does its open.
LEMMA MobergAnalogIn_newKeeps ==
    ASSUME PythonInv, NEW m \in Manager, NEW o \in Object, MobergAnalogIn_new(m, o)
    PROVE  PythonInv'
<1> DEFINE s == handle[m]
           c == channel[o]
<1>1. /\ state[m] = "held" /\ state[o] = "none"
      /\ Call(s, moberg_open(structs, s, c))
      /\ refcnt' = [refcnt EXCEPT ![m] = @ + 1] /\ parent' = [parent EXCEPT ![o] = m]
      /\ pointer' = [pointer EXCEPT ![o] = s] /\ state' = [state EXCEPT ![o] = "held"]
      /\ UNCHANGED <<handle, channel, byhand>>
  BY DEF MobergAnalogIn_new, Becomes
<1>2. s # NULL /\ s \in Struct /\ c \in Channel /\ s <= made
      /\ structs[s].alive /\ ~structs[s].should_free
  BY <1>1 DEF PythonInv, HandlesAlive, ScriptTypes
<1>3. structs' = moberg_open(structs, s, c) /\ stray' = stray /\ made' = made
  BY <1>1, <1>2 DEF Call
<1>4. /\ structs' \in [Struct -> Moberg]
      /\ \A t \in Struct \ {s} : structs'[t] = structs[t]
      /\ structs'[s].alive /\ ~structs'[s].should_free
      /\ structs'[s].opens[c] = structs[s].opens[c] + 1
      /\ \A d \in Channel \ {c} : structs'[s].opens[d] = structs[s].opens[d]
  <2>1. structs \in [Struct -> Moberg]
    BY DEF PythonInv, ScriptTypes
  <2> QED
    BY <1>2, <1>3, <2>1, OpenStruct
<1>5. /\ state'[o] = "held" /\ \A x \in (Manager \cup Object) \ {o} : state'[x] = state[x]
      /\ parent'[o] = m /\ pointer'[o] = s
      /\ \A u \in Object \ {o} : parent'[u] = parent[u] /\ pointer'[u] = pointer[u]
      /\ \A n \in Manager : state'[n] = state[n]
  BY <1>1, ScriptAssumption DEF PythonInv, ScriptTypes
<1>6. ScriptTypes'
  BY <1>1, <1>2, <1>3, <1>4 DEF PythonInv, ScriptTypes, Lives
<1>7. NothingByHand'
  BY <1>1, <1>3, <1>5 DEF PythonInv, NothingByHand
<1>8. HandlesAlive'
  BY <1>1, <1>3, <1>4, <1>5 DEF PythonInv, HandlesAlive, ScriptTypes
<1>9. PointersAlive'
  <2>1. \A n \in Manager : handle[n] = s => n = m
    BY <1>2 DEF PythonInv, HandlesAlive
  <2> QED
    BY <1>1, <1>2, <1>3, <1>4, <1>5, <2>1 DEF PythonInv, PointersAlive
<1>10. RefsExact'
  <2>1. HoldersOf(m)' = HoldersOf(m) \cup {o} /\ o \notin HoldersOf(m)
    BY <1>1, <1>5 DEF HoldersOf
  <2>2. Cardinality(HoldersOf(m)') = Cardinality(HoldersOf(m)) + 1
    BY <2>1, CountedFinite, FS_AddElement
  <2>3. \A n \in Manager \ {m} : HoldersOf(n)' = HoldersOf(n)
    BY <1>1, <1>5 DEF HoldersOf
  <2>4. refcnt'[m] = refcnt[m] + 1 /\ \A n \in Manager \ {m} : refcnt'[n] = refcnt[n]
    BY <1>1 DEF PythonInv, ScriptTypes
  <2> SUFFICES ASSUME NEW n \in Manager
               PROVE  /\ refcnt'[n] = (IF state'[n] = "held" THEN 1 ELSE 0)
                                        + Cardinality(HoldersOf(n)')
                      /\ state'[n] = "kept" => HoldersOf(n)' # {}
                      /\ HoldersOf(n)' # {} => state'[n] \in {"held", "kept"}
    BY DEF RefsExact
  <2>5. CASE n = m
    BY <1>1, <1>5, <2>2, <2>4, <2>5, CountedFinite DEF PythonInv, RefsExact
  <2>6. CASE n # m
    BY <1>5, <2>3, <2>4, <2>6 DEF PythonInv, RefsExact
  <2> QED BY <2>5, <2>6
<1>11. OpensEnough'
  <2> SUFFICES ASSUME NEW t \in Struct, NEW d \in Channel
               PROVE  Cardinality(OpenOn(t, d)') <= structs'[t].opens[d]
    BY DEF OpensEnough
  <2>1. CASE t = s /\ d = c
    <3>1. OpenOn(t, d)' = OpenOn(t, d) \cup {o} /\ o \notin OpenOn(t, d)
      BY <1>1, <1>5, <2>1 DEF OpenOn
    <3>2. Cardinality(OpenOn(t, d)') = Cardinality(OpenOn(t, d)) + 1
      BY <3>1, CountedFinite, FS_AddElement
    <3>3. structs'[t].opens[d] = structs[t].opens[d] + 1 /\ structs[t].opens[d] \in Int
      BY <1>4, <2>1 DEF PythonInv, ScriptTypes, Moberg
    <3> QED
      BY <3>2, <3>3, CountedFinite DEF PythonInv, OpensEnough
  <2>2. CASE ~(t = s /\ d = c)
    <3>1. OpenOn(t, d)' = OpenOn(t, d)
      BY <1>1, <1>5, <2>2 DEF OpenOn
    <3>2. structs'[t].opens[d] = structs[t].opens[d]
      BY <1>2, <1>4, <2>2 DEF PythonInv, ScriptTypes, Moberg
    <3> QED
      BY <3>1, <3>2 DEF PythonInv, OpensEnough
  <2> QED BY <2>1, <2>2
<1> QED
  BY <1>6, <1>7, <1>8, <1>9, <1>10, <1>11 DEF PythonInv

\* No struct of after is less alive, and each has the opens of the objects that are left.
KeptAlive(after) ==
    \A t \in Struct : /\ structs[t].alive => after[t].alive
                      /\ ~structs[t].should_free => ~after[t].should_free

OpensLeft(after) ==
    \A t \in Struct, c \in Channel : Cardinality(OpenOn(t, c)') <= after[t].opens[c]

\* How the objects change with a reference to m.
ObjectsLeft(m) ==
    /\ UNCHANGED <<parent, pointer, channel, byhand>>
    /\ state' \in [Manager \cup Object -> Lives]
    /\ \A o \in Object : state'[o] = state[o] \/ state'[o] = "gone"
    /\ \A n \in Manager \ {m} : state'[n] = state[n]
    /\ refcnt'[m] = 0 => state'[m] = "gone" /\ HoldersOf(m)' = {}
    /\ refcnt'[m] # 0 => state'[m] \in {"held", "kept"}

\* One reference less, of the program or of a channel object.  With the last one the
\* struct goes, and no channel object that is left was opened in it.
LEMMA Py_DECREFKeeps ==
    ASSUME PythonInv, NEW m \in Manager, NEW after \in [Struct -> Moberg], Py_DECREF(m, after),
           handle[m] # NULL, KeptAlive(after), OpensLeft(after), ObjectsLeft(m),
           RefsExact'
    PROVE  PythonInv'
<1> DEFINE s == handle[m]
<1>1. s \in Struct /\ structs[s].alive /\ made' = made /\ stray' = stray
  BY DEF Py_DECREF, Call, PythonInv, HandlesAlive, ScriptTypes
<1>2. NothingByHand'
  BY <1>1 DEF PythonInv, NothingByHand, ObjectsLeft
<1>3. refcnt' \in [Manager -> Int]
  BY DEF Py_DECREF, PythonInv, ScriptTypes
<1>4. CASE refcnt'[m] = 0
  <2>1. structs' = moberg_free(after, s) /\ handle' = [handle EXCEPT ![m] = NULL]
    BY <1>1, <1>4 DEF Py_DECREF, Call
  <2>2. /\ structs' \in [Struct -> Moberg]
        /\ \A t \in Struct \ {s} : structs'[t] = after[t]
        /\ \/ structs'[s].opens = after[s].opens
           \/ \A c \in Channel : structs'[s].opens[c] = 0
    <3> DEFINE st == moberg_free(after, s)
    <3>1. /\ st \in [Struct -> Moberg] /\ \A t \in Struct \ {s} : st[t] = after[t]
          /\ st[s].opens = after[s].opens \/ \A c \in Channel : st[s].opens[c] = 0
      BY <1>1, FreeStruct
    <3> QED BY <2>1, <3>1
  <2>3. handle'[m] = NULL /\ \A n \in Manager \ {m} : handle'[n] = handle[n] /\ handle[n] # s
    BY <2>1 DEF PythonInv, ScriptTypes, HandlesAlive
  <2>4. \A o \in Object : state'[o] = "held" => state[o] = "held" /\ pointer[o] # s
    BY <1>1, <1>4 DEF PythonInv, PointersAlive, HoldersOf, ObjectsLeft
  <2>5. ScriptTypes'
    BY <1>1, <1>3, <2>1, <2>2 DEF PythonInv, ScriptTypes, ObjectsLeft
  <2>6. HandlesAlive'
    <3>1. \A n \in Manager : handle'[n] # NULL <=> state'[n] \in {"held", "kept"}
      BY <1>4, <2>3 DEF PythonInv, HandlesAlive, ObjectsLeft
    <3>2. ASSUME NEW n \in Manager, handle'[n] # NULL
          PROVE  handle'[n] <= made /\ structs'[handle'[n]].alive /\ ~structs'[handle'[n]].should_free
      <4>1. /\ handle'[n] = handle[n] /\ handle[n] # s /\ handle[n] \in Struct
            /\ handle[n] <= made /\ structs[handle[n]].alive /\ ~structs[handle[n]].should_free
        BY <2>3, <3>2 DEF PythonInv, HandlesAlive, ScriptTypes
      <4>2. structs'[handle[n]] = after[handle[n]]
        BY <2>2, <4>1
      <4> QED BY <4>1, <4>2 DEF KeptAlive
    <3>3. \A n, k \in Manager : handle'[n] # NULL /\ handle'[n] = handle'[k] => n = k
      BY <2>3 DEF PythonInv, HandlesAlive
    <3> QED
      BY <1>1, <3>1, <3>2, <3>3 DEF HandlesAlive
  <2>7. PointersAlive'
    <3> SUFFICES ASSUME NEW o \in Object, state'[o] = "held"
                 PROVE  /\ parent[o] \in Manager /\ pointer[o] \in Struct
                        /\ pointer[o] <= made /\ structs'[pointer[o]].alive
                        /\ \A n \in Manager : handle'[n] = pointer[o] => n = parent[o]
      BY <1>1 DEF PointersAlive, ObjectsLeft
    <3>1. /\ parent[o] \in Manager /\ pointer[o] \in Struct /\ pointer[o] # s
          /\ pointer[o] <= made /\ structs[pointer[o]].alive
          /\ \A n \in Manager : handle[n] = pointer[o] => n = parent[o]
      BY <2>4 DEF PythonInv, PointersAlive
    <3>2. structs'[pointer[o]].alive
      BY <2>2, <3>1 DEF KeptAlive
    <3>3. \A n \in Manager : handle'[n] = pointer[o] => n = parent[o]
      BY <2>3, <3>1, StructAssumption
    <3> QED BY <3>1, <3>2, <3>3
  <2>8. OpensEnough'
    <3> SUFFICES ASSUME NEW t \in Struct, NEW c \in Channel
                 PROVE  Cardinality(OpenOn(t, c)') <= structs'[t].opens[c]
      BY DEF OpensEnough
    <3>1. CASE t = s
      <4>1. OpenOn(t, c)' = {}
        BY <2>4, <3>1 DEF OpenOn, ObjectsLeft
      <4>2. Cardinality(OpenOn(t, c)') = 0
        BY <4>1, FS_EmptySet
      <4>3. structs'[s].opens = after[s].opens \/ structs'[s].opens[c] = 0
        BY <2>2
      <4>4. Cardinality(OpenOn(t, c)') <= after[t].opens[c]
        BY DEF OpensLeft
      <4> QED BY <3>1, <4>2, <4>3, <4>4
    <3>2. CASE t # s
      BY <2>2, <3>2 DEF OpensLeft
    <3> QED BY <3>1, <3>2
  <2> QED
    BY <1>2, <2>5, <2>6, <2>7, <2>8 DEF PythonInv
<1>5. CASE refcnt'[m] # 0
  <2>1. structs' = after /\ handle' = handle
    BY <1>1, <1>5 DEF Py_DECREF, Call
  <2>2. ScriptTypes'
    BY <1>1, <1>3, <2>1 DEF PythonInv, ScriptTypes, ObjectsLeft
  <2>3. HandlesAlive'
    <3>1. \A n \in Manager : handle'[n] # NULL <=> state'[n] \in {"held", "kept"}
      BY <1>5, <2>1 DEF PythonInv, HandlesAlive, ObjectsLeft
    <3>2. ASSUME NEW n \in Manager, handle[n] # NULL
          PROVE  handle[n] <= made /\ after[handle[n]].alive /\ ~after[handle[n]].should_free
      <4>1. /\ handle[n] \in Struct
            /\ handle[n] <= made /\ structs[handle[n]].alive /\ ~structs[handle[n]].should_free
        BY <3>2 DEF PythonInv, HandlesAlive, ScriptTypes
      <4> QED BY <4>1 DEF KeptAlive
    <3> QED
      BY <1>1, <2>1, <3>1, <3>2 DEF PythonInv, HandlesAlive
  <2>4. PointersAlive'
    <3> SUFFICES ASSUME NEW o \in Object, state'[o] = "held"
                 PROVE  /\ parent[o] \in Manager /\ pointer[o] \in Struct
                        /\ pointer[o] <= made /\ after[pointer[o]].alive
                        /\ \A n \in Manager : handle[n] = pointer[o] => n = parent[o]
      BY <1>1, <2>1 DEF PointersAlive, ObjectsLeft
    <3>1. /\ parent[o] \in Manager /\ pointer[o] \in Struct
          /\ pointer[o] <= made /\ structs[pointer[o]].alive
          /\ \A n \in Manager : handle[n] = pointer[o] => n = parent[o]
      BY DEF PythonInv, PointersAlive, ObjectsLeft
    <3> QED BY <3>1 DEF KeptAlive
  <2>5. OpensEnough'
    BY <2>1 DEF OpensEnough, OpensLeft
  <2> QED
    BY <1>2, <2>2, <2>3, <2>4, <2>5 DEF PythonInv
<1> QED BY <1>4, <1>5

\* What the close of a channel object that goes leaves: in the struct of its Moberg
\* object one open less, and one object less that has it; nothing elsewhere.
LEMMA ClosedLeaves ==
    ASSUME PythonInv, NEW o \in Object, state[o] = "held", state'[o] = "gone",
           \A u \in Object \ {o} : state'[u] = state[u], UNCHANGED <<pointer, channel>>
    PROVE  /\ parent[o] \in Manager /\ handle[parent[o]] \in Struct
           /\ Closed(o) \in [Struct -> Moberg]
           /\ KeptAlive(Closed(o)) /\ OpensLeft(Closed(o))
<1> DEFINE s == handle[parent[o]]
           e == channel[o]
<1>1. parent[o] \in Manager /\ pointer[o] \in Struct /\ e \in Channel
  BY DEF PythonInv, PointersAlive, ScriptTypes
<1>2. HoldersOf(parent[o]) # {}
  BY DEF HoldersOf
<1>3. s # NULL /\ s \in Struct /\ ~structs[s].should_free
  BY <1>1, <1>2 DEF PythonInv, RefsExact, HandlesAlive, ScriptTypes
<1>4. structs \in [Struct -> Moberg]
  BY DEF PythonInv, ScriptTypes
<1>5. \A t \in Struct, c \in Channel : /\ Cardinality(OpenOn(t, c)) <= structs[t].opens[c]
                                       /\ structs[t].opens[c] \in Int
  BY <1>4 DEF PythonInv, OpensEnough, Moberg
<1>6. /\ OpenOn(pointer[o], e)' = OpenOn(pointer[o], e) \ {o} /\ o \in OpenOn(pointer[o], e)
      /\ \A t \in Struct, c \in Channel :
            t # pointer[o] \/ c # e => OpenOn(t, c)' = OpenOn(t, c)
  BY DEF OpenOn
<1>7. Cardinality(OpenOn(pointer[o], e)') = Cardinality(OpenOn(pointer[o], e)) - 1
  BY <1>6, CountedFinite, FS_RemoveElement, ZenonT(30)
<1>8. CASE s = pointer[o]
  <2>1. Closed(o) = moberg_close(structs, s, e)
    BY <1>8 DEF Closed
  <2>2. /\ Closed(o) \in [Struct -> Moberg]
        /\ \A t \in Struct \ {s} : Closed(o)[t] = structs[t]
        /\ structs[s].alive => Closed(o)[s].alive
        /\ ~structs[s].should_free => ~Closed(o)[s].should_free
        /\ Closed(o)[s].opens[e] = structs[s].opens[e] - 1
        /\ \A d \in Channel \ {e} : Closed(o)[s].opens[d] = structs[s].opens[d]
    BY <1>1, <1>3, <1>4, <2>1, CloseStruct
  <2>3. ASSUME NEW t \in Struct, NEW c \in Channel
        PROVE  Cardinality(OpenOn(t, c)') <= Closed(o)[t].opens[c]
    <3>1. CASE t = s /\ c = e
      BY <1>1, <1>5, <1>7, <1>8, <2>2, <3>1, CountedFinite
    <3>2. CASE ~(t = s /\ c = e)
      <4>1. OpenOn(t, c)' = OpenOn(t, c)
        BY <1>6, <1>8, <3>2
      <4>2. Closed(o)[t].opens[c] = structs[t].opens[c]
        BY <2>2, <3>2
      <4> QED BY <1>5, <4>1, <4>2
    <3> QED BY <3>1, <3>2
  <2> QED BY <1>1, <1>3, <2>2, <2>3 DEF KeptAlive, OpensLeft
<1>9. CASE s # pointer[o]
  <2>1. Closed(o) = structs
    BY <1>9 DEF Closed
  <2>2. ASSUME NEW t \in Struct, NEW c \in Channel
        PROVE  Cardinality(OpenOn(t, c)') <= structs[t].opens[c]
    <3>1. CASE t = pointer[o] /\ c = e
      BY <1>1, <1>5, <1>7, <3>1, CountedFinite
    <3>2. CASE ~(t = pointer[o] /\ c = e)
      BY <1>5, <1>6, <3>2
    <3> QED BY <3>1, <3>2
  <2> QED BY <1>1, <1>3, <1>4, <2>1, <2>2 DEF KeptAlive, OpensLeft
<1> QED BY <1>8, <1>9

\* A channel object goes, and with the last one perhaps its Moberg object.
LEMMA MobergAnalogIn_deallocLeaves ==
    ASSUME PythonInv, NEW o \in Object, MobergAnalogIn_dealloc(o)
    PROVE  /\ RefsExact' /\ handle[parent[o]] # NULL
           /\ Closed(o) \in [Struct -> Moberg] /\ KeptAlive(Closed(o)) /\ OpensLeft(Closed(o))
           /\ ObjectsLeft(parent[o])
<1>1. state[o] = "held" /\ Py_DECREF(parent[o], Closed(o))
  BY DEF MobergAnalogIn_dealloc
<1>2. PICK p \in Manager : p = parent[o] /\ p \notin Object
  BY <1>1, ScriptAssumption DEF PythonInv, PointersAlive
<1>3. /\ Py_DECREF(p, Closed(o))
      /\ refcnt' = [refcnt EXCEPT ![p] = @ - 1]
      /\ UNCHANGED <<parent, pointer, channel, byhand>>
  BY <1>1, <1>2 DEF MobergAnalogIn_dealloc, Py_DECREF
<1>4. /\ state' = [x \in Manager \cup Object |->
                      IF x = o \/ (x = p /\ refcnt'[x] = 0) THEN "gone" ELSE state[x]]
  BY <1>2 DEF MobergAnalogIn_dealloc, PythonInv, ScriptTypes
<1>5. /\ state'[o] = "gone" /\ \A u \in Object \ {o} : state'[u] = state[u]
      /\ \A n \in Manager \ {p} : state'[n] = state[n]
      /\ state'[p] = IF refcnt'[p] = 0 THEN "gone" ELSE state[p]
  BY <1>2, <1>4, ScriptAssumption
<1>6. state' \in [Manager \cup Object -> Lives]
  BY <1>4 DEF PythonInv, ScriptTypes, Lives
<1>7. /\ HoldersOf(p)' = HoldersOf(p) \ {o} /\ o \in HoldersOf(p)
      /\ \A n \in Manager \ {p} : HoldersOf(n)' = HoldersOf(n)
  BY <1>1, <1>3, <1>2, <1>5 DEF HoldersOf
<1>8. /\ Cardinality(HoldersOf(p)') = Cardinality(HoldersOf(p)) - 1
      /\ Cardinality(HoldersOf(p)) \in Nat
  BY <1>2, <1>7, CountedFinite, FS_RemoveElement
<1>9. IsFiniteSet(HoldersOf(p)') /\ (Cardinality(HoldersOf(p)') = 0 <=> HoldersOf(p)' = {})
  BY <1>2, <1>7, CountedFinite, FS_RemoveElement, FS_EmptySet
<1>10. refcnt'[p] = refcnt[p] - 1 /\ \A n \in Manager \ {p} : refcnt'[n] = refcnt[n]
  BY <1>3, <1>2 DEF PythonInv, ScriptTypes
<1>11. /\ state[p] \in {"held", "kept"}
       /\ refcnt[p] = (IF state[p] = "held" THEN 1 ELSE 0) + Cardinality(HoldersOf(p))
  BY <1>2, <1>7 DEF PythonInv, RefsExact
<1>12. refcnt'[p] = (IF state[p] = "held" THEN 1 ELSE 0) + Cardinality(HoldersOf(p)')
  BY <1>8, <1>10, <1>11
<1>13. Cardinality(HoldersOf(p)') \in Nat
  BY <1>9, FS_CardinalityType
<1>14. /\ refcnt'[p] = 0 => state'[p] = "gone" /\ HoldersOf(p)' = {}
       /\ refcnt'[p] # 0 => state'[p] = state[p] /\ (state[p] = "kept" => HoldersOf(p)' # {})
  BY <1>5, <1>9, <1>11, <1>12, <1>13
<1>15. RefsExact'
  <2> SUFFICES ASSUME NEW n \in Manager
               PROVE  /\ refcnt'[n] = (IF state'[n] = "held" THEN 1 ELSE 0)
                                        + Cardinality(HoldersOf(n)')
                      /\ state'[n] = "kept" => HoldersOf(n)' # {}
                      /\ HoldersOf(n)' # {} => state'[n] \in {"held", "kept"}
    BY DEF RefsExact
  <2>1. CASE n = p
    <3>1. CASE refcnt'[p] = 0
      BY <1>13, <1>14, <2>1, <3>1, FS_EmptySet
    <3>2. CASE refcnt'[p] # 0
      BY <1>11, <1>12, <1>14, <2>1, <3>2
    <3> QED BY <3>1, <3>2
  <2>2. CASE n # p
    BY <1>5, <1>7, <1>10, <2>2 DEF PythonInv, RefsExact
  <2> QED BY <2>1, <2>2
<1>16. \A u \in Object : state'[u] = state[u] \/ state'[u] = "gone"
  BY <1>5
<1>17. /\ handle[p] # NULL /\ Closed(o) \in [Struct -> Moberg]
       /\ KeptAlive(Closed(o)) /\ OpensLeft(Closed(o))
  BY <1>1, <1>3, <1>2, <1>5, ClosedLeaves, StructAssumption
<1>18. ObjectsLeft(p)
  BY <1>3, <1>5, <1>6, <1>11, <1>14, <1>16 DEF ObjectsLeft
<1> QED
  BY <1>2, <1>15, <1>17, <1>18

LEMMA MobergAnalogIn_deallocKeeps ==
    ASSUME PythonInv, NEW o \in Object, MobergAnalogIn_dealloc(o)
    PROVE  PythonInv'
<1>1. parent[o] \in Manager /\ Py_DECREF(parent[o], Closed(o))
  BY DEF MobergAnalogIn_dealloc, PythonInv, PointersAlive
<1> QED BY <1>1, MobergAnalogIn_deallocLeaves, Py_DECREFKeeps

\* The program's last reference to a Moberg object goes.
LEMMA Moberg_deallocLeaves ==
    ASSUME PythonInv, NEW m \in Manager, Moberg_dealloc(m)
    PROVE  /\ RefsExact' /\ handle[m] # NULL /\ structs \in [Struct -> Moberg]
           /\ KeptAlive(structs) /\ OpensLeft(structs) /\ ObjectsLeft(m)
           /\ \A t \in Struct, c \in Channel : OpenOn(t, c)' = OpenOn(t, c)
<1>1. /\ state[m] = "held" /\ Py_DECREF(m, structs)
      /\ refcnt' = [refcnt EXCEPT ![m] = @ - 1]
      /\ state' = [state EXCEPT ![m] = IF refcnt'[m] = 0 THEN "gone" ELSE "kept"]
      /\ UNCHANGED <<parent, pointer, channel, byhand>>
  BY DEF Moberg_dealloc, Py_DECREF, Becomes
<1>2. /\ state' \in [Manager \cup Object -> Lives]
      /\ state'[m] = IF refcnt'[m] = 0 THEN "gone" ELSE "kept"
      /\ \A x \in (Manager \cup Object) \ {m} : state'[x] = state[x]
      /\ \A u \in Object : state'[u] = state[u]
  BY <1>1, ScriptAssumption DEF PythonInv, ScriptTypes, Lives
<1>3. \A n \in Manager : HoldersOf(n)' = HoldersOf(n)
  BY <1>1, <1>2 DEF HoldersOf
<1>4. \A t \in Struct, c \in Channel : OpenOn(t, c)' = OpenOn(t, c)
  BY <1>1, <1>2 DEF OpenOn
<1>5. refcnt'[m] = refcnt[m] - 1 /\ \A n \in Manager \ {m} : refcnt'[n] = refcnt[n]
  BY <1>1 DEF PythonInv, ScriptTypes
<1>6. refcnt'[m] = Cardinality(HoldersOf(m)) /\ Cardinality(HoldersOf(m)) \in Nat
  BY <1>1, <1>5, CountedFinite DEF PythonInv, RefsExact
<1>7. refcnt'[m] = 0 <=> HoldersOf(m) = {}
  BY <1>6, CountedFinite, FS_EmptySet
<1>8. RefsExact'
  BY <1>2, <1>3, <1>5, <1>6, <1>7 DEF PythonInv, RefsExact
<1>9. handle[m] # NULL /\ structs \in [Struct -> Moberg]
  BY <1>1 DEF PythonInv, HandlesAlive, ScriptTypes
<1>10. KeptAlive(structs) /\ OpensLeft(structs)
  BY <1>4 DEF PythonInv, OpensEnough, KeptAlive, OpensLeft
<1>11. ObjectsLeft(m)
  BY <1>1, <1>2, <1>3, <1>7 DEF ObjectsLeft
<1> QED
  BY <1>4, <1>8, <1>9, <1>10, <1>11

LEMMA Moberg_deallocKeeps ==
    ASSUME PythonInv, NEW m \in Manager, Moberg_dealloc(m)
    PROVE  PythonInv'
<1>1. Py_DECREF(m, structs)
  BY DEF Moberg_dealloc
<1> QED BY <1>1, Moberg_deallocLeaves, Py_DECREFKeeps

\* Every step keeps the invariant.
LEMMA PythonStep == PythonInv /\ [PythonNext]_scriptVars => PythonInv'
<1> SUFFICES ASSUME PythonInv, [PythonNext]_scriptVars PROVE PythonInv'
  OBVIOUS
<1>1. CASE UNCHANGED scriptVars
  <2>1. /\ ScriptTypes' /\ NothingByHand' /\ HandlesAlive' /\ PointersAlive'
    BY <1>1 DEF scriptVars, objectVars, PythonInv, ScriptTypes, NothingByHand, HandlesAlive,
                PointersAlive
  <2>2. RefsExact'
    BY <1>1 DEF scriptVars, objectVars, PythonInv, RefsExact, HoldersOf
  <2>3. OpensEnough'
    BY <1>1 DEF scriptVars, objectVars, PythonInv, OpensEnough, OpenOn
  <2> QED
    BY <2>1, <2>2, <2>3 DEF PythonInv
<1> QED
  BY <1>1, Moberg_newKeeps, Moberg_init_againKeeps, Moberg_deallocKeeps,
     MobergAnalogIn_newKeeps, MobergAnalogIn_deallocKeeps DEF PythonNext

-----------------------------------------------------------------------------
(* What follows *)

\* The objects that use a channel are those that were opened on it.
LEMMA PythonSafe == PythonInv => NoStrayCall /\ LiveIsOpen
<1> SUFFICES ASSUME PythonInv PROVE NoStrayCall /\ LiveIsOpen
  OBVIOUS
<1>1. NoStrayCall
  BY DEF PythonInv, NothingByHand, NoStrayCall
<1>2. ASSUME NEW s \in Struct, NEW o \in UsersOf(s)
      PROVE  /\ structs[s].alive
             /\ Cardinality({u \in UsersOf(s) : channel[u] = channel[o]})
                   <= structs[s].opens[channel[o]]
  <2>1. /\ o \in Object /\ state[o] = "held" /\ pointer[o] = s
        /\ \A u \in UsersOf(s) : u \in Object /\ state[u] = "held" /\ pointer[u] = s
    BY DEF UsersOf, Wanted, PythonInv, NothingByHand
  <2>2. \A u \in Object : state[u] = "held" /\ pointer[u] = s => u \in UsersOf(s)
    BY DEF UsersOf, Wanted, PythonInv, NothingByHand
  <2>3. {u \in UsersOf(s) : channel[u] = channel[o]} = OpenOn(s, channel[o])
    BY <2>1, <2>2 DEF OpenOn
  <2>4. channel[o] \in Channel
    BY <2>1 DEF PythonInv, ScriptTypes
  <2> QED
    BY <2>1, <2>3, <2>4 DEF PythonInv, PointersAlive, OpensEnough
<1>3. \A s \in Struct, c \in Channel : structs[s].opens[c] \in Int
  BY DEF PythonInv, ScriptTypes, Moberg
<1>4. ASSUME NEW s \in Struct, NEW o \in UsersOf(s)
      PROVE  structs[s].opens[channel[o]]
                >= Cardinality({u \in UsersOf(s) : channel[u] = channel[o]})
  BY <1>2, <1>4
<1> QED
  BY <1>1, <1>2, <1>4 DEF LiveIsOpen

\* NoStrayCall of the run for Python, for any number of objects, structs and
\* channels: no order in which the references go makes the binding call the library
\* with NULL or with a struct that is gone.
THEOREM PythonNeverStrays == PythonSpec => []NoStrayCall
<1> QED
  BY PythonInit, PythonStep, PythonSafe, PTL DEF PythonSpec

\* LiveIsOpen of the run for Python: every channel object a program can use finds its
\* struct alive and its channel open, once for each object that has it.
THEOREM PythonLiveIsOpen == PythonSpec => []LiveIsOpen
<1> QED
  BY PythonInit, PythonStep, PythonSafe, PTL DEF PythonSpec

-----------------------------------------------------------------------------
(* Structs go when the program is through with them *)

\* If s is alive there is a Moberg object whose struct it is, which every object
\* with a channel of s refers to, and each channel is open once for every object.
Attended(s) ==
    /\ structs[s].alive => \E m \in Manager : handle[m] = s
    /\ structs[s].alive => \A c \in Channel : structs[s].opens[c] = Cardinality(OpenOn(s, c))
    /\ \A o \in Object : state[o] = "held" /\ pointer[o] = s => handle[parent[o]] = s

\* GoneWhenCollected is this with PythonInv; a second __init__ leaves the struct it
\* replaces to nobody.
PythonGone == \A s \in Struct \ replaced : Attended(s)

\* A struct without open channels goes at once.
LEMMA FreeUnused ==
    ASSUME NEW st \in [Struct -> Moberg], NEW s \in Struct,
           \A c \in Channel : st[s].opens[c] = 0
    PROVE  ~moberg_free(st, s)[s].alive
<1> DEFINE f == [st[s] EXCEPT !.should_free = TRUE]
<1>1. f \in Moberg /\ f.opens = st[s].opens /\ f.should_free
  BY DEF Moberg
<1>2. SumFunction(f.opens) = 0
  <2> PICK n : n = f.opens
    OBVIOUS
  <2>1. n \in [Channel -> Nat] /\ \A c \in Channel : n[c] = 0
    BY <1>1 DEF Moberg
  <2>2. SumFunction(n) = 0
    BY <2>1, BindingChannelAssumption, SumOfNaturals
  <2> QED BY <2>2
<1>3. moberg_free(st, s) = [st EXCEPT ![s] = free_if_unused(f)]
  BY StructAssumption DEF moberg_free
<1> HIDE DEF f
<1>4. free_if_unused(f) = NoMoberg
  BY <1>1, <1>2 DEF free_if_unused
<1>5. ~NoMoberg.alive
  BY DEF NoMoberg
<1> QED BY <1>3, <1>4, <1>5

LEMMA GoneInit == ScriptInit => PythonGone
  BY DEF ScriptInit, PythonGone, Attended, NoMoberg

\* A new struct is that of m; the one m had, if any, is replaced.
LEMMA MakesGone ==
    ASSUME PythonInv, PythonGone, NEW m \in Manager, MakeStruct,
           handle' = [handle EXCEPT ![m] = made'],
           \A o \in Object : state'[o] = state[o],
           handle[m] = NULL \/ handle[m] \in replaced',
           replaced \subseteq replaced',
           UNCHANGED <<parent, pointer, channel>>
    PROVE  PythonGone'
<1>1. /\ made \in Nat /\ made' = made + 1 /\ made' \in Struct
      /\ structs' = moberg_new(structs, made') /\ structs \in [Struct -> Moberg]
      /\ handle'[m] = made' /\ \A n \in Manager \ {m} : handle'[n] = handle[n]
  BY DEF MakeStruct, PythonInv, ScriptTypes
<1>2. /\ \A c \in Channel : structs'[made'].opens[c] = 0
      /\ \A t \in Struct \ {made'} : structs'[t] = structs[t]
  BY <1>1, NewStruct
<1>3. \A o \in Object : state[o] = "held" =>
         /\ parent[o] \in Manager /\ pointer[o] \in Struct
         /\ pointer[o] \in Nat /\ pointer[o] <= made
  BY StructAssumption DEF PythonInv, PointersAlive
<1>4. \A t, c : OpenOn(t, c)' = OpenOn(t, c)
  BY DEF OpenOn
<1> SUFFICES ASSUME NEW t \in Struct \ replaced' PROVE Attended(t)'
  BY DEF PythonGone
<1>5. CASE t = made'
  <2>1. \A o \in Object : state[o] = "held" => pointer[o] # t
    BY <1>1, <1>3, <1>5
  <2>2. \A c \in Channel : structs'[t].opens[c] = Cardinality(OpenOn(t, c))
    <3> TAKE c \in Channel
    <3>1. OpenOn(t, c) = {}
      BY <2>1 DEF OpenOn
    <3> QED BY <1>2, <1>5, <3>1, FS_EmptySet
  <2> QED BY <1>1, <1>4, <1>5, <2>1, <2>2 DEF Attended
<1>6. CASE t # made'
  <2>1. t \in Struct \ replaced /\ Attended(t) /\ structs'[t] = structs[t]
    BY <1>2, <1>6 DEF PythonGone
  <2>2. handle[m] # t
    BY StructAssumption
  <2>3. \A n \in Manager : handle[n] = t => handle'[n] = t
    BY <1>1, <2>2
  <2>4. structs'[t].alive => \E n \in Manager : handle'[n] = t
    BY <2>1, <2>3 DEF Attended
  <2>5. \A o \in Object : state[o] = "held" /\ pointer[o] = t => handle'[parent[o]] = t
    BY <1>3, <2>1, <2>3 DEF Attended
  <2> QED BY <1>4, <2>1, <2>4, <2>5 DEF Attended
<1> QED BY <1>5, <1>6

\* The new object is one more that has the channel open.
LEMMA OpensGone ==
    ASSUME PythonInv, PythonGone, NEW m \in Manager, NEW o \in Object, MobergAnalogIn_new(m, o)
    PROVE  PythonGone'
<1> DEFINE s == handle[m]
           c == channel[o]
<1>1. /\ state[m] = "held" /\ state[o] = "none"
      /\ Call(s, moberg_open(structs, s, c))
      /\ parent' = [parent EXCEPT ![o] = m]
      /\ pointer' = [pointer EXCEPT ![o] = s] /\ state' = [state EXCEPT ![o] = "held"]
      /\ handle' = handle /\ channel' = channel /\ replaced' = replaced
  BY DEF MobergAnalogIn_new, Becomes
<1>2. s \in Struct /\ c \in Channel /\ structs[s].alive
  BY <1>1 DEF PythonInv, HandlesAlive, ScriptTypes
<1>3. structs \in [Struct -> Moberg] /\ structs' = moberg_open(structs, s, c)
  BY <1>1, <1>2, StructAssumption DEF Call, PythonInv, ScriptTypes
<1>4. /\ \A t \in Struct \ {s} : structs'[t] = structs[t]
      /\ structs'[s].opens[c] = structs[s].opens[c] + 1
      /\ \A d \in Channel \ {c} : structs'[s].opens[d] = structs[s].opens[d]
  BY <1>2, <1>3, OpenStruct
<1>5. /\ \A u \in Object : state'[u] = IF u = o THEN "held" ELSE state[u]
      /\ \A u \in Object : parent'[u] = IF u = o THEN m ELSE parent[u]
      /\ \A u \in Object : pointer'[u] = IF u = o THEN s ELSE pointer[u]
  BY <1>1 DEF PythonInv, ScriptTypes
<1> HIDE DEF s, c
<1> SUFFICES ASSUME NEW t \in Struct \ replaced PROVE Attended(t)'
  BY <1>1 DEF PythonGone
<1>6. Attended(t) /\ (structs'[t].alive => structs[t].alive)
  BY <1>2, <1>4 DEF PythonGone
<1>7. ASSUME structs[t].alive, NEW d \in Channel
      PROVE  structs'[t].opens[d] = Cardinality(OpenOn(t, d)')
  <2>1. structs[t].opens[d] = Cardinality(OpenOn(t, d))
    BY <1>6, <1>7 DEF Attended
  <2>2. CASE t = s /\ d = c
    <3>1. OpenOn(t, d)' = OpenOn(t, d) \cup {o} /\ o \notin OpenOn(t, d)
      BY <1>1, <1>5, <2>2 DEF OpenOn, c
    <3>2. Cardinality(OpenOn(t, d)') = Cardinality(OpenOn(t, d)) + 1
      BY <3>1, CountedFinite, FS_AddElement
    <3> QED BY <1>4, <2>1, <2>2, <3>2
  <2>3. CASE ~(t = s /\ d = c)
    <3>1. OpenOn(t, d)' = OpenOn(t, d)
      BY <1>1, <1>5, <2>3 DEF OpenOn, c
    <3>2. structs'[t].opens[d] = structs[t].opens[d]
      BY <1>2, <1>4, <2>3
    <3> QED BY <2>1, <3>1, <3>2
  <2> QED BY <2>2, <2>3
<1>8. \A u \in Object : state'[u] = "held" /\ pointer'[u] = t => handle'[parent'[u]] = t
  BY <1>1, <1>5, <1>6 DEF Attended, s
<1> QED BY <1>1, <1>6, <1>7, <1>8 DEF Attended

\* One reference less to m; with the last one its struct, which has no channel open
\* any more, is gone.
LEMMA Py_DECREFGone ==
    ASSUME PythonInv, PythonGone, NEW m \in Manager, NEW after \in [Struct -> Moberg],
           Py_DECREF(m, after), handle[m] # NULL, ObjectsLeft(m), replaced' = replaced,
           \A t \in Struct : after[t].alive => structs[t].alive,
           \A t \in Struct \ replaced : structs[t].alive =>
              \A c \in Channel : after[t].opens[c] = Cardinality(OpenOn(t, c)')
    PROVE  PythonGone'
<1> DEFINE s == handle[m]
<1>1. s \in Struct /\ structs[s].alive
  BY DEF PythonInv, HandlesAlive, ScriptTypes
<1>2. /\ parent' = parent /\ pointer' = pointer /\ channel' = channel
      /\ \A o \in Object : state'[o] = "held" => state[o] = "held"
  BY DEF ObjectsLeft
<1> SUFFICES ASSUME NEW t \in Struct \ replaced PROVE Attended(t)'
  BY DEF PythonGone
<1>3. Attended(t)
  BY DEF PythonGone
<1>4. CASE refcnt'[m] = 0
  <2>1. structs' = moberg_free(after, s) /\ handle' = [handle EXCEPT ![m] = NULL]
    BY <1>1, <1>4, StructAssumption DEF Py_DECREF, Call
  <2>2. \A u \in Struct \ {s} : structs'[u] = after[u]
    BY <1>1, <2>1, FreeStruct
  <2>3. \A o \in Object : state'[o] = "held" => pointer[o] # s
    BY <1>1, <1>4 DEF PythonInv, PointersAlive, HoldersOf, ObjectsLeft
  <2>4. CASE t = s
    <3>1. \A c \in Channel : after[s].opens[c] = 0
      <4> TAKE c \in Channel
      <4>1. OpenOn(t, c)' = {}
        BY <1>2, <2>3, <2>4 DEF OpenOn
      <4>2. after[t].opens[c] = Cardinality(OpenOn(t, c)')
        BY <1>1, <2>4
      <4> QED BY <2>4, <4>1, <4>2, FS_EmptySet
    <3>2. ~structs'[s].alive
      BY <1>1, <2>1, <3>1, FreeUnused
    <3> QED BY <1>2, <2>3, <2>4, <3>2 DEF Attended
  <2>5. CASE t # s
    <3>1. structs'[t] = after[t]
      BY <2>2, <2>5
    <3>2. \A n \in Manager : handle[n] = t => handle'[n] = t
      BY <2>1, <2>5 DEF PythonInv, ScriptTypes
    <3>3. structs'[t].alive => \E n \in Manager : handle'[n] = t
      BY <1>3, <3>1, <3>2 DEF Attended
    <3>4. \A o \in Object : state'[o] = "held" /\ pointer[o] = t => handle'[parent[o]] = t
      BY <1>2, <1>3, <3>2 DEF Attended, PythonInv, PointersAlive
    <3>5. structs'[t].alive => \A c \in Channel : structs'[t].opens[c] = Cardinality(OpenOn(t, c)')
      BY <3>1
    <3> QED BY <1>2, <3>3, <3>4, <3>5 DEF Attended
  <2> QED BY <2>4, <2>5
<1>5. CASE refcnt'[m] # 0
  <2>1. structs' = after /\ handle' = handle
    BY <1>1, <1>5, StructAssumption DEF Py_DECREF, Call
  <2> QED BY <1>2, <1>3, <2>1 DEF Attended
<1> QED BY <1>4, <1>5

\* A channel object that goes closes its channel, unless its struct was replaced.
LEMMA ChannelGone ==
    ASSUME PythonInv, PythonGone, NEW o \in Object, MobergAnalogIn_dealloc(o), ObjectsLeft(parent[o])
    PROVE  PythonGone'
<1> DEFINE s == handle[parent[o]]
           e == channel[o]
<1>1. /\ state[o] = "held" /\ Py_DECREF(parent[o], Closed(o))
      /\ pointer' = pointer /\ channel' = channel /\ replaced' = replaced
      /\ parent[o] \in Manager /\ parent[o] \notin Object
      /\ e \in Channel /\ structs \in [Struct -> Moberg]
  BY ScriptAssumption DEF MobergAnalogIn_dealloc, PythonInv, PointersAlive, ScriptTypes
<1>2. /\ state'[o] = "gone" /\ \A u \in Object \ {o} : state'[u] = state[u]
  BY <1>1 DEF MobergAnalogIn_dealloc, PythonInv, ScriptTypes
<1>3. HoldersOf(parent[o]) # {}
  BY <1>1 DEF HoldersOf
<1>4. s # NULL /\ s \in Struct /\ ~structs[s].should_free
  BY <1>1, <1>3 DEF PythonInv, RefsExact, HandlesAlive, ScriptTypes
<1>5. Closed(o) \in [Struct -> Moberg]
  BY <1>1, <1>2, ClosedLeaves
<1>6. /\ OpenOn(pointer[o], e)' = OpenOn(pointer[o], e) \ {o} /\ o \in OpenOn(pointer[o], e)
      /\ \A t \in Struct, c \in Channel :
            t # pointer[o] \/ c # e => OpenOn(t, c)' = OpenOn(t, c)
  BY <1>1, <1>2 DEF OpenOn
<1>7. Cardinality(OpenOn(pointer[o], e)') = Cardinality(OpenOn(pointer[o], e)) - 1
  BY <1>6, CountedFinite, FS_RemoveElement, ZenonT(30)
<1>8. CASE s = pointer[o]
  <2>1. Closed(o) = moberg_close(structs, s, e)
    BY <1>8 DEF Closed
  <2>2. /\ \A t \in Struct \ {s} : Closed(o)[t] = structs[t]
        /\ Closed(o)[s].opens[e] = structs[s].opens[e] - 1
        /\ \A d \in Channel \ {e} : Closed(o)[s].opens[d] = structs[s].opens[d]
    BY <1>1, <1>4, <2>1, CloseStruct
  <2>3. ASSUME NEW t \in Struct \ replaced, structs[t].alive, NEW c \in Channel
        PROVE  Closed(o)[t].opens[c] = Cardinality(OpenOn(t, c)')
    <3>0. structs[t].opens[c] = Cardinality(OpenOn(t, c))
      BY <2>3 DEF PythonGone, Attended
    <3>1. CASE t = s /\ c = e
      BY <1>1, <1>7, <1>8, <2>2, <3>0, <3>1
    <3>2. CASE ~(t = s /\ c = e)
      <4>1. OpenOn(t, c)' = OpenOn(t, c)
        BY <1>6, <1>8, <3>2
      <4>2. Closed(o)[t].opens[c] = structs[t].opens[c]
        BY <2>2, <3>2
      <4> QED BY <3>0, <4>1, <4>2
    <3> QED BY <3>1, <3>2
  <2>4. structs[s].alive
    BY <1>1, <1>4 DEF PythonInv, HandlesAlive
  <2>5. \A t \in Struct : Closed(o)[t].alive => structs[t].alive
    BY <2>2, <2>4
  <2> HIDE DEF s, e
  <2> QED BY <1>1, <1>4, <1>5, <2>3, <2>5, Py_DECREFGone DEF s
<1>9. CASE s # pointer[o]
  <2>1. Closed(o) = structs
    BY <1>9 DEF Closed
  <2>2. ASSUME NEW t \in Struct \ replaced, structs[t].alive, NEW c \in Channel
        PROVE  structs[t].opens[c] = Cardinality(OpenOn(t, c)')
    <3>1. t # pointer[o]
      BY <1>1, <1>9 DEF PythonGone, Attended
    <3>2. OpenOn(t, c)' = OpenOn(t, c)
      BY <1>6, <3>1
    <3> QED BY <2>2, <3>2 DEF PythonGone, Attended
  <2> HIDE DEF s, e
  <2> QED BY <1>1, <1>4, <1>5, <2>1, <2>2, Py_DECREFGone DEF s
<1> QED BY <1>8, <1>9

\* The program's last reference to a Moberg object goes.
LEMMA ManagerGone ==
    ASSUME PythonInv, PythonGone, NEW m \in Manager, Moberg_dealloc(m)
    PROVE  PythonGone'
<1>1. Py_DECREF(m, structs) /\ replaced' = replaced
  BY DEF Moberg_dealloc
<1>2. /\ handle[m] # NULL /\ structs \in [Struct -> Moberg] /\ ObjectsLeft(m)
      /\ \A t \in Struct, c \in Channel : OpenOn(t, c)' = OpenOn(t, c)
  BY Moberg_deallocLeaves
<1>3. \A t \in Struct \ replaced : structs[t].alive =>
         \A c \in Channel : structs[t].opens[c] = Cardinality(OpenOn(t, c)')
  BY <1>2 DEF PythonGone, Attended
<1> QED BY <1>1, <1>2, <1>3, Py_DECREFGone

LEMMA GoneStep ==
    ASSUME PythonInv, PythonGone, [PythonNext]_scriptVars
    PROVE  PythonGone'
<1>1. ASSUME NEW m \in Manager, Moberg_new(m) PROVE PythonGone'
  <2>1. /\ MakeStruct /\ handle' = [handle EXCEPT ![m] = made'] /\ handle[m] = NULL
        /\ state' = [state EXCEPT ![m] = "held"] /\ m \notin Object /\ replaced' = replaced
        /\ UNCHANGED <<parent, pointer, channel>>
    BY <1>1, ScriptAssumption DEF Moberg_new, Becomes, PythonInv, HandlesAlive
  <2>2. \A o \in Object : state'[o] = state[o]
    BY <2>1 DEF PythonInv, ScriptTypes
  <2> QED BY <2>1, <2>2, MakesGone
<1>2. ASSUME NEW m \in Manager, Moberg_init_again(m) PROVE PythonGone'
  <2>1. /\ MakeStruct /\ handle' = [handle EXCEPT ![m] = made'] /\ state' = state
        /\ replaced' = replaced \cup {handle[m]}
        /\ UNCHANGED <<parent, pointer, channel>>
    BY <1>2 DEF Moberg_init_again
  <2> QED BY <2>1, MakesGone
<1>3. ASSUME NEW m \in Manager, Moberg_dealloc(m) PROVE PythonGone'
  BY <1>3, ManagerGone
<1>4. ASSUME NEW m \in Manager, NEW o \in Object, MobergAnalogIn_new(m, o) PROVE PythonGone'
  BY <1>4, OpensGone
<1>5. ASSUME NEW o \in Object, MobergAnalogIn_dealloc(o) PROVE PythonGone'
  BY <1>5, MobergAnalogIn_deallocLeaves, ChannelGone
<1>6. CASE UNCHANGED scriptVars
  BY <1>6 DEF scriptVars, objectVars, PythonGone, Attended, OpenOn
<1> QED BY <1>1, <1>2, <1>3, <1>4, <1>5, <1>6 DEF PythonNext

\* A Moberg object that is only kept has channel objects that keep it.
LEMMA GoneSafe == PythonInv /\ PythonGone => GoneWhenCollected
<1> SUFFICES ASSUME PythonInv, PythonGone, NEW s \in Struct \ replaced, structs[s].alive
             PROVE  /\ \E m \in Manager : handle[m] = s /\ (m \in Wanted \/ KeepersOf(m) # {})
                    /\ \A c \in Channel : structs[s].opens[c]
                                = Cardinality({u \in UsersOf(s) : channel[u] = c})
  BY DEF GoneWhenCollected
<1>1. Attended(s)
  BY DEF PythonGone
<1>2. PICK m \in Manager : handle[m] = s
  BY <1>1 DEF Attended
<1>3. state[m] \in {"held", "kept"}
  BY <1>2, StructAssumption DEF PythonInv, HandlesAlive
<1>4. state[m] = "held" => m \in Wanted
  BY DEF Wanted
<1>5. state[m] = "kept" => KeepersOf(m) # {}
  <2>1. HoldersOf(m) \subseteq KeepersOf(m)
    BY DEF HoldersOf, KeepersOf, Wanted
  <2> QED BY <2>1 DEF PythonInv, RefsExact
<1>6. ASSUME NEW c \in Channel
      PROVE  structs[s].opens[c] = Cardinality({u \in UsersOf(s) : channel[u] = c})
  <2>1. {u \in UsersOf(s) : channel[u] = c} = OpenOn(s, c)
    BY DEF UsersOf, Wanted, OpenOn, PythonInv, NothingByHand
  <2> QED BY <1>1, <2>1 DEF Attended
<1> QED BY <1>2, <1>3, <1>4, <1>5, <1>6

\* GoneWhenCollected of the run for Python: a struct that is alive is that of a
\* Moberg object the program or a channel object refers to, and no channel of it
\* is open that no object has, unless __init__ was called again.
THEOREM PythonGoneWhenCollected == PythonSpec => []GoneWhenCollected
<1> QED
  BY PythonInit, PythonStep, GoneInit, GoneStep, GoneSafe, PTL DEF PythonSpec
LEMMA ReplacedStep == PythonInv /\ replaced \subseteq Struct /\ [PythonNext]_scriptVars
                         => (replaced \subseteq Struct)'
<1> SUFFICES ASSUME PythonInv, replaced \subseteq Struct, [PythonNext]_scriptVars
             PROVE  replaced' \subseteq Struct
  OBVIOUS
<1>1. CASE \E m \in Manager : Moberg_init_again(m)
  <2>1. PICK m \in Manager : Moberg_init_again(m)
    BY <1>1
  <2>2. handle[m] \in Struct
    BY <2>1 DEF Moberg_init_again, PythonInv, HandlesAlive, ScriptTypes
  <2> QED BY <2>1, <2>2 DEF Moberg_init_again
<1>2. CASE ~\E m \in Manager : Moberg_init_again(m)
  <2>1. replaced' = replaced
    BY <1>2 DEF PythonNext, Moberg_new, Moberg_dealloc, MobergAnalogIn_new,
       MobergAnalogIn_dealloc, scriptVars, objectVars
  <2> QED BY <2>1
<1> QED BY <1>1, <1>2

\* TypeOK of ScriptMoberg for Python: a Moberg object has NULL or a struct, and so
\* has a channel object.
THEOREM PythonTypeCorrect == PythonSpec => []TypeOK
<1>1. ScriptInit => replaced \subseteq Struct
  BY DEF ScriptInit
<1>2. PythonInv /\ replaced \subseteq Struct => TypeOK
  BY DEF PythonInv, ScriptTypes, NothingByHand, TypeOK
<1> QED
  BY <1>1, <1>2, PythonInit, PythonStep, ReplacedStep, PTL DEF PythonSpec

-----------------------------------------------------------------------------
(* Julia *)

JuliaSpec == ScriptInit /\ [][JuliaNext]_scriptVars

\* The objects that have channel c of s open.
Users(s, c) == {u \in UsersOf(s) : channel[u] = c}

\* A Moberg object that was not closed has a struct of its own, which is alive and
\* was not freed, until its finalizer.
HandlesOwn ==
    /\ \A m \in Manager : handle[m] # NULL =>
          /\ handle[m] <= made /\ structs[handle[m]].alive /\ ~structs[handle[m]].should_free
          /\ m \in Wanted
    /\ \A m, n \in Manager : handle[m] # NULL /\ handle[m] = handle[n] => m = n
    /\ \A m \in Manager \cap Wanted : handle[m] = NULL => m \in byhand

\* An object was opened in a struct that has been made.
ObjectsOpened ==
    \A o \in Object : IF state[o] = "none" THEN o \notin byhand /\ pointer[o] = NULL
                                           ELSE pointer[o] \in Struct /\ pointer[o] <= made

\* A struct is alive while it has users, its channels are open once for each of
\* them, and it is asked to go when its Moberg object is closed.
Cared(s) ==
    /\ UsersOf(s) # {} => structs[s].alive
    /\ structs[s].alive =>
          /\ \A c \in Channel : structs[s].opens[c] = Cardinality(Users(s, c))
          /\ IF structs[s].should_free THEN UsersOf(s) # {}
                                      ELSE \E m \in Manager : handle[m] = s

\* Finalizers run in any order, and the structs notice nothing: what a finalizer
\* gives back is its own, of a struct that is alive because of it.
JuliaInv ==
    /\ TypeOK /\ replaced = {} /\ HandlesOwn /\ NoStrayCall
    /\ ~stray => ObjectsOpened /\ \A s \in Struct : ~ClosedTwice(s) => Cared(s)

LEMMA UsersFinite == \A s, c : IsFiniteSet(Users(s, c)) /\ Cardinality(Users(s, c)) \in Nat
<1>1. \A s, c : IsFiniteSet(Users(s, c))
  BY ScriptAssumption, FS_Subset DEF Users, UsersOf
<1> QED
  BY <1>1, FS_CardinalityType

\* What free_if_unused leaves.
LEMMA Settled ==
    ASSUME NEW n \in Moberg
    PROVE  /\ free_if_unused(n) \in Moberg
           /\ ~n.should_free => free_if_unused(n) = n
           /\ n.should_free /\ n.opens \in [Channel -> Nat] =>
                 free_if_unused(n) = IF \A c \in Channel : n.opens[c] = 0 THEN NoMoberg ELSE n
<1>1. free_if_unused(n) \in Moberg
  BY NoStruct DEF free_if_unused
<1>2. ~n.should_free => free_if_unused(n) = n
  BY DEF free_if_unused
<1>3. ASSUME n.should_free, n.opens \in [Channel -> Nat]
      PROVE  free_if_unused(n) = IF \A c \in Channel : n.opens[c] = 0 THEN NoMoberg ELSE n
  <2> PICK f : f = n.opens
    OBVIOUS
  <2>1. /\ SumFunction(f) \in Nat /\ \A c \in Channel : f[c] <= SumFunction(f)
        /\ (\A c \in Channel : f[c] = 0) => SumFunction(f) = 0
    BY <1>3, BindingChannelAssumption, SumOfNaturals
  <2>2. \A c \in Channel : f[c] \in Nat
    BY <1>3
  <2>3. SumFunction(f) = 0 <=> \A c \in Channel : f[c] = 0
    BY <2>1, <2>2
  <2> QED BY <1>3, <2>3 DEF free_if_unused
<1> QED BY <1>1, <1>2, <1>3

\* A struct that was alive and has its opens right is cared for after free_if_unused.
LEMMA SettledIsCared ==
    ASSUME NEW s \in Struct, NEW n \in Moberg, structs'[s] = free_if_unused(n), n.alive,
           channel' \in [Object -> Channel],
           \A c \in Channel : n.opens[c] = Cardinality(Users(s, c)'),
           n.should_free \/ \E m \in Manager : handle'[m] = s
    PROVE  Cared(s)'
<1>1. \A c \in Channel : IsFiniteSet(Users(s, c)') /\ Cardinality(Users(s, c)') \in Nat
  <2>1. \A c : IsFiniteSet(Users(s, c)')
    BY ScriptAssumption, FS_Subset DEF Users, UsersOf
  <2> QED BY <2>1, FS_CardinalityType
<1>2. n.opens \in [Channel -> Nat]
  BY <1>1 DEF Moberg
<1>3. UsersOf(s)' # {} <=> \E c \in Channel : Users(s, c)' # {}
  BY DEF Users, UsersOf
<1>4. \A c \in Channel : n.opens[c] # 0 <=> Users(s, c)' # {}
  BY <1>1, FS_EmptySet
<1>5. CASE n.should_free /\ \A c \in Channel : n.opens[c] = 0
  <2>1. structs'[s] = NoMoberg
    BY <1>2, <1>5, Settled
  <2> QED BY <1>3, <1>4, <1>5, <2>1 DEF Cared, NoMoberg
<1>6. CASE n.should_free /\ ~\A c \in Channel : n.opens[c] = 0
  <2>1. structs'[s] = n
    BY <1>2, <1>6, Settled
  <2> QED BY <1>3, <1>4, <1>6, <2>1 DEF Cared
<1>7. CASE ~n.should_free
  <2>1. structs'[s] = n
    BY <1>7, Settled
  <2> QED BY <1>7, <2>1 DEF Cared
<1> QED BY <1>5, <1>6, <1>7

\* A struct that no step of an object touches stays as it is.
LEMMA UntouchedIsCared ==
    ASSUME NEW s \in Struct, Cared(s), structs'[s] = structs[s], UsersOf(s)' = UsersOf(s),
           channel' = channel, \A m \in Manager : handle[m] = s => handle'[m] = s
    PROVE  Cared(s)'
<1>1. \A c : Users(s, c)' = Users(s, c)
  BY DEF Users
<1> QED BY <1>1 DEF Cared

\* What was closed twice stays closed twice.
Later ==
    /\ byhand \subseteq byhand'
    /\ \A o \in Object : state[o] = "gone" => state'[o] = "gone" /\ pointer'[o] = pointer[o]

LEMMA ClosedTwiceStays ==
    ASSUME Later, NEW s, ClosedTwice(s)
    PROVE  ClosedTwice(s)'
  BY DEF Later, ClosedTwice

LEMMA NoStrayCallStays ==
    ASSUME NoStrayCall, Later, stray' = stray
    PROVE  NoStrayCall'
<1>1. \A s \in Struct : ClosedTwice(s) => ClosedTwice(s)'
  BY ClosedTwiceStays
<1>2. byhand \cap Manager # {} => byhand' \cap Manager # {}
  BY DEF Later
<1> QED BY <1>1, <1>2 DEF NoStrayCall

LEMMA JuliaInit == ScriptInit => JuliaInv
<1> SUFFICES ASSUME ScriptInit PROVE JuliaInv
  OBVIOUS
<1>1. TypeOK
  <2>1. structs \in [Struct -> Moberg] /\ made \in Nat /\ stray \in BOOLEAN
    BY NoStruct DEF ScriptInit
  <2>2. state \in [Manager \cup Object -> Lives] /\ byhand = {} /\ replaced = {}
    BY DEF ScriptInit, Lives
  <2>3. /\ handle \in [Manager -> Struct \cup {NULL}] /\ refcnt \in [Manager -> Int]
        /\ parent \in [Object -> Manager \cup {NULL}]
        /\ pointer \in [Object -> Struct \cup {NULL}] /\ channel \in [Object -> Channel]
    BY DEF ScriptInit
  <2> QED BY <2>1, <2>2, <2>3 DEF TypeOK
<1>2. /\ replaced = {} /\ ~stray /\ HandlesOwn /\ NoStrayCall /\ ObjectsOpened
      /\ \A s : UsersOf(s) = {}
  BY DEF ScriptInit, HandlesOwn, NoStrayCall, ObjectsOpened, Wanted, UsersOf
<1>3. \A s \in Struct : ~structs[s].alive
  BY DEF ScriptInit, NoMoberg
<1> QED
  BY <1>1, <1>2, <1>3 DEF JuliaInv, Cared

\* Moberg().
LEMMA NewMobergKeeps ==
    ASSUME JuliaInv, NEW m \in Manager, NewMoberg(m)
    PROVE  JuliaInv'
<1>1. /\ state[m] = "none" /\ made \in Nat /\ made' = made + 1 /\ made' \in Struct /\ made' # NULL
      /\ structs \in [Struct -> Moberg] /\ structs' = moberg_new(structs, made')
      /\ stray' = stray /\ stray \in BOOLEAN
      /\ handle' = [handle EXCEPT ![m] = made'] /\ state' = [state EXCEPT ![m] = "held"]
      /\ UNCHANGED <<refcnt, parent, pointer, channel, byhand, replaced>>
  BY StructAssumption DEF NewMoberg, MakeStruct, Becomes, JuliaInv, TypeOK
<1>2. /\ structs' \in [Struct -> Moberg]
      /\ structs'[made'].alive /\ ~structs'[made'].should_free
      /\ \A c \in Channel : structs'[made'].opens[c] = 0
      /\ \A t \in Struct \ {made'} : structs'[t] = structs[t]
  BY <1>1, NewStruct
<1>3. /\ handle'[m] = made' /\ \A n \in Manager \ {m} : handle'[n] = handle[n]
      /\ state'[m] = "held"
      /\ \A x \in (Manager \cup Object) \ {m} : state'[x] = state[x]
      /\ \A o \in Object : state'[o] = state[o]
  BY <1>1, ScriptAssumption DEF JuliaInv, TypeOK
<1>4. handle[m] = NULL /\ \A n \in Manager : handle[n] # NULL =>
         handle[n] \in Struct /\ handle[n] \in Nat /\ handle[n] <= made /\ handle[n] # made'
  <2>1. handle[m] = NULL
    BY <1>1 DEF JuliaInv, HandlesOwn, Wanted
  <2>2. ASSUME NEW n \in Manager, handle[n] # NULL
        PROVE  handle[n] \in Struct /\ handle[n] <= made
    BY <2>2 DEF JuliaInv, HandlesOwn, TypeOK
  <2>3. \A n \in Manager : handle[n] # NULL => handle[n] \in Nat
    BY <2>2, StructAssumption
  <2>4. \A n \in Manager : handle[n] # NULL => handle[n] # made'
    BY <1>1, <2>2, <2>3
  <2> QED BY <2>1, <2>2, <2>3, <2>4
<1>5. TypeOK'
  <2>1. handle' \in [Manager -> Struct \cup {NULL}] /\ state' \in [Manager \cup Object -> Lives]
    BY <1>1 DEF JuliaInv, TypeOK, Lives
  <2> QED BY <1>1, <1>2, <2>1 DEF JuliaInv, TypeOK
<1>6. HandlesOwn'
  <2>1. \A n \in Manager \ {m} : (n \in Wanted)' <=> n \in Wanted
    BY <1>3 DEF Wanted
  <2>2. (m \in Wanted)'
    BY <1>3 DEF Wanted
  <2>3. ASSUME NEW n \in Manager, handle'[n] # NULL
        PROVE  /\ handle'[n] <= made' /\ structs'[handle'[n]].alive
               /\ ~structs'[handle'[n]].should_free /\ (n \in Wanted)'
    <3>1. CASE n = m
      BY <1>1, <1>2, <1>3, <2>2, <3>1
    <3>2. CASE n # m
      <4>1. handle'[n] = handle[n] /\ handle[n] # NULL
        BY <1>3, <2>3, <3>2
      <4>2. structs'[handle[n]] = structs[handle[n]]
        BY <1>2, <1>4, <4>1
      <4>3. handle[n] <= made'
        BY <1>1, <1>4, <4>1
      <4> QED BY <2>1, <3>2, <4>1, <4>2, <4>3 DEF JuliaInv, HandlesOwn
    <3> QED BY <3>1, <3>2
  <2>4. \A n, k \in Manager : handle'[n] # NULL /\ handle'[n] = handle'[k] => n = k
    BY <1>3, <1>4 DEF JuliaInv, HandlesOwn
  <2>5. \A n \in Manager : (n \in Wanted)' /\ handle'[n] = NULL => n \in byhand'
    BY <1>1, <1>3, <2>1 DEF JuliaInv, HandlesOwn
  <2> QED BY <2>3, <2>4, <2>5 DEF HandlesOwn
<1>7. Later
  BY <1>1, <1>3 DEF Later
<1>8. ASSUME ~stray
      PROVE  ObjectsOpened' /\ \A s \in Struct : ~ClosedTwice(s)' => Cared(s)'
  <2>1. /\ ObjectsOpened
        /\ \A o \in Object : pointer[o] # NULL => pointer[o] \in Nat /\ pointer[o] <= made
    BY <1>8, StructAssumption DEF JuliaInv, ObjectsOpened
  <2>2. ObjectsOpened'
    <3>1. \A o \in Object : pointer[o] # NULL => pointer[o] <= made'
      BY <1>1, <2>1
    <3> QED BY <1>1, <1>3, <2>1, <3>1, StructAssumption DEF ObjectsOpened
  <2>3. \A s : UsersOf(s)' = UsersOf(s)
    BY <1>1, <1>3 DEF UsersOf, Wanted
  <2>4. ASSUME NEW s \in Struct, ~ClosedTwice(s)'
        PROVE  Cared(s)'
    <3>1. CASE s = made'
      <4>1. UsersOf(s) = {}
        BY <1>1, <2>1, <3>1 DEF UsersOf
      <4>2. \A c : Users(s, c)' = {}
        BY <2>3, <4>1 DEF Users
      <4> QED BY <1>2, <1>3, <2>3, <3>1, <4>1, <4>2, FS_EmptySet DEF Cared
    <3>2. CASE s # made'
      <4>1. Cared(s)
        BY <1>7, <1>8, <2>4, ClosedTwiceStays DEF JuliaInv
      <4>2. structs'[s] = structs[s] /\ \A n \in Manager : handle[n] = s => handle'[n] = s
        BY <1>2, <1>3, <1>4, <3>2, StructAssumption
      <4> QED BY <1>1, <2>3, <4>1, <4>2, UntouchedIsCared
    <3> QED BY <3>1, <3>2
  <2> QED BY <2>2, <2>4
<1> QED
  BY <1>1, <1>5, <1>6, <1>7, <1>8, NoStrayCallStays DEF JuliaInv

\* A constructor of a channel object.
LEMMA NewAnalogInKeeps ==
    ASSUME JuliaInv, NEW m \in Manager, NEW o \in Object, NewAnalogIn(m, o)
    PROVE  JuliaInv'
<1>s. PICK s : s = handle[m]
  OBVIOUS
<1>e. PICK e : e = channel[o]
  OBVIOUS
<1>1. /\ state[m] = "held" /\ state[o] = "none" /\ Call(s, moberg_open(structs, s, e))
      /\ pointer' = [pointer EXCEPT ![o] = s] /\ state' = [state EXCEPT ![o] = "held"]
      /\ UNCHANGED <<made, handle, refcnt, parent, channel, byhand, replaced>>
      /\ structs \in [Struct -> Moberg] /\ stray \in BOOLEAN
      /\ s \in Struct \cup {NULL} /\ e \in Channel /\ o \notin Manager
      /\ s = handle[m] /\ e = channel[o]
  BY <1>s, <1>e, ScriptAssumption DEF NewAnalogIn, Becomes, Call, JuliaInv, TypeOK
<1>2. /\ pointer' \in [Object -> Struct \cup {NULL}] /\ state' \in [Manager \cup Object -> Lives]
      /\ \A u \in Object : pointer'[u] = IF u = o THEN s ELSE pointer[u]
      /\ \A x \in Manager \cup Object : state'[x] = IF x = o THEN "held" ELSE state[x]
  BY <1>1 DEF JuliaInv, TypeOK, Lives
<1>3. Later
  BY <1>1, <1>2 DEF Later
<1>4. \A n \in Manager : (n \in Wanted)' <=> n \in Wanted
  BY <1>1, <1>2 DEF Wanted
<1>5. CASE s = NULL
  <2>1. structs' = structs /\ stray'
    BY <1>1, <1>5 DEF Call
  <2>2. m \in byhand'
    BY <1>1, <1>5 DEF JuliaInv, HandlesOwn, Wanted
  <2>3. TypeOK'
    BY <1>1, <1>2, <2>1 DEF JuliaInv, TypeOK, Call
  <2>4. HandlesOwn'
    BY <1>1, <1>4, <2>1 DEF JuliaInv, HandlesOwn
  <2>5. NoStrayCall'
    BY <2>2 DEF NoStrayCall
  <2> QED BY <1>1, <2>1, <2>3, <2>4, <2>5 DEF JuliaInv
<1>6. CASE s # NULL
  <2>1. s \in Struct /\ structs[s].alive /\ ~structs[s].should_free /\ s <= made
    BY <1>1, <1>6 DEF JuliaInv, HandlesOwn
  <2>2. structs' = moberg_open(structs, s, e) /\ stray' = stray
    BY <1>1, <1>6, <2>1 DEF Call
  <2>3. /\ structs' \in [Struct -> Moberg]
        /\ \A t \in Struct \ {s} : structs'[t] = structs[t]
        /\ structs'[s].alive /\ ~structs'[s].should_free
        /\ structs'[s].opens[e] = structs[s].opens[e] + 1
        /\ \A d \in Channel \ {e} : structs'[s].opens[d] = structs[s].opens[d]
    BY <1>1, <2>1, <2>2, OpenStruct
  <2>4. TypeOK'
    BY <1>1, <1>2, <2>2, <2>3 DEF JuliaInv, TypeOK
  <2>5. HandlesOwn'
    <3>1. \A n \in Manager : handle[n] # NULL =>
             structs'[handle[n]].alive /\ ~structs'[handle[n]].should_free
      BY <2>1, <2>3 DEF JuliaInv, HandlesOwn, TypeOK
    <3> QED BY <1>1, <1>4, <3>1 DEF JuliaInv, HandlesOwn
  <2>6. ASSUME ~stray
        PROVE  ObjectsOpened' /\ \A t \in Struct : ~ClosedTwice(t)' => Cared(t)'
    <3>1. ObjectsOpened /\ o \notin byhand /\ pointer[o] = NULL
      BY <1>1, <2>6 DEF JuliaInv, ObjectsOpened
    <3>2. ObjectsOpened'
      BY <1>1, <1>2, <2>1, <3>1 DEF ObjectsOpened
    <3>3. /\ UsersOf(s)' = UsersOf(s) \cup {o} /\ o \notin UsersOf(s)
          /\ \A t \in Struct \ {s} : UsersOf(t)' = UsersOf(t)
      BY <1>1, <1>2, <3>1, StructAssumption DEF UsersOf, Wanted
    <3>4. ASSUME NEW t \in Struct, ~ClosedTwice(t)'
          PROVE  Cared(t)'
      <4>1. Cared(t)
        BY <1>3, <2>6, <3>4, ClosedTwiceStays DEF JuliaInv
      <4>2. CASE t # s
        BY <1>1, <2>3, <3>3, <4>1, <4>2, UntouchedIsCared
      <4>3. CASE t = s
        <5>1. ASSUME NEW c \in Channel
              PROVE  structs'[s].opens[c] = Cardinality(Users(s, c)')
          <6>1. structs[s].opens[c] = Cardinality(Users(s, c))
            BY <2>1, <4>1, <4>3 DEF Cared
          <6>2. CASE c = e
            <7>1. Users(s, c)' = Users(s, c) \cup {o} /\ o \notin Users(s, c)
              BY <1>1, <3>3, <6>2 DEF Users
            <7>2. Cardinality(Users(s, c)') = Cardinality(Users(s, c)) + 1
              BY <7>1, UsersFinite, FS_AddElement
            <7> QED BY <2>3, <6>1, <6>2, <7>2
          <6>3. CASE c # e
            <7>1. Users(s, c)' = Users(s, c)
              BY <1>1, <3>3, <6>3 DEF Users
            <7> QED BY <2>3, <6>1, <6>3, <7>1
          <6> QED BY <6>2, <6>3
        <5>2. \E n \in Manager : handle'[n] = s
          BY <1>1
        <5> QED BY <2>3, <4>3, <5>1, <5>2 DEF Cared
      <4> QED BY <4>2, <4>3
    <3> QED BY <3>2, <3>4
  <2>7. NoStrayCall'
    BY <1>3, <2>2, NoStrayCallStays DEF JuliaInv
  <2> QED BY <1>1, <2>2, <2>4, <2>5, <2>6, <2>7 DEF JuliaInv
<1> QED BY <1>5, <1>6

\* An object that is wanted becomes garbage, and is still wanted.
LEMMA dropKeeps ==
    ASSUME JuliaInv, NEW x \in Manager \cup Object, drop(x)
    PROVE  JuliaInv'
<1>1. /\ state[x] = "held" /\ state' = [state EXCEPT ![x] = "dropped"]
      /\ UNCHANGED <<structs, made, stray, handle, refcnt, parent, pointer, channel,
                     byhand, replaced>>
  BY DEF drop, Becomes
<1>2. /\ state' \in [Manager \cup Object -> Lives]
      /\ \A y \in Manager \cup Object : state'[y] = IF y = x THEN "dropped" ELSE state[y]
  BY <1>1 DEF JuliaInv, TypeOK, Lives
<1>3. Wanted' = Wanted
  BY <1>1, <1>2 DEF Wanted
<1>4. Later
  BY <1>1, <1>2 DEF Later
<1>5. TypeOK'
  BY <1>1, <1>2 DEF JuliaInv, TypeOK
<1>6. HandlesOwn'
  BY <1>1, <1>3 DEF JuliaInv, HandlesOwn
<1>7. NoStrayCall'
  BY <1>1, <1>4, NoStrayCallStays DEF JuliaInv
<1>8. ASSUME ~stray
      PROVE  ObjectsOpened' /\ \A s \in Struct : ~ClosedTwice(s)' => Cared(s)'
  <2>1. ObjectsOpened'
    BY <1>1, <1>2, <1>8 DEF JuliaInv, ObjectsOpened
  <2>2. \A s : UsersOf(s)' = UsersOf(s)
    BY <1>1, <1>3 DEF UsersOf
  <2>3. ASSUME NEW s \in Struct, ~ClosedTwice(s)'
        PROVE  Cared(s)'
    <3>1. Cared(s)
      BY <1>4, <1>8, <2>3, ClosedTwiceStays DEF JuliaInv
    <3> QED BY <1>1, <2>2, <3>1, UntouchedIsCared
  <2> QED BY <2>1, <2>3
<1> QED BY <1>1, <1>5, <1>6, <1>7, <1>8 DEF JuliaInv

\* A Moberg object is closed, by hand or by its finalizer: the struct goes, or is
\* left to the objects that have channels open.
LEMMA close_mobergKeeps ==
    ASSUME JuliaInv, NEW m \in Manager, m \in Wanted, close_moberg(m), Later,
           state' \in [Manager \cup Object -> Lives], byhand' \subseteq Manager \cup Object,
           m \in byhand' \/ state'[m] = "gone",
           \A x \in (Manager \cup Object) \ {m} : state'[x] = state[x] /\ (x \in byhand' <=> x \in byhand),
           UNCHANGED <<refcnt, parent, pointer, channel, replaced>>
    PROVE  JuliaInv'
<1>s. PICK s : s = handle[m]
  OBVIOUS
<1>1. /\ structs \in [Struct -> Moberg] /\ s \in Struct \cup {NULL} /\ m \notin Object
      /\ stray \in BOOLEAN /\ s = handle[m]
  BY <1>s, ScriptAssumption DEF JuliaInv, TypeOK
<1>2. /\ handle' = [handle EXCEPT ![m] = NULL] /\ handle' \in [Manager -> Struct \cup {NULL}]
      /\ handle'[m] = NULL /\ \A n \in Manager \ {m} : handle'[n] = handle[n]
  BY DEF close_moberg, JuliaInv, TypeOK
<1>3. s # NULL => s \in Struct /\ structs[s].alive /\ ~structs[s].should_free
  BY <1>1 DEF JuliaInv, HandlesOwn
<1>4. /\ made' = made /\ stray' = stray
      /\ IF s = NULL THEN structs' = structs ELSE structs' = moberg_free(structs, s)
  BY <1>1, <1>3 DEF close_moberg, Call
<1> DEFINE n == [structs[s] EXCEPT !.should_free = TRUE]
<1>5. ASSUME s # NULL
      PROVE  /\ n \in Moberg /\ n.alive /\ n.should_free /\ n.opens = structs[s].opens
             /\ structs' \in [Struct -> Moberg] /\ structs'[s] = free_if_unused(n)
             /\ \A t \in Struct \ {s} : structs'[t] = structs[t]
  <2>1. s \in Struct /\ structs[s] \in Moberg /\ structs[s].alive
    BY <1>1, <1>3, <1>5
  <2>2. n \in Moberg /\ n.alive /\ n.should_free /\ n.opens = structs[s].opens
    BY <2>1 DEF Moberg
  <2>3. structs' = [structs EXCEPT ![s] = free_if_unused(n)]
    BY <1>4, <1>5 DEF moberg_free
  <2> HIDE DEF n
  <2>4. free_if_unused(n) \in Moberg
    BY <2>2, Settled
  <2> QED BY <1>1, <2>1, <2>2, <2>3, <2>4
<1> HIDE DEF n
<1>6. structs' \in [Struct -> Moberg] /\ \A t \in Struct \ {s} : structs'[t] = structs[t]
  BY <1>1, <1>4, <1>5
<1>7. TypeOK'
  BY <1>1, <1>2, <1>4, <1>6 DEF JuliaInv, TypeOK
<1>8. HandlesOwn'
  <2>1. \A k \in Manager \ {m} : (k \in Wanted)' <=> k \in Wanted
    BY DEF Wanted
  <2>2. \A k \in Manager \ {m} : handle[k] # NULL =>
           /\ structs'[handle[k]] = structs[handle[k]] /\ handle[k] <= made
           /\ structs[handle[k]].alive /\ ~structs[handle[k]].should_free /\ k \in Wanted
    BY <1>1, <1>6 DEF JuliaInv, HandlesOwn, TypeOK
  <2>3. (m \in Wanted)' => m \in byhand'
    BY DEF Wanted
  <2>4. \A k, l \in Manager : handle'[k] # NULL /\ handle'[k] = handle'[l] => k = l
    BY <1>2 DEF JuliaInv, HandlesOwn
  <2>5. ASSUME NEW k \in Manager, handle'[k] # NULL
        PROVE  /\ handle'[k] <= made' /\ structs'[handle'[k]].alive
               /\ ~structs'[handle'[k]].should_free /\ (k \in Wanted)'
    BY <1>2, <1>4, <2>1, <2>2, <2>5
  <2>6. \A k \in Manager : (k \in Wanted)' /\ handle'[k] = NULL => k \in byhand'
    BY <1>2, <2>1, <2>3 DEF JuliaInv, HandlesOwn
  <2> QED BY <2>4, <2>5, <2>6 DEF HandlesOwn
<1>9. NoStrayCall'
  BY <1>4, NoStrayCallStays DEF JuliaInv
<1>10. ASSUME ~stray
       PROVE  ObjectsOpened' /\ \A t \in Struct : ~ClosedTwice(t)' => Cared(t)'
  <2>1. \A o \in Object : state'[o] = state[o] /\ (o \in byhand' <=> o \in byhand)
    BY <1>1
  <2>2. ObjectsOpened'
    BY <1>4, <1>10, <2>1 DEF JuliaInv, ObjectsOpened
  <2>3. /\ \A t : UsersOf(t)' = UsersOf(t)
        /\ \A t, c : Users(t, c)' = Users(t, c)
    BY <2>1 DEF UsersOf, Users, Wanted
  <2>4. ASSUME NEW t \in Struct, ~ClosedTwice(t)'
        PROVE  Cared(t)'
    <3>1. Cared(t)
      BY <1>10, <2>4, ClosedTwiceStays DEF JuliaInv
    <3>2. CASE s # NULL /\ t = s
      <4>1. \A c \in Channel : n.opens[c] = Cardinality(Users(s, c)')
        <5>1. \A c \in Channel : structs[s].opens[c] = Cardinality(Users(s, c))
          BY <1>1, <1>3, <3>1, <3>2 DEF Cared
        <5>2. n.opens = structs[s].opens
          BY <1>5, <3>2
        <5> QED BY <2>3, <5>1, <5>2
      <4>2. channel' \in [Object -> Channel]
        BY DEF JuliaInv, TypeOK
      <4>3. s \in Struct /\ n \in Moberg /\ n.alive /\ n.should_free /\ structs'[s] = free_if_unused(n)
        BY <1>3, <1>5, <3>2
      <4>4. Cared(s)'
        BY <4>1, <4>2, <4>3, SettledIsCared
      <4> QED BY <3>2, <4>4
    <3>3. CASE s = NULL \/ t # s
      <4>1. structs'[t] = structs[t]
        BY <1>4, <1>6, <3>3
      <4>2. \A k \in Manager : handle[k] = t => handle'[k] = t
        BY <1>1, <1>2, <3>3, StructAssumption
      <4> QED BY <2>3, <3>1, <4>1, <4>2, UntouchedIsCared
    <3> QED BY <3>2, <3>3
  <2> QED BY <2>2, <2>4
<1> QED BY <1>4, <1>7, <1>8, <1>9, <1>10 DEF JuliaInv

\* A channel object is closed, by hand or by its finalizer.  If it is the second
\* time, its struct is one that ClosedTwice names.
LEMMA close_channelKeeps ==
    ASSUME JuliaInv, NEW o \in Object, o \in Wanted, close_channel(o), Later,
           state' \in [Manager \cup Object -> Lives], byhand' \subseteq Manager \cup Object,
           \/ o \notin byhand /\ o \in byhand' /\ state'[o] = state[o]
           \/ state'[o] = "gone" /\ (o \in byhand' <=> o \in byhand),
           \A x \in (Manager \cup Object) \ {o} : state'[x] = state[x] /\ (x \in byhand' <=> x \in byhand),
           UNCHANGED <<refcnt, parent, pointer, channel, replaced>>
    PROVE  JuliaInv'
<1>s. PICK s : s = pointer[o]
  OBVIOUS
<1>e. PICK e : e = channel[o]
  OBVIOUS
<1>1. /\ s = pointer[o] /\ e = channel[o]
      /\ structs \in [Struct -> Moberg] /\ s \in Struct \cup {NULL} /\ e \in Channel
      /\ stray \in BOOLEAN /\ o \notin Manager /\ channel' \in [Object -> Channel]
      /\ Call(s, moberg_close(structs, s, e)) /\ handle' = handle
  BY <1>s, <1>e, ScriptAssumption DEF close_channel, JuliaInv, TypeOK
<1>2. /\ made' = made /\ (stray => stray')
      /\ (~stray' => stray' = stray)
  BY <1>1 DEF Call, JuliaInv, TypeOK
<1>3. \A k \in Manager : (k \in Wanted)' <=> k \in Wanted
  BY <1>1 DEF Wanted
<1>4. (\E t \in Struct : ClosedTwice(t)) => \E t \in Struct : ClosedTwice(t)'
  BY ClosedTwiceStays
<1>5. CASE s = NULL \/ ~structs[s].alive
  <2>1. structs' = structs /\ stray' = TRUE
    BY <1>1, <1>5 DEF Call
  <2>2. TypeOK'
    BY <1>1, <1>2, <2>1 DEF JuliaInv, TypeOK
  <2>3. HandlesOwn'
    <3>1. \A k \in Manager : handle[k] # NULL =>
             /\ handle[k] <= made' /\ (k \in Wanted)'
             /\ structs'[handle[k]].alive /\ ~structs'[handle[k]].should_free
      BY <1>2, <1>3, <2>1 DEF JuliaInv, HandlesOwn
    <3>2. \A k, l \in Manager : handle[k] # NULL /\ handle[k] = handle[l] => k = l
      BY DEF JuliaInv, HandlesOwn
    <3>3. \A k \in Manager : (k \in Wanted)' /\ handle[k] = NULL => k \in byhand'
      BY <1>3 DEF JuliaInv, HandlesOwn, Later
    <3> QED BY <1>1, <3>1, <3>2, <3>3 DEF HandlesOwn
  <2>4. NoStrayCall'
    <3>1. CASE stray
      BY <1>4, <3>1 DEF JuliaInv, NoStrayCall, Later
    <3>2. CASE ~stray
      <4>1. s \in Struct
        BY <1>1, <3>2 DEF JuliaInv, ObjectsOpened, Wanted
      <4>2. CASE ClosedTwice(s)
        BY <1>4, <4>1, <4>2 DEF NoStrayCall
      <4>3. CASE ~ClosedTwice(s)
        <5>1. o \notin UsersOf(s)
          BY <1>5, <3>2, <4>1, <4>3, StructAssumption DEF JuliaInv, Cared
        <5>2. o \in byhand
          BY <1>1, <5>1 DEF UsersOf
        <5>3. ClosedTwice(s)'
          BY <1>1, <5>2 DEF ClosedTwice
        <5> QED BY <4>1, <5>3 DEF NoStrayCall
      <4> QED BY <4>2, <4>3
    <3> QED BY <3>1, <3>2
  <2> QED BY <2>1, <2>2, <2>3, <2>4 DEF JuliaInv
<1>6. CASE s # NULL /\ structs[s].alive
  <2> DEFINE n == [structs[s] EXCEPT !.opens[e] = @ - 1]
  <2>1. s \in Struct /\ structs' = moberg_close(structs, s, e) /\ stray' = stray
    BY <1>1, <1>6 DEF Call
  <2>0. stray' \in BOOLEAN
    BY <1>1, <2>1
  <2>2. /\ n \in Moberg /\ n.alive /\ n.should_free = structs[s].should_free
        /\ n.opens[e] = structs[s].opens[e] - 1
        /\ \A d \in Channel \ {e} : n.opens[d] = structs[s].opens[d]
    BY <1>1, <1>6, <2>1 DEF Moberg
  <2>3. structs' = [structs EXCEPT ![s] = free_if_unused(n)]
    BY <2>1 DEF moberg_close
  <2> HIDE DEF n
  <2>4. free_if_unused(n) \in Moberg
    BY <2>2, Settled
  <2>5. /\ structs' \in [Struct -> Moberg] /\ structs'[s] = free_if_unused(n)
        /\ \A t \in Struct \ {s} : structs'[t] = structs[t]
    BY <1>1, <2>1, <2>3, <2>4
  <2>6. TypeOK'
    <3> QED BY <1>1, <1>2, <2>0, <2>5 DEF JuliaInv, TypeOK
  <2>7. HandlesOwn'
    <3>1. ASSUME NEW k \in Manager, handle[k] # NULL
          PROVE  structs'[handle[k]].alive /\ ~structs'[handle[k]].should_free
      <4>1. handle[k] \in Struct /\ structs[handle[k]].alive /\ ~structs[handle[k]].should_free
        BY <3>1 DEF JuliaInv, HandlesOwn, TypeOK
      <4>2. CASE handle[k] = s
        <5>1. ~n.should_free
          BY <2>2, <4>1, <4>2
        <5>2. free_if_unused(n) = n
          BY <2>2, <5>1, Settled
        <5> QED BY <2>2, <2>5, <4>2, <5>1, <5>2
      <4>3. CASE handle[k] # s
        BY <2>5, <4>1, <4>3
      <4> QED BY <4>2, <4>3
    <3>2. \A k \in Manager : handle[k] # NULL => handle[k] <= made' /\ (k \in Wanted)'
      BY <1>2, <1>3 DEF JuliaInv, HandlesOwn
    <3>3. \A k, l \in Manager : handle[k] # NULL /\ handle[k] = handle[l] => k = l
      BY DEF JuliaInv, HandlesOwn
    <3>4. \A k \in Manager : (k \in Wanted)' /\ handle[k] = NULL => k \in byhand'
      BY <1>3 DEF JuliaInv, HandlesOwn, Later
    <3> QED BY <1>1, <3>1, <3>2, <3>3, <3>4 DEF HandlesOwn
  <2>8. NoStrayCall'
    BY <2>1, NoStrayCallStays DEF JuliaInv
  <2>9. ASSUME ~stray
        PROVE  ObjectsOpened' /\ \A t \in Struct : ~ClosedTwice(t)' => Cared(t)'
    <3>1. \A u \in Object \ {o} : state'[u] = state[u] /\ (u \in byhand' <=> u \in byhand)
      OBVIOUS
    <3>2. ObjectsOpened'
      <4>1. state[o] # "none" /\ state'[o] # "none"
        BY DEF Wanted
      <4>2. pointer' = pointer /\ made' = made /\ \A u \in Object :
               IF state[u] = "none" THEN u \notin byhand /\ pointer[u] = NULL
                                    ELSE pointer[u] \in Struct /\ pointer[u] <= made
        BY <1>2, <2>9 DEF JuliaInv, ObjectsOpened
      <4>3. \A u \in Object : (state'[u] = "none" <=> state[u] = "none")
                             /\ (state'[u] = "none" => (u \in byhand' <=> u \in byhand))
        BY <3>1, <4>1
      <4> QED BY <4>2, <4>3 DEF ObjectsOpened
    <3>3. ASSUME NEW t \in Struct, ~ClosedTwice(t)'
          PROVE  Cared(t)'
      <4>1. ~ClosedTwice(t) /\ Cared(t)
        BY <2>9, <3>3, ClosedTwiceStays DEF JuliaInv
      <4>2. CASE t = s
        <5>1. o \notin byhand
          BY <1>1, <3>3, <4>2 DEF ClosedTwice
        <5>2. o \in UsersOf(s)
          BY <1>1, <5>1 DEF UsersOf
        <5>3. UsersOf(s)' = UsersOf(s) \ {o}
          BY <3>1, <5>1 DEF UsersOf, Wanted
        <5>4. ASSUME NEW c \in Channel
              PROVE  n.opens[c] = Cardinality(Users(s, c)')
          <6>1. structs[s].opens[c] = Cardinality(Users(s, c))
            BY <1>6, <4>1, <4>2 DEF Cared
          <6>2. CASE c = e
            <7>1. Users(s, c)' = Users(s, c) \ {o} /\ o \in Users(s, c)
              BY <1>1, <5>2, <5>3, <6>2 DEF Users
            <7>2. Cardinality(Users(s, c)') = Cardinality(Users(s, c)) - 1
              BY <7>1, UsersFinite, FS_RemoveElement, ZenonT(30)
            <7> QED BY <2>2, <6>1, <6>2, <7>2
          <6>3. CASE c # e
            <7>1. Users(s, c)' = Users(s, c)
              BY <1>1, <5>3, <6>3 DEF Users
            <7> QED BY <2>2, <6>1, <6>3, <7>1
          <6> QED BY <6>2, <6>3
        <5>5. n.should_free \/ \E k \in Manager : handle'[k] = s
          BY <1>1, <1>6, <2>2, <4>1, <4>2 DEF Cared
        <5>6. Cared(s)'
          BY <1>1, <2>1, <2>2, <2>5, <5>4, <5>5, SettledIsCared
        <5> QED BY <4>2, <5>6
      <4>3. CASE t # s
        <5>1. UsersOf(t)' = UsersOf(t)
          BY <1>1, <3>1, <4>3 DEF UsersOf, Wanted
        <5> QED BY <1>1, <2>5, <4>1, <4>3, <5>1, UntouchedIsCared
      <4> QED BY <4>2, <4>3
    <3> QED BY <3>2, <3>3
  <2> QED BY <2>1, <2>6, <2>7, <2>8, <2>9 DEF JuliaInv
<1> QED BY <1>5, <1>6

LEMMA JuliaStep ==
    ASSUME JuliaInv, [JuliaNext]_scriptVars
    PROVE  JuliaInv'
<1>0. Manager \cap Object = {} /\ state \in [Manager \cup Object -> Lives]
      /\ byhand \subseteq Manager \cup Object
  BY ScriptAssumption DEF JuliaInv, TypeOK
<1>1. ASSUME NEW m \in Manager, NewMoberg(m) PROVE JuliaInv'
  BY <1>1, NewMobergKeeps
<1>2. ASSUME NEW m \in Manager, NEW o \in Object, NewAnalogIn(m, o) PROVE JuliaInv'
  BY <1>2, NewAnalogInKeeps
<1>3. ASSUME NEW x \in Manager \cup Object, drop(x) PROVE JuliaInv'
  BY <1>3, dropKeeps
<1>4. ASSUME NEW x \in Manager \cup Object, close_by_hand(x) PROVE JuliaInv'
  <2>1. /\ state[x] = "held" /\ x \notin byhand /\ close(x) /\ state' = state
        /\ byhand' = byhand \cup {x}
        /\ UNCHANGED <<refcnt, parent, pointer, channel, replaced>>
    BY <1>4 DEF close_by_hand
  <2>2. Later /\ x \in Wanted
    BY <2>1 DEF Later, Wanted
  <2>3. CASE x \in Manager /\ close_moberg(x)
    BY <1>0, <2>1, <2>2, <2>3, close_mobergKeeps
  <2>4. CASE x \in Object /\ close_channel(x)
    BY <1>0, <2>1, <2>2, <2>4, close_channelKeeps
  <2> QED BY <2>1, <2>3, <2>4 DEF close
<1>5. ASSUME NEW x \in Manager \cup Object, finalize(x) PROVE JuliaInv'
  <2>1. /\ state[x] = "dropped" /\ close(x) /\ state' = [state EXCEPT ![x] = "gone"]
        /\ UNCHANGED <<refcnt, parent, pointer, channel, byhand, replaced>>
    BY <1>5 DEF finalize, Becomes
  <2>2. /\ state' \in [Manager \cup Object -> Lives] /\ state'[x] = "gone"
        /\ \A y \in (Manager \cup Object) \ {x} : state'[y] = state[y]
    BY <1>0, <2>1 DEF Lives
  <2>3. Later /\ x \in Wanted
    BY <2>1, <2>2 DEF Later, Wanted
  <2>4. CASE x \in Manager /\ close_moberg(x)
    BY <1>0, <2>1, <2>2, <2>3, <2>4, close_mobergKeeps
  <2>5. CASE x \in Object /\ close_channel(x)
    BY <1>0, <2>1, <2>2, <2>3, <2>5, close_channelKeeps
  <2> QED BY <2>1, <2>4, <2>5 DEF close
<1>6. CASE UNCHANGED scriptVars
  BY <1>6 DEF scriptVars, objectVars, JuliaInv, TypeOK, HandlesOwn, NoStrayCall, ObjectsOpened,
     Cared, Users, UsersOf, Wanted, ClosedTwice
<1> QED BY <1>1, <1>2, <1>3, <1>4, <1>5, <1>6 DEF JuliaNext

LEMMA JuliaSafe == JuliaInv => LiveIsOpen /\ NoStrayCall /\ GoneWhenCollected
<1> SUFFICES ASSUME JuliaInv, ~stray, NEW s \in Struct, ~ClosedTwice(s)
             PROVE  /\ \A o \in UsersOf(s) :
                          /\ structs[s].alive
                          /\ structs[s].opens[channel[o]] >=
                                Cardinality({u \in UsersOf(s) : channel[u] = channel[o]})
                    /\ structs[s].alive =>
                          /\ \/ UsersOf(s) # {}
                             \/ \E m \in Manager : handle[m] = s /\ (m \in Wanted \/ KeepersOf(m) # {})
                          /\ \A c \in Channel : structs[s].opens[c]
                                = Cardinality({u \in UsersOf(s) : channel[u] = c})
  BY DEF LiveIsOpen, GoneWhenCollected, JuliaInv
<1>1. Cared(s)
  BY DEF JuliaInv
<1>2. ASSUME structs[s].alive
      PROVE  /\ \/ UsersOf(s) # {}
                \/ \E m \in Manager : handle[m] = s /\ m \in Wanted
             /\ \A c \in Channel : structs[s].opens[c] = Cardinality(Users(s, c))
  BY <1>1, <1>2, StructAssumption DEF Cared, JuliaInv, HandlesOwn
<1>3. ASSUME NEW o \in UsersOf(s)
      PROVE  /\ structs[s].alive
             /\ structs[s].opens[channel[o]] >= Cardinality(Users(s, channel[o]))
  <2>1. structs[s].alive /\ channel[o] \in Channel
    BY <1>1, <1>3 DEF Cared, UsersOf, JuliaInv, TypeOK
  <2>2. structs[s].opens[channel[o]] = Cardinality(Users(s, channel[o]))
    BY <1>2, <2>1
  <2> QED BY <2>1, <2>2, UsersFinite
<1> QED BY <1>2, <1>3 DEF Users

\* NoStrayCall of the run for Julia: in whatever order finalizers run, at exit too, and
\* whatever the program closes by hand, the library gets a struct that is there,
\* unless a Moberg object was closed by hand or a channel twice.
THEOREM JuliaNeverStrays == JuliaSpec => []NoStrayCall
<1> QED
  BY JuliaInit, JuliaStep, JuliaSafe, PTL DEF JuliaSpec

\* LiveIsOpen of the run for Julia: a channel object keeps its struct and its channel
\* open although it keeps nothing alive, for moberg_free waits for the channels, unless
\* a channel of the struct was closed twice.
THEOREM JuliaLiveIsOpen == JuliaSpec => []LiveIsOpen
<1> QED
  BY JuliaInit, JuliaStep, JuliaSafe, PTL DEF JuliaSpec

\* GoneWhenCollected of the run for Julia: what is finalised gives everything back.
THEOREM JuliaGoneWhenCollected == JuliaSpec => []GoneWhenCollected
<1> QED
  BY JuliaInit, JuliaStep, JuliaSafe, PTL DEF JuliaSpec

\* TypeOK of ScriptMoberg for Julia, also after a call that went astray.
THEOREM JuliaTypeCorrect == JuliaSpec => []TypeOK
<1>1. JuliaInv => TypeOK
  BY DEF JuliaInv
<1> QED
  BY <1>1, JuliaInit, JuliaStep, PTL DEF JuliaSpec
=============================================================================
