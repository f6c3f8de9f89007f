---------------------------- MODULE PluginProofs ----------------------------
(***************************************************************************)
(* What each plugin operation does to a sound heap (HeapSound of Plugin).  *)
(* The lemmas say what is preserved and, for the callers, what else stays. *)
(*                                                                         *)
(* They begin with lists without repetition, as the lists of devices and   *)
(* of channels are: what adding, joining and removing do to the set of     *)
(* their elements.                                                         *)
(***************************************************************************)
EXTENDS Plugin, SequenceTheorems, FiniteSetTheorems, TLAPS

\* Membership and injectivity in terms of the indices.
LEMMA ListIndices ==
    ASSUME NEW S, NEW s \in Seq(S)
    PROVE  /\ \A x : x \in ToSet(s) <=> \E i \in 1..Len(s) : x = s[i]
           /\ IsInjective(s) <=> \A i, j \in 1..Len(s) : s[i] = s[j] => i = j
           /\ \A i \in 1..Len(s) : s[i] \in ToSet(s) /\ s[i] \in S
           /\ Len(s) \in Nat
  <1>1. DOMAIN s = 1..Len(s) /\ Len(s) \in Nat /\ \A i \in 1..Len(s) : s[i] \in S
    BY LenProperties, ElementOfSeq
  <1> QED BY <1>1 DEF ToSet, IsInjective

\* A list of members of S has only members of S in it.
LEMMA ListMembers ==
    ASSUME NEW S, NEW s \in Seq(S)
    PROVE  ToSet(s) \subseteq S
  <1> SUFFICES ASSUME NEW x \in ToSet(s)
               PROVE  x \in S
    OBVIOUS
  <1>1. PICK i \in 1..Len(s) : x = s[i]
    BY ListIndices
  <1> QED BY <1>1, ListIndices

LEMMA EmptyList ==
    /\ ToSet(<< >>) = {} /\ IsInjective(<< >>)
    /\ \A S : << >> \in Seq(S)
  BY DEF ToSet, IsInjective

LEMMA AppendElement ==
    ASSUME NEW S, NEW s \in Seq(S), NEW e \in S
    PROVE  /\ Append(s, e) \in Seq(S)
           /\ ToSet(Append(s, e)) = ToSet(s) \cup {e}
           /\ IsInjective(s) /\ e \notin ToSet(s) => IsInjective(Append(s, e))
  <1> DEFINE t == Append(s, e)
             n == Len(s)
  <1>1. /\ n \in Nat /\ DOMAIN s = 1..n
        /\ t \in Seq(S) /\ Len(t) = n + 1 /\ DOMAIN t = 1..(n + 1)
        /\ \A i \in 1..n : t[i] = s[i]
        /\ t[n + 1] = e
    BY AppendProperties, LenProperties
  <1> HIDE DEF t, n
  <1>2. ToSet(t) = ToSet(s) \cup {e}
    <2>1. \A i \in 1..(n + 1) : i \in 1..n \/ i = n + 1
      BY <1>1
    <2>2. n + 1 \in 1..(n + 1) /\ \A i \in 1..n : i \in 1..(n + 1)
      BY <1>1
    <2> QED BY <1>1, <2>1, <2>2 DEF ToSet
  <1>3. IsInjective(s) /\ e \notin ToSet(s) => IsInjective(t)
    BY <1>1 DEF ToSet, IsInjective
  <1> QED BY <1>1, <1>2, <1>3 DEF t

LEMMA ConcatElements ==
    ASSUME NEW S, NEW s \in Seq(S), NEW t \in Seq(S)
    PROVE  /\ s \o t \in Seq(S)
           /\ ToSet(s \o t) = ToSet(s) \cup ToSet(t)
           /\ IsInjective(s) /\ IsInjective(t) /\ ToSet(s) \cap ToSet(t) = {}
                 => IsInjective(s \o t)
  <1> DEFINE u == s \o t
             m == Len(s)
             n == Len(t)
  <1>1. /\ m \in Nat /\ n \in Nat /\ DOMAIN s = 1..m /\ DOMAIN t = 1..n
        /\ u \in Seq(S) /\ Len(u) = m + n /\ DOMAIN u = 1..(m + n)
        /\ \A i \in 1..(m + n) : u[i] = IF i <= m THEN s[i] ELSE t[i - m]
    BY ConcatProperties, LenProperties
  <1> HIDE DEF u, m, n
  <1>2. /\ \A i \in 1..(m + n) : i \in 1..m \/ (i > m /\ i - m \in 1..n)
        /\ \A i \in 1..m : i \in 1..(m + n) /\ i <= m
        /\ \A j \in 1..n : /\ j + m \in 1..(m + n) /\ ~(j + m <= m)
                           /\ (j + m) - m = j
    BY <1>1
  <1>3. /\ \A i \in 1..m : u[i] = s[i]
        /\ \A j \in 1..n : u[j + m] = t[j]
    BY <1>1, <1>2
  <1>4. ToSet(u) = ToSet(s) \cup ToSet(t)
    <2>1. ToSet(u) \subseteq ToSet(s) \cup ToSet(t)
      BY <1>1, <1>2 DEF ToSet
    <2>2. ToSet(s) \subseteq ToSet(u)
      BY <1>1, <1>2, <1>3 DEF ToSet
    <2>3. ToSet(t) \subseteq ToSet(u)
      <3> SUFFICES ASSUME NEW j \in 1..n
                   PROVE  t[j] \in ToSet(u)
        BY <1>1 DEF ToSet
      <3>1. j + m \in 1..(m + n) /\ u[j + m] = t[j]
        BY <1>2, <1>3
      <3> QED BY <1>1, <3>1 DEF ToSet
    <2> QED BY <2>1, <2>2, <2>3
  <1>5. ASSUME IsInjective(s), IsInjective(t), ToSet(s) \cap ToSet(t) = {}
        PROVE  IsInjective(u)
    <2> SUFFICES ASSUME NEW i \in 1..(m + n), NEW j \in 1..(m + n), u[i] = u[j]
                 PROVE  i = j
      BY <1>1 DEF IsInjective
    <2>0. u[i] = u[j]
      OBVIOUS
    <2>1. CASE i <= m /\ j <= m
      BY <1>1, <1>2, <1>5, <2>1 DEF IsInjective
    <2>2. CASE ~(i <= m) /\ ~(j <= m)
      <3>1. i - m \in 1..n /\ j - m \in 1..n /\ t[i - m] = t[j - m]
        BY <1>1, <1>2, <2>2
      <3>2. i - m = j - m
        BY <1>1, <1>5, <3>1 DEF IsInjective
      <3> QED BY <1>1, <3>2
    <2>3. CASE i <= m /\ ~(j <= m)
      <3>1. i \in 1..m /\ u[i] = s[i] /\ j - m \in 1..n /\ u[j] = t[j - m]
        BY <1>1, <1>2, <2>3
      <3>2. u[i] \in ToSet(s) /\ u[j] \in ToSet(t)
        BY <1>1, <3>1 DEF ToSet
      <3> QED BY <1>5, <2>0, <3>2
    <2>4. CASE ~(i <= m) /\ j <= m
      <3>1. j \in 1..m /\ u[j] = s[j] /\ i - m \in 1..n /\ u[i] = t[i - m]
        BY <1>1, <1>2, <2>4
      <3>2. u[j] \in ToSet(s) /\ u[i] \in ToSet(t)
        BY <1>1, <3>1 DEF ToSet
      <3> QED BY <1>5, <2>0, <3>2
    <2> QED BY <1>1, <2>1, <2>2, <2>3, <2>4
  <1> QED BY <1>1, <1>4, <1>5 DEF u

LEMMA TailElements ==
    ASSUME NEW S, NEW s \in Seq(S), s # << >>, IsInjective(s)
    PROVE  /\ Head(s) \in ToSet(s) /\ Head(s) \in S
           /\ Tail(s) \in Seq(S)
           /\ ToSet(Tail(s)) = ToSet(s) \ {Head(s)}
           /\ IsInjective(Tail(s))
  <1> DEFINE t == Tail(s)
             n == Len(s)
  <1>1. /\ n \in Nat \ {0} /\ DOMAIN s = 1..n
        /\ Head(s) = s[1] /\ Head(s) \in S
        /\ t \in Seq(S) /\ Len(t) = n - 1 /\ DOMAIN t = 1..(n - 1)
        /\ \A i \in 1..(n - 1) : t[i] = s[i + 1]
    BY EmptySeq, HeadTailProperties, LenProperties
  <1> HIDE DEF t, n
  <1>2. /\ \A i \in 1..(n - 1) : i + 1 \in 1..n /\ i + 1 # 1
        /\ \A j \in 1..n : j = 1 \/ (j - 1 \in 1..(n - 1) /\ (j - 1) + 1 = j)
        /\ 1 \in 1..n
    BY <1>1
  <1>3. ToSet(t) \subseteq ToSet(s) \ {Head(s)}
    <2> SUFFICES ASSUME NEW i \in 1..(n - 1)
                 PROVE  t[i] \in ToSet(s) /\ t[i] # s[1]
      BY <1>1 DEF ToSet
    <2>1. t[i] = s[i + 1] /\ i + 1 \in 1..n /\ i + 1 # 1
      BY <1>1, <1>2
    <2> QED BY <1>1, <1>2, <2>1 DEF ToSet, IsInjective
  <1>4. ToSet(s) \ {Head(s)} \subseteq ToSet(t)
    <2> SUFFICES ASSUME NEW j \in 1..n, s[j] # s[1]
                 PROVE  s[j] \in ToSet(t)
      BY <1>1 DEF ToSet
    <2>1. j - 1 \in 1..(n - 1) /\ t[j - 1] = s[j]
      BY <1>1, <1>2
    <2> QED BY <1>1, <2>1 DEF ToSet
  <1>5. IsInjective(t)
    BY <1>1, <1>2, SMTT(30) DEF IsInjective
  <1>6. Head(s) \in ToSet(s)
    BY <1>1, <1>2 DEF ToSet
  <1> QED BY <1>1, <1>3, <1>4, <1>5, <1>6 DEF t

LEMMA RemoveElement ==
    ASSUME NEW S, NEW s \in Seq(S), IsInjective(s), NEW k \in 1..Len(s)
    PROVE  /\ s[k] \in ToSet(s) /\ s[k] \in S
           /\ RemoveAt(s, k) \in Seq(S)
           /\ ToSet(RemoveAt(s, k)) = ToSet(s) \ {s[k]}
           /\ IsInjective(RemoveAt(s, k))
           /\ Len(RemoveAt(s, k)) = Len(s) - 1
           /\ \A i \in 1..(Len(s) - 1) :
                 RemoveAt(s, k)[i] = IF i < k THEN s[i] ELSE s[i + 1]
  <1> DEFINE n == Len(s)
             p == SubSeq(s, 1, k - 1)
             q == SubSeq(s, k + 1, n)
  <1>1. n \in Nat /\ DOMAIN s = 1..n /\ k \in 1..n /\ \A i \in 1..n : s[i] \in S
    BY LenProperties, ElementOfSeq
  <1>2. /\ p \in Seq(S) /\ Len(p) = k - 1
        /\ \A i \in 1..(k - 1) : p[i] = s[i]
    <2>1. \A i \in 1..(k - 1) : s[i] \in S
      BY <1>1
    <2>2. /\ p \in Seq(S) /\ Len(p) = IF 1 <= k - 1 THEN k - 1 - 1 + 1 ELSE 0
          /\ \A i \in 1..(k - 1 - 1 + 1) : p[i] = s[1 + i - 1]
      BY <1>1, <2>1, SubSeqProperties
    <2> QED BY <1>1, <2>2
  <1>3. /\ q \in Seq(S) /\ Len(q) = n - k
        /\ \A i \in 1..(n - k) : q[i] = s[k + i]
    <2>1. \A i \in (k + 1)..n : s[i] \in S
      BY <1>1
    <2>2. /\ q \in Seq(S) /\ Len(q) = IF k + 1 <= n THEN n - (k + 1) + 1 ELSE 0
          /\ \A i \in 1..(n - (k + 1) + 1) : q[i] = s[(k + 1) + i - 1]
      BY <1>1, <2>1, SubSeqProperties
    <2>3. k \in Int /\ k <= n
      BY <1>1
    <2> HIDE DEF q, n
    <2>4. n - (k + 1) + 1 = n - k
      BY <1>1, <2>3
    <2>5. \A i \in 1..(n - k) : (k + 1) + i - 1 = k + i
      BY <1>1, <2>3
    <2>6. ~(k + 1 <= n) => n - k = 0
      BY <1>1, <2>3
    <2> QED BY <2>2, <2>4, <2>5, <2>6
  <1>4. DOMAIN p = 1..(k - 1) /\ DOMAIN q = 1..(n - k)
    BY <1>2, <1>3, LenProperties
  <1>5. RemoveAt(s, k) = p \o q
    BY DEF RemoveAt
  <1> HIDE DEF n, p, q
  <1>6. /\ IsInjective(p) /\ IsInjective(q)
        /\ ToSet(p) \cap ToSet(q) = {}
    <2>1. IsInjective(p)
      BY <1>1, <1>2, <1>4 DEF IsInjective
    <2>2. \A i \in 1..(n - k) : k + i \in 1..n /\ k + i > k
      BY <1>1
    <2>3. IsInjective(q)
      <3> SUFFICES ASSUME NEW i \in 1..(n - k), NEW j \in 1..(n - k), q[i] = q[j]
                   PROVE  i = j
        BY <1>4 DEF IsInjective
      <3>1. s[k + i] = s[k + j]
        BY <1>3
      <3>2. k + i = k + j
        BY <1>1, <2>2, <3>1 DEF IsInjective
      <3> QED BY <1>1, <3>2
    <2>4. ASSUME NEW i \in 1..(k - 1), NEW j \in 1..(n - k), p[i] = q[j]
          PROVE  FALSE
      <3>1. s[i] = s[k + j] /\ i \in 1..n /\ k + j \in 1..n /\ i < k + j
        BY <1>1, <1>2, <1>3, <2>2, <2>4
      <3> QED BY <1>1, <3>1 DEF IsInjective
    <2>5. ToSet(p) \cap ToSet(q) = {}
      BY <1>4, <2>4 DEF ToSet
    <2> QED BY <2>1, <2>3, <2>5
  <1>7. ToSet(p) \cup ToSet(q) = ToSet(s) \ {s[k]}
    <2>1. ToSet(p) \cup ToSet(q) \subseteq ToSet(s) \ {s[k]}
      <3>1. ASSUME NEW i \in 1..(k - 1)
            PROVE  p[i] \in ToSet(s) \ {s[k]}
        <4>1. p[i] = s[i] /\ i \in 1..n /\ i # k
          BY <1>1, <1>2
        <4> QED BY <1>1, <4>1 DEF IsInjective, ToSet
      <3>2. ASSUME NEW i \in 1..(n - k)
            PROVE  q[i] \in ToSet(s) \ {s[k]}
        <4>1. q[i] = s[k + i] /\ k + i \in 1..n /\ k + i # k
          BY <1>1, <1>3
        <4> QED BY <1>1, <4>1 DEF IsInjective, ToSet
      <3> QED BY <1>4, <3>1, <3>2 DEF ToSet
    <2>2. ASSUME NEW i \in 1..n, i # k
          PROVE  s[i] \in ToSet(p) \cup ToSet(q)
      <3>1. CASE i < k
        BY <1>1, <1>2, <1>4, <3>1 DEF ToSet
      <3>2. CASE i > k
        <4>1. i - k \in 1..(n - k) /\ q[i - k] = s[i]
          BY <1>1, <1>3, <3>2
        <4> QED BY <1>4, <4>1 DEF ToSet
      <3> QED BY <1>1, <2>2, <3>1, <3>2
    <2>3. ToSet(s) \ {s[k]} \subseteq ToSet(p) \cup ToSet(q)
      BY <1>1, <2>2 DEF ToSet
    <2> QED BY <2>1, <2>3
  <1>8. s[k] \in ToSet(s)
    BY <1>1 DEF ToSet
  <1>9. /\ Len(p \o q) = n - 1
        /\ \A i \in 1..(n - 1) : (p \o q)[i] = IF i < k THEN s[i] ELSE s[i + 1]
    <2>1. /\ Len(p \o q) = Len(p) + Len(q)
          /\ \A i \in 1..Len(p) + Len(q) :
                (p \o q)[i] = IF i <= Len(p) THEN p[i] ELSE q[i - Len(p)]
      BY <1>2, <1>3, ConcatProperties
    <2>2. k \in Int /\ k <= n /\ 1 <= k /\ Len(p) + Len(q) = n - 1
      BY <1>1, <1>2, <1>3
    <2>3. ASSUME NEW i \in 1..(n - 1)
          PROVE  (p \o q)[i] = IF i < k THEN s[i] ELSE s[i + 1]
      <3>1. CASE i < k
        <4>1. i \in 1..(k - 1) /\ i <= Len(p)
          BY <1>1, <1>2, <2>2, <3>1
        <4> QED BY <1>2, <2>1, <2>2, <3>1, <4>1
      <3>2. CASE ~(i < k)
        <4>1. i - (k - 1) \in 1..(n - k) /\ ~(i <= k - 1) /\ k + (i - (k - 1)) = i + 1
          BY <1>1, <2>2, <3>2
        <4>2. (p \o q)[i] = q[i - (k - 1)]
          BY <1>2, <2>1, <2>2, <4>1
        <4> QED BY <1>3, <3>2, <4>1, <4>2
      <3> QED BY <3>1, <3>2
    <2> QED BY <2>1, <2>2, <2>3
  <1>10. n = Len(s)
    BY DEF n
  <1> QED BY <1>1, <1>2, <1>3, <1>5, <1>6, <1>7, <1>8, <1>9, <1>10, ConcatElements

\* A list without repetition is no longer than the set it is taken from.
LEMMA InjectiveLength ==
    ASSUME NEW S, IsFiniteSet(S), NEW s \in Seq(S), IsInjective(s)
    PROVE  Len(s) <= Cardinality(S)
  <1> DEFINE n == Len(s)
  <1>1. n \in Nat /\ s \in [1..n -> S] /\ DOMAIN s = 1..n
    BY LenProperties
  <1>2. s \in Injection(1..n, S)
    BY <1>1 DEF Injection, IsInjective
  <1>3. Cardinality(1..n) <= Cardinality(S)
    BY <1>2, FS_Injection
  <1>4. Cardinality(1..n) = n
    BY <1>1, FS_Interval
  <1> QED BY <1>3, <1>4

-----------------------------------------------------------------------------
(* Heaps *)

Handles == [Device -> {"unopened", "open", "closed"}]

\* The step from h to g is none of the channels' business.
SameChannels(h, g) ==
    g.chan = h.chan /\ g.chan_use = h.chan_use /\ g.chan_dev = h.chan_dev

\* What the step from h to g does to the channels: c of device d is created,
\* c gets its use, c loses it and is freed.
CreatesChannel(h, c, d, g) ==
    /\ g.chan = [h.chan EXCEPT ![c] = "live"]
    /\ g.chan_use = h.chan_use
    /\ g.chan_dev = [h.chan_dev EXCEPT ![c] = d]

HoldsChannel(h, c, g) ==
    /\ g.chan = h.chan
    /\ g.chan_use = [h.chan_use EXCEPT ![c] = 1]
    /\ g.chan_dev = h.chan_dev

FreesChannel(h, c, g) ==
    /\ g.chan = [h.chan EXCEPT ![c] = "freed"]
    /\ g.chan_use = [h.chan_use EXCEPT ![c] = 0]
    /\ g.chan_dev = h.chan_dev

\* A heap one of whose fields is replaced by a value of its type is a heap.
LEMMA WithField ==
    ASSUME NEW h \in Heap
    PROVE  /\ \A ctx \in [Device -> Lifetime] : [h EXCEPT !.ctx = ctx] \in Heap
           /\ \A use \in [Device -> Int] : [h EXCEPT !.use = use] \in Heap
           /\ \A chan \in [Channel -> Lifetime] : [h EXCEPT !.chan = chan] \in Heap
           /\ \A n \in [Channel -> Int] : [h EXCEPT !.chan_use = n] \in Heap
           /\ \A dev \in [Channel -> Device \cup {NULL}] :
                 [h EXCEPT !.chan_dev = dev] \in Heap
           /\ \A q \in Seq(Device) : [h EXCEPT !.deferred = q] \in Heap
  BY DEF Heap

\* The users of a device are finitely many.
LEMMA UsersFinite ==
    ASSUME NEW h, NEW d
    PROVE  IsFiniteSet(Users(h, d)) /\ Cardinality(Users(h, d)) \in Nat
  <1>1. Users(h, d) \in SUBSET Channel
    BY DEF Users
  <1> QED BY <1>1, ChannelAssumption, FS_Subset, FS_CardinalityType

\* Counting only looks at the channels' use counts and devices.
LEMMA UsersSame ==
    ASSUME NEW h, NEW g, g.chan_dev = h.chan_dev, g.chan_use = h.chan_use, NEW d
    PROVE  Users(g, d) = Users(h, d)
  BY DEF Users

\* An owned device and one with a channel up are live, with a positive count.
LEMMA OwnedIsLive ==
    ASSUME NEW h, NEW handles, NEW owned, HeapSound(h, handles, owned)
    PROVE  /\ \A d \in owned : h.ctx[d] = "live"
           /\ \A c \in Channel : h.chan_use[c] = 1 =>
                 h.chan_dev[c] \in Device /\ h.ctx[h.chan_dev[c]] = "live"
  <1>1. \A d \in owned : h.ctx[d] = "live"
    BY DEF HeapSound, Counted
  <1>2. ASSUME NEW c \in Channel, h.chan_use[c] = 1
        PROVE  h.chan_dev[c] \in Device /\ h.ctx[h.chan_dev[c]] = "live"
    <2>1. h.chan_dev[c] \in Device
      BY <1>2 DEF HeapSound, ChannelsSound
    <2>2. c \in Users(h, h.chan_dev[c])
      BY <1>2 DEF Users
    <2> QED BY <2>1, <2>2 DEF HeapSound, Counted
  <1> QED BY <1>1, <1>2

-----------------------------------------------------------------------------

\* One more use, nothing else.
LEMMA DeviceUp ==
    ASSUME NEW h \in Heap, NEW d \in Device, NEW g, g = device_up(h, d)
    PROVE  /\ g \in Heap
           /\ g.use = [h.use EXCEPT ![d] = h.use[d] + 1]
           /\ g.ctx = h.ctx /\ g.deferred = h.deferred
           /\ g.chan = h.chan /\ g.chan_use = h.chan_use
           /\ g.chan_dev = h.chan_dev
  <1>1. g = [h EXCEPT !.use = [h.use EXCEPT ![d] = h.use[d] + 1]]
    BY DEF Heap, device_up
  <1>2. [h.use EXCEPT ![d] = h.use[d] + 1] \in [Device -> Int]
    BY DEF Heap
  <1>3. g \in Heap
    BY <1>1, <1>2, WithField
  <1> QED BY <1>1, <1>3 DEF Heap

\* moberg_device_new: the new context has one use, its owner's.
LEMMA NewContext ==
    ASSUME NEW h, NEW handles, NEW owned, HeapSound(h, handles, owned),
           NEW d \in Device, handles[d] = "unopened"
    PROVE  /\ HeapSound(device_up(new_context(h, d), d), [handles EXCEPT ![d] = "open"], owned \cup {d})
           /\ SameChannels(h, device_up(new_context(h, d), d))
  <1> SUFFICES ASSUME NEW g, g = device_up(new_context(h, d), d)
               PROVE  HeapSound(g, [handles EXCEPT ![d] = "open"], owned \cup {d}) /\ SameChannels(h, g)
    OBVIOUS
  <1> USE DEF SameChannels
  <1> DEFINE opened == [handles EXCEPT ![d] = "open"]
  <1> h \in Heap
    BY DEF HeapSound
  <1> DEFINE n == new_context(h, d)
  <1>1. /\ n.chan = h.chan /\ n.chan_use = h.chan_use
        /\ n.chan_dev = h.chan_dev /\ n.deferred = h.deferred
        /\ n.ctx = [h.ctx EXCEPT ![d] = "live"]
        /\ n.use = [h.use EXCEPT ![d] = 0]
    BY DEF Heap, new_context
  <1>2. n \in Heap
    <2> DEFINE u == [h EXCEPT !.ctx = [h.ctx EXCEPT ![d] = "live"]]
    <2>1. n = [u EXCEPT !.use = [h.use EXCEPT ![d] = 0]]
      BY DEF Heap, new_context
    <2>2. u \in Heap
      BY WithField DEF Heap, Lifetime
    <2>3. [h.use EXCEPT ![d] = 0] \in [Device -> Int]
      BY DEF Heap
    <2> HIDE DEF u, n
    <2> QED BY <2>1, <2>2, <2>3, WithField
  <1> HIDE DEF n
  <1>3. /\ g.chan = h.chan /\ g.chan_use = h.chan_use
        /\ g.chan_dev = h.chan_dev /\ g.deferred = h.deferred
        /\ g.ctx = [h.ctx EXCEPT ![d] = "live"]
        /\ g.use = [h.use EXCEPT ![d] = 1]
        /\ g \in Heap
    <2>1. g = device_up(n, d)
      BY DEF n
    <2>2. /\ g.chan = n.chan /\ g.chan_use = n.chan_use
          /\ g.chan_dev = n.chan_dev /\ g.deferred = n.deferred
          /\ g.ctx = n.ctx
          /\ g.use = [n.use EXCEPT ![d] = n.use[d] + 1]
          /\ g \in Heap
      BY <1>2, <2>1, DeviceUp
    <2>3. h.use \in [Device -> Int]
      BY DEF Heap
    <2> QED BY <1>1, <2>2, <2>3
  <1>4. ChannelsSound(g)
    BY <1>3 DEF HeapSound, ChannelsSound
  <1>5. h.ctx[d] = "none"
    BY DEF HeapSound, LibrariesSound
  <1>6. LibrariesSound(g, opened)
    BY <1>3, <1>5 DEF HeapSound, LibrariesSound, Heap, Handles
  <1>7. Counted(g, owned \cup {d})
    <2> SUFFICES ASSUME NEW e \in Device
                 PROVE  IF g.ctx[e] = "live"
                        THEN /\ g.use[e] = Cardinality(Users(g, e))
                                   + (IF e \in owned \cup {d} THEN 1 ELSE 0)
                             /\ g.use[e] > 0
                        ELSE e \notin owned \cup {d} /\ Users(g, e) = {}
      BY DEF Counted
    <2>1. Users(g, e) = Users(h, e)
      BY <1>3, UsersSame
    <2>2. CASE e = d
      <3>1. Users(h, d) = {}
        BY <1>5 DEF HeapSound, Counted
      <3> QED BY <1>3, <2>1, <2>2, <3>1, FS_EmptySet DEF HeapSound, Heap
    <2>3. CASE e # d
      BY <1>3, <2>1, <2>3 DEF HeapSound, Heap, Counted
    <2> QED BY <2>2, <2>3
  <1>8. opened \in Handles /\ owned \cup {d} \in SUBSET Device
    BY DEF HeapSound, Handles
  <1> QED BY <1>3, <1>4, <1>6, <1>7, <1>8 DEF HeapSound, Handles

\* A fresh channel has no use.
LEMMA InitChannel ==
    ASSUME NEW h, NEW handles, NEW owned, HeapSound(h, handles, owned),
           NEW c \in Channel, h.chan[c] = "none", NEW d \in Device
    PROVE  /\ HeapSound(init_channel(h, c, d), handles, owned)
           /\ CreatesChannel(h, c, d, init_channel(h, c, d))
  <1> SUFFICES ASSUME NEW g, g = init_channel(h, c, d)
               PROVE  HeapSound(g, handles, owned) /\ CreatesChannel(h, c, d, g)
    OBVIOUS
  <1> USE DEF CreatesChannel
  <1>1. h.chan_use[c] = 0
    BY DEF HeapSound, ChannelsSound
  <1>2. /\ g.chan = [h.chan EXCEPT ![c] = "live"]
        /\ g.chan_use = h.chan_use
        /\ g.chan_dev = [h.chan_dev EXCEPT ![c] = d]
        /\ g.ctx = h.ctx /\ g.use = h.use /\ g.deferred = h.deferred
    BY <1>1 DEF init_channel, HeapSound, Heap
  <1>3. g \in Heap
    <2> DEFINE u == [h EXCEPT !.chan = [h.chan EXCEPT ![c] = "live"]]
               v == [u EXCEPT !.chan_use = [h.chan_use EXCEPT ![c] = 0]]
    <2>1. g = [v EXCEPT !.chan_dev = [h.chan_dev EXCEPT ![c] = d]]
      BY DEF Heap, HeapSound, init_channel
    <2>2. u \in Heap
      BY WithField DEF Heap, HeapSound, Lifetime
    <2>3. /\ [h.chan_use EXCEPT ![c] = 0] \in [Channel -> Int]
          /\ [h.chan_dev EXCEPT ![c] = d] \in [Channel -> Device \cup {NULL}]
      BY DEF HeapSound, Heap
    <2> HIDE DEF u
    <2>4. v \in Heap
      BY <2>2, <2>3, WithField
    <2> HIDE DEF v
    <2> QED BY <2>1, <2>3, <2>4, WithField
  <1>4. ChannelsSound(g)
    BY <1>2 DEF HeapSound, Heap, ChannelsSound
  <1>5. LibrariesSound(g, handles)
    BY <1>2 DEF HeapSound, LibrariesSound
  <1>6. \A e \in Device : Users(g, e) = Users(h, e)
    BY <1>1, <1>2 DEF Users, HeapSound, Heap
  <1>7. Counted(g, owned)
    BY <1>2, <1>6 DEF HeapSound, Counted
  <1> QED BY <1>2, <1>3, <1>4, <1>5, <1>7 DEF HeapSound

-----------------------------------------------------------------------------

\* g is h with one use of the device less.
IsDown(h, d, g) ==
    /\ g \in Heap
    /\ g.use = [h.use EXCEPT ![d] = h.use[d] - 1]
    /\ h.use[d] > 1 => g.ctx = h.ctx /\ g.deferred = h.deferred
    /\ h.use[d] <= 1 => /\ g.ctx = [h.ctx EXCEPT ![d] = "freed"]
                        /\ g.deferred = h.deferred \/ g.deferred = Append(h.deferred, d)
    /\ g.chan = h.chan /\ g.chan_use = h.chan_use /\ g.chan_dev = h.chan_dev

\* The last use frees the context and, memory permitting, leaves its library
\* to be closed; any other use only counts down.
LEMMA DeviceDown ==
    ASSUME NEW h \in Heap, NEW d \in Device, NEW ok
    PROVE  IsDown(h, d, device_down(h, d, ok))
  <1> DEFINE g == device_down(h, d, ok)
             u == [h EXCEPT !.use = [h.use EXCEPT ![d] = h.use[d] - 1]]
             v == [u EXCEPT !.ctx = [h.ctx EXCEPT ![d] = "freed"]]
             w == [v EXCEPT !.deferred = Append(h.deferred, d)]
  <1>1. /\ u \in Heap
        /\ u.use = [h.use EXCEPT ![d] = h.use[d] - 1]
        /\ u.use[d] = h.use[d] - 1
        /\ u.ctx = h.ctx /\ u.deferred = h.deferred
        /\ u.chan = h.chan /\ u.chan_use = h.chan_use /\ u.chan_dev = h.chan_dev
    <2>1. [h.use EXCEPT ![d] = h.use[d] - 1] \in [Device -> Int]
      BY DEF Heap
    <2>2. u \in Heap
      BY <2>1, WithField
    <2> QED BY <2>2 DEF Heap
  <1>2. /\ v \in Heap
        /\ v.ctx = [h.ctx EXCEPT ![d] = "freed"]
        /\ v.use = u.use /\ v.deferred = h.deferred
        /\ v.chan = h.chan /\ v.chan_use = h.chan_use /\ v.chan_dev = h.chan_dev
    <2>1. [h.ctx EXCEPT ![d] = "freed"] \in [Device -> Lifetime]
      BY DEF Heap, Lifetime
    <2> HIDE DEF u
    <2>2. v \in Heap
      BY <1>1, <2>1, WithField
    <2> QED BY <1>1, <2>2 DEF Heap
  <1>3. /\ w \in Heap
        /\ w.deferred = Append(h.deferred, d)
        /\ w.use = u.use /\ w.ctx = v.ctx
        /\ w.chan = h.chan /\ w.chan_use = h.chan_use /\ w.chan_dev = h.chan_dev
    <2>1. Append(h.deferred, d) \in Seq(Device)
      BY DEF Heap
    <2> HIDE DEF v
    <2>2. w \in Heap
      BY <1>2, <2>1, WithField
    <2> QED BY <1>2, <2>2 DEF Heap
  <1>4. g = IF u.use[d] <= 0 THEN IF ok THEN w ELSE v ELSE u
    BY DEF device_down, moberg_deferred_action, Heap
  <1>5. h.use[d] \in Int
    BY DEF Heap
  <1> HIDE DEF g, u, v, w
  <1> SUFFICES IsDown(h, d, g)
    BY DEF g
  <1>6. CASE h.use[d] > 1
    BY <1>1, <1>4, <1>5, <1>6 DEF IsDown
  <1>7. CASE h.use[d] <= 1 /\ ok
    BY <1>1, <1>2, <1>3, <1>4, <1>5, <1>7 DEF IsDown
  <1>8. CASE h.use[d] <= 1 /\ ~ok
    BY <1>1, <1>2, <1>4, <1>5, <1>8 DEF IsDown
  <1> QED BY <1>5, <1>6, <1>7, <1>8

\* Contexts still go before their libraries, and no library is pending twice.
LEMMA DeviceDownLibraries ==
    ASSUME NEW h \in Heap, NEW handles \in Handles, LibrariesSound(h, handles),
           NEW d \in Device, h.ctx[d] = "live",
           NEW ok, NEW g, g = device_down(h, d, ok)
    PROVE  LibrariesSound(g, handles)
  <1>0. IsDown(h, d, g)
    BY DeviceDown
  <1>1. CASE h.use[d] > 1
    BY <1>0, <1>1 DEF LibrariesSound, IsDown
  <1>2. CASE h.use[d] <= 1
    <2>1. /\ g.ctx = [h.ctx EXCEPT ![d] = "freed"]
          /\ g.deferred = h.deferred \/ g.deferred = Append(h.deferred, d)
      BY <1>0, <1>2 DEF IsDown
    <2>2. \A e \in Device : /\ g.ctx[e] = "live" => handles[e] = "open"
                            /\ g.ctx[e] = "none" <=> handles[e] = "unopened"
      BY <2>1 DEF LibrariesSound, Heap, Handles
    <2>3. \A i \in 1..Len(h.deferred) : /\ handles[h.deferred[i]] = "open"
                                        /\ g.ctx[h.deferred[i]] = "freed"
                                        /\ h.deferred[i] # d
      BY <2>1 DEF LibrariesSound, Heap
    <2>4. CASE g.deferred = h.deferred
      BY <2>2, <2>3, <2>4 DEF LibrariesSound
    <2>5. CASE g.deferred = Append(h.deferred, d)
      <3>1. /\ Len(g.deferred) = Len(h.deferred) + 1 /\ Len(h.deferred) \in Nat
            /\ DOMAIN g.deferred = 1..(Len(h.deferred) + 1)
            /\ DOMAIN h.deferred = 1..Len(h.deferred)
            /\ \A i \in 1..Len(h.deferred) : g.deferred[i] = h.deferred[i]
            /\ g.deferred[Len(h.deferred) + 1] = d
        BY <2>5, AppendProperties, LenProperties DEF Heap
      <3>2. handles[d] = "open" /\ g.ctx[d] = "freed"
        BY <2>1 DEF LibrariesSound, Heap
      <3>3. \A i \in 1..Len(g.deferred) : /\ handles[g.deferred[i]] = "open"
                                          /\ g.ctx[g.deferred[i]] = "freed"
        BY <2>3, <3>1, <3>2
      <3>4. IsInjective(g.deferred)
        BY <2>3, <3>1 DEF LibrariesSound, IsInjective
      <3> QED BY <2>2, <3>3, <3>4 DEF LibrariesSound
    <2> QED BY <2>1, <2>4, <2>5
  <1>3. h.use[d] \in Int
    BY DEF Heap
  <1> QED BY <1>1, <1>2, <1>3

\* The owner of a device lets go of it.
LEMMA OwnerDown ==
    ASSUME NEW h, NEW handles, NEW owned, HeapSound(h, handles, owned),
           NEW d \in owned, NEW ok
    PROVE  /\ HeapSound(device_down(h, d, ok), handles, owned \ {d})
           /\ SameChannels(h, device_down(h, d, ok))
  <1> SUFFICES ASSUME NEW g, g = device_down(h, d, ok)
               PROVE  HeapSound(g, handles, owned \ {d}) /\ SameChannels(h, g)
    OBVIOUS
  <1> USE DEF SameChannels
  <1> h \in Heap /\ d \in Device /\ handles \in Handles
    BY DEF HeapSound, Handles
  <1>1. h.ctx[d] = "live"
    BY OwnedIsLive
  <1>2. /\ g \in Heap
        /\ g.use = [h.use EXCEPT ![d] = h.use[d] - 1]
        /\ h.use[d] > 1 => g.ctx = h.ctx
        /\ h.use[d] <= 1 => g.ctx = [h.ctx EXCEPT ![d] = "freed"]
        /\ g.chan = h.chan /\ g.chan_use = h.chan_use /\ g.chan_dev = h.chan_dev
    BY DeviceDown DEF IsDown
  <1>3. ChannelsSound(g)
    BY <1>2 DEF HeapSound, ChannelsSound
  <1>4. LibrariesSound(g, handles)
    BY <1>1, DeviceDownLibraries DEF HeapSound
  <1>5. Counted(g, owned \ {d})
    <2> SUFFICES ASSUME NEW e \in Device
                 PROVE  IF g.ctx[e] = "live"
                        THEN /\ g.use[e] = Cardinality(Users(g, e))
                                   + (IF e \in owned \ {d} THEN 1 ELSE 0)
                             /\ g.use[e] > 0
                        ELSE e \notin owned \ {d} /\ Users(g, e) = {}
      BY DEF Counted
    <2>1. Users(g, e) = Users(h, e)
      BY <1>2, UsersSame
    <2>2. CASE e = d
      <3>1. h.use[d] = Cardinality(Users(h, d)) + 1
        BY <1>1 DEF HeapSound, Counted
      <3>2. IsFiniteSet(Users(h, d)) /\ Cardinality(Users(h, d)) \in Nat
        BY UsersFinite
      <3>3. g.use[d] = Cardinality(Users(h, d))
        BY <1>2, <3>1, <3>2 DEF Heap
      <3>4. CASE h.use[d] > 1
        BY <1>1, <1>2, <2>1, <2>2, <3>1, <3>2, <3>3, <3>4
      <3>5. CASE h.use[d] <= 1
        <4>1. Users(h, d) = {}
          BY <3>1, <3>2, <3>5, FS_EmptySet
        <4>2. g.ctx[d] = "freed"
          BY <1>2, <3>5 DEF Heap
        <4> QED BY <2>1, <2>2, <4>1, <4>2
      <3> QED BY <3>1, <3>2, <3>4, <3>5
    <2>3. CASE e # d
      <3>1. g.ctx[e] = h.ctx[e] /\ g.use[e] = h.use[e]
        BY <1>2, <2>3 DEF Heap
      <3> QED BY <2>1, <2>3, <3>1 DEF HeapSound, Counted
    <2> QED BY <2>2, <2>3
  <1> QED BY <1>2, <1>3, <1>4, <1>5 DEF HeapSound

\* A channel that was not up gives its live device one more user.
LEMMA ChannelUp ==
    ASSUME NEW h, NEW handles, NEW owned, HeapSound(h, handles, owned),
           NEW c \in Channel, h.chan[c] = "live", h.chan_use[c] = 0,
           h.ctx[h.chan_dev[c]] = "live"
    PROVE  /\ HeapSound(channel_up(h, c), handles, owned)
           /\ HoldsChannel(h, c, channel_up(h, c))
  <1> SUFFICES ASSUME NEW g, g = channel_up(h, c)
               PROVE  HeapSound(g, handles, owned) /\ HoldsChannel(h, c, g)
    OBVIOUS
  <1> USE DEF HoldsChannel
  <1> DEFINE d == h.chan_dev[c]
             u == device_up(h, d)
  <1> h \in Heap
    BY DEF HeapSound
  <1>1. d \in Device
    BY DEF HeapSound, ChannelsSound
  <1>2. /\ u \in Heap
        /\ u.use = [h.use EXCEPT ![d] = h.use[d] + 1]
        /\ u.ctx = h.ctx /\ u.deferred = h.deferred
        /\ u.chan = h.chan /\ u.chan_use = h.chan_use
        /\ u.chan_dev = h.chan_dev
    BY <1>1, DeviceUp
  <1>3. g = [u EXCEPT !.chan_use = [h.chan_use EXCEPT ![c] = 1]]
    <2>1. g = [u EXCEPT !.chan_use[c] = @ + 1]
      BY DEF channel_up
    <2> HIDE DEF u
    <2> QED BY <1>2, <2>1 DEF Heap
  <1> HIDE DEF u
  <1>4. /\ g \in Heap
        /\ g.use = [h.use EXCEPT ![d] = h.use[d] + 1]
        /\ g.ctx = h.ctx /\ g.deferred = h.deferred
        /\ g.chan = h.chan /\ g.chan_dev = h.chan_dev
        /\ g.chan_use = [h.chan_use EXCEPT ![c] = 1]
    <2>1. [h.chan_use EXCEPT ![c] = 1] \in [Channel -> Int]
      BY DEF Heap
    <2>2. g \in Heap
      BY <1>2, <1>3, <2>1, WithField
    <2> QED BY <1>2, <1>3, <2>2 DEF Heap
  <1>5. ChannelsSound(g)
    BY <1>4 DEF HeapSound, ChannelsSound, Heap
  <1>6. LibrariesSound(g, handles)
    BY <1>4 DEF HeapSound, LibrariesSound
  <1>7. Counted(g, owned)
    <2> SUFFICES ASSUME NEW e \in Device
                 PROVE  IF g.ctx[e] = "live"
                        THEN /\ g.use[e] = Cardinality(Users(g, e))
                                   + (IF e \in owned THEN 1 ELSE 0)
                             /\ g.use[e] > 0
                        ELSE e \notin owned /\ Users(g, e) = {}
      BY DEF Counted
    <2>1. CASE e = d
      <3>1. Users(g, d) = Users(h, d) \cup {c} /\ c \notin Users(h, d)
        BY <1>4 DEF Users, Heap
      <3>2. /\ IsFiniteSet(Users(h, d)) /\ Cardinality(Users(h, d)) \in Nat
            /\ Cardinality(Users(g, d)) = Cardinality(Users(h, d)) + 1
        BY <3>1, UsersFinite, FS_AddElement
      <3>3. /\ h.use[d] = Cardinality(Users(h, d)) + (IF d \in owned THEN 1 ELSE 0)
            /\ h.use[d] > 0
        BY <1>1 DEF HeapSound, Counted
      <3>4. g.use[d] = h.use[d] + 1 /\ g.ctx[d] = "live"
        BY <1>1, <1>4 DEF Heap
      <3> QED BY <2>1, <3>2, <3>3, <3>4
    <2>2. CASE e # d
      <3>1. Users(g, e) = Users(h, e)
        BY <1>4, <2>2 DEF Users, Heap
      <3>2. g.ctx[e] = h.ctx[e] /\ g.use[e] = h.use[e]
        BY <1>4, <2>2 DEF Heap
      <3> QED BY <3>1, <3>2 DEF HeapSound, Counted
    <2> QED BY <2>1, <2>2
  <1> QED BY <1>4, <1>5, <1>6, <1>7 DEF HeapSound

\* A channel that was up is freed and gives back its use of the device.
LEMMA ChannelDown ==
    ASSUME NEW h, NEW handles, NEW owned, HeapSound(h, handles, owned),
           NEW c \in Channel, h.chan_use[c] = 1,
           NEW ok
    PROVE  /\ HeapSound(channel_down(h, c, ok), handles, owned)
           /\ FreesChannel(h, c, channel_down(h, c, ok))
  <1> SUFFICES ASSUME NEW g, g = channel_down(h, c, ok)
               PROVE  HeapSound(g, handles, owned) /\ FreesChannel(h, c, g)
    OBVIOUS
  <1> USE DEF FreesChannel
  <1> DEFINE d == h.chan_dev[c]
             u == device_down(h, d, ok)
             v == [u EXCEPT !.chan_use = [h.chan_use EXCEPT ![c] = 0]]
  <1> h \in Heap /\ handles \in Handles
    BY DEF HeapSound, Handles
  <1>1. d \in Device /\ h.ctx[d] = "live"
    BY OwnedIsLive
  <1>2. /\ u \in Heap
        /\ u.use = [h.use EXCEPT ![d] = h.use[d] - 1]
        /\ h.use[d] > 1 => u.ctx = h.ctx
        /\ h.use[d] <= 1 => u.ctx = [h.ctx EXCEPT ![d] = "freed"]
        /\ u.chan = h.chan /\ u.chan_use = h.chan_use
        /\ u.chan_dev = h.chan_dev
    <2>1. IsDown(h, d, u)
      BY <1>1, DeviceDown
    <2> HIDE DEF u, d
    <2> QED BY <2>1 DEF IsDown
  <1>3. LibrariesSound(u, handles)
    BY <1>1, DeviceDownLibraries DEF HeapSound
  <1>4. g = [v EXCEPT !.chan = [h.chan EXCEPT ![c] = "freed"]]
    <2> DEFINE w == [u EXCEPT !.chan_use[c] = @ - 1]
    <2>1. g = IF w.chan_use[c] <= 0 THEN [w EXCEPT !.chan[c] = "freed"] ELSE w
      BY DEF channel_down
    <2> HIDE DEF u
    <2>2. u.chan_use[c] = 1 /\ u.chan_use = h.chan_use /\ u.chan = h.chan
      BY <1>2
    <2>3. w = v
      BY <2>2 DEF Heap
    <2>4. v.chan_use[c] = 0 /\ v.chan = h.chan
      BY <1>2, <2>2 DEF Heap
    <2> HIDE DEF w, v
    <2> QED BY <2>1, <2>3, <2>4
  <1> HIDE DEF u
  <1>5. /\ g \in Heap
        /\ g.chan = [h.chan EXCEPT ![c] = "freed"]
        /\ g.chan_use = [h.chan_use EXCEPT ![c] = 0]
        /\ g.chan_dev = h.chan_dev /\ g.deferred = u.deferred
        /\ g.use = u.use /\ g.ctx = u.ctx
    <2>1. /\ [h.chan_use EXCEPT ![c] = 0] \in [Channel -> Int]
          /\ [h.chan EXCEPT ![c] = "freed"] \in [Channel -> Lifetime]
      BY DEF Heap, Lifetime
    <2>2. v \in Heap
      BY <1>2, <2>1, WithField
    <2>3. /\ v.chan_use = [h.chan_use EXCEPT ![c] = 0]
          /\ v.chan_dev = h.chan_dev /\ v.deferred = u.deferred
          /\ v.use = u.use /\ v.ctx = u.ctx
      BY <1>2 DEF Heap
    <2> HIDE DEF v
    <2>4. g \in Heap
      BY <1>4, <2>1, <2>2, WithField
    <2> QED BY <1>4, <2>2, <2>3, <2>4 DEF Heap
  <1>6. ChannelsSound(g)
    BY <1>5 DEF HeapSound, ChannelsSound, Heap
  <1>7. LibrariesSound(g, handles)
    BY <1>3, <1>5 DEF LibrariesSound
  <1>8. Counted(g, owned)
    <2> SUFFICES ASSUME NEW e \in Device
                 PROVE  IF g.ctx[e] = "live"
                        THEN /\ g.use[e] = Cardinality(Users(g, e))
                                   + (IF e \in owned THEN 1 ELSE 0)
                             /\ g.use[e] > 0
                        ELSE e \notin owned /\ Users(g, e) = {}
      BY DEF Counted
    <2>1. CASE e = d
      <3>1. Users(g, d) = Users(h, d) \ {c} /\ c \in Users(h, d)
        BY <1>5 DEF Users, Heap
      <3>2. /\ IsFiniteSet(Users(g, d)) /\ Cardinality(Users(g, d)) \in Nat
            /\ Cardinality(Users(h, d)) \in Nat
            /\ Cardinality(Users(g, d)) = Cardinality(Users(h, d)) - 1
        BY <3>1, UsersFinite, FS_RemoveElement
      <3>3. h.use[d] = Cardinality(Users(h, d)) + (IF d \in owned THEN 1 ELSE 0)
        BY <1>1 DEF HeapSound, Counted
      <3>4. g.use[d] = h.use[d] - 1
        BY <1>1, <1>2, <1>5 DEF Heap
      <3>5. CASE h.use[d] > 1
        <4>1. g.ctx[d] = "live"
          BY <1>1, <1>2, <1>5, <3>5
        <4> QED BY <2>1, <3>2, <3>3, <3>4, <3>5, <4>1
      <3>6. CASE h.use[d] <= 1
        <4>1. g.ctx[d] = "freed"
          BY <1>1, <1>2, <1>5, <3>6 DEF Heap
        <4>2. d \notin owned /\ Cardinality(Users(g, d)) = 0
          BY <3>2, <3>3, <3>6
        <4>3. Users(g, d) = {}
          BY <3>2, <4>2, FS_EmptySet
        <4> QED BY <2>1, <4>1, <4>2, <4>3
      <3> QED BY <3>2, <3>3, <3>5, <3>6
    <2>2. CASE e # d
      <3>1. Users(g, e) = Users(h, e)
        BY <1>5, <2>2 DEF Users, Heap
      <3>2. g.ctx[e] = h.ctx[e]
        <4>1. g.ctx = h.ctx \/ g.ctx = [h.ctx EXCEPT ![d] = "freed"]
          <5>1. h.use[d] \in Int
            BY <1>1 DEF Heap
          <5> QED BY <1>2, <1>5, <5>1
        <4> QED BY <2>2, <4>1 DEF Heap
      <3>3. g.use[e] = h.use[e]
        BY <1>2, <1>5, <2>2 DEF Heap
      <3> QED BY <3>1, <3>2, <3>3 DEF HeapSound, Counted
    <2> QED BY <2>1, <2>2
  <1> QED BY <1>5, <1>6, <1>7, <1>8 DEF HeapSound

-----------------------------------------------------------------------------

\* moberg_device_in_use leaves the heap as it was.
LEMMA ProbeDevice ==
    ASSUME NEW h, NEW handles, NEW owned, HeapSound(h, handles, owned),
           NEW d \in owned, NEW ok
    PROVE  /\ HeapSound(device_down(device_up(h, d), d, ok), handles, owned)
           /\ SameChannels(h, device_down(device_up(h, d), d, ok))
  <1> SUFFICES ASSUME NEW g, g = device_down(device_up(h, d), d, ok)
               PROVE  HeapSound(g, handles, owned) /\ SameChannels(h, g)
    OBVIOUS
  <1> USE DEF SameChannels
  <1> DEFINE u == device_up(h, d)
  <1> h \in Heap /\ d \in Device
    BY DEF HeapSound
  <1>1. /\ u \in Heap
        /\ u.use = [h.use EXCEPT ![d] = h.use[d] + 1]
        /\ u.ctx = h.ctx /\ u.deferred = h.deferred
        /\ u.chan = h.chan /\ u.chan_use = h.chan_use
        /\ u.chan_dev = h.chan_dev
    BY DeviceUp
  <1>2. IsDown(u, d, g)
    <2> HIDE DEF u
    <2>1. IsDown(u, d, device_down(u, d, ok))
      BY <1>1, DeviceDown
    <2> QED BY <2>1 DEF u
  <1> HIDE DEF u
  <1>3. h.use[d] \in Int /\ h.use[d] > 0 /\ u.use[d] = h.use[d] + 1
    <2>1. h.ctx[d] = "live"
      BY OwnedIsLive
    <2> QED BY <1>1, <2>1 DEF HeapSound, Heap, Counted
  <1>4. /\ g \in Heap
        /\ g.ctx = h.ctx /\ g.deferred = h.deferred
        /\ g.use = h.use
        /\ g.chan = h.chan /\ g.chan_use = h.chan_use /\ g.chan_dev = h.chan_dev
    <2>1. u.use[d] > 1
      BY <1>3
    <2>2. [u.use EXCEPT ![d] = u.use[d] - 1] = h.use
      <3> DEFINE f == [u.use EXCEPT ![d] = u.use[d] - 1]
      <3>1. h.use \in [Device -> Int] /\ u.use \in [Device -> Int]
        BY <1>1 DEF Heap
      <3>2. f \in [Device -> Int] /\ f[d] = u.use[d] - 1
        BY <3>1
      <3>3. \A e \in Device : e # d => f[e] = u.use[e] /\ u.use[e] = h.use[e]
        BY <1>1, <3>1
      <3>4. f[d] = h.use[d]
        BY <1>3, <3>2
      <3> HIDE DEF f
      <3>5. \A e \in Device : f[e] = h.use[e]
        BY <3>3, <3>4
      <3>6. f = h.use
        BY <3>1, <3>2, <3>5
      <3> QED BY <3>6 DEF f
    <2> QED BY <1>1, <1>2, <2>1, <2>2 DEF IsDown
  <1>5. \A e \in Device : Users(g, e) = Users(h, e)
    BY <1>4, UsersSame
  <1>6. ChannelsSound(g) /\ LibrariesSound(g, handles) /\ Counted(g, owned)
    BY <1>4, <1>5 DEF HeapSound, ChannelsSound, LibrariesSound, Counted
  <1> QED BY <1>4, <1>6 DEF HeapSound

\* run_deferred_actions closes a library nobody can need any more.
LEMMA CloseLibrary ==
    ASSUME NEW h, NEW handles, NEW owned, HeapSound(h, handles, owned),
           h.deferred # << >>, NEW n, n = Len(h.deferred)
    PROVE  /\ HeapSound([h EXCEPT !.deferred = SubSeq(h.deferred, 1, n - 1)],
                        [handles EXCEPT ![h.deferred[n]] = "closed"], owned)
           /\ SameChannels(h, [h EXCEPT !.deferred = SubSeq(h.deferred, 1, n - 1)])
  <1> SUFFICES ASSUME NEW g, g = [h EXCEPT !.deferred = SubSeq(h.deferred, 1, n - 1)],
                      NEW closed, closed = [handles EXCEPT ![h.deferred[n]] = "closed"]
               PROVE  HeapSound(g, closed, owned) /\ SameChannels(h, g)
    OBVIOUS
  <1> USE DEF SameChannels
  <1> DEFINE q == SubSeq(h.deferred, 1, n - 1)
             d == h.deferred[n]
  <1> h \in Heap /\ handles \in Handles
    BY DEF HeapSound, Handles
  <1>1. h.deferred \in Seq(Device) /\ n \in Nat \ {0} /\ d \in Device
    BY EmptySeq, LenProperties, ElementOfSeq DEF Heap
  <1>2. /\ q \in Seq(Device) /\ Len(q) = n - 1
        /\ \A i \in 1..(n - 1) : q[i] = h.deferred[i]
    <2>1. \A i \in 1..(n - 1) : h.deferred[i] \in Device
      BY <1>1, ElementOfSeq
    <2>2. /\ q \in Seq(Device) /\ Len(q) = IF 1 <= n - 1 THEN n - 1 - 1 + 1 ELSE 0
          /\ \A i \in 1..(n - 1 - 1 + 1) : q[i] = h.deferred[1 + i - 1]
      BY <1>1, <2>1, SubSeqProperties
    <2> QED BY <1>1, <2>2
  <1> HIDE DEF q
  <1>3. /\ g \in Heap /\ g.deferred = q
        /\ g.ctx = h.ctx /\ g.use = h.use
        /\ g.chan = h.chan /\ g.chan_use = h.chan_use /\ g.chan_dev = h.chan_dev
    <2>1. g = [h EXCEPT !.deferred = q]
      BY DEF q
    <2>2. g \in Heap
      BY <1>2, <2>1, WithField
    <2> QED BY <2>1, <2>2 DEF Heap
  <1>4. ChannelsSound(g)
    BY <1>3 DEF HeapSound, ChannelsSound
  <1>5. \A e \in Device : Users(g, e) = Users(h, e)
    BY <1>3, UsersSame, ZenonT(30)
  <1>6. Counted(g, owned)
    BY <1>3, <1>5 DEF HeapSound, Counted
  <1>7. LibrariesSound(g, closed)
    <2>1. /\ h.ctx[d] = "freed" /\ handles[d] = "open"
          /\ \A i \in 1..(n - 1) : h.deferred[i] # d
      BY <1>1, LenProperties DEF HeapSound, LibrariesSound, IsInjective
    <2>2. \A e \in Device : /\ g.ctx[e] = "live" => closed[e] = "open"
                            /\ g.ctx[e] = "none" <=> closed[e] = "unopened"
      BY <1>1, <1>3, <2>1 DEF HeapSound, LibrariesSound, Handles
    <2>3. \A i \in 1..Len(q) : closed[q[i]] = "open" /\ g.ctx[q[i]] = "freed"
      <3> SUFFICES ASSUME NEW i \in 1..Len(q)
                   PROVE  closed[q[i]] = "open" /\ g.ctx[q[i]] = "freed"
        OBVIOUS
      <3>1. /\ i \in 1..(n - 1) /\ i \in 1..n /\ q[i] = h.deferred[i]
            /\ h.deferred[i] # d
        BY <1>1, <1>2, <2>1
      <3>2. h.deferred[i] \in Device
        BY <1>1, <3>1, ElementOfSeq
      <3> QED BY <1>1, <1>3, <3>1, <3>2 DEF HeapSound, LibrariesSound, Handles
    <2>4. IsInjective(q)
      <3>1. DOMAIN q = 1..(n - 1) /\ DOMAIN h.deferred = 1..n
        BY <1>1, <1>2, LenProperties
      <3> QED BY <1>1, <1>2, <3>1 DEF HeapSound, LibrariesSound, IsInjective
    <2>5. /\ \A i \in 1..Len(g.deferred) : /\ closed[g.deferred[i]] = "open"
                                          /\ g.ctx[g.deferred[i]] = "freed"
          /\ IsInjective(g.deferred)
      BY <1>3, <2>3, <2>4
    <2> QED BY <2>2, <2>5 DEF LibrariesSound
  <1>8. closed \in Handles
    BY <1>1 DEF Handles
  <1> QED BY <1>3, <1>4, <1>6, <1>7, <1>8 DEF HeapSound, Handles

-----------------------------------------------------------------------------
(* What is freed stays freed, and nobody counts its uses any more *)

FreedUntouched(h, g) ==
    /\ \A d \in Device : h.ctx[d] = "freed" => g.ctx[d] = "freed" /\ g.use[d] = h.use[d]
    /\ \A c \in Channel : h.chan[c] = "freed" =>
          g.chan[c] = "freed" /\ g.chan_use[c] = h.chan_use[c]

\* Two operations in one call.
LEMMA FreedUntouchedTwice ==
    ASSUME NEW h, NEW g, NEW f, FreedUntouched(h, g), FreedUntouched(g, f)
    PROVE  FreedUntouched(h, f)
  BY DEF FreedUntouched

\* A context is made at an address no context had before.
LEMMA NewContextUntouched ==
    ASSUME NEW h, NEW handles, NEW owned, HeapSound(h, handles, owned),
           NEW d \in Device, handles[d] = "unopened"
    PROVE  FreedUntouched(h, device_up(new_context(h, d), d))
  <1> DEFINE g == device_up(new_context(h, d), d)
  <1>1. h.ctx[d] = "none" /\ h \in Heap
    BY DEF HeapSound, LibrariesSound
  <1>2. /\ g.chan = h.chan /\ g.chan_use = h.chan_use
        /\ g.ctx = [h.ctx EXCEPT ![d] = "live"]
        /\ \A e \in Device : e # d => g.use[e] = h.use[e]
    BY <1>1 DEF Heap, new_context, device_up
  <1> HIDE DEF g
  <1>3. FreedUntouched(h, g)
    BY <1>1, <1>2 DEF FreedUntouched, Heap
  <1> QED BY <1>3 DEF g

\* The same for a channel.
LEMMA InitChannelUntouched ==
    ASSUME NEW h \in Heap, NEW c \in Channel, h.chan[c] = "none", NEW d
    PROVE  FreedUntouched(h, init_channel(h, c, d))
  BY DEF FreedUntouched, init_channel, Heap

\* A use is taken of a live context only.
LEMMA DeviceUpUntouched ==
    ASSUME NEW h \in Heap, NEW d \in Device, h.ctx[d] = "live"
    PROVE  FreedUntouched(h, device_up(h, d))
  <1> DEFINE g == device_up(h, d)
  <1>1. /\ g.use = [h.use EXCEPT ![d] = h.use[d] + 1]
        /\ g.ctx = h.ctx /\ g.chan = h.chan /\ g.chan_use = h.chan_use
    BY DeviceUp
  <1> HIDE DEF g
  <1>2. FreedUntouched(h, g)
    BY <1>1 DEF FreedUntouched, Heap
  <1> QED BY <1>2 DEF g

\* A use is given back of a live context only; the last one frees it.
LEMMA DeviceDownUntouched ==
    ASSUME NEW h \in Heap, NEW d \in Device, h.ctx[d] = "live", NEW ok
    PROVE  FreedUntouched(h, device_down(h, d, ok))
  <1> DEFINE g == device_down(h, d, ok)
  <1>1. IsDown(h, d, g)
    BY DeviceDown
  <1>2. h.use[d] \in Int
    BY DEF Heap
  <1> HIDE DEF g
  <1>3. g.ctx = h.ctx \/ g.ctx = [h.ctx EXCEPT ![d] = "freed"]
    BY <1>1, <1>2 DEF IsDown
  <1>4. FreedUntouched(h, g)
    BY <1>1, <1>3 DEF FreedUntouched, IsDown, Heap
  <1> QED BY <1>4 DEF g

\* moberg_device_in_use.
LEMMA ProbeUntouched ==
    ASSUME NEW h, NEW handles, NEW owned, HeapSound(h, handles, owned),
           NEW d \in owned, NEW ok
    PROVE  FreedUntouched(h, device_down(device_up(h, d), d, ok))
  <1> DEFINE u == device_up(h, d)
  <1>1. h \in Heap /\ d \in Device /\ h.ctx[d] = "live"
    BY OwnedIsLive DEF HeapSound
  <1>2. u \in Heap /\ u.ctx = h.ctx /\ FreedUntouched(h, u)
    BY <1>1, DeviceUp, DeviceUpUntouched
  <1> HIDE DEF u
  <1>3. FreedUntouched(u, device_down(u, d, ok))
    BY <1>1, <1>2, DeviceDownUntouched
  <1>4. FreedUntouched(h, device_down(u, d, ok))
    BY <1>2, <1>3, FreedUntouchedTwice
  <1> QED BY <1>4 DEF u

\* A live channel of a live device goes up.
LEMMA ChannelUpUntouched ==
    ASSUME NEW h, NEW handles, NEW owned, HeapSound(h, handles, owned),
           NEW c \in Channel, h.chan[c] = "live", h.ctx[h.chan_dev[c]] = "live"
    PROVE  FreedUntouched(h, channel_up(h, c))
  <1> DEFINE u == device_up(h, h.chan_dev[c])
             g == channel_up(h, c)
  <1>1. h \in Heap /\ h.chan_dev[c] \in Device
    BY DEF HeapSound, ChannelsSound
  <1>2. FreedUntouched(h, u) /\ u \in Heap
    BY <1>1, DeviceUp, DeviceUpUntouched
  <1>3. u.chan = h.chan
    BY <1>1, DeviceUp
  <1>4. /\ g.ctx = u.ctx /\ g.use = u.use /\ g.chan = u.chan
        /\ \A x \in Channel : x # c => g.chan_use[x] = u.chan_use[x]
    <2> HIDE DEF u
    <2>1. g = [u EXCEPT !.chan_use[c] = @ + 1]
      BY DEF channel_up, u
    <2> QED BY <1>2, <2>1 DEF Heap
  <1> HIDE DEF u, g
  <1>5. FreedUntouched(u, g)
    BY <1>3, <1>4 DEF FreedUntouched
  <1>6. FreedUntouched(h, g)
    BY <1>2, <1>5, FreedUntouchedTwice
  <1> QED BY <1>6 DEF g

\* A channel that is up goes down and is freed itself, once.
LEMMA ChannelDownUntouched ==
    ASSUME NEW h, NEW handles, NEW owned, HeapSound(h, handles, owned),
           NEW c \in Channel, h.chan_use[c] = 1, NEW ok
    PROVE  FreedUntouched(h, channel_down(h, c, ok))
  <1> DEFINE d == h.chan_dev[c]
             u == device_down(h, d, ok)
             g == channel_down(h, c, ok)
  <1>1. h \in Heap /\ d \in Device /\ h.ctx[d] = "live" /\ h.chan[c] = "live"
    BY OwnedIsLive DEF HeapSound, ChannelsSound
  <1>2. FreedUntouched(h, u) /\ IsDown(h, d, u)
    BY <1>1, DeviceDown, DeviceDownUntouched
  <1>3. FreesChannel(h, c, g)
    BY ChannelDown
  <1>4. g.ctx = u.ctx /\ g.use = u.use
    <2> DEFINE w == [u EXCEPT !.chan_use[c] = @ - 1]
    <2>1. g = IF w.chan_use[c] <= 0 THEN [w EXCEPT !.chan[c] = "freed"] ELSE w
      BY DEF channel_down
    <2>2. u \in Heap
      BY <1>2 DEF IsDown
    <2> HIDE DEF u
    <2>3. w.ctx = u.ctx /\ w.use = u.use
      BY <2>2 DEF Heap
    <2>4. [w EXCEPT !.chan[c] = "freed"].ctx = w.ctx
          /\ [w EXCEPT !.chan[c] = "freed"].use = w.use
      BY <2>2 DEF Heap
    <2> HIDE DEF w
    <2> QED BY <2>1, <2>3, <2>4
  <1> HIDE DEF u, g
  <1>5. FreedUntouched(h, g)
    BY <1>1, <1>2, <1>3, <1>4 DEF FreedUntouched, FreesChannel, Heap
  <1> QED BY <1>5 DEF g

-----------------------------------------------------------------------------
(* Where memory suffices, no library is forgotten *)

LEMMA PendingSame ==
    ASSUME NEW h, NEW handles, LibrariesPending(h, handles),
           NEW g, g.ctx = h.ctx, g.deferred = h.deferred
    PROVE  LibrariesPending(g, handles)
  BY DEF LibrariesPending

LEMMA NewContextPending ==
    ASSUME NEW h \in Heap, NEW handles \in Handles, LibrariesPending(h, handles),
           NEW d \in Device
    PROVE  LibrariesPending(device_up(new_context(h, d), d), [handles EXCEPT ![d] = "open"])
  <1> DEFINE g == device_up(new_context(h, d), d)
  <1>1. g.ctx = [h.ctx EXCEPT ![d] = "live"] /\ g.deferred = h.deferred
    BY DEF Heap, new_context, device_up
  <1> HIDE DEF g
  <1>2. LibrariesPending(g, [handles EXCEPT ![d] = "open"])
    BY <1>1 DEF LibrariesPending, Heap, Handles
  <1> QED BY <1>2 DEF g

\* The library of the context that goes is pending afterwards.
LEMMA DeviceDownPending ==
    ASSUME NEW h \in Heap, NEW handles, LibrariesPending(h, handles), NEW d \in Device
    PROVE  LibrariesPending(device_down(h, d, TRUE), handles)
  <1> DEFINE g == device_down(h, d, TRUE)
  <1>1. \/ g.ctx = h.ctx /\ g.deferred = h.deferred
        \/ g.ctx = [h.ctx EXCEPT ![d] = "freed"] /\ g.deferred = Append(h.deferred, d)
    <2> DEFINE u == [h EXCEPT !.use[d] = @ - 1]
               v == [u EXCEPT !.ctx[d] = "freed"]
    <2>1. g = IF u.use[d] <= 0 THEN [v EXCEPT !.deferred = Append(v.deferred, d)] ELSE u
      BY DEF device_down, moberg_deferred_action
    <2>2. u.ctx = h.ctx /\ u.deferred = h.deferred
      BY DEF Heap
    <2>3. v.ctx = [h.ctx EXCEPT ![d] = "freed"] /\ v.deferred = h.deferred
      BY DEF Heap
    <2>4. [v EXCEPT !.deferred = Append(v.deferred, d)].ctx = v.ctx
      BY DEF Heap
    <2>5. [v EXCEPT !.deferred = Append(v.deferred, d)].deferred = Append(v.deferred, d)
      BY DEF Heap
    <2> HIDE DEF u, v, g
    <2> QED BY <2>1, <2>2, <2>3, <2>4, <2>5
  <1>2. ToSet(Append(h.deferred, d)) = ToSet(h.deferred) \cup {d}
    <2>1. h.deferred \in Seq(Device)
      BY DEF Heap
    <2> QED BY <2>1, AppendElement
  <1> HIDE DEF g
  <1>3. CASE g.ctx = h.ctx /\ g.deferred = h.deferred
    BY <1>3, PendingSame DEF g
  <1>4. CASE /\ g.ctx = [h.ctx EXCEPT ![d] = "freed"]
             /\ g.deferred = Append(h.deferred, d)
    <2>1. \A e \in Device : e # d => g.ctx[e] = h.ctx[e]
      BY <1>4 DEF Heap
    <2>2. d \in ToSet(g.deferred) /\ ToSet(h.deferred) \subseteq ToSet(g.deferred)
      BY <1>2, <1>4
    <2>3. LibrariesPending(g, handles)
      BY <2>1, <2>2 DEF LibrariesPending
    <2> QED BY <2>3 DEF g
  <1> QED BY <1>1, <1>3, <1>4

LEMMA ProbePending ==
    ASSUME NEW h \in Heap, NEW handles, LibrariesPending(h, handles), NEW d \in Device
    PROVE  LibrariesPending(device_down(device_up(h, d), d, TRUE), handles)
  <1> DEFINE u == device_up(h, d)
  <1>1. u \in Heap /\ u.ctx = h.ctx /\ u.deferred = h.deferred
    BY DeviceUp
  <1> HIDE DEF u
  <1>2. LibrariesPending(device_down(u, d, TRUE), handles)
    BY <1>1, PendingSame, DeviceDownPending
  <1> QED BY <1>2 DEF u

LEMMA ChannelUpPending ==
    ASSUME NEW h \in Heap, NEW handles, LibrariesPending(h, handles),
           NEW c \in Channel, h.chan_dev[c] \in Device
    PROVE  LibrariesPending(channel_up(h, c), handles)
  <1> DEFINE u == device_up(h, h.chan_dev[c])
             g == channel_up(h, c)
  <1>1. u \in Heap /\ u.ctx = h.ctx /\ u.deferred = h.deferred
    BY DeviceUp
  <1>2. g.ctx = u.ctx /\ g.deferred = u.deferred
    <2>1. g = [u EXCEPT !.chan_use[c] = @ + 1]
      BY DEF channel_up
    <2> HIDE DEF u
    <2> QED BY <1>1, <2>1 DEF Heap
  <1> HIDE DEF u, g
  <1>3. LibrariesPending(g, handles)
    BY <1>1, <1>2, PendingSame
  <1> QED BY <1>3 DEF g

LEMMA ChannelDownPending ==
    ASSUME NEW h \in Heap, NEW handles, LibrariesPending(h, handles),
           NEW c \in Channel, h.chan_dev[c] \in Device
    PROVE  LibrariesPending(channel_down(h, c, TRUE), handles)
  <1> DEFINE d == h.chan_dev[c]
             u == device_down(h, d, TRUE)
             g == channel_down(h, c, TRUE)
  <1>1. u \in Heap /\ LibrariesPending(u, handles)
    <2>1. IsDown(h, d, u)
      BY DeviceDown
    <2> QED BY <2>1, DeviceDownPending DEF IsDown
  <1>2. g.ctx = u.ctx /\ g.deferred = u.deferred
    <2> DEFINE w == [u EXCEPT !.chan_use[c] = @ - 1]
    <2>1. g = IF w.chan_use[c] <= 0 THEN [w EXCEPT !.chan[c] = "freed"] ELSE w
      BY DEF channel_down
    <2> HIDE DEF u
    <2>2. w.ctx = u.ctx /\ w.deferred = u.deferred
      BY <1>1 DEF Heap
    <2>3. [w EXCEPT !.chan[c] = "freed"].ctx = w.ctx
          /\ [w EXCEPT !.chan[c] = "freed"].deferred = w.deferred
      BY <1>1 DEF Heap
    <2> HIDE DEF w
    <2> QED BY <2>1, <2>2, <2>3
  <1> HIDE DEF u, g
  <1>3. LibrariesPending(g, handles)
    BY <1>1, <1>2, PendingSame
  <1> QED BY <1>3 DEF g

\* The one that is closed is no longer pending, the others still are.
LEMMA CloseLibraryPending ==
    ASSUME NEW h \in Heap, NEW handles \in Handles, LibrariesPending(h, handles),
           h.deferred # << >>, NEW n, n = Len(h.deferred)
    PROVE  LibrariesPending([h EXCEPT !.deferred = SubSeq(h.deferred, 1, n - 1)],
                            [handles EXCEPT ![h.deferred[n]] = "closed"])
  <1> DEFINE q == SubSeq(h.deferred, 1, n - 1)
             g == [h EXCEPT !.deferred = q]
  <1>1. /\ h.deferred \in Seq(Device) /\ n \in Nat \ {0} /\ h.deferred[n] \in Device
        /\ \A i \in 1..n : h.deferred[i] \in Device
    BY EmptySeq, LenProperties, ElementOfSeq DEF Heap
  <1>2. /\ q \in Seq(Device) /\ Len(q) = n - 1
        /\ \A i \in 1..(n - 1) : q[i] = h.deferred[i]
    <2>1. \A i \in 1..(n - 1) : h.deferred[i] \in Device
      BY <1>1
    <2>2. /\ q \in Seq(Device) /\ Len(q) = IF 1 <= n - 1 THEN n - 1 - 1 + 1 ELSE 0
          /\ \A i \in 1..(n - 1 - 1 + 1) : q[i] = h.deferred[1 + i - 1]
      BY <1>1, <2>1, SubSeqProperties
    <2> QED BY <1>1, <2>2
  <1>3. g.ctx = h.ctx /\ g.deferred = q
    BY DEF Heap
  <1> HIDE DEF q, g
  <1>4. \A e \in Device : e # h.deferred[n] /\ e \in ToSet(h.deferred) => e \in ToSet(q)
    <2> SUFFICES ASSUME NEW e \in Device, e # h.deferred[n], e \in ToSet(h.deferred)
                 PROVE  e \in ToSet(q)
      OBVIOUS
    <2>1. PICK i \in 1..n : e = h.deferred[i]
      BY <1>1, ListIndices
    <2>2. i \in 1..(n - 1)
      BY <1>1, <2>1
    <2> QED BY <1>2, <2>1, <2>2, ListIndices
  <1>5. LibrariesPending(g, [handles EXCEPT ![h.deferred[n]] = "closed"])
    BY <1>1, <1>3, <1>4 DEF LibrariesPending, Handles
  <1> QED BY <1>5 DEF g, q
=============================================================================
