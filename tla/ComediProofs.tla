---------------------------- MODULE ComediProofs ----------------------------
(***************************************************************************)
(* The comedi driver never frees or closes what a client still has open.   *)
(* An open that fails leaves its uses and its count behind, so in general  *)
(* the counts are only at least what their users amount to; without such a *)
(* failure they are exactly that, and the teardown, two folds over the     *)
(* devices and the channels, frees everything.                             *)
(***************************************************************************)
EXTENDS Comedi, PluginProofs, FoldProofs

\* n counts at least k, and exactly k if no open has failed.
Covers(f, n, k) == n >= k /\ (f = 0 => n = k)

\* The clients, with the channels they hold, that use a channel or a device.
Of(held, c) == {x \in Client : held[x] = c}
On(held, dev, d) == {x \in Client : held[x] # NULL /\ dev[held[x]] = d}
ChannelsOf(dev, d) == {c \in Channel : dev[c] = d}
Holding(held) == {x \in Client : held[x] # NULL}

\* The loaded struct: all is live, and everything that is used is counted.
Sound(h, held, cnt, f) ==
    /\ h \in Heap
    /\ h.chan_dev \in [Channel -> Device]
    /\ \A c \in Channel : /\ h.chan[c] = "live"
                          /\ Covers(f, h.chan_use[c], 1 + Cardinality(Of(held, c)))
    /\ \A d \in Device :
          /\ h.ctx[d] = "live"
          /\ Covers(f, h.use[d], 1 + Cardinality(ChannelsOf(h.chan_dev, d))
                                   + Cardinality(On(held, h.chan_dev, d)))
          /\ Covers(f, cnt[d], Cardinality(On(held, h.chan_dev, d)))

\* Nothing of the struct is left.
AllFreed(h) ==
    /\ \A c \in Channel : h.chan[c] = "freed"
    /\ \A d \in Device : h.ctx[d] = "freed"

\* The struct is freed: nobody holds a channel and, if no open has failed,
\* nothing is left of it.
Gone(h, held, cnt, f) ==
    /\ Holding(held) = {}
    /\ f = 0 => AllFreed(h) /\ \A d \in Device : cnt[d] = 0

IInv ==
    /\ client \in [Client -> Channel \cup {NULL}]
    /\ count \in [Device -> Nat]
    /\ handle \in [Device -> {"none", "open", "closed"}]
    /\ failures \in Nat
    /\ open_channels = Cardinality(Holding(client))
    /\ \A d \in Device : handle[d] = "open" <=> count[d] > 0
    /\ gone => should_free
    /\ IF gone THEN Gone(heap, client, count, failures)
               ELSE Sound(heap, client, count, failures)

-----------------------------------------------------------------------------
(* The sets that are counted *)

LEMMA CountedFinite ==
    ASSUME NEW held
    PROVE  /\ IsFiniteSet(Holding(held))
           /\ \A c : IsFiniteSet(Of(held, c)) /\ Cardinality(Of(held, c)) \in Nat
           /\ \A dev, d : /\ IsFiniteSet(On(held, dev, d))
                          /\ Cardinality(On(held, dev, d)) \in Nat
           /\ \A dev, d : /\ IsFiniteSet(ChannelsOf(dev, d))
                          /\ Cardinality(ChannelsOf(dev, d)) \in Nat
  <1>1. /\ Holding(held) \in SUBSET Client
        /\ \A c : Of(held, c) \in SUBSET Client
        /\ \A dev, d : On(held, dev, d) \in SUBSET Client
        /\ \A dev, d : ChannelsOf(dev, d) \in SUBSET Channel
    BY DEF Holding, Of, On, ChannelsOf
  <1>2. \A S \in SUBSET Client : IsFiniteSet(S) /\ Cardinality(S) \in Nat
    BY ClientAssumption, FS_Subset, FS_CardinalityType
  <1>3. \A S \in SUBSET Channel : IsFiniteSet(S) /\ Cardinality(S) \in Nat
    BY ChannelAssumption, FS_Subset, FS_CardinalityType
  <1> QED BY <1>1, <1>2, <1>3

\* Client x now has c instead of what it had.
Now(held, x, c, now) == now = [held EXCEPT ![x] = c]

\* With c, of device dev[c], n more clients hold a channel.
HoldersChange(held, c, dev, n, now) ==
    /\ Cardinality(Holding(now)) = Cardinality(Holding(held)) + n
    /\ Cardinality(Of(now, c)) = Cardinality(Of(held, c)) + n
    /\ \A e : e # c /\ e # NULL => Of(now, e) = Of(held, e)
    /\ Cardinality(On(now, dev, dev[c])) = Cardinality(On(held, dev, dev[c])) + n
    /\ \A d : d # dev[c] => On(now, dev, d) = On(held, dev, d)

\* A client takes a channel.
LEMMA TakeCounts ==
    ASSUME NEW held \in [Client -> Channel \cup {NULL}],
           NEW x \in Client, held[x] = NULL, NEW c \in Channel, NEW dev,
           NEW now, Now(held, x, c, now)
    PROVE  HoldersChange(held, c, dev, 1, now)
  <1> USE DEF Now
  <1>1. c # NULL
    BY NullAssumption
  <1>2. Cardinality(Holding(now)) = Cardinality(Holding(held)) + 1
    <2>1. Holding(now) = Holding(held) \cup {x} /\ x \notin Holding(held)
      BY <1>1 DEF Holding
    <2> QED BY <2>1, CountedFinite, FS_AddElement
  <1>3. Cardinality(Of(now, c)) = Cardinality(Of(held, c)) + 1
    <2>1. Of(now, c) = Of(held, c) \cup {x} /\ x \notin Of(held, c)
      BY <1>1 DEF Of
    <2> QED BY <2>1, CountedFinite, FS_AddElement
  <1>4. \A e : e # c /\ e # NULL => Of(now, e) = Of(held, e)
    BY DEF Of
  <1>5. Cardinality(On(now, dev, dev[c])) = Cardinality(On(held, dev, dev[c])) + 1
    <2>1. /\ On(now, dev, dev[c]) = On(held, dev, dev[c]) \cup {x}
          /\ x \notin On(held, dev, dev[c])
      BY <1>1 DEF On
    <2> QED BY <2>1, CountedFinite, FS_AddElement
  <1>6. \A d : d # dev[c] => On(now, dev, d) = On(held, dev, d)
    BY DEF On
  <1> QED BY <1>2, <1>3, <1>4, <1>5, <1>6 DEF HoldersChange

\* A client gives its channel back: the other way round.
LEMMA ReturnCounts ==
    ASSUME NEW held \in [Client -> Channel \cup {NULL}],
           NEW x \in Client, NEW c \in Channel, held[x] = c, NEW dev,
           NEW now, Now(held, x, NULL, now)
    PROVE  /\ HoldersChange(held, c, dev, -1, now)
           /\ Cardinality(Of(held, c)) > 0
           /\ Cardinality(On(held, dev, dev[c])) > 0
  <1>1. now \in [Client -> Channel \cup {NULL}] /\ now[x] = NULL
    BY DEF Now
  <1>2. Now(now, x, c, held)
    BY DEF Now
  <1>3. HoldersChange(now, c, dev, 1, held)
    BY <1>1, <1>2, TakeCounts
  <1>4. /\ Cardinality(Holding(now)) \in Nat /\ Cardinality(Of(now, c)) \in Nat
        /\ Cardinality(On(now, dev, dev[c])) \in Nat
    BY CountedFinite, FS_CardinalityType
  <1>5. /\ Cardinality(Holding(held)) = Cardinality(Holding(now)) + 1
        /\ Cardinality(Of(held, c)) = Cardinality(Of(now, c)) + 1
        /\ Cardinality(On(held, dev, dev[c])) = Cardinality(On(now, dev, dev[c])) + 1
    BY <1>3 DEF HoldersChange
  <1>6. \A n \in Nat : n + 1 > 0 /\ n = (n + 1) + (-1)
    OBVIOUS
  <1>7. /\ \A e : e # c /\ e # NULL => Of(now, e) = Of(held, e)
        /\ \A d : d # dev[c] => On(now, dev, d) = On(held, dev, d)
    BY <1>3 DEF HoldersChange
  <1>8. HoldersChange(held, c, dev, -1, now)
    BY <1>4, <1>5, <1>6, <1>7 DEF HoldersChange
  <1> QED BY <1>4, <1>5, <1>6, <1>8

-----------------------------------------------------------------------------
(* What the driver does to the heap *)

\* g is h with n uses more of channel c and of its device.
UsesChange(h, c, n, g) ==
    /\ g \in Heap
    /\ g.chan = h.chan /\ g.ctx = h.ctx /\ g.chan_dev = h.chan_dev
    /\ g.use = [h.use EXCEPT ![h.chan_dev[c]] = h.use[h.chan_dev[c]] + n]
    /\ g.chan_use = [h.chan_use EXCEPT ![c] = h.chan_use[c] + n]

\* One use of the channel and one of its device more.
LEMMA OpenTakesUses ==
    ASSUME NEW h \in Heap, NEW c \in Channel, h.chan_dev[c] \in Device
    PROVE  UsesChange(h, c, 1, channel_up(h, c))
  <1> DEFINE g == channel_up(h, c)
  <1> DEFINE u == device_up(h, h.chan_dev[c])
  <1>1. /\ u \in Heap
        /\ u.use = [h.use EXCEPT ![h.chan_dev[c]] = h.use[h.chan_dev[c]] + 1]
        /\ u.ctx = h.ctx /\ u.chan = h.chan /\ u.chan_use = h.chan_use
        /\ u.chan_dev = h.chan_dev
    BY DeviceUp
  <1>2. g = [u EXCEPT !.chan_use = [u.chan_use EXCEPT ![c] = u.chan_use[c] + 1]]
    <2>1. g = [u EXCEPT !.chan_use[c] = @ + 1]
      BY DEF channel_up
    <2> HIDE DEF u
    <2> QED BY <1>1, <2>1 DEF Heap
  <1>3. [u.chan_use EXCEPT ![c] = u.chan_use[c] + 1] \in [Channel -> Int]
    BY <1>1 DEF Heap
  <1> HIDE DEF u
  <1> HIDE DEF g
  <1>4. g \in Heap
    BY <1>1, <1>2, <1>3, WithField
  <1>5. UsesChange(h, c, 1, g)
    BY <1>1, <1>2, <1>4 DEF Heap, UsesChange
  <1> QED BY <1>5 DEF g

\* One use of each less; as neither was the last, nothing is freed.
LEMMA CloseReturnsUses ==
    ASSUME NEW h \in Heap, NEW c \in Channel, h.chan_dev[c] \in Device,
           h.chan_use[c] > 1, h.use[h.chan_dev[c]] > 1
    PROVE  UsesChange(h, c, -1, channel_down(h, c, TRUE))
  <1> DEFINE g == channel_down(h, c, TRUE)
  <1> DEFINE u == device_down(h, h.chan_dev[c], TRUE)
  <1>1. /\ u \in Heap
        /\ u.use = [h.use EXCEPT ![h.chan_dev[c]] = h.use[h.chan_dev[c]] - 1]
        /\ u.ctx = h.ctx /\ u.chan = h.chan /\ u.chan_use = h.chan_use
        /\ u.chan_dev = h.chan_dev
    <2>1. IsDown(h, h.chan_dev[c], u)
      BY DeviceDown
    <2> HIDE DEF u
    <2> QED BY <2>1 DEF IsDown
  <1> DEFINE w == [u EXCEPT !.chan_use[c] = @ - 1]
  <1>2. g = IF w.chan_use[c] <= 0 THEN [w EXCEPT !.chan[c] = "freed"] ELSE w
    BY DEF channel_down
  <1> HIDE DEF u
  <1>3. [u.chan_use EXCEPT ![c] = u.chan_use[c] - 1] \in [Channel -> Int]
    BY <1>1 DEF Heap
  <1>4. w = [u EXCEPT !.chan_use = [u.chan_use EXCEPT ![c] = u.chan_use[c] - 1]]
    BY <1>1 DEF Heap
  <1>5. w \in Heap
    BY <1>1, <1>3, <1>4, WithField
  <1>6. w.chan_use = [u.chan_use EXCEPT ![c] = u.chan_use[c] - 1]
    BY <1>1, <1>4 DEF Heap
  <1>7. ~(w.chan_use[c] <= 0)
    BY <1>1, <1>6 DEF Heap
  <1> HIDE DEF g
  <1>8. g = w
    BY <1>2, <1>7 DEF g
  <1>9. UsesChange(h, c, -1, g)
    <2>1. \A i \in Int : i - 1 = i + (-1)
      OBVIOUS
    <2>2. h.use[h.chan_dev[c]] \in Int /\ h.chan_use[c] \in Int
      BY DEF Heap
    <2>3. g \in Heap /\ g.chan = h.chan /\ g.ctx = h.ctx /\ g.chan_dev = h.chan_dev
      BY <1>1, <1>4, <1>5, <1>8 DEF Heap
    <2>4. g.use = [h.use EXCEPT ![h.chan_dev[c]] = h.use[h.chan_dev[c]] + (-1)]
      BY <1>1, <1>4, <1>8, <2>1, <2>2 DEF Heap
    <2>5. g.chan_use = [h.chan_use EXCEPT ![c] = h.chan_use[c] + (-1)]
      BY <1>1, <1>6, <1>8, <2>1, <2>2 DEF Heap
    <2> QED BY <2>3, <2>4, <2>5 DEF UsesChange
  <1> QED BY <1>9 DEF g

\* The count of device d changes by k.
CountChange(cnt, d, k, n) == n = [cnt EXCEPT ![d] = cnt[d] + k]

\* Channel c with its uses, its holders and the count of its device move together.
LEMMA MoveKeepsSound ==
    ASSUME NEW h, NEW held, NEW cnt \in [Device -> Nat], NEW f, Sound(h, held, cnt, f),
           NEW c \in Channel, NEW k \in Int, NEW g, NEW now,
           UsesChange(h, c, k, g), HoldersChange(held, c, h.chan_dev, k, now),
           NEW n, CountChange(cnt, h.chan_dev[c], k, n)
    PROVE  Sound(g, now, n, f)
  <1> DEFINE dev == h.chan_dev
  <1>1. h \in Heap /\ dev \in [Channel -> Device]
    BY DEF Sound
  <1>2. /\ g \in Heap
        /\ g.chan = h.chan /\ g.ctx = h.ctx /\ g.chan_dev = dev
        /\ g.use = [h.use EXCEPT ![dev[c]] = h.use[dev[c]] + k]
        /\ g.chan_use = [h.chan_use EXCEPT ![c] = h.chan_use[c] + k]
    BY DEF UsesChange
  <1>3. /\ Cardinality(Of(now, c)) = Cardinality(Of(held, c)) + k
        /\ \A e : e # c /\ e # NULL => Of(now, e) = Of(held, e)
        /\ Cardinality(On(now, dev, dev[c])) = Cardinality(On(held, dev, dev[c])) + k
        /\ \A d : d # dev[c] => On(now, dev, d) = On(held, dev, d)
    BY DEF HoldersChange
  <1>4. n = [cnt EXCEPT ![dev[c]] = cnt[dev[c]] + k]
    BY DEF CountChange
  <1>5. \A d \in Device : /\ h.ctx[d] = "live"
                          /\ Covers(f, h.use[d], 1 + Cardinality(ChannelsOf(dev, d))
                                                   + Cardinality(On(held, dev, d)))
                          /\ Covers(f, cnt[d], Cardinality(On(held, dev, d)))
    BY DEF Sound
  <1> HIDE DEF dev
  <1>6. ASSUME NEW e \in Channel
        PROVE  g.chan[e] = "live" /\ Covers(f, g.chan_use[e], 1 + Cardinality(Of(now, e)))
    <2>1. h.chan[e] = "live" /\ Covers(f, h.chan_use[e], 1 + Cardinality(Of(held, e)))
      BY DEF Sound
    <2>2. h.chan_use[e] \in Int /\ Cardinality(Of(held, e)) \in Nat
      BY <1>1, CountedFinite DEF Heap
    <2>3. CASE e = c
      <3>1. g.chan_use[e] = h.chan_use[e] + k
        BY <1>1, <1>2, <2>3 DEF Heap
      <3>2. Cardinality(Of(now, e)) = Cardinality(Of(held, e)) + k
        BY <1>3, <2>3
      <3> QED BY <1>2, <2>1, <2>2, <3>1, <3>2 DEF Covers
    <2>4. CASE e # c
      <3>1. g.chan_use[e] = h.chan_use[e]
        BY <1>1, <1>2, <2>4 DEF Heap
      <3>2. Of(now, e) = Of(held, e)
        BY <1>3, <2>4, NullAssumption
      <3> QED BY <1>2, <2>1, <3>1, <3>2
    <2> QED BY <2>3, <2>4
  <1>7. ASSUME NEW d \in Device
        PROVE  /\ g.ctx[d] = "live"
               /\ Covers(f, g.use[d], 1 + Cardinality(ChannelsOf(dev, d))
                                        + Cardinality(On(now, dev, d)))
               /\ Covers(f, n[d], Cardinality(On(now, dev, d)))
    <2>1. /\ h.use[d] \in Int /\ cnt[d] \in Nat /\ Cardinality(On(held, dev, d)) \in Nat
          /\ Cardinality(ChannelsOf(dev, d)) \in Nat
      BY <1>1, CountedFinite DEF Heap
    <2>2. CASE d = dev[c]
      <3>1. g.use[d] = h.use[d] + k /\ n[d] = cnt[d] + k
        BY <1>1, <1>2, <1>4, <2>2 DEF Heap
      <3>2. Cardinality(On(now, dev, d)) = Cardinality(On(held, dev, d)) + k
        BY <1>3, <2>2
      <3>3. /\ Covers(f, h.use[d], 1 + Cardinality(ChannelsOf(dev, d))
                                     + Cardinality(On(held, dev, d)))
            /\ Covers(f, cnt[d], Cardinality(On(held, dev, d)))
        BY <1>5
      <3>4. Covers(f, g.use[d], 1 + Cardinality(ChannelsOf(dev, d))
                                  + Cardinality(On(now, dev, d)))
        BY <2>1, <3>1, <3>2, <3>3 DEF Covers
      <3>5. Covers(f, n[d], Cardinality(On(now, dev, d)))
        BY <2>1, <3>1, <3>2, <3>3 DEF Covers
      <3> QED BY <1>2, <1>5, <3>4, <3>5
    <2>3. CASE d # dev[c]
      <3>1. g.use[d] = h.use[d] /\ n[d] = cnt[d]
        BY <1>1, <1>2, <1>4, <2>3 DEF Heap
      <3>2. On(now, dev, d) = On(held, dev, d)
        BY <1>3, <2>3
      <3> QED BY <1>2, <1>5, <3>1, <3>2
    <2> QED BY <2>2, <2>3
  <1> QED BY <1>1, <1>2, <1>6, <1>7 DEF Sound

\* An open that succeeds.
LEMMA OpenSound ==
    ASSUME NEW h, NEW held \in [Client -> Channel \cup {NULL}],
           NEW cnt \in [Device -> Nat], NEW f, Sound(h, held, cnt, f),
           NEW x \in Client, held[x] = NULL, NEW c \in Channel,
           NEW now, Now(held, x, c, now),
           NEW n, CountChange(cnt, h.chan_dev[c], 1, n)
    PROVE  /\ Sound(channel_up(h, c), now, n, f)
           /\ Cardinality(Holding(now)) = Cardinality(Holding(held)) + 1
  <1>1. h \in Heap /\ h.chan_dev[c] \in Device
    BY DEF Sound
  <1>2. UsesChange(h, c, 1, channel_up(h, c))
    BY <1>1, OpenTakesUses
  <1>3. HoldersChange(held, c, h.chan_dev, 1, now)
    BY TakeCounts
  <1>4. Sound(channel_up(h, c), now, n, f)
    BY <1>2, <1>3, MoveKeepsSound
  <1> QED BY <1>3, <1>4 DEF HoldersChange

\* An open that fails: what it took stays taken.
LEMMA OpenFailsSound ==
    ASSUME NEW h, NEW held, NEW cnt \in [Device -> Nat], NEW f \in Nat,
           Sound(h, held, cnt, f), NEW c \in Channel,
           NEW n, CountChange(cnt, h.chan_dev[c], 1, n)
    PROVE  Sound(channel_up(h, c), held, n, f + 1)
  <1> SUFFICES ASSUME NEW g, g = channel_up(h, c)
               PROVE  Sound(g, held, n, f + 1)
    OBVIOUS
  <1> DEFINE dev == h.chan_dev
  <1>1. h \in Heap /\ dev \in [Channel -> Device] /\ f + 1 # 0
    BY DEF Sound
  <1>2. /\ g \in Heap
        /\ g.chan = h.chan /\ g.ctx = h.ctx /\ g.chan_dev = dev
        /\ g.use = [h.use EXCEPT ![dev[c]] = h.use[dev[c]] + 1]
        /\ g.chan_use = [h.chan_use EXCEPT ![c] = h.chan_use[c] + 1]
    <2>1. UsesChange(h, c, 1, g)
      BY <1>1, OpenTakesUses
    <2> QED BY <2>1 DEF UsesChange
  <1>3. n = [cnt EXCEPT ![dev[c]] = cnt[dev[c]] + 1]
    BY DEF CountChange
  <1>4. \A d \in Device :
           /\ h.ctx[d] = "live"
           /\ h.use[d] >= 1 + Cardinality(ChannelsOf(dev, d)) + Cardinality(On(held, dev, d))
           /\ cnt[d] >= Cardinality(On(held, dev, d))
    BY DEF Sound, Covers
  <1> HIDE DEF dev
  <1>5. ASSUME NEW e \in Channel
        PROVE  /\ g.chan[e] = "live"
               /\ Covers(f + 1, g.chan_use[e], 1 + Cardinality(Of(held, e)))
    <2>1. g.chan_use[e] >= h.chan_use[e] /\ g.chan_use[e] \in Int /\ h.chan_use[e] \in Int
      BY <1>1, <1>2 DEF Heap
    <2>2. h.chan[e] = "live" /\ h.chan_use[e] >= 1 + Cardinality(Of(held, e))
      BY DEF Sound, Covers
    <2>3. Cardinality(Of(held, e)) \in Nat
      BY CountedFinite
    <2> QED BY <1>1, <1>2, <2>1, <2>2, <2>3 DEF Covers
  <1>6. ASSUME NEW d \in Device
        PROVE  /\ g.ctx[d] = "live"
               /\ Covers(f + 1, g.use[d], 1 + Cardinality(ChannelsOf(dev, d))
                                            + Cardinality(On(held, dev, d)))
               /\ Covers(f + 1, n[d], Cardinality(On(held, dev, d)))
    <2>1. /\ g.use[d] >= h.use[d] /\ g.use[d] \in Int /\ h.use[d] \in Int
          /\ n[d] >= cnt[d] /\ n[d] \in Nat /\ cnt[d] \in Nat
      BY <1>1, <1>2, <1>3 DEF Heap
    <2>2. Cardinality(On(held, dev, d)) \in Nat /\ Cardinality(ChannelsOf(dev, d)) \in Nat
      BY CountedFinite
    <2> QED BY <1>1, <1>2, <1>4, <2>1, <2>2 DEF Covers
  <1> QED BY <1>1, <1>2, <1>5, <1>6 DEF Sound

\* The close releases channel c.
Released(h, c, g) == g = channel_down(h, c, TRUE)

\* A close; nothing it releases was used by it alone, and the file was open.
LEMMA CloseSound ==
    ASSUME NEW h, NEW held \in [Client -> Channel \cup {NULL}],
           NEW cnt \in [Device -> Nat], NEW f, Sound(h, held, cnt, f),
           NEW x \in Client, NEW c, held[x] = c, c # NULL,
           NEW now, Now(held, x, NULL, now),
           NEW g, Released(h, c, g),
           NEW n, CountChange(cnt, h.chan_dev[c], -1, n)
    PROVE  /\ Sound(g, now, n, f)
           /\ Cardinality(Holding(now)) = Cardinality(Holding(held)) - 1
           /\ h.chan_dev[c] \in Device /\ cnt[h.chan_dev[c]] > 0
  <1> DEFINE dev == h.chan_dev
  <1>1. h \in Heap /\ dev \in [Channel -> Device] /\ c \in Channel /\ dev[c] \in Device
    BY DEF Sound
  <1>2. /\ HoldersChange(held, c, dev, -1, now)
        /\ Cardinality(Of(held, c)) > 0
        /\ Cardinality(On(held, dev, dev[c])) > 0
    BY <1>1, ReturnCounts
  <1>3. h.chan_use[c] > 1 /\ h.use[dev[c]] > 1 /\ cnt[dev[c]] > 0
    <2>1. /\ h.chan_use[c] >= 1 + Cardinality(Of(held, c))
          /\ h.use[dev[c]] >= 1 + Cardinality(ChannelsOf(dev, dev[c]))
                                + Cardinality(On(held, dev, dev[c]))
          /\ cnt[dev[c]] >= Cardinality(On(held, dev, dev[c]))
      BY <1>1 DEF Sound, Covers
    <2>2. /\ h.chan_use[c] \in Int /\ h.use[dev[c]] \in Int /\ cnt[dev[c]] \in Int
      BY <1>1 DEF Heap
    <2>3. /\ Cardinality(Of(held, c)) \in Nat
          /\ Cardinality(ChannelsOf(dev, dev[c])) \in Nat
          /\ Cardinality(On(held, dev, dev[c])) \in Nat
      BY CountedFinite
    <2> HIDE DEF dev
    <2> QED BY <1>2, <2>1, <2>2, <2>3
  <1>4. UsesChange(h, c, -1, g)
    BY <1>1, <1>3, CloseReturnsUses DEF Released
  <1>6. Sound(g, now, n, f)
    <2>1. -1 \in Int
      OBVIOUS
    <2> QED BY <1>1, <1>2, <1>4, <2>1, MoveKeepsSound
  <1>7. Cardinality(Holding(now)) = Cardinality(Holding(held)) - 1
    <2>1. Cardinality(Holding(now)) = Cardinality(Holding(held)) + (-1)
      BY <1>2 DEF HoldersChange
    <2>2. Cardinality(Holding(held)) \in Nat
      BY CountedFinite, FS_CardinalityType
    <2> QED BY <2>1, <2>2
  <1> QED BY <1>1, <1>3, <1>6, <1>7

-----------------------------------------------------------------------------
(* The teardown *)

\* k[s] is what is left of h when the devices, or the channels, in s have lost
\* the use of the configuration, or of the table.
DevicesGo(k, h) ==
    /\ k[{}] = h
    /\ \A s \in SUBSET Device : s # {} =>
          \E d \in s : k[s] = device_down(k[s \ {d}], d, TRUE)

ChannelsGo(k, h) ==
    /\ k[{}] = h
    /\ \A s \in SUBSET Channel : s # {} =>
          \E c \in s : k[s] = channel_down(k[s \ {c}], c, TRUE)

\* Heaps whose channels all have a device.
Loaded == {h \in Heap : h.chan_dev \in [Channel -> Device]}

\* What channel_down does to a channel of a heap.
IsReleased(h, c, g) ==
    /\ g \in Heap /\ g.chan_dev = h.chan_dev
    /\ g.chan_use = [h.chan_use EXCEPT ![c] = h.chan_use[c] - 1]
    /\ g.chan = IF h.chan_use[c] > 1 THEN h.chan ELSE [h.chan EXCEPT ![c] = "freed"]
    /\ h.chan_dev[c] \in Device =>
          /\ g.use = [h.use EXCEPT ![h.chan_dev[c]] = h.use[h.chan_dev[c]] - 1]
          /\ g.ctx = IF h.use[h.chan_dev[c]] > 1 THEN h.ctx
                     ELSE [h.ctx EXCEPT ![h.chan_dev[c]] = "freed"]

LEMMA ChannelDownReleases ==
    ASSUME NEW h \in Heap, NEW c \in Channel, h.chan_dev[c] \in Device
    PROVE  IsReleased(h, c, channel_down(h, c, TRUE))
  <1> DEFINE g == channel_down(h, c, TRUE)
             d == h.chan_dev[c]
             u == device_down(h, d, TRUE)
             n == [h.chan_use EXCEPT ![c] = h.chan_use[c] - 1]
             v == [u EXCEPT !.chan_use = n]
             w == [u EXCEPT !.chan_use[c] = @ - 1]
  <1>1. /\ u \in Heap
        /\ u.use = [h.use EXCEPT ![d] = h.use[d] - 1]
        /\ h.use[d] > 1 => u.ctx = h.ctx
        /\ h.use[d] <= 1 => u.ctx = [h.ctx EXCEPT ![d] = "freed"]
        /\ u.chan = h.chan /\ u.chan_use = h.chan_use /\ u.chan_dev = h.chan_dev
    <2>1. IsDown(h, d, u)
      BY DeviceDown
    <2> HIDE DEF u, d
    <2> QED BY <2>1 DEF IsDown
  <1>2. g = IF w.chan_use[c] <= 0 THEN [w EXCEPT !.chan[c] = "freed"] ELSE w
    BY DEF channel_down
  <1> HIDE DEF u, d
  <1>3. n \in [Channel -> Int] /\ n[c] = h.chan_use[c] - 1 /\ h.chan_use[c] \in Int
    BY DEF Heap
  <1>4. w = v
    BY <1>1 DEF Heap
  <1> HIDE DEF n
  <1>5. /\ v \in Heap /\ v.chan_use = n /\ v.use = u.use /\ v.ctx = u.ctx
        /\ v.chan = h.chan /\ v.chan_dev = h.chan_dev
    <2>1. v \in Heap
      BY <1>1, <1>3, WithField
    <2> QED BY <1>1, <2>1 DEF Heap
  <1> HIDE DEF v, w
  <1> HIDE DEF g
  <1>6. h.use[d] \in Int
    BY DEF Heap, d
  <1>7. g \in Heap /\ g.use = u.use /\ g.ctx = u.ctx /\ g.chan_use = n /\ g.chan_dev = h.chan_dev
        /\ g.chan = IF h.chan_use[c] > 1 THEN h.chan ELSE [h.chan EXCEPT ![c] = "freed"]
    <2>1. CASE h.chan_use[c] > 1
      <3>1. ~(w.chan_use[c] <= 0)
        BY <1>3, <1>4, <1>5, <2>1
      <3>2. g = v
        BY <1>2, <1>4, <3>1 DEF g
      <3> QED BY <1>5, <2>1, <3>2
    <2>2. CASE ~(h.chan_use[c] > 1)
      <3> DEFINE freed == [h.chan EXCEPT ![c] = "freed"]
      <3>1. w.chan_use[c] <= 0
        BY <1>3, <1>4, <1>5, <2>2
      <3>2. g = [v EXCEPT !.chan[c] = "freed"]
        BY <1>2, <1>4, <3>1 DEF g
      <3>3. g = [v EXCEPT !.chan = freed]
        BY <1>5, <3>2 DEF Heap
      <3>4. freed \in [Channel -> Lifetime]
        BY DEF Heap, Lifetime
      <3> HIDE DEF freed
      <3>5. g \in Heap
        BY <1>5, <3>3, <3>4, WithField
      <3>6. g.use = v.use /\ g.ctx = v.ctx /\ g.chan_use = v.chan_use
            /\ g.chan_dev = v.chan_dev /\ g.chan = freed
        BY <1>5, <3>3 DEF Heap
      <3> QED BY <1>5, <2>2, <3>5, <3>6 DEF freed
    <2> QED BY <2>1, <2>2
  <1>8. g.ctx = IF h.use[d] > 1 THEN h.ctx ELSE [h.ctx EXCEPT ![d] = "freed"]
    BY <1>1, <1>6, <1>7
  <1> QED BY <1>1, <1>7, <1>8 DEF IsReleased, g, d, n

\* The fold of Torn over the devices takes them one after the other.
LEMMA DevicesFolded ==
    ASSUME NEW h \in Heap
    PROVE  \E k : /\ DevicesGo(k, h)
                  /\ k[Device] = FoldSet(LAMBDA d, g : device_down(g, d, TRUE), h, Device)
  <1> DEFINE Is(k) == k = [s \in SUBSET Device |-> IF s = {} THEN h
                             ELSE LET x == CHOOSE x \in s : TRUE
                                  IN  device_down(k[s \ {x}], x, TRUE)]
             k == CHOOSE k : Is(k)
             step == [d \in Device |-> [g \in Heap |-> device_down(g, d, TRUE)]]
  <1>1. FoldSet(LAMBDA d, g : device_down(g, d, TRUE), h, Device) = k[Device]
    BY Zenon DEF FoldSet, MapThenFoldSet
  <1>2. step \in [Device -> [Heap -> Heap]]
    <2>1. \A d \in Device : \A g \in Heap : device_down(g, d, TRUE) \in Heap
      <3>1. ASSUME NEW d \in Device, NEW g \in Heap PROVE device_down(g, d, TRUE) \in Heap
        <4>1. IsDown(g, d, device_down(g, d, TRUE))
          BY DeviceDown
        <4> QED BY <4>1 DEF IsDown
      <3> QED BY <3>1
    <2> QED BY <2>1
  <1>3. PICK f : Solves(f, Device, Heap, h, step, Picker(Device))
    <2>1. \A s \in SUBSET Device : s # {} => Picker(Device)[s] \in s
      BY PickerPicks
    <2> HIDE DEF step
    <2> QED BY <1>2, <2>1, DeviceAssumption, SolutionExists
  <1>4. f = [s \in SUBSET Device |-> f[s]]
    BY <1>3 DEF Solves
  <1>5. ASSUME NEW s \in SUBSET Device
        PROVE  f[s] = IF s = {} THEN h
                      ELSE LET x == CHOOSE x \in s : TRUE
                           IN  device_down(f[s \ {x}], x, TRUE)
    <2>1. CASE s = {}
      BY <1>3, <2>1 DEF Solves
    <2>2. CASE s # {}
      <3> DEFINE x == CHOOSE x \in s : TRUE
      <3>1. x = Picker(Device)[s] /\ x \in Device
        BY <2>2, PickerPicks DEF Picker
      <3>2. f[s] = step[x][f[s \ {x}]] /\ f[s \ {x}] \in Heap
        <4> HIDE DEF step
        <4> QED BY <1>3, <2>2, <3>1 DEF Solves
      <3> HIDE DEF x
      <3>3. f[s] = device_down(f[s \ {x}], x, TRUE)
        BY <3>1, <3>2
      <3> QED BY <2>2, <3>3 DEF x
    <2> QED BY <2>1, <2>2
  <1>6. Is(f)
    BY <1>4, <1>5, Zenon
  <1>7. Is(k)
    <2> HIDE DEF Is
    <2> QED BY <1>6, Zenon
  <1>8. \A s \in SUBSET Device : k[s] = IF s = {} THEN h
                             ELSE LET x == CHOOSE x \in s : TRUE
                                  IN  device_down(k[s \ {x}], x, TRUE)
    <2> HIDE DEF k
    <2> QED BY <1>7
  <1>9. DevicesGo(k, h)
    <2> HIDE DEF k
    <2>1. ASSUME NEW s \in SUBSET Device, s # {}
          PROVE  \E d \in s : k[s] = device_down(k[s \ {d}], d, TRUE)
      <3>1. \E d \in s : TRUE
        BY <2>1
      <3> DEFINE x == CHOOSE x \in s : TRUE
      <3>2. x \in s
        BY <3>1
      <3>3. k[s] = device_down(k[s \ {x}], x, TRUE)
        BY <1>8, <2>1
      <3> HIDE DEF x
      <3> QED BY <3>2, <3>3
    <2> QED BY <1>8, <2>1 DEF DevicesGo
  <1> QED BY <1>1, <1>9

\* And so does that over the channels.
LEMMA ChannelsFolded ==
    ASSUME NEW h \in Loaded
    PROVE  \E k : /\ ChannelsGo(k, h)
                  /\ k[Channel] = FoldSet(LAMBDA c, g : channel_down(g, c, TRUE), h, Channel)
  <1> DEFINE Is(k) == k = [s \in SUBSET Channel |-> IF s = {} THEN h
                             ELSE LET x == CHOOSE x \in s : TRUE
                                  IN  channel_down(k[s \ {x}], x, TRUE)]
             k == CHOOSE k : Is(k)
             step == [c \in Channel |-> [g \in Loaded |-> channel_down(g, c, TRUE)]]
  <1>1. FoldSet(LAMBDA c, g : channel_down(g, c, TRUE), h, Channel) = k[Channel]
    BY Zenon DEF FoldSet, MapThenFoldSet
  <1>2. step \in [Channel -> [Loaded -> Loaded]]
    <2>1. ASSUME NEW c \in Channel, NEW g \in Loaded PROVE channel_down(g, c, TRUE) \in Loaded
      <3>1. g \in Heap /\ g.chan_dev[c] \in Device
        BY DEF Loaded
      <3>2. IsReleased(g, c, channel_down(g, c, TRUE))
        BY <3>1, ChannelDownReleases
      <3> QED BY <3>2 DEF IsReleased, Loaded
    <2> QED BY <2>1
  <1>3. PICK f : Solves(f, Channel, Loaded, h, step, Picker(Channel))
    <2>1. \A s \in SUBSET Channel : s # {} => Picker(Channel)[s] \in s
      BY PickerPicks
    <2> HIDE DEF step
    <2> QED BY <1>2, <2>1, ChannelAssumption, SolutionExists
  <1>4. f = [s \in SUBSET Channel |-> f[s]]
    BY <1>3 DEF Solves
  <1>5. ASSUME NEW s \in SUBSET Channel
        PROVE  f[s] = IF s = {} THEN h
                      ELSE LET x == CHOOSE x \in s : TRUE
                           IN  channel_down(f[s \ {x}], x, TRUE)
    <2>1. CASE s = {}
      BY <1>3, <2>1 DEF Solves
    <2>2. CASE s # {}
      <3> DEFINE x == CHOOSE x \in s : TRUE
      <3>1. x = Picker(Channel)[s] /\ x \in Channel
        BY <2>2, PickerPicks DEF Picker
      <3>2. f[s] = step[x][f[s \ {x}]] /\ f[s \ {x}] \in Loaded
        <4> HIDE DEF step
        <4> QED BY <1>3, <2>2, <3>1 DEF Solves
      <3> HIDE DEF x
      <3>3. f[s] = channel_down(f[s \ {x}], x, TRUE)
        BY <3>1, <3>2
      <3> QED BY <2>2, <3>3 DEF x
    <2> QED BY <2>1, <2>2
  <1>6. Is(f)
    BY <1>4, <1>5, Zenon
  <1>7. Is(k)
    <2> HIDE DEF Is
    <2> QED BY <1>6, Zenon
  <1>8. \A s \in SUBSET Channel : k[s] = IF s = {} THEN h
                             ELSE LET x == CHOOSE x \in s : TRUE
                                  IN  channel_down(k[s \ {x}], x, TRUE)
    <2> HIDE DEF k
    <2> QED BY <1>7
  <1>9. ChannelsGo(k, h)
    <2> HIDE DEF k
    <2>1. ASSUME NEW s \in SUBSET Channel, s # {}
          PROVE  \E c \in s : k[s] = channel_down(k[s \ {c}], c, TRUE)
      <3>1. \E c \in s : TRUE
        BY <2>1
      <3> DEFINE x == CHOOSE x \in s : TRUE
      <3>2. x \in s
        BY <3>1
      <3>3. k[s] = channel_down(k[s \ {x}], x, TRUE)
        BY <1>8, <2>1
      <3> HIDE DEF x
      <3> QED BY <3>2, <3>3
    <2> QED BY <1>8, <2>1 DEF ChannelsGo
  <1> QED BY <1>1, <1>9

\* What is left of a loaded struct whose channels, of the devices dev, nobody has
\* open, when the devices in D and the channels in C have been let go.
Left(dev, D, C, g) ==
    /\ g \in Heap /\ g.chan_dev = dev
    /\ \A c \in C : g.chan[c] = "freed"
    /\ \A c \in Channel \ C : g.chan[c] = "live" /\ g.chan_use[c] = 1
    /\ \A d \in Device :
          /\ d \in D => g.use[d] = Cardinality(ChannelsOf(dev, d) \ C)
          /\ d \notin D => g.use[d] = 1 + Cardinality(ChannelsOf(dev, d) \ C)
          /\ g.ctx[d] = IF g.use[d] > 0 THEN "live" ELSE "freed"

LEMMA LeftFinite ==
    ASSUME NEW dev, NEW d, NEW C
    PROVE  /\ IsFiniteSet(ChannelsOf(dev, d) \ C)
           /\ Cardinality(ChannelsOf(dev, d) \ C) \in Nat
  <1>1. ChannelsOf(dev, d) \ C \in SUBSET Channel
    BY DEF ChannelsOf
  <1> QED BY <1>1, ChannelAssumption, FS_Subset, FS_CardinalityType

LEMMA DeviceGoes ==
    ASSUME NEW dev, NEW D, NEW g, Left(dev, D, {}, g), NEW d \in Device, d \notin D
    PROVE  Left(dev, D \cup {d}, {}, device_down(g, d, TRUE))
  <1>1. SUFFICES ASSUME NEW h, IsDown(g, d, h) PROVE Left(dev, D \cup {d}, {}, h)
    BY DeviceDown DEF Left
  <1>2. /\ h \in Heap /\ h.chan_dev = dev /\ h.chan = g.chan /\ h.chan_use = g.chan_use
        /\ h.use = [g.use EXCEPT ![d] = g.use[d] - 1]
    BY <1>1 DEF IsDown, Left
  <1>3. ASSUME NEW e \in Device
        PROVE  /\ e \in D \cup {d} => h.use[e] = Cardinality(ChannelsOf(dev, e) \ {})
               /\ e \notin D \cup {d} => h.use[e] = 1 + Cardinality(ChannelsOf(dev, e) \ {})
               /\ h.ctx[e] = IF h.use[e] > 0 THEN "live" ELSE "freed"
    <2>1. CASE e = d
      <3> DEFINE n == Cardinality(ChannelsOf(dev, d) \ {})
      <3>1. n \in Nat
        BY LeftFinite
      <3>2. g.use[d] = 1 + n /\ g.ctx[d] = IF g.use[d] > 0 THEN "live" ELSE "freed"
        BY DEF Left
      <3>3. h.use[d] = g.use[d] - 1 /\ g.ctx \in [Device -> Lifetime]
        BY <1>2 DEF Left, Heap
      <3>4. /\ g.use[d] > 1 => h.ctx[d] = g.ctx[d]
            /\ g.use[d] <= 1 => h.ctx[d] = "freed"
        BY <1>1, <3>3 DEF IsDown
      <3> HIDE DEF n
      <3>5. h.use[d] = n
        BY <3>1, <3>2, <3>3
      <3>6. h.ctx[d] = IF h.use[d] > 0 THEN "live" ELSE "freed"
        BY <3>1, <3>2, <3>3, <3>4
      <3> QED BY <2>1, <3>5, <3>6 DEF n
    <2>2. CASE e # d
      <3>1. h.use[e] = g.use[e] /\ h.ctx[e] = g.ctx[e]
        <4>1. g.use \in [Device -> Int] /\ g.ctx \in [Device -> Lifetime]
          BY DEF Left, Heap
        <4>2. g.use[d] \in Int
          BY <4>1
        <4>3. CASE g.use[d] > 1
          BY <1>1, <1>2, <2>2, <4>1, <4>3 DEF IsDown
        <4>4. CASE g.use[d] <= 1
          BY <1>1, <1>2, <2>2, <4>1, <4>4 DEF IsDown
        <4> QED BY <4>2, <4>3, <4>4
      <3>2. /\ e \in D => g.use[e] = Cardinality(ChannelsOf(dev, e) \ {})
            /\ e \notin D => g.use[e] = 1 + Cardinality(ChannelsOf(dev, e) \ {})
            /\ g.ctx[e] = IF g.use[e] > 0 THEN "live" ELSE "freed"
        BY DEF Left
      <3> QED BY <2>2, <3>1, <3>2
    <2> QED BY <2>1, <2>2
  <1> QED BY <1>2, <1>3 DEF Left

LEMMA ChannelGoes ==
    ASSUME NEW dev \in [Channel -> Device], NEW C, NEW g, Left(dev, Device, C, g),
           NEW c \in Channel, c \notin C
    PROVE  Left(dev, Device, C \cup {c}, channel_down(g, c, TRUE))
  <1>1. g \in Heap /\ g.chan_dev = dev /\ g.chan_use[c] = 1 /\ g.chan \in [Channel -> Lifetime]
    BY DEF Left, Heap
  <1>2. SUFFICES ASSUME NEW h, IsReleased(g, c, h) PROVE Left(dev, Device, C \cup {c}, h)
    BY <1>1, ChannelDownReleases
  <1>3. PICK d \in Device : d = dev[c]
    OBVIOUS
  <1>4. /\ h \in Heap /\ h.chan_dev = dev
        /\ h.chan_use = [g.chan_use EXCEPT ![c] = g.chan_use[c] - 1]
        /\ h.chan = [g.chan EXCEPT ![c] = "freed"]
        /\ h.use = [g.use EXCEPT ![d] = g.use[d] - 1]
        /\ h.ctx = IF g.use[d] > 1 THEN g.ctx ELSE [g.ctx EXCEPT ![d] = "freed"]
    BY <1>1, <1>2, <1>3 DEF IsReleased
  <1>5. /\ \A b \in C \cup {c} : h.chan[b] = "freed"
        /\ \A b \in Channel \ (C \cup {c}) : h.chan[b] = "live" /\ h.chan_use[b] = 1
    <2>1. g.chan_use \in [Channel -> Int]
      BY <1>1 DEF Heap
    <2>2. /\ \A b \in C : g.chan[b] = "freed"
          /\ \A b \in Channel \ C : g.chan[b] = "live" /\ g.chan_use[b] = 1
      BY DEF Left
    <2>3. \A b : b # c => h.chan[b] = g.chan[b] /\ h.chan_use[b] = g.chan_use[b]
      BY <1>4
    <2>4. h.chan[c] = "freed"
      BY <1>1, <1>4
    <2> QED BY <2>2, <2>3, <2>4
  <1>6. g.use \in [Device -> Int] /\ g.ctx \in [Device -> Lifetime]
    BY <1>1 DEF Heap
  <1>7. ASSUME NEW e \in Device
        PROVE  /\ h.use[e] = Cardinality(ChannelsOf(dev, e) \ (C \cup {c}))
               /\ h.ctx[e] = IF h.use[e] > 0 THEN "live" ELSE "freed"
    <2>1. CASE e = d
      <3> DEFINE X == ChannelsOf(dev, d) \ C
                 Y == ChannelsOf(dev, d) \ (C \cup {c})
      <3>1. c \in X /\ Y = X \ {c}
        BY <1>3 DEF ChannelsOf
      <3>2. IsFiniteSet(X) /\ Cardinality(X) \in Nat /\ Cardinality(Y) \in Nat
        BY LeftFinite
      <3>3. g.use[d] = Cardinality(X) /\ g.ctx[d] = IF g.use[d] > 0 THEN "live" ELSE "freed"
        BY DEF Left
      <3> HIDE DEF X, Y
      <3>4. Cardinality(Y) = Cardinality(X) - 1
        BY <3>1, <3>2, FS_RemoveElement
      <3>5. h.use[d] = Cardinality(Y)
        BY <1>4, <1>6, <3>3, <3>4
      <3>6. h.ctx[d] = IF h.use[d] > 0 THEN "live" ELSE "freed"
        <4>1. CASE g.use[d] > 1
          BY <1>4, <3>2, <3>3, <3>4, <3>5, <4>1
        <4>2. CASE ~(g.use[d] > 1)
          BY <1>4, <1>6, <3>2, <3>3, <3>4, <3>5, <4>2
        <4> QED BY <4>1, <4>2
      <3> QED BY <2>1, <3>5, <3>6 DEF Y
    <2>2. CASE e # d
      <3>1. h.use[e] = g.use[e] /\ h.ctx[e] = g.ctx[e]
        BY <1>4, <2>2
      <3>2. ChannelsOf(dev, e) \ (C \cup {c}) = ChannelsOf(dev, e) \ C
        BY <1>3, <2>2 DEF ChannelsOf
      <3>3. /\ g.use[e] = Cardinality(ChannelsOf(dev, e) \ C)
            /\ g.ctx[e] = IF g.use[e] > 0 THEN "live" ELSE "freed"
        BY DEF Left
      <3> QED BY <3>1, <3>2, <3>3
    <2> QED BY <2>1, <2>2
  <1> QED BY <1>4, <1>5, <1>7 DEF Left

\* All the devices, and then all the channels, have been let go.
LEMMA DevicesLeft ==
    ASSUME NEW dev, NEW h, Left(dev, {}, {}, h), NEW k, DevicesGo(k, h)
    PROVE  Left(dev, Device, {}, k[Device])
  <1> DEFINE G == {s \in SUBSET Device : Left(dev, s, {}, k[s])}
  <1>1. ASSUME NEW s \in SUBSET Device, \A x \in s : s \ {x} \in G
        PROVE  s \in G
    <2>1. CASE s = {}
      BY <2>1 DEF DevicesGo
    <2>2. CASE s # {}
      <3>1. PICK d \in s : k[s] = device_down(k[s \ {d}], d, TRUE)
        BY <2>2 DEF DevicesGo
      <3>2. Left(dev, s \ {d}, {}, k[s \ {d}]) /\ d \in Device /\ d \notin s \ {d}
        BY <1>1, <3>1
      <3>3. Left(dev, (s \ {d}) \cup {d}, {}, device_down(k[s \ {d}], d, TRUE))
        BY <3>2, DeviceGoes
      <3>4. (s \ {d}) \cup {d} = s
        BY <3>1
      <3> QED BY <3>1, <3>3, <3>4
    <2> QED BY <2>1, <2>2
  <1>2. SUBSET Device \subseteq G
    <2> HIDE DEF G
    <2> QED BY <1>1, DeviceAssumption, FiniteInduction
  <1> QED BY <1>2

LEMMA ChannelsLeft ==
    ASSUME NEW dev \in [Channel -> Device], NEW h, Left(dev, Device, {}, h),
           NEW k, ChannelsGo(k, h)
    PROVE  Left(dev, Device, Channel, k[Channel])
  <1> DEFINE G == {s \in SUBSET Channel : Left(dev, Device, s, k[s])}
  <1>1. ASSUME NEW s \in SUBSET Channel, \A x \in s : s \ {x} \in G
        PROVE  s \in G
    <2>1. CASE s = {}
      BY <2>1 DEF ChannelsGo
    <2>2. CASE s # {}
      <3>1. PICK c \in s : k[s] = channel_down(k[s \ {c}], c, TRUE)
        BY <2>2 DEF ChannelsGo
      <3>2. Left(dev, Device, s \ {c}, k[s \ {c}]) /\ c \in Channel /\ c \notin s \ {c}
        BY <1>1, <3>1
      <3>3. Left(dev, Device, (s \ {c}) \cup {c}, channel_down(k[s \ {c}], c, TRUE))
        BY <3>2, ChannelGoes
      <3>4. (s \ {c}) \cup {c} = s
        BY <3>1
      <3> QED BY <3>1, <3>3, <3>4
    <2> QED BY <2>1, <2>2
  <1>2. SUBSET Channel \subseteq G
    <2> HIDE DEF G
    <2> QED BY <1>1, ChannelAssumption, FiniteInduction
  <1> QED BY <1>2

LEMMA TornFrees ==
    ASSUME NEW h, NEW held, NEW cnt, Sound(h, held, cnt, 0), Holding(held) = {}
    PROVE  AllFreed(Torn(h))
  <1> SUFFICES ASSUME NEW dev \in [Channel -> Device], dev = h.chan_dev, h \in Heap
               PROVE  AllFreed(Torn(h))
    BY DEF Sound
  <1>1. Left(dev, {}, {}, h)
    <2>1. ASSUME NEW c \in Channel PROVE h.chan[c] = "live" /\ h.chan_use[c] = 1
      <3>1. Of(held, c) = {}
        BY NullAssumption DEF Of, Holding
      <3>2. Cardinality(Of(held, c)) = 0
        BY <3>1, FS_EmptySet
      <3> QED BY <3>2 DEF Sound, Covers
    <2>2. ASSUME NEW d \in Device
          PROVE  /\ h.use[d] = 1 + Cardinality(ChannelsOf(dev, d) \ {})
                 /\ h.ctx[d] = IF h.use[d] > 0 THEN "live" ELSE "freed"
      <3>1. On(held, dev, d) = {} /\ ChannelsOf(dev, d) \ {} = ChannelsOf(dev, d)
        BY DEF On, Holding
      <3>2. Cardinality(On(held, dev, d)) = 0
        BY <3>1, FS_EmptySet
      <3>3. h.ctx[d] = "live" /\ h.use[d] = 1 + Cardinality(ChannelsOf(dev, d))
                                              + Cardinality(On(held, dev, d))
        BY DEF Sound, Covers
      <3>4. Cardinality(ChannelsOf(dev, d)) \in Nat
        BY CountedFinite
      <3> QED BY <3>1, <3>2, <3>3, <3>4
    <2> QED BY <2>1, <2>2 DEF Left
  <1>2. PICK k : /\ DevicesGo(k, h)
                 /\ k[Device] = FoldSet(LAMBDA d, g : device_down(g, d, TRUE), h, Device)
    BY DevicesFolded
  <1>3. Left(dev, Device, {}, k[Device])
    BY <1>1, <1>2, DevicesLeft
  <1>4. k[Device] \in Loaded
    BY <1>3 DEF Left, Loaded
  <1>5. PICK l : /\ ChannelsGo(l, k[Device])
                 /\ l[Channel] = FoldSet(LAMBDA c, g : channel_down(g, c, TRUE), k[Device], Channel)
    BY <1>4, ChannelsFolded
  <1>6. Left(dev, Device, Channel, l[Channel])
    BY <1>3, <1>5, ChannelsLeft
  <1>7. Torn(h) = [l[Channel] EXCEPT !.deferred = << >>]
    BY <1>2, <1>5, Zenon DEF Torn
  <1>8. AllFreed(l[Channel]) /\ l[Channel] \in Heap
    <2>1. ASSUME NEW d \in Device PROVE l[Channel].ctx[d] = "freed"
      <3>1. ChannelsOf(dev, d) \ Channel = {}
        BY DEF ChannelsOf
      <3>2. Cardinality(ChannelsOf(dev, d) \ Channel) = 0
        BY <3>1, FS_EmptySet
      <3> QED BY <1>6, <3>2 DEF Left
    <2> QED BY <1>6, <2>1 DEF Left, AllFreed
  <1> QED BY <1>7, <1>8 DEF AllFreed, Heap

-----------------------------------------------------------------------------
(* The invariant *)

LEMMA InitIInv == Init => IInv
  <1> SUFFICES ASSUME Init PROVE IInv
    OBVIOUS
  <1>1. PICK dev \in [Channel -> Device] : heap = LoadedHeap(dev)
    BY DEF Init
  <1>2. /\ client = [x \in Client |-> NULL] /\ count = [d \in Device |-> 0]
        /\ handle = [d \in Device |-> "none"]
        /\ failures = 0 /\ open_channels = 0 /\ gone = FALSE
    BY DEF Init
  <1>3. /\ Holding(client) = {}
        /\ \A c \in Channel : Of(client, c) = {}
        /\ \A d : On(client, dev, d) = {}
    BY <1>2, NullAssumption DEF Holding, Of, On
  <1>4. /\ Cardinality(Holding(client)) = 0
        /\ \A c \in Channel : Cardinality(Of(client, c)) = 0
        /\ \A d : Cardinality(On(client, dev, d)) = 0
    BY <1>3, FS_EmptySet
  <1>5. \A d : Cardinality(ChannelsOf(dev, d)) \in Nat
    BY CountedFinite
  <1>6. /\ heap.chan_dev = dev
        /\ \A c \in Channel : heap.chan[c] = "live" /\ heap.chan_use[c] = 1
        /\ \A d \in Device : /\ heap.ctx[d] = "live"
                             /\ heap.use[d] = 1 + Cardinality(ChannelsOf(dev, d))
    BY <1>1 DEF LoadedHeap, ChannelsOf
  <1>7. heap \in Heap
    <2>1. [d \in Device |-> 1 + Cardinality(ChannelsOf(dev, d))] \in [Device -> Int]
      BY <1>5
    <2>2. LoadedHeap(dev).use = [d \in Device |-> 1 + Cardinality(ChannelsOf(dev, d))]
      BY DEF LoadedHeap, ChannelsOf
    <2>3. heap.use \in [Device -> Int]
      BY <1>1, <2>1, <2>2
    <2> QED BY <1>1, <2>3 DEF LoadedHeap, Heap, Lifetime
  <1>8. Sound(heap, client, count, failures)
    <2>1. ASSUME NEW c \in Channel
          PROVE  Covers(failures, heap.chan_use[c], 1 + Cardinality(Of(client, c)))
      BY <1>4, <1>6 DEF Covers
    <2>2. ASSUME NEW d \in Device
          PROVE  /\ Covers(failures, heap.use[d], 1 + Cardinality(ChannelsOf(dev, d))
                                                    + Cardinality(On(client, dev, d)))
                 /\ Covers(failures, count[d], Cardinality(On(client, dev, d)))
      BY <1>2, <1>4, <1>5, <1>6 DEF Covers
    <2> QED BY <1>6, <1>7, <2>1, <2>2 DEF Sound
  <1> QED BY <1>2, <1>4, <1>8 DEF IInv

LEMMA OpenKeepsIInv ==
    ASSUME IInv, NEW x \in Client, NEW c \in Channel, moberg_open(x, c)
    PROVE  IInv'
  <1> SUFFICES ASSUME NEW d, d = heap.chan_dev[c]
               PROVE  IInv'
    OBVIOUS
  <1> USE DEF moberg_open, channel_open, device_open
  <1>1. ~gone /\ gone' = gone /\ Sound(heap, client, count, failures)
    BY DEF IInv
  <1>2. d \in Device
    BY <1>1 DEF Sound
  <1>3. /\ client \in [Client -> Channel \cup {NULL}] /\ count \in [Device -> Nat]
        /\ client' = [client EXCEPT ![x] = c] /\ client[x] = NULL
        /\ count' = [count EXCEPT ![d] = count[d] + 1] /\ failures' = failures
    BY DEF IInv
  <1>4. /\ Sound(channel_up(heap, c), client', count', failures)
        /\ Cardinality(Holding(client')) = Cardinality(Holding(client)) + 1
    <2>1. Now(client, x, c, client')
      BY <1>3 DEF Now
    <2>2. CountChange(count, heap.chan_dev[c], 1, count')
      BY <1>3 DEF CountChange
    <2> QED BY <1>1, <1>3, <2>1, <2>2, OpenSound
  <1>5. open_channels' = Cardinality(Holding(client')) /\ heap' = channel_up(heap, c)
    BY <1>4 DEF IInv
  <1>6. /\ handle' \in [Device -> {"none", "open", "closed"}]
        /\ \A e \in Device : handle'[e] = "open" <=> count'[e] > 0
    BY <1>2, <1>3 DEF IInv
  <1>7. /\ client' \in [Client -> Channel \cup {NULL}] /\ count' \in [Device -> Nat]
        /\ failures' \in Nat
    BY <1>2, <1>3 DEF IInv
  <1> QED BY <1>1, <1>4, <1>5, <1>6, <1>7 DEF IInv

LEMMA OpenFailsKeepsIInv ==
    ASSUME IInv, NEW c \in Channel, moberg_open_fails(c)
    PROVE  IInv'
  <1> SUFFICES ASSUME NEW d, d = heap.chan_dev[c]
               PROVE  IInv'
    OBVIOUS
  <1> USE DEF moberg_open_fails, channel_open, device_open
  <1>1. ~gone /\ gone' = gone /\ Sound(heap, client, count, failures)
    BY DEF IInv
  <1>2. d \in Device
    BY <1>1 DEF Sound
  <1>3. /\ count \in [Device -> Nat] /\ failures \in Nat
        /\ count' = [count EXCEPT ![d] = count[d] + 1] /\ failures' = failures + 1
        /\ client' = client /\ open_channels' = open_channels
        /\ heap' = channel_up(heap, c)
    BY DEF IInv
  <1>4. Sound(channel_up(heap, c), client, count', failures + 1)
    <2>1. CountChange(count, heap.chan_dev[c], 1, count')
      BY <1>3 DEF CountChange
    <2> QED BY <1>1, <1>3, <2>1, OpenFailsSound
  <1>5. /\ handle' \in [Device -> {"none", "open", "closed"}]
        /\ \A e \in Device : handle'[e] = "open" <=> count'[e] > 0
    BY <1>2, <1>3 DEF IInv
  <1>6. count' \in [Device -> Nat] /\ failures' \in Nat
    BY <1>2, <1>3
  <1> QED BY <1>1, <1>3, <1>4, <1>5, <1>6 DEF IInv

\* The struct goes only when nobody holds a channel.
LEMMA FreeIfUnusedKeepsIInv ==
    ASSUME NEW h, free_if_unused(h), Sound(h, client', count', failures'),
           open_channels' = Cardinality(Holding(client'))
    PROVE  IF gone' THEN Gone(heap', client', count', failures')
                    ELSE Sound(heap', client', count', failures')
  <1>1. CASE should_free' /\ open_channels' = 0
    <2>1. gone'
      BY <1>1 DEF free_if_unused
    <2>2. Holding(client') = {}
      BY <1>1, CountedFinite, FS_EmptySet
    <2>3. ASSUME failures' = 0, NEW d \in Device
          PROVE  count'[d] = 0
      <3>1. On(client', h.chan_dev, d) = {}
        BY <2>2 DEF Holding, On
      <3>2. Cardinality(On(client', h.chan_dev, d)) = 0
        BY <3>1, FS_EmptySet
      <3> QED BY <2>3, <3>2 DEF Sound, Covers
    <2>4. ASSUME failures' = 0
          PROVE  AllFreed(heap')
      <3>1. heap' = Torn(h)
        BY <1>1 DEF free_if_unused
      <3>2. Sound(h, client', count', 0)
        BY <2>4
      <3>3. ASSUME NEW held, NEW cnt, Sound(h, held, cnt, 0), Holding(held) = {}
            PROVE  AllFreed(Torn(h))
        BY <3>3, TornFrees
      <3> QED BY <2>2, <3>1, <3>2, <3>3
    <2> QED BY <2>1, <2>2, <2>3, <2>4 DEF Gone
  <1>2. CASE ~(should_free' /\ open_channels' = 0)
    BY <1>2 DEF free_if_unused
  <1> QED BY <1>1, <1>2

LEMMA CloseKeepsIInv ==
    ASSUME IInv, NEW x \in Client, moberg_close(x)
    PROVE  IInv'
  <1> SUFFICES ASSUME NEW c, c = client[x], NEW d, d = heap.chan_dev[c],
                      NEW g, Released(heap, c, g)
               PROVE  IInv'
    BY DEF Released
  <1>1. ~gone /\ Sound(heap, client, count, failures) /\ free_if_unused(g)
    BY DEF IInv, moberg_close, Released
  <1>2. /\ client \in [Client -> Channel \cup {NULL}] /\ count \in [Device -> Nat]
        /\ client' = [client EXCEPT ![x] = NULL] /\ c # NULL
        /\ count' = [count EXCEPT ![d] = count[d] - 1] /\ failures' = failures
        /\ open_channels' = open_channels - 1
        /\ handle' = IF count[d] = 1 THEN [handle EXCEPT ![d] = "closed"] ELSE handle
    BY DEF IInv, moberg_close, device_close
  <1>3. /\ Sound(g, client', count', failures') /\ d \in Device /\ count[d] > 0
        /\ Cardinality(Holding(client')) = Cardinality(Holding(client)) - 1
    <2>1. Now(client, x, NULL, client')
      BY <1>2 DEF Now
    <2>2. d \in Device
      BY <1>1, <1>2 DEF Sound
    <2>3. CountChange(count, heap.chan_dev[c], -1, count')
      <3>1. \A i \in Nat : i - 1 = i + (-1)
        OBVIOUS
      <3>2. count[d] \in Nat
        BY <1>2, <2>2
      <3> QED BY <1>2, <3>1, <3>2 DEF CountChange
    <2>4. /\ Sound(g, client', count', failures)
          /\ Cardinality(Holding(client')) = Cardinality(Holding(client)) - 1
          /\ heap.chan_dev[c] \in Device /\ count[heap.chan_dev[c]] > 0
      <3>1. Sound(heap, client, count, failures)
        BY <1>1
      <3>2. client \in [Client -> Channel \cup {NULL}]
        BY <1>2
      <3>3. count \in [Device -> Nat]
        BY <1>2
      <3>4. client[x] = c /\ c # NULL
        BY <1>2
      <3> QED BY <2>1, <2>3, <3>1, <3>2, <3>3, <3>4, CloseSound
    <2> QED BY <1>2, <2>4
  <1>4. open_channels' = Cardinality(Holding(client'))
    BY <1>2, <1>3 DEF IInv
  <1>5. /\ handle' \in [Device -> {"none", "open", "closed"}]
        /\ \A e \in Device : handle'[e] = "open" <=> count'[e] > 0
    BY <1>2, <1>3 DEF IInv
  <1>6. /\ client' \in [Client -> Channel \cup {NULL}] /\ count' \in [Device -> Nat]
        /\ failures' \in Nat
    BY <1>2, <1>3 DEF IInv
  <1>7. IF gone' THEN Gone(heap', client', count', failures')
                 ELSE Sound(heap', client', count', failures')
    BY <1>1, <1>3, <1>4, FreeIfUnusedKeepsIInv
  <1>8. gone' => should_free'
    BY <1>1 DEF free_if_unused
  <1> QED BY <1>4, <1>5, <1>6, <1>7, <1>8 DEF IInv

LEMMA FreeKeepsIInv ==
    ASSUME IInv, moberg_free
    PROVE  IInv'
  <1>1. /\ count' = count /\ handle' = handle /\ client' = client
        /\ open_channels' = open_channels /\ failures' = failures
        /\ free_if_unused(heap)
    BY DEF moberg_free
  <1>2. ~gone
    BY DEF IInv, moberg_free
  <1>3. Sound(heap, client', count', failures')
    BY <1>1, <1>2 DEF IInv
  <1>4. IF gone' THEN Gone(heap', client', count', failures')
                 ELSE Sound(heap', client', count', failures')
    BY <1>1, <1>3, FreeIfUnusedKeepsIInv DEF IInv
  <1>5. gone' => should_free'
    BY <1>1 DEF free_if_unused
  <1> QED BY <1>1, <1>4, <1>5 DEF IInv

LEMMA NextKeepsIInv == IInv /\ [Next]_vars => IInv'
  <1> SUFFICES ASSUME IInv, [Next]_vars PROVE IInv'
    OBVIOUS
  <1>1. ASSUME NEW x \in Client, moberg_close(x) PROVE IInv'
    BY <1>1, CloseKeepsIInv
  <1>2. ASSUME NEW x \in Client, NEW c \in Channel, moberg_open(x, c) PROVE IInv'
    BY <1>2, OpenKeepsIInv
  <1>3. ASSUME NEW c \in Channel, moberg_open_fails(c) PROVE IInv'
    BY <1>3, OpenFailsKeepsIInv
  <1>4. CASE moberg_free
    BY <1>4, FreeKeepsIInv
  <1>5. CASE UNCHANGED vars
    BY <1>5 DEF vars, IInv, Gone, Holding, Sound, AllFreed
  <1> QED BY <1>1, <1>2, <1>3, <1>4, <1>5 DEF Next

LEMMA SpecIInv == Spec => []IInv
  BY InitIInv, NextKeepsIInv, PTL DEF Spec

-----------------------------------------------------------------------------
(* What it means for the clients *)

LEMMA IInvOpenUsable == IInv => OpenIsUsable
  <1> SUFFICES ASSUME IInv, NEW x \in Client, client[x] # NULL,
                      NEW d, d = heap.chan_dev[client[x]]
               PROVE  /\ heap.chan[client[x]] = "live" /\ heap.ctx[d] = "live"
                      /\ handle[d] = "open"
    BY DEF OpenIsUsable
  <1>1. x \in Holding(client)
    BY DEF Holding
  <1>2. ~gone /\ Sound(heap, client, count, failures)
    BY <1>1 DEF IInv, Gone
  <1>3. client[x] \in Channel /\ d \in Device
    BY <1>2 DEF IInv, Sound
  <1>4. heap.chan[client[x]] = "live" /\ heap.ctx[d] = "live"
    BY <1>2, <1>3 DEF Sound
  <1>5. count[d] > 0
    <2>1. x \in On(client, heap.chan_dev, d)
      BY DEF On
    <2>2. Cardinality(On(client, heap.chan_dev, d)) \in Nat \ {0}
      BY <2>1, CountedFinite, FS_EmptySet
    <2>3. count[d] >= Cardinality(On(client, heap.chan_dev, d))
      BY <1>2, <1>3 DEF Sound, Covers
    <2>4. count[d] \in Nat
      BY <1>3 DEF IInv
    <2> QED BY <2>2, <2>3, <2>4
  <1> QED BY <1>3, <1>4, <1>5 DEF IInv

\* Whatever the other clients opened, failed to open and closed, and whoever
\* freed the struct: a channel a client has open and the context of its device
\* are not freed and the device file is open (comedi.c:channel_open/close).
THEOREM OpenUsable == Spec => []OpenIsUsable
  <1>1. IInv => OpenIsUsable
    BY IInvOpenUsable
  <1> QED BY <1>1, SpecIInv, PTL

LEMMA IInvUsesExact == IInv => UsesExactUntilFailure
  <1> SUFFICES ASSUME IInv, failures = 0
               PROVE  UseCountIsUses /\ FilesOpenWhileUsed /\ NothingHeldWhenGone
    BY DEF UsesExactUntilFailure
  <1>1. CASE gone
    <2>1. Holding(client) = {} /\ \A d \in Device : count[d] = 0
      BY <1>1 DEF IInv, Gone
    <2>2. \A d \in Device : ClientsOn(d) = {}
      BY <2>1 DEF ClientsOn, Holding
    <2>3. \A d \in Device : handle[d] # "open"
      BY <2>1 DEF IInv
    <2>4. AllFreed(heap)
      BY <1>1 DEF IInv, Gone
    <2> QED BY <1>1, <2>2, <2>3, <2>4
        DEF UseCountIsUses, FilesOpenWhileUsed, NothingHeldWhenGone, AllFreed
  <1>2. CASE ~gone
    <2>1. Sound(heap, client, count, failures)
      BY <1>2 DEF IInv
    <2>2. /\ \A c \in Channel : ClientsOf(c) = Of(client, c)
          /\ \A d \in Device : ClientsOn(d) = On(client, heap.chan_dev, d)
          /\ \A d \in Device :
                {c \in Channel : heap.chan_dev[c] = d} = ChannelsOf(heap.chan_dev, d)
      BY DEF ClientsOf, ClientsOn, Of, On, ChannelsOf
    <2>3. \A c \in Channel : heap.chan_use[c] = 1 + Cardinality(ClientsOf(c))
      BY <2>1, <2>2 DEF Sound, Covers
    <2>4. \A d \in Device :
             heap.use[d] = 1 + Cardinality({c \in Channel : heap.chan_dev[c] = d})
                             + Cardinality(ClientsOn(d))
      BY <2>1, <2>2 DEF Sound, Covers
    <2>5. ASSUME NEW d \in Device
          PROVE  handle[d] = "open" <=> ClientsOn(d) # {}
      <3>1. count[d] = Cardinality(On(client, heap.chan_dev, d))
        BY <2>1 DEF Sound, Covers
      <3>2. count[d] = 0 <=> On(client, heap.chan_dev, d) = {}
        BY <3>1, CountedFinite, FS_EmptySet
      <3>3. handle[d] = "open" <=> count[d] # 0
        BY DEF IInv
      <3> QED BY <2>2, <3>2, <3>3
    <2> QED BY <1>2, <2>3, <2>4, <2>5
        DEF UseCountIsUses, FilesOpenWhileUsed, NothingHeldWhenGone
  <1> QED BY <1>1, <1>2

\* Until an open fails half-way the use counts are exactly the uses, of the
\* channels by the table and the clients, of the devices by the configuration,
\* their channels and the opens; a device file is open exactly while one of its
\* channels is; and when the last close or moberg_free tears the struct down,
\* every channel and every device context is freed.
THEOREM UsesExact == Spec => []UsesExactUntilFailure
  <1>1. IInv => UsesExactUntilFailure
    BY IInvUsesExact
  <1> QED BY <1>1, SpecIInv, PTL

-----------------------------------------------------------------------------
(* The types of the variables *)

LEMMA DevicesStayLoaded ==
    ASSUME NEW h \in Loaded, NEW k, DevicesGo(k, h)
    PROVE  k[Device] \in Loaded
  <1> DEFINE G == {s \in SUBSET Device : k[s] \in Loaded}
  <1>1. ASSUME NEW s \in SUBSET Device, \A x \in s : s \ {x} \in G
        PROVE  s \in G
    <2>1. CASE s = {}
      BY <2>1 DEF DevicesGo
    <2>2. CASE s # {}
      <3>1. PICK d \in s : k[s] = device_down(k[s \ {d}], d, TRUE)
        BY <2>2 DEF DevicesGo
      <3>2. k[s \ {d}] \in Loaded /\ d \in Device
        BY <1>1, <3>1
      <3>3. k[s \ {d}] \in Heap
        BY <3>2 DEF Loaded
      <3>4. IsDown(k[s \ {d}], d, k[s])
        BY <3>1, <3>2, <3>3, DeviceDown
      <3> QED BY <3>2, <3>4 DEF IsDown, Loaded
    <2> QED BY <2>1, <2>2
  <1>2. SUBSET Device \subseteq G
    <2> HIDE DEF G
    <2> QED BY <1>1, DeviceAssumption, FiniteInduction
  <1> QED BY <1>2

LEMMA ChannelsStayLoaded ==
    ASSUME NEW h \in Loaded, NEW k, ChannelsGo(k, h)
    PROVE  k[Channel] \in Loaded
  <1> DEFINE G == {s \in SUBSET Channel : k[s] \in Loaded}
  <1>1. ASSUME NEW s \in SUBSET Channel, \A x \in s : s \ {x} \in G
        PROVE  s \in G
    <2>1. CASE s = {}
      BY <2>1 DEF ChannelsGo
    <2>2. CASE s # {}
      <3>1. PICK c \in s : k[s] = channel_down(k[s \ {c}], c, TRUE)
        BY <2>2 DEF ChannelsGo
      <3>2. k[s \ {c}] \in Loaded /\ c \in Channel
        BY <1>1, <3>1
      <3>3. k[s \ {c}] \in Heap /\ k[s \ {c}].chan_dev[c] \in Device
        BY <3>2 DEF Loaded
      <3>4. IsReleased(k[s \ {c}], c, k[s])
        BY <3>1, <3>2, <3>3, ChannelDownReleases
      <3> QED BY <3>2, <3>4 DEF IsReleased, Loaded
    <2> QED BY <2>1, <2>2
  <1>2. SUBSET Channel \subseteq G
    <2> HIDE DEF G
    <2> QED BY <1>1, ChannelAssumption, FiniteInduction
  <1> QED BY <1>2

LEMMA TornHeap ==
    ASSUME NEW h \in Loaded
    PROVE  Torn(h) \in Heap
  <1>0. h \in Heap
    BY DEF Loaded
  <1>1. PICK k : /\ DevicesGo(k, h)
                 /\ k[Device] = FoldSet(LAMBDA d, g : device_down(g, d, TRUE), h, Device)
    BY <1>0, DevicesFolded
  <1>2. k[Device] \in Loaded
    BY <1>1, DevicesStayLoaded
  <1>3. PICK l : /\ ChannelsGo(l, k[Device])
                 /\ l[Channel] = FoldSet(LAMBDA c, g : channel_down(g, c, TRUE), k[Device], Channel)
    BY <1>2, ChannelsFolded
  <1>4. l[Channel] \in Heap
    <2>1. l[Channel] \in Loaded
      BY <1>2, <1>3, ChannelsStayLoaded
    <2> QED BY <2>1 DEF Loaded
  <1>5. Torn(h) = [l[Channel] EXCEPT !.deferred = << >>]
    BY <1>1, <1>3, Zenon DEF Torn
  <1>6. << >> \in Seq(Device)
    OBVIOUS
  <1>7. [l[Channel] EXCEPT !.deferred = << >>] \in Heap
    BY <1>4, <1>6, WithField
  <1> QED BY <1>5, <1>7

LEMMA FreeIfUnusedKeepsTypes ==
    ASSUME NEW h \in Loaded, free_if_unused(h)
    PROVE  heap' \in Heap /\ gone' \in BOOLEAN
  <1>1. heap' \in Heap
    BY TornHeap DEF free_if_unused, Loaded
  <1>2. gone' \in BOOLEAN
    BY Zenon DEF free_if_unused
  <1> QED BY <1>1, <1>2

LEMMA NextKeepsTypes ==
    ASSUME IInv, IInv', TypeOK, [Next]_vars
    PROVE  TypeOK'
  <1> USE DEF TypeOK
  <1>1. /\ count' \in [Device -> Nat]
        /\ handle' \in [Device -> {"none", "open", "closed"}]
        /\ client' \in [Client -> Channel \cup {NULL}]
    BY DEF IInv
  <1>2. open_channels' \in 0..Cardinality(Client)
    <2>1. Holding(client') \subseteq Client
      BY DEF Holding
    <2>2. /\ Cardinality(Holding(client')) \in Nat /\ Cardinality(Client) \in Nat
          /\ Cardinality(Holding(client')) <= Cardinality(Client)
      BY <2>1, ClientAssumption, FS_Subset, FS_CardinalityType
    <2>3. open_channels' = Cardinality(Holding(client'))
      BY DEF IInv
    <2> QED BY <2>2, <2>3
  <1>3. /\ heap' \in Heap
        /\ should_free' \in BOOLEAN /\ gone' \in BOOLEAN
        /\ failures' \in 0..MaxFailures
    <2>1. ASSUME NEW x \in Client, moberg_close(x) PROVE <1>3
      <3>1. ~gone /\ client[x] # NULL /\ Sound(heap, client, count, failures)
        BY <2>1 DEF moberg_close, IInv
      <3>2. client[x] \in Channel /\ heap \in Heap /\ heap.chan_dev[client[x]] \in Device
            /\ heap.chan_dev \in [Channel -> Device]
        BY <3>1 DEF Sound
      <3>3. IsReleased(heap, client[x], channel_down(heap, client[x], TRUE))
        BY <3>2, ChannelDownReleases
      <3>4. channel_down(heap, client[x], TRUE) \in Loaded
        BY <3>2, <3>3 DEF IsReleased, Loaded
      <3>5. free_if_unused(channel_down(heap, client[x], TRUE))
            /\ should_free' = should_free /\ failures' = failures
        BY <2>1 DEF moberg_close
      <3> QED BY <3>4, <3>5, FreeIfUnusedKeepsTypes
    <2>2. ASSUME NEW x \in Client, NEW c \in Channel, moberg_open(x, c) PROVE <1>3
      <3>1. /\ ~gone' /\ Sound(heap', client', count', failures')
            /\ should_free' = should_free /\ gone' = gone /\ failures' = failures
        BY <2>2 DEF moberg_open, IInv
      <3> QED BY <3>1 DEF Sound
    <2>3. ASSUME NEW c \in Channel, moberg_open_fails(c) PROVE <1>3
      <3>1. /\ ~gone' /\ Sound(heap', client', count', failures')
            /\ should_free' = should_free /\ gone' = gone
            /\ failures < MaxFailures /\ failures' = failures + 1
        BY <2>3 DEF moberg_open_fails, IInv
      <3>2. failures' \in 0..MaxFailures
        BY <3>1, FailuresAssumption
      <3> QED BY <3>1, <3>2 DEF Sound
    <2>4. CASE moberg_free
      <3>1. ~gone /\ Sound(heap, client, count, failures)
        BY <2>4 DEF moberg_free, IInv
      <3>2. heap \in Loaded
        BY <3>1 DEF Sound, Loaded
      <3>3. free_if_unused(heap) /\ failures' = failures /\ should_free' \in BOOLEAN
        BY <2>4, Zenon DEF moberg_free
      <3> QED BY <3>2, <3>3, FreeIfUnusedKeepsTypes
    <2>5. CASE UNCHANGED vars
      BY <2>5 DEF vars
    <2> QED BY <2>1, <2>2, <2>3, <2>4, <2>5 DEF Next
  <1> QED BY <1>1, <1>2, <1>3

\* The types of Comedi: that every close was counted by an open keeps the counts
\* natural, and the teardown leaves a heap (comedi.c:device_close, device_down).
THEOREM ComediTypeCorrect == Spec => []TypeOK
  <1>1. ASSUME Init PROVE TypeOK
    <2>1. IInv /\ ~gone
      BY <1>1, InitIInv DEF Init
    <2>2. heap \in Heap
      BY <2>1 DEF IInv, Sound
    <2>3. failures \in 0..MaxFailures /\ open_channels \in 0..Cardinality(Client)
      BY <1>1, FailuresAssumption, ClientAssumption, FS_CardinalityType DEF Init
    <2>4. should_free \in BOOLEAN /\ gone \in BOOLEAN
      BY <1>1, Zenon DEF Init
    <2> QED BY <2>1, <2>2, <2>3, <2>4 DEF TypeOK, IInv
  <1>2. IInv /\ IInv' /\ TypeOK /\ [Next]_vars => TypeOK'
    BY NextKeepsTypes
  <1> QED BY <1>1, <1>2, SpecIInv, PTL DEF Spec
=============================================================================
