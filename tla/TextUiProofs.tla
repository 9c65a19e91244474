---------------------------- MODULE TextUiProofs ----------------------------
(***************************************************************************)
(* Proofs about the candidate panel and the preedit, for every set of      *)
(* compositions, modes, texts and styles, every size of the layout cache,  *)
(* of a slot of the retire ring and of the ring itself, and every number   *)
(* of frames in flight that is no more than the ring's.                    *)
(***************************************************************************)
EXTENDS TextUi, SequenceLemmas, FiniteSetTheorems

(* No list is longer than the panel lays out.  Without it                  *)
(* FramesKeepTheirLayouts is false: a list that does not fit leaves the    *)
(* geometry whose layouts a change of style has freed (popup_render).      *)
ListsFit == \A c \in Compositions : Len(c.list) <= MaxRows

-----------------------------------------------------------------------------
(* Types.                                                                  *)

Slots == 0 .. Depth - 1
Ids == {S \in SUBSET Nat : IsFiniteSet(S)}
Entries == [key : Texts \X Styles, id : Nat]
Frames == [uses : Ids, restyled : BOOLEAN]
Laid == [list : Seq(Texts), aux : Statuses \cup {None}, mode : Modes, style : Styles,
         rows : Ids, own : Ids]
Panels == [style : Styles, visible : BOOLEAN, selected : Int, geom : Laid \cup {None},
           retry : BOOLEAN, streak : Nat, status : Statuses \cup {None}, ready : BOOLEAN,
           screen : Seq(Texts) \cup {None}, cache : Seq(Entries), epoch : Slots,
           ring : [Slots -> Ids], flights : Seq(Frames), live : Ids]

(* The panel that an operation leaves as it is but for its layouts.        *)
Like(p, q) ==
    /\ q.style = p.style /\ q.visible = p.visible /\ q.selected = p.selected
    /\ q.retry = p.retry /\ q.streak = p.streak /\ q.status = p.status
    /\ q.ready = p.ready /\ q.screen = p.screen /\ q.epoch = p.epoch

(* What the cache and the current geometry own.                            *)
Held(p) == Cached(p) \cup OwnedBy(p.geom)

(* Every layout alive has one owner, and a cache entry has its own.  A     *)
(* panel that never drew has nothing parked.                               *)
OwnInv(p) ==
    /\ \A x \in Nat : x \in p.live <=> x \in Held(p) \/ \E s \in Slots : x \in p.ring[s]
    /\ Cached(p) \cap OwnedBy(p.geom) = {}
    /\ \A s \in Slots : p.ring[s] \cap Held(p) = {}
    /\ \A s, t \in Slots : s # t => p.ring[s] \cap p.ring[t] = {}
    /\ \A i, j \in DOMAIN p.cache : p.cache[i].id = p.cache[j].id => i = j
    /\ ~p.ready => p.flights = <<>> /\ \A s \in Slots : p.ring[s] = {}
    /\ Len(p.flights) <= FramesInFlight

(* How many presents ago slot s was the current one.                       *)
Age(e, s) == IF s <= e THEN e - s ELSE e - s + Depth

(* What a frame in flight uses is alive, and parked no earlier than it was *)
(* presented: as many frames were since.                                   *)
DrawInv(p) ==
    \A j \in DOMAIN p.flights :
        \/ p.flights[j].restyled
        \/ /\ p.flights[j].uses \subseteq p.live
           /\ \A s \in Slots : p.flights[j].uses \cap p.ring[s] # {} =>
                                  Age(p.epoch, s) <= Len(p.flights) - j

(* The rows of the current geometry are in the cache.                      *)
RowsInv(p) == p.geom # None => p.geom.rows \subseteq Cached(p)

-----------------------------------------------------------------------------
(* Names of resources.                                                     *)

(* A geometry is not the absence of one.                                   *)
LEMMA LaidIsSome == \A g \in Laid : g # None
  BY DataAssumption DEF Laid, Geometries, Ids

(* The parts of a finite set are finite, and so is the union of two.       *)
LEMMA IdsClosed ==
    ASSUME NEW a \in Ids, NEW b \in Ids
    PROVE  a \cup b \in Ids /\ a \ b \in Ids /\ {} \in Ids
<1>1. IsFiniteSet(a \cup b)
  BY FS_Union DEF Ids
<1>2. IsFiniteSet(a \ b)
  BY FS_Difference DEF Ids
<1>3. IsFiniteSet({})
  BY FS_EmptySet
<1> QED
  BY <1>1, <1>2, <1>3 DEF Ids

(* What the cache and the geometry own are sets of names.                  *)
LEMMA HeldType ==
    ASSUME NEW p \in Panels
    PROVE  Cached(p) \subseteq Nat /\ OwnedBy(p.geom) \in Ids /\ Uses(p.geom) \in Ids
<1>1. Cached(p) \subseteq Nat
  <2>1. p.cache \in Seq(Entries)
    BY DEF Panels
  <2>2. ASSUME NEW i \in DOMAIN p.cache
        PROVE  p.cache[i].id \in Nat
    <3>1. p.cache[i] \in Entries
      BY <2>1
    <3> QED
      BY <3>1 DEF Entries
  <2> QED
    BY <2>2 DEF Cached, ToSet
<1>2. {} \in Ids
  BY FS_EmptySet DEF Ids
<1>3. CASE p.geom = None
  BY <1>1, <1>2, <1>3 DEF OwnedBy, Uses
<1>4. CASE p.geom # None
  <2>1. p.geom.own \in Ids /\ p.geom.rows \in Ids
    BY <1>4 DEF Panels, Laid
  <2> QED
    BY <1>1, <1>4, <2>1, IdsClosed DEF OwnedBy, Uses
<1> QED
  BY <1>3, <1>4

(* What the frames use is finite.                                          *)
LEMMA FramesAreFinite ==
    ASSUME NEW flights \in Seq(Frames)
    PROVE  UNION {f.uses : f \in ToSet(flights)} \in Ids
<1> DEFINE T == {f.uses : f \in ToSet(flights)}
           h == [i \in 1 .. Len(flights) |-> flights[i].uses]
<1>1. DOMAIN flights = 1 .. Len(flights) /\ Len(flights) \in Nat
  OBVIOUS
<1>2. \A i \in 1 .. Len(flights) : flights[i] \in Frames
  BY <1>1
<1>3. h \in Surjection(1 .. Len(flights), T)
  BY <1>1 DEF Surjection, ToSet
<1>4. IsFiniteSet(1 .. Len(flights))
  BY <1>1, FS_Interval
<1>5. IsFiniteSet(T)
  BY <1>3, <1>4, FS_Surjection
<1>6. \A t \in T : IsFiniteSet(t) /\ t \subseteq Nat
  BY <1>1, <1>2 DEF ToSet, Frames, Ids
<1>7. IsFiniteSet(UNION T)
  BY <1>5, <1>6, FS_UNION
<1> QED
  BY <1>6, <1>7 DEF Ids

(* Unused names a resource that is neither alive nor used.                 *)
LEMMA UnusedIsFresh ==
    ASSUME NEW p \in Panels
    PROVE  /\ Unused(p) \in Nat
           /\ Unused(p) \notin p.live
           /\ \A j \in DOMAIN p.flights : Unused(p) \notin p.flights[j].uses
<1> DEFINE drawn == UNION {f.uses : f \in ToSet(p.flights)}
           used == p.live \cup drawn \cup Uses(p.geom)
<1>1. used \in Ids
  <2>1. p.live \in Ids /\ p.flights \in Seq(Frames)
    BY DEF Panels
  <2>2. drawn \in Ids
    BY <2>1, FramesAreFinite
  <2>3. Uses(p.geom) \in Ids
    BY HeldType
  <2> HIDE DEF drawn
  <2>4. p.live \cup drawn \in Ids
    BY <2>1, <2>2, IdsClosed
  <2> QED
    BY <2>3, <2>4, IdsClosed
<1>2. IsFiniteSet(used)
  BY <1>1 DEF Ids
<1> DEFINE n == Cardinality(used) + 1
           P(i) == i \notin used /\ 1 .. i - 1 \subseteq used
<1>3. \A j \in DOMAIN p.flights : p.flights[j].uses \subseteq used
  BY DEF ToSet
<1>4. p.live \subseteq used
  OBVIOUS
<1>5. Unused(p) = CHOOSE i \in 1 .. n : P(i)
  BY DEF Unused
<1> HIDE DEF used
<1>6. n \in Nat
  BY <1>2, FS_CardinalityType
<1>7. ~(1 .. n \subseteq used)
  <2>1. Cardinality(1 .. n) = n
    BY <1>2, <1>6, FS_Interval, FS_CardinalityType
  <2>2. 1 .. n \subseteq used => Cardinality(1 .. n) <= Cardinality(used)
    BY <1>2, FS_Subset
  <2> QED
    BY <1>2, <2>1, <2>2, FS_CardinalityType
<1>8. \E i \in 1 .. n : P(i)
  <2> DEFINE T == {i \in 1 .. n : i \notin used}
  <2>1. T \subseteq Nat /\ T # {}
    BY <1>6, <1>7
  <2>2. PICK i \in T : \A j \in T : i <= j
    <3> HIDE DEF T
    <3> QED
      BY <2>1, LeastNumber
  <2>3. \A j \in 1 .. i - 1 : j \in used
    BY <1>6, <2>2
  <2> QED
    BY <2>2, <2>3
<1> HIDE DEF P
<1>9. Unused(p) \in 1 .. n /\ P(Unused(p))
  BY <1>5, <1>8
<1> QED
  BY <1>3, <1>4, <1>6, <1>9 DEF P

-----------------------------------------------------------------------------
(* Parking and freeing.                                                    *)

(* What Retire does: the names are freed where nothing was ever drawn, and *)
(* parked in the slot of the epoch otherwise, alone if the slot was full   *)
(* and the GPU had to be waited for.                                       *)
Parks(p, r, ids) ==
    \/ /\ ~p.ready
       /\ r.live = p.live \ ids /\ r.ring = p.ring /\ r.flights = p.flights
    \/ /\ p.ready
       /\ r.ring = [p.ring EXCEPT ![p.epoch] = p.ring[p.epoch] \cup ids]
       /\ r.live = p.live /\ r.flights = p.flights
    \/ /\ p.ready
       /\ r.ring = [p.ring EXCEPT ![p.epoch] = ids]
       /\ r.live = p.live \ p.ring[p.epoch] /\ r.flights = <<>>

(* Retire parks, and changes nothing else of the panel.                    *)
LEMMA RetireParks ==
    ASSUME NEW p \in Panels, NEW ids \in Ids
    PROVE  LET r == Retire(p, ids)
           IN  /\ r \in Panels /\ Like(p, r) /\ r.geom = p.geom /\ r.cache = p.cache
               /\ Parks(p, r, ids)
<1> DEFINE r == Retire(p, ids)
           s == p.epoch
<1>1. s \in Slots /\ p.ring \in [Slots -> Ids] /\ p.live \in Ids /\ p.ring[s] \in Ids
  BY DEF Panels
<1>2. p.live \ ids \in Ids /\ p.live \ p.ring[s] \in Ids /\ p.ring[s] \cup ids \in Ids
      /\ {} \in Ids
  BY <1>1, IdsClosed
<1>3. <<>> \in Seq(Frames)
  OBVIOUS
<1>4. CASE ~p.ready
  <2>1. r = [p EXCEPT !.live = p.live \ ids]
    BY <1>4 DEF Retire, Free
  <2> HIDE DEF r
  <2>2. r \in Panels
    BY <1>2, <2>1 DEF Panels
  <2>3. r.live = p.live \ ids /\ r.ring = p.ring /\ r.flights = p.flights
    BY <2>1 DEF Panels
  <2>4. Like(p, r) /\ r.geom = p.geom /\ r.cache = p.cache
    BY <2>1 DEF Panels, Like
  <2> QED
    BY <1>4, <2>2, <2>3, <2>4 DEF Parks, r
<1>5. CASE p.ready /\ ~(Cardinality(p.ring[s]) >= SlotMax)
  <2>1. r = [p EXCEPT !.ring = [p.ring EXCEPT ![s] = p.ring[s] \cup ids]]
    BY <1>5 DEF Retire
  <2> HIDE DEF r
  <2>2. r \in Panels
    BY <1>1, <1>2, <2>1 DEF Panels
  <2>3. r.ring = [p.ring EXCEPT ![s] = p.ring[s] \cup ids] /\ r.live = p.live
        /\ r.flights = p.flights
    BY <2>1 DEF Panels
  <2>4. Like(p, r) /\ r.geom = p.geom /\ r.cache = p.cache
    BY <2>1 DEF Panels, Like
  <2> QED
    BY <1>5, <2>2, <2>3, <2>4 DEF Parks, r
<1>6. CASE p.ready /\ Cardinality(p.ring[s]) >= SlotMax
  <2> DEFINE q == [p EXCEPT !.flights = <<>>, !.live = p.live \ p.ring[s],
                            !.ring = [p.ring EXCEPT ![s] = {}]]
  <2>1. Drain(WaitIdle(p), s) = q
    BY DEF Drain, WaitIdle, Free, Panels
  <2>2. q.ring = [p.ring EXCEPT ![s] = {}] /\ q.ring[s] = {}
    BY <1>1 DEF Panels
  <2>3. r = [q EXCEPT !.ring = [q.ring EXCEPT ![s] = q.ring[s] \cup ids]]
    BY <1>6, <2>1 DEF Retire
  <2>4. [q.ring EXCEPT ![s] = q.ring[s] \cup ids] = [p.ring EXCEPT ![s] = ids]
    BY <1>1, <2>2
  <2>5. r = [p EXCEPT !.flights = <<>>, !.live = p.live \ p.ring[s],
                      !.ring = [p.ring EXCEPT ![s] = ids]]
    BY <2>3, <2>4 DEF Panels
  <2> HIDE DEF r
  <2>6. [p.ring EXCEPT ![s] = ids] \in [Slots -> Ids]
    BY <1>1
  <2>7. r \in Panels
    BY <1>2, <1>3, <2>5, <2>6 DEF Panels
  <2>8. r.ring = [p.ring EXCEPT ![s] = ids] /\ r.live = p.live \ p.ring[s]
        /\ r.flights = <<>>
    BY <2>5 DEF Panels
  <2>9. Like(p, r) /\ r.geom = p.geom /\ r.cache = p.cache
    BY <2>5 DEF Panels, Like
  <2> QED
    BY <1>6, <2>7, <2>8, <2>9 DEF Parks, r
<1>7. p.ready \in BOOLEAN
  BY DEF Panels
<1> HIDE DEF r
<1> QED
  BY <1>4, <1>5, <1>6, <1>7 DEF r

(* The slot of the epoch is the youngest.                                  *)
LEMMA AgeOfEpoch == \A e, s \in Slots : Age(e, s) \in Nat /\ Age(e, e) = 0
  BY BoundsAssumption DEF Age, Slots

(* Once the cache and the geometry have let go of what Retire parked, the  *)
(* panel is in order again, and no frame has lost what it uses.            *)
LEMMA ParkingKeepsOrder ==
    ASSUME NEW p \in Panels, OwnInv(p), NEW ids \in Ids, ids \subseteq Held(p),
           NEW q \in Panels, Like(p, q), Parks(p, q, ids),
           Cached(q) \subseteq Cached(p), OwnedBy(q.geom) \subseteq OwnedBy(p.geom),
           Held(q) = Held(p) \ ids,
           \A i, j \in DOMAIN q.cache : q.cache[i].id = q.cache[j].id => i = j
    PROVE  OwnInv(q) /\ (DrawInv(p) => DrawInv(q))
<1>1. /\ p.epoch \in Slots /\ p.ring \in [Slots -> Ids] /\ q.ready = p.ready
      /\ q.epoch = p.epoch /\ p.ready \in BOOLEAN
  BY DEF Panels, Like
<1>2. /\ \A x \in Nat : x \in p.live <=> x \in Held(p) \/ \E s \in Slots : x \in p.ring[s]
      /\ Cached(p) \cap OwnedBy(p.geom) = {}
      /\ \A s \in Slots : p.ring[s] \cap Held(p) = {}
      /\ \A s, t \in Slots : s # t => p.ring[s] \cap p.ring[t] = {}
      /\ ~p.ready => p.flights = <<>> /\ \A s \in Slots : p.ring[s] = {}
      /\ Len(p.flights) <= FramesInFlight
  BY DEF OwnInv
<1>3. Cached(q) \cap OwnedBy(q.geom) = {}
  BY <1>2
<1>4. CASE /\ ~p.ready
           /\ q.live = p.live \ ids /\ q.ring = p.ring /\ q.flights = p.flights
  <2>1. \A x \in Nat : x \in q.live <=> x \in Held(q) \/ \E s \in Slots : x \in q.ring[s]
    BY <1>2, <1>4
  <2>2. OwnInv(q)
    BY <1>1, <1>2, <1>3, <1>4, <2>1 DEF OwnInv
  <2>3. DrawInv(q)
    BY <1>2, <1>4 DEF DrawInv
  <2> QED
    BY <2>2, <2>3
<1>5. CASE /\ p.ready
           /\ q.ring = [p.ring EXCEPT ![p.epoch] = p.ring[p.epoch] \cup ids]
           /\ q.live = p.live /\ q.flights = p.flights
  <2>1. \A s \in Slots : q.ring[s] = IF s = p.epoch THEN p.ring[s] \cup ids ELSE p.ring[s]
    BY <1>1, <1>5
  <2>2. \A x \in Nat : x \in q.live <=> x \in Held(q) \/ \E s \in Slots : x \in q.ring[s]
    BY <1>1, <1>2, <1>5, <2>1
  <2>3. \A s \in Slots : q.ring[s] \cap Held(q) = {}
    BY <1>2, <2>1
  <2>4. \A s, t \in Slots : s # t => q.ring[s] \cap q.ring[t] = {}
    BY <1>2, <2>1
  <2>5. OwnInv(q)
    BY <1>1, <1>2, <1>3, <1>5, <2>2, <2>3, <2>4 DEF OwnInv
  <2>6. ASSUME DrawInv(p), NEW j \in DOMAIN q.flights, ~q.flights[j].restyled,
               NEW s \in Slots, q.flights[j].uses \cap q.ring[s] # {}
        PROVE  Age(q.epoch, s) <= Len(q.flights) - j
    <3>1. p.flights \in Seq(Frames) /\ j \in 1 .. Len(p.flights) /\ Len(p.flights) \in Nat
      BY <1>5 DEF Panels
    <3>2. CASE s = p.epoch
      BY <1>1, <1>5, <3>1, <3>2, AgeOfEpoch
    <3>3. CASE s # p.epoch
      <4>1. q.ring[s] = p.ring[s]
        BY <2>1, <3>3
      <4> QED
        BY <1>1, <1>5, <2>6, <3>1, <4>1 DEF DrawInv
    <3> QED
      BY <3>2, <3>3
  <2>7. DrawInv(p) => DrawInv(q)
    BY <1>5, <2>6 DEF DrawInv
  <2> QED
    BY <2>5, <2>7
<1>6. CASE /\ p.ready
           /\ q.ring = [p.ring EXCEPT ![p.epoch] = ids]
           /\ q.live = p.live \ p.ring[p.epoch] /\ q.flights = <<>>
  <2>1. \A s \in Slots : q.ring[s] = IF s = p.epoch THEN ids ELSE p.ring[s]
    BY <1>1, <1>6
  <2>2. ASSUME NEW x \in Nat
        PROVE  x \in q.live <=> x \in Held(q) \/ \E s \in Slots : x \in q.ring[s]
    <3>1. x \in q.live <=> x \in p.live /\ x \notin p.ring[p.epoch]
      BY <1>6
    <3>2. (\E s \in Slots : x \in q.ring[s])
             <=> x \in ids \/ \E s \in Slots : s # p.epoch /\ x \in p.ring[s]
      BY <1>1, <2>1
    <3>3. x \in ids => x \notin p.ring[p.epoch]
      BY <1>1, <1>2
    <3>4. \A s \in Slots : s # p.epoch /\ x \in p.ring[s] => x \notin p.ring[p.epoch]
      BY <1>1, <1>2
    <3>5. x \in Held(p) => x \notin p.ring[p.epoch]
      BY <1>1, <1>2
    <3> QED
      BY <1>1, <1>2, <3>1, <3>2, <3>3, <3>4, <3>5
  <2>3. \A s \in Slots : q.ring[s] \cap Held(q) = {}
    BY <1>2, <2>1
  <2>4. \A s, t \in Slots : s # t => q.ring[s] \cap q.ring[t] = {}
    BY <1>1, <1>2, <2>1
  <2>5. Len(q.flights) <= FramesInFlight
    BY <1>6, BoundsAssumption
  <2>6. OwnInv(q)
    BY <1>1, <1>2, <1>3, <1>6, <2>2, <2>3, <2>4, <2>5 DEF OwnInv
  <2>7. DrawInv(q)
    BY <1>6 DEF DrawInv
  <2> QED
    BY <2>6, <2>7
<1> QED
  BY <1>4, <1>5, <1>6 DEF Parks

-----------------------------------------------------------------------------
(* The cache.                                                              *)

(* No two entries share a layout.                                          *)
Distinct(c) == \A i, j \in DOMAIN c : c[i].id = c[j].id => i = j

(* Moving an entry to the end keeps the cache's layouts.                   *)
LEMMA UseKeepsCache ==
    ASSUME NEW p \in Panels, NEW i \in DOMAIN p.cache, Distinct(p.cache)
    PROVE  LET q == [p EXCEPT !.cache = Append(RemoveAt(p.cache, i), p.cache[i])]
           IN  q \in Panels /\ Cached(q) = Cached(p) /\ Distinct(q.cache)
<1> DEFINE c == p.cache
           n == Len(c)
           d == Append(RemoveAt(c, i), c[i])
           q == [p EXCEPT !.cache = d]
<1>1. c \in Seq(Entries) /\ n \in Nat /\ i \in 1 .. n
  BY DEF Panels
<1> HIDE DEF d, n
<1>5. d \in Seq(Entries) /\ Len(d) = n
  BY <1>1, MovedToEnd DEF d, n
<1>6. \A j \in 1 .. n : d[j] = IF j < i THEN c[j] ELSE IF j < n THEN c[j+1] ELSE c[i]
  BY <1>1, MovedToEnd DEF d, n
<1>7. q \in Panels /\ q.cache = d
  BY <1>5 DEF Panels
<1>8. DOMAIN d = 1 .. n /\ DOMAIN c = 1 .. n
  BY <1>1, <1>5 DEF n
<1>9. \A j \in 1 .. n : \E k \in 1 .. n : d[j] = c[k]
  <2> HIDE DEF c
  <2> QED
    BY <1>1, <1>6
<1>10. \A k \in 1 .. n : \E j \in 1 .. n : d[j] = c[k]
  <2> SUFFICES ASSUME NEW k \in 1 .. n PROVE \E j \in 1 .. n : d[j] = c[k]
    OBVIOUS
  <2>1. CASE k < i
    BY <1>6, <2>1
  <2>2. CASE k = i
    BY <1>1, <1>6, <2>2
  <2>3. CASE k > i
    <3>1. k - 1 \in 1 .. n /\ ~(k - 1 < i) /\ k - 1 < n /\ k - 1 + 1 = k
      BY <1>1, <2>3
    <3>2. d[k - 1] = c[k]
      BY <1>6, <3>1
    <3> QED
      BY <3>1, <3>2
  <2> QED
    BY <1>1, <2>1, <2>2, <2>3
<1>11. Cached(q) = Cached(p)
  <2>1. Cached(p) = {c[k].id : k \in 1 .. n}
    BY <1>8 DEF Cached, ToSet
  <2>2. Cached(q) = {d[k].id : k \in 1 .. n}
    BY <1>7, <1>8 DEF Cached, ToSet
  <2>3. \A j \in 1 .. n : d[j].id \in {c[k].id : k \in 1 .. n}
    BY <1>9
  <2>4. \A k \in 1 .. n : c[k].id \in {d[j].id : j \in 1 .. n}
    BY <1>10
  <2>5. {d[j].id : j \in 1 .. n} = {c[k].id : k \in 1 .. n}
    <3> HIDE DEF c
    <3> QED
      BY <2>3, <2>4
  <2> QED
    BY <2>1, <2>2, <2>5
<1>12. Distinct(d)
  <2> SUFFICES ASSUME NEW j \in 1 .. n, NEW k \in 1 .. n, d[j].id = d[k].id PROVE j = k
    BY <1>8 DEF Distinct
  <2> DEFINE at(l) == IF l < i THEN l ELSE IF l < n THEN l + 1 ELSE i
  <2>1. \A l \in 1 .. n : at(l) \in 1 .. n /\ d[l] = c[at(l)]
    BY <1>1, <1>6
  <2> HIDE DEF at
  <2>2. at(j) = at(k)
    BY <1>8, <2>1 DEF Distinct
  <2>3. ASSUME NEW m \in Nat, NEW h \in 1 .. m, NEW x \in 1 .. m, NEW y \in 1 .. m,
               (IF x < h THEN x ELSE IF x < m THEN x + 1 ELSE h)
                  = IF y < h THEN y ELSE IF y < m THEN y + 1 ELSE h
        PROVE  x = y
    BY <2>3
  <2> QED
    BY <1>1, <2>2, <2>3 DEF at
<1> QED
  BY <1>7, <1>11, <1>12 DEF d, n

(* The oldest entry is gone from the rest of the cache.                    *)
LEMMA TailForgets ==
    ASSUME NEW c \in Seq(Entries), c # <<>>, Distinct(c)
    PROVE  /\ Tail(c) \in Seq(Entries) /\ Distinct(Tail(c))
           /\ {e.id : e \in ToSet(Tail(c))} = {e.id : e \in ToSet(c)} \ {Head(c).id}
           /\ Head(c).id \in {e.id : e \in ToSet(c)} /\ Head(c).id \in Nat
<1> DEFINE n == Len(c)
           d == Tail(c)
<1>1. n \in Nat /\ n >= 1 /\ DOMAIN c = 1 .. n /\ d \in Seq(Entries) /\ Len(d) = n - 1
      /\ DOMAIN d = 1 .. n - 1 /\ Head(c) = c[1] /\ c[1] \in Entries
  OBVIOUS
<1>2. \A j \in 1 .. n - 1 : d[j] = c[j+1] /\ j + 1 \in 1 .. n
  BY <1>1
<1> HIDE DEF d
<1>3. Distinct(d)
  BY <1>1, <1>2 DEF Distinct
<1>4. {e.id : e \in ToSet(d)} = {e.id : e \in ToSet(c)} \ {c[1].id}
  <2>1. ASSUME NEW j \in 1 .. n - 1
        PROVE  d[j].id \in {e.id : e \in ToSet(c)} \ {c[1].id}
    <3>1. j + 1 \in DOMAIN c /\ 1 \in DOMAIN c /\ j + 1 # 1 /\ d[j] = c[j+1]
      BY <1>1, <1>2
    <3>2. c[j+1].id # c[1].id
      BY <3>1 DEF Distinct
    <3> QED
      BY <3>1, <3>2 DEF ToSet
  <2>2. ASSUME NEW k \in 1 .. n, c[k].id # c[1].id
        PROVE  c[k].id \in {e.id : e \in ToSet(d)}
    <3>1. k - 1 \in 1 .. n - 1 /\ d[k-1] = c[k]
      BY <1>1, <1>2, <2>2
    <3> QED
      BY <1>1, <3>1 DEF ToSet
  <2> QED
    BY <1>1, <2>1, <2>2 DEF ToSet
<1>5. c[1].id \in {e.id : e \in ToSet(c)} /\ c[1].id \in Nat
  BY <1>1 DEF ToSet, Entries
<1> QED
  BY <1>1, <1>3, <1>4, <1>5 DEF d

(* A new entry with a layout of its own is one more.                       *)
LEMMA AppendAdds ==
    ASSUME NEW c \in Seq(Entries), Distinct(c), NEW e \in Entries,
           e.id \notin {x.id : x \in ToSet(c)}
    PROVE  /\ Append(c, e) \in Seq(Entries) /\ Distinct(Append(c, e))
           /\ {x.id : x \in ToSet(Append(c, e))} = {x.id : x \in ToSet(c)} \cup {e.id}
<1> DEFINE n == Len(c)
           d == Append(c, e)
<1>1. n \in Nat /\ DOMAIN c = 1 .. n /\ d \in Seq(Entries) /\ DOMAIN d = 1 .. n + 1
  OBVIOUS
<1>2. d[n + 1] = e /\ \A j \in 1 .. n : d[j] = c[j]
  OBVIOUS
<1> HIDE DEF d
<1>3. \A j \in 1 .. n + 1 : j \in 1 .. n \/ j = n + 1
  BY <1>1
<1>4. 1 .. n \subseteq 1 .. n + 1 /\ n + 1 \in 1 .. n + 1
  BY <1>1
<1>5. \A j \in 1 .. n : c[j].id # e.id
  BY <1>1 DEF ToSet
<1>6. Distinct(d)
  BY <1>1, <1>2, <1>3, <1>5 DEF Distinct
<1>7. {x.id : x \in ToSet(d)} = {d[j].id : j \in 1 .. n + 1}
      /\ {x.id : x \in ToSet(c)} = {c[j].id : j \in 1 .. n}
  BY <1>1 DEF ToSet
<1>8. {d[j].id : j \in 1 .. n + 1} = {c[j].id : j \in 1 .. n} \cup {e.id}
  BY <1>2, <1>3, <1>4
<1> QED
  BY <1>1, <1>6, <1>7, <1>8 DEF d

(* A panel whose cache alone was reordered is in order.                    *)
LEMMA ReorderKeepsOrder ==
    ASSUME NEW p \in Panels, OwnInv(p), NEW q \in Panels, Like(p, q),
           q.geom = p.geom, q.ring = p.ring, q.flights = p.flights, q.live = p.live,
           Cached(q) = Cached(p), Distinct(q.cache)
    PROVE  OwnInv(q) /\ (DrawInv(p) => DrawInv(q))
<1>1. Held(q) = Held(p)
  BY DEF Held
<1>2. OwnInv(q)
  BY <1>1 DEF OwnInv, Like, Distinct
<1>3. DrawInv(p) => DrawInv(q)
  BY DEF DrawInv, Like
<1> QED
  BY <1>2, <1>3

(* A new layout, given to the cache or to the geometry, is nobody else's.  *)
LEMMA AddingKeepsOrder ==
    ASSUME NEW p \in Panels, OwnInv(p), NEW u \in Nat, u \notin p.live,
           NEW q \in Panels, Like(p, q),
           q.ring = p.ring, q.flights = p.flights, q.live = p.live \cup {u},
           \/ Cached(q) = Cached(p) \cup {u} /\ OwnedBy(q.geom) = OwnedBy(p.geom)
           \/ Cached(q) = Cached(p) /\ OwnedBy(q.geom) = OwnedBy(p.geom) \cup {u},
           Distinct(q.cache)
    PROVE  OwnInv(q) /\ (DrawInv(p) => DrawInv(q))
<1>1. Held(q) = Held(p) \cup {u}
  BY DEF Held
<1>2. u \notin Held(p) /\ \A s \in Slots : u \notin p.ring[s]
  BY DEF OwnInv
<1>3. Cached(q) \cap OwnedBy(q.geom) = {}
  BY <1>2 DEF OwnInv, Held
<1>4. \A s \in Slots : q.ring[s] \cap Held(q) = {}
  BY <1>1, <1>2 DEF OwnInv
<1>5. \A x \in Nat : x \in q.live <=> x \in Held(q) \/ \E s \in Slots : x \in q.ring[s]
  BY <1>1 DEF OwnInv
<1>6. OwnInv(q)
  BY <1>3, <1>4, <1>5 DEF OwnInv, Like, Distinct
<1>7. DrawInv(p) => DrawInv(q)
  BY DEF DrawInv, Like
<1> QED
  BY <1>6, <1>7

(* A panel of which only the resources have changed, and in order.         *)
Follows(p, q) == Like(p, q) /\ q.geom = p.geom /\ OwnInv(q) /\ (DrawInv(p) => DrawInv(q))

(* An eviction parks the oldest entry's layout.                            *)
LEMMA EvictFollows ==
    ASSUME NEW p \in Panels, OwnInv(p), p.cache # <<>>
    PROVE  Evict(p) \in Panels /\ Follows(p, Evict(p))
<1> DEFINE x == Head(p.cache).id
           r == Retire(p, {x})
           q == Evict(p)
<1>1. p.cache \in Seq(Entries) /\ Distinct(p.cache)
  BY DEF Panels, OwnInv, Distinct
<1>2. /\ Tail(p.cache) \in Seq(Entries) /\ Distinct(Tail(p.cache))
      /\ {e.id : e \in ToSet(Tail(p.cache))} = Cached(p) \ {x}
      /\ x \in Cached(p) /\ x \in Nat
  BY <1>1, TailForgets DEF Cached
<1>3. {x} \in Ids /\ {x} \subseteq Held(p)
  BY <1>2, FS_Singleton DEF Ids, Held
<1>4. r \in Panels /\ Like(p, r) /\ r.geom = p.geom /\ r.cache = p.cache /\ Parks(p, r, {x})
  BY <1>3, RetireParks
<1>5. q = [r EXCEPT !.cache = Tail(p.cache)]
  BY <1>4 DEF Evict
<1> HIDE DEF q, r
<1>6. q \in Panels /\ q.cache = Tail(p.cache) /\ Like(r, q) /\ q.geom = r.geom
      /\ q.ring = r.ring /\ q.live = r.live /\ q.flights = r.flights
  BY <1>2, <1>4, <1>5 DEF Panels, Like
<1>7. Like(p, q) /\ Parks(p, q, {x})
  BY <1>4, <1>6 DEF Like, Parks
<1>8. Cached(q) = Cached(p) \ {x}
  BY <1>2, <1>6 DEF Cached
<1>9. x \notin OwnedBy(p.geom)
  BY <1>2 DEF OwnInv
<1>10. Held(q) = Held(p) \ {x} /\ OwnedBy(q.geom) = OwnedBy(p.geom)
  BY <1>4, <1>6, <1>8, <1>9 DEF Held
<1>11. \A i, j \in DOMAIN q.cache : q.cache[i].id = q.cache[j].id => i = j
  BY <1>2, <1>6 DEF Distinct
<1>12. OwnInv(q) /\ (DrawInv(p) => DrawInv(q))
  BY <1>3, <1>6, <1>7, <1>8, <1>10, <1>11, ParkingKeepsOrder
<1>13. q.geom = p.geom
  BY <1>4, <1>6
<1> QED
  BY <1>6, <1>7, <1>12, <1>13 DEF Follows, q

(* A fold of GetOrCreate stays where each of its steps does.               *)
LEMMA FoldStays ==
    ASSUME NEW B, NEW b \in B, NEW K, NEW keys \in Seq(K),
           \A P \in B, k \in K : GetOrCreate(P, k) \in B
    PROVE  FoldLeft(GetOrCreate, b, keys) \in B
<1> DEFINE n == Len(keys)
           g == [x \in B \X (1..n) |-> GetOrCreate(x[1], keys[x[2]])]
           eq(f) == f = [t \in SUBSET (1..n) |->
                           IF t = {} THEN b
                           ELSE GetOrCreate(f[t \ {Max(t)}], keys[Max(t)])]
<1>1. g \in [B \X (1..n) -> B]
  OBVIOUS
<1>2. n \in Nat /\ DOMAIN keys = 1..n
  OBVIOUS
<1>3. \A P \in B, i \in 1..n : g[<<P, i>>] = GetOrCreate(P, keys[i])
  OBVIOUS
<1> HIDE DEF g
<1>4. FoldLeft(GetOrCreate, b, keys) = (CHOOSE f : eq(f))[1..n]
  BY <1>2 DEF FoldLeft, MapThenFoldSet
<1>5. PICK h \in [SUBSET (1..n) -> B] : FoldEquation(h, B, b, g, n)
  BY <1>1, <1>2, FoldExists
<1>6. eq(h)
  <2>1. ASSUME NEW t \in SUBSET (1..n)
        PROVE  h[t] = IF t = {} THEN b ELSE GetOrCreate(h[t \ {Max(t)}], keys[Max(t)])
    <3>1. CASE t = {}
      BY <1>5, <3>1 DEF FoldEquation
    <3>2. CASE t # {}
      <4>1. Max(t) \in 1..n
        BY <1>2, <3>2, MaxIsMember
      <4>2. h[t \ {Max(t)}] \in B
        OBVIOUS
      <4>3. h[t] = g[<<h[t \ {Max(t)}], Max(t)>>]
        BY <1>5, <3>2, <4>2 DEF FoldEquation
      <4> QED
        BY <1>3, <3>2, <4>1, <4>2, <4>3
    <3> QED
      BY <3>1, <3>2
  <2> QED
    BY <2>1
<1> DEFINE f == CHOOSE e : eq(e)
<1>7. eq(f)
  <2> HIDE DEF eq
  <2> QED
    BY <1>6
<1> HIDE DEF f
<1>8. FoldEquation(f, B, b, g, n)
  <2>1. f[{}] = b
    BY <1>7
  <2>2. ASSUME NEW t \in SUBSET (1..n), t # {}, f[t \ {Max(t)}] \in B
        PROVE  f[t] = g[<<f[t \ {Max(t)}], Max(t)>>]
    <3>1. Max(t) \in 1..n
      BY <1>2, <2>2, MaxIsMember
    <3>2. f[t] = GetOrCreate(f[t \ {Max(t)}], keys[Max(t)])
      BY <1>7, <2>2
    <3> QED
      BY <1>3, <2>2, <3>1, <3>2
  <2> QED
    BY <2>1, <2>2 DEF FoldEquation
<1>9. f[1..n] \in B
  <2>1. \A k \in 0..n : f[1..k] \in B
    BY <1>1, <1>2, <1>8, FoldSteps
  <2> QED
    BY <1>2, <2>1
<1> QED
  BY <1>4, <1>9 DEF f

(* Following is transitive.                                                *)
LEMMA FollowsTwice ==
    ASSUME NEW p, NEW q, NEW r, Follows(p, q), Follows(q, r)
    PROVE  Follows(p, r)
  BY DEF Follows, Like

(* lru_get_or_create, hit or missed, keeps every layout owned once.        *)
LEMMA GetOrCreateFollows ==
    ASSUME NEW p \in Panels, OwnInv(p), NEW key \in Texts \X Styles
    PROVE  /\ GetOrCreate({p}, key) # {}
           /\ \A q \in GetOrCreate({p}, key) : q \in Panels /\ Follows(p, q)
<1> DEFINE hits == {i \in DOMAIN p.cache : p.cache[i].key = key}
           used(i) == [p EXCEPT !.cache = Append(RemoveAt(p.cache, i), p.cache[i])]
           loaded(q) == [q EXCEPT !.cache = Append(q.cache, [key |-> key, id |-> Unused(q)]),
                                  !.live = q.live \cup {Unused(q)}]
           room == IF Len(p.cache) = CacheSize THEN Evict(p) ELSE p
<1>1. GetOrCreate({p}, key) =
         IF hits # {} THEN {used(i) : i \in hits} ELSE {loaded(room)}
  BY DEF GetOrCreate
<1>2. ASSUME NEW i \in hits
      PROVE  used(i) \in Panels /\ Follows(p, used(i))
  <2> DEFINE q == used(i)
  <2>1. q \in Panels /\ Cached(q) = Cached(p) /\ Distinct(q.cache)
    BY UseKeepsCache DEF OwnInv, Distinct
  <2>2. Like(p, q) /\ q.geom = p.geom /\ q.ring = p.ring /\ q.flights = p.flights
        /\ q.live = p.live
    BY DEF Like, Panels
  <2> HIDE DEF q
  <2>3. OwnInv(q) /\ (DrawInv(p) => DrawInv(q))
    BY <2>1, <2>2, ReorderKeepsOrder
  <2>4. q \in Panels /\ Follows(p, q)
    BY <2>1, <2>2, <2>3 DEF Follows
  <2> QED
    BY <2>4 DEF q
<1>3. ASSUME NEW q \in Panels, OwnInv(q)
      PROVE  loaded(q) \in Panels /\ Follows(q, loaded(q))
  <2> DEFINE u == Unused(q)
             e == [key |-> key, id |-> u]
             r == loaded(q)
  <2>1. u \in Nat /\ u \notin q.live /\ q.cache \in Seq(Entries) /\ Distinct(q.cache)
    BY <1>3, UnusedIsFresh DEF Panels, OwnInv, Distinct
  <2>2. u \notin Cached(q)
    BY <1>3, <2>1 DEF OwnInv, Held
  <2>3. e \in Entries /\ e.id = u
    BY <2>1 DEF Entries
  <2>4. /\ Append(q.cache, e) \in Seq(Entries) /\ Distinct(Append(q.cache, e))
        /\ {x.id : x \in ToSet(Append(q.cache, e))} = Cached(q) \cup {u}
    BY <2>1, <2>2, <2>3, AppendAdds DEF Cached
  <2>5. {u} \in Ids /\ q.live \in Ids
    BY <2>1, FS_Singleton DEF Ids, Panels
  <2>6. q.live \cup {u} \in Ids
    BY <2>5, IdsClosed
  <2>7. r = [q EXCEPT !.cache = Append(q.cache, e), !.live = q.live \cup {u}]
    OBVIOUS
  <2> HIDE DEF r, e, u
  <2>8. r \in Panels /\ Like(q, r) /\ r.geom = q.geom /\ r.ring = q.ring
        /\ r.flights = q.flights /\ r.live = q.live \cup {u} /\ r.cache = Append(q.cache, e)
    BY <2>4, <2>6, <2>7 DEF Panels, Like
  <2>9. Cached(r) = Cached(q) \cup {u}
    BY <2>4, <2>8 DEF Cached
  <2>10. OwnInv(r) /\ (DrawInv(q) => DrawInv(r))
    BY <1>3, <2>1, <2>4, <2>8, <2>9, AddingKeepsOrder
  <2>11. r \in Panels /\ Follows(q, r)
    BY <2>8, <2>10 DEF Follows
  <2> QED
    BY <2>11 DEF r
<1>4. room \in Panels /\ Follows(p, room)
  <2>1. CASE Len(p.cache) = CacheSize
    <3>1. p.cache # <<>>
      BY <2>1, BoundsAssumption
    <3> QED
      BY <2>1, <3>1, EvictFollows
  <2>2. CASE Len(p.cache) # CacheSize
    BY <2>2 DEF Follows, Like
  <2> QED
    BY <2>1, <2>2
<1> HIDE DEF loaded, used, room
<1>5. loaded(room) \in Panels /\ Follows(p, loaded(room))
  <2>1. OwnInv(room)
    BY <1>4 DEF Follows
  <2>2. loaded(room) \in Panels /\ Follows(room, loaded(room))
    BY <1>3, <1>4, <2>1
  <2> QED
    BY <1>4, <2>2, FollowsTwice
<1> HIDE DEF hits
<1> QED
  BY <1>1, <1>2, <1>5

(* GetOrCreate works on each panel by itself.                              *)
LEMMA GetOrCreateIsPointwise ==
    ASSUME NEW P, NEW key
    PROVE  GetOrCreate(P, key) = UNION {GetOrCreate({p}, key) : p \in P}
  BY DEF GetOrCreate

(* Getting all the layouts of a list leaves panels, at least one, that     *)
(* follow the first.                                                       *)
LEMMA AllKeysFollow ==
    ASSUME NEW p \in Panels, OwnInv(p), NEW keys \in Seq(Texts \X Styles)
    PROVE  /\ FoldLeft(GetOrCreate, {p}, keys) # {}
           /\ \A q \in FoldLeft(GetOrCreate, {p}, keys) : q \in Panels /\ Follows(p, q)
<1> DEFINE S == {q \in Panels : Follows(p, q)}
           B == {P \in SUBSET S : P # {}}
<1>1. {p} \in B
  BY DEF Follows, Like
<1>2. ASSUME NEW P \in B, NEW k \in Texts \X Styles
      PROVE  GetOrCreate(P, k) \in B
  <2>1. ASSUME NEW q \in P
        PROVE  GetOrCreate({q}, k) # {} /\ GetOrCreate({q}, k) \subseteq S
    <3>1. q \in Panels /\ Follows(p, q)
      OBVIOUS
    <3>2. OwnInv(q)
      BY <3>1 DEF Follows
    <3>3. GetOrCreate({q}, k) # {}
          /\ \A r \in GetOrCreate({q}, k) : r \in Panels /\ Follows(q, r)
      BY <3>1, <3>2, GetOrCreateFollows
    <3>4. ASSUME NEW r \in GetOrCreate({q}, k)
          PROVE  r \in S
      BY <3>1, <3>3, FollowsTwice
    <3> QED
      BY <3>3, <3>4
  <2>2. P # {}
    OBVIOUS
  <2>3. GetOrCreate(P, k) = UNION {GetOrCreate({q}, k) : q \in P}
    BY GetOrCreateIsPointwise
  <2> HIDE DEF S
  <2>4. GetOrCreate(P, k) # {}
    <3>1. PICK q \in P : TRUE
      BY <2>2
    <3>2. PICK r \in GetOrCreate({q}, k) : TRUE
      BY <2>1
    <3> QED
      BY <2>3, <3>2
  <2>5. GetOrCreate(P, k) \subseteq S
    BY <2>1, <2>3
  <2> QED
    BY <2>4, <2>5
<1>3. FoldLeft(GetOrCreate, {p}, keys) \in B
  <2> HIDE DEF B
  <2> QED
    BY <1>1, <1>2, FoldStays
<1> QED
  BY <1>3

-----------------------------------------------------------------------------
(* Laying out.                                                             *)

(* A panel whose layouts are in order again, whatever its geometry.        *)
Orders(p, q) == Like(p, q) /\ OwnInv(q) /\ (DrawInv(p) => DrawInv(q))

(* A panel that was laid out for a list.                                   *)
LaidOut(p, q, list) ==
    /\ q \in Panels /\ Orders(p, q)
    /\ q.geom # None /\ q.geom.list = list

(* The geometry that is replaced parks what it owns; the new one has a     *)
(* layout of its own.                                                      *)
LEMMA ReplaceOrders ==
    ASSUME NEW p \in Panels, OwnInv(p), mode \in Modes, NEW list \in Seq(Texts),
           NEW aux \in Statuses \cup {None}, NEW rows \in Ids
    PROVE  /\ Replace(p, list, aux, rows) # {}
           /\ \A q \in Replace(p, list, aux, rows) :
                 LaidOut(p, q, list) /\ (rows \subseteq Cached(p) => RowsInv(q))
<1> DEFINE u == Unused(p)
           ids == OwnedBy(p.geom)
           g == [list |-> list, aux |-> aux, mode |-> mode, style |-> p.style,
                 rows |-> rows, own |-> {u}]
           r == Retire(p, ids)
           bare == [r EXCEPT !.geom = None]
           q == [r EXCEPT !.geom = g, !.live = r.live \cup {u}]
<1>1. Replace(p, list, aux, rows) = {q}
  BY DEF Replace
<1>2. ids \in Ids /\ ids \subseteq Held(p)
  BY HeldType DEF Held
<1>3. r \in Panels /\ Like(p, r) /\ r.geom = p.geom /\ r.cache = p.cache /\ Parks(p, r, ids)
  BY <1>2, RetireParks
<1>4. u \in Nat /\ u \notin p.live
  BY UnusedIsFresh
<1>5. {u} \in Ids /\ r.live \in Ids /\ r.live \cup {u} \in Ids
  <2>1. {u} \in Ids /\ r.live \in Ids
    BY <1>3, <1>4, FS_Singleton DEF Ids, Panels
  <2> QED
    BY <2>1, IdsClosed
<1>6. g \in Laid
  BY <1>5 DEF Laid, Panels
<1>7. g # None
  BY <1>6, LaidIsSome
<1> HIDE DEF r
<1>8. bare \in Panels /\ Like(p, bare) /\ Parks(p, bare, ids) /\ bare.geom = None
      /\ bare.cache = p.cache
  BY <1>3 DEF Panels, Like, Parks
<1>9. Cached(bare) = Cached(p) /\ OwnedBy(bare.geom) = {}
  BY <1>8 DEF Cached, OwnedBy
<1>10. Held(bare) = Held(p) \ ids
  BY <1>9 DEF Held, OwnInv
<1>11. \A i, j \in DOMAIN bare.cache : bare.cache[i].id = bare.cache[j].id => i = j
  BY <1>8 DEF OwnInv
<1>12. OwnInv(bare) /\ (DrawInv(p) => DrawInv(bare))
  BY <1>2, <1>8, <1>9, <1>10, <1>11, ParkingKeepsOrder
<1>13. bare.live = r.live /\ bare.ring = r.ring /\ bare.flights = r.flights
  BY <1>3 DEF Panels
<1>14. u \notin bare.live
  BY <1>4, <1>8 DEF Parks
<1> HIDE DEF g, u
<1>15. q \in Panels /\ Like(r, q) /\ q.geom = g /\ q.cache = r.cache /\ q.ring = r.ring
       /\ q.flights = r.flights /\ q.live = r.live \cup {u}
  BY <1>3, <1>5, <1>6 DEF Panels, Like
<1>16. Like(p, q) /\ Like(bare, q)
  BY <1>3, <1>8, <1>15 DEF Like
<1> HIDE DEF q, bare
<1>17. Cached(q) = Cached(bare)
  BY <1>3, <1>8, <1>15 DEF Cached
<1>18. OwnedBy(q.geom) = {u}
  BY <1>7, <1>15 DEF OwnedBy, g
<1>19. Distinct(q.cache)
  BY <1>3, <1>8, <1>11, <1>15 DEF Distinct
<1>20. OwnInv(q) /\ (DrawInv(bare) => DrawInv(q))
  BY <1>4, <1>8, <1>9, <1>12, <1>13, <1>14, <1>15, <1>16, <1>17, <1>18, <1>19,
     AddingKeepsOrder
<1>21. (rows \subseteq Cached(p) => RowsInv(q)) /\ q.geom # None /\ q.geom.list = list
  BY <1>7, <1>9, <1>15, <1>17 DEF RowsInv, g
<1>22. LaidOut(p, q, list)
  BY <1>12, <1>15, <1>16, <1>20, <1>21 DEF LaidOut, Orders
<1> QED
  BY <1>1, <1>21, <1>22

(* A geometry that is computed has its rows in the cache.                  *)
LEMMA ComputeOrders ==
    ASSUME NEW p \in Panels, OwnInv(p), mode \in Modes, NEW list \in Seq(Texts),
           NEW aux \in Statuses \cup {None}
    PROVE  /\ Compute(p, list, aux) # {}
           /\ \A q \in Compute(p, list, aux) : LaidOut(p, q, list) /\ RowsInv(q)
<1> DEFINE keys == [i \in DOMAIN list |-> <<list[i], p.style>>]
           rows(q) == {e.id : e \in {x \in ToSet(q.cache) : x.key \in ToSet(keys)}}
           F == FoldLeft(GetOrCreate, {p}, keys)
<1>1. keys \in Seq(Texts \X Styles)
  <2>1. DOMAIN list = 1 .. Len(list) /\ p.style \in Styles
    BY DEF Panels
  <2>2. \A i \in 1 .. Len(list) : list[i] \in Texts
    BY <2>1
  <2> QED
    BY <2>1, <2>2
<1>2. Compute(p, list, aux) = UNION {Replace(q, list, aux, rows(q)) : q \in F}
  BY DEF Compute
<1> HIDE DEF keys
<1>3. F # {} /\ \A q \in F : q \in Panels /\ Follows(p, q)
  BY <1>1, AllKeysFollow
<1>4. ASSUME NEW q \in F
      PROVE  /\ Replace(q, list, aux, rows(q)) # {}
             /\ \A r \in Replace(q, list, aux, rows(q)) : LaidOut(p, r, list) /\ RowsInv(r)
  <2>1. q \in Panels /\ OwnInv(q) /\ Follows(p, q)
    BY <1>3 DEF Follows
  <2>2. rows(q) \subseteq Cached(q)
    BY DEF Cached
  <2>3. Cached(q) \subseteq q.live
    BY <2>1, HeldType DEF OwnInv, Held
  <2>4. rows(q) \in Ids
    <3>1. q.live \in SUBSET Nat /\ IsFiniteSet(q.live) /\ rows(q) \in SUBSET q.live
      BY <2>1, <2>2, <2>3 DEF Panels, Ids
    <3> HIDE DEF rows
    <3>2. IsFiniteSet(rows(q))
      BY <3>1, FS_Subset
    <3> QED
      BY <3>1, <3>2 DEF Ids
  <2> HIDE DEF rows, F
  <2>5. /\ Replace(q, list, aux, rows(q)) # {}
        /\ \A r \in Replace(q, list, aux, rows(q)) : LaidOut(q, r, list) /\ RowsInv(r)
    BY <2>1, <2>2, <2>4, ReplaceOrders
  <2>6. ASSUME NEW r, LaidOut(q, r, list)
        PROVE  LaidOut(p, r, list)
    BY <2>1, <2>6 DEF LaidOut, Orders, Follows, Like
  <2> QED
    BY <2>5, <2>6
<1> HIDE DEF F, rows
<1>5. Compute(p, list, aux) # {}
  <2>1. PICK q \in F : TRUE
    BY <1>3
  <2>2. PICK r \in Replace(q, list, aux, rows(q)) : TRUE
    BY <1>4
  <2> QED
    BY <1>2, <2>2
<1>6. \A q \in Compute(p, list, aux) : LaidOut(p, q, list) /\ RowsInv(q)
  BY <1>2, <1>4
<1> QED
  BY <1>5, <1>6

(* Emptying the cache frees what it held, and marks the frames that may    *)
(* draw it.                                                                *)
LEMMA RestyleOrders ==
    ASSUME NEW p \in Panels, OwnInv(p)
    PROVE  /\ Restyle(p) \in Panels /\ Orders(p, Restyle(p))
           /\ Restyle(p).geom = p.geom
<1> DEFINE fl == [i \in DOMAIN p.flights |-> [p.flights[i] EXCEPT !.restyled = TRUE]]
           q == Restyle(p)
<1>1. q = [p EXCEPT !.live = p.live \ Cached(p), !.cache = <<>>, !.flights = fl]
  BY DEF Restyle, InvalidateCache, Free, Panels
<1>2. p.flights \in Seq(Frames) /\ DOMAIN p.flights = 1 .. Len(p.flights)
      /\ Len(p.flights) \in Nat
  BY DEF Panels
<1>3. \A i \in 1 .. Len(p.flights) : fl[i] \in Frames /\ fl[i].restyled
  <2> SUFFICES ASSUME NEW i \in 1 .. Len(p.flights)
               PROVE  fl[i] \in Frames /\ fl[i].restyled
    OBVIOUS
  <2>1. p.flights[i] \in Frames
    BY <1>2
  <2> QED
    BY <1>2, <2>1 DEF Frames
<1>4. fl \in Seq(Frames) /\ Len(fl) = Len(p.flights) /\ DOMAIN fl = 1 .. Len(p.flights)
  <2> DEFINE n == Len(p.flights)
  <2>1. fl = [i \in 1 .. n |-> fl[i]] /\ n \in Nat
    BY <1>2
  <2> HIDE DEF fl, n
  <2>2. fl \in [1 .. n -> Frames]
    BY <1>3, <2>1 DEF n
  <2> QED
    BY <2>1, <2>2 DEF n
<1>5. p.live \ Cached(p) \in Ids
  <2>1. p.live \in SUBSET Nat /\ IsFiniteSet(p.live)
    BY DEF Panels, Ids
  <2>2. IsFiniteSet(p.live \ Cached(p))
    BY <2>1, FS_Difference
  <2> QED
    BY <2>1, <2>2 DEF Ids
<1> HIDE DEF fl, q
<1>6. <<>> \in Seq(Entries)
  OBVIOUS
<1>7. q \in Panels /\ Like(p, q) /\ q.geom = p.geom /\ q.ring = p.ring /\ q.cache = <<>>
      /\ q.live = p.live \ Cached(p) /\ q.flights = fl
  BY <1>1, <1>4, <1>5, <1>6 DEF Panels, Like
<1>8. Cached(q) = {}
  BY <1>7 DEF Cached, ToSet
<1>9. Held(q) = Held(p) \ Cached(p)
  BY <1>7, <1>8 DEF Held, OwnInv
<1>10. \A x \in Nat : x \in q.live <=> x \in Held(q) \/ \E s \in Slots : x \in q.ring[s]
  <2>1. \A s \in Slots : p.ring[s] \cap Cached(p) = {}
    BY DEF OwnInv, Held
  <2> QED
    BY <1>7, <1>9, <2>1 DEF OwnInv
<1>11. \A s \in Slots : q.ring[s] \cap Held(q) = {}
  BY <1>7, <1>9 DEF OwnInv
<1>12. \A i, j \in DOMAIN q.cache : q.cache[i].id = q.cache[j].id => i = j
  BY <1>7
<1>13. ~q.ready => q.flights = <<>> /\ \A s \in Slots : q.ring[s] = {}
  BY <1>2, <1>4, <1>7 DEF OwnInv, Like
<1>14. OwnInv(q)
  BY <1>4, <1>7, <1>8, <1>10, <1>11, <1>12, <1>13 DEF OwnInv
<1>15. DrawInv(q)
  BY <1>3, <1>4, <1>7 DEF DrawInv
<1> QED
  BY <1>7, <1>14, <1>15 DEF Orders, q

-----------------------------------------------------------------------------
(* Presenting.                                                             *)

(* The next epoch.                                                         *)
LEMMA NextEpoch ==
    \A e \in Slots : /\ (e + 1) % Depth \in Slots
                     /\ (e + 1) % Depth = IF e + 1 = Depth THEN 0 ELSE e + 1
<1> SUFFICES ASSUME NEW e \in Slots
             PROVE  (e + 1) % Depth = IF e + 1 = Depth THEN 0 ELSE e + 1
  BY BoundsAssumption DEF Slots
<1>1. Depth \in Nat \ {0}
  BY BoundsAssumption
<1>2. CASE e + 1 = Depth
  BY <1>1, <1>2 DEF Slots
<1>3. CASE e + 1 # Depth
  BY <1>1, <1>3 DEF Slots
<1> QED
  BY <1>2, <1>3

(* A present makes every slot one present older, but for the one that      *)
(* becomes the current; that one was the oldest.                           *)
LEMMA AgesGrow ==
    ASSUME NEW e \in Slots, NEW s \in Slots
    PROVE  LET f == (e + 1) % Depth
           IN  /\ s # f => Age(f, s) = Age(e, s) + 1
               /\ Age(e, f) = Depth - 1
<1> DEFINE f == (e + 1) % Depth
<1>1. Depth \in Nat \ {0} /\ e \in 0 .. Depth - 1 /\ s \in 0 .. Depth - 1
  BY BoundsAssumption DEF Slots
<1>2. f = IF e + 1 = Depth THEN 0 ELSE e + 1
  BY NextEpoch
<1> HIDE DEF f
<1>3. CASE e + 1 = Depth
  BY <1>1, <1>2, <1>3 DEF Age
<1>4. CASE e + 1 # Depth
  BY <1>1, <1>2, <1>4 DEF Age
<1> QED
  BY <1>3, <1>4 DEF f


(* Frames b are those of fl, the oldest perhaps gone, with room for one.   *)
Room(fl, b) ==
    /\ b \in Seq(Frames) /\ Len(b) + 1 <= FramesInFlight
    /\ \A j \in 1 .. Len(b) : \E i \in 1 .. Len(fl) : b[j] = fl[i] /\ Len(fl) - i = Len(b) - j

(* Frames c are those of fl, one frame further back, and the new one.      *)
Begun(fl, c, frame) ==
    /\ c \in Seq(Frames) /\ Len(c) \in Nat \ {0} /\ Len(c) <= FramesInFlight
    /\ c[Len(c)] = frame
    /\ \A j \in 1 .. Len(c) : j # Len(c) =>
          \E i \in 1 .. Len(fl) : c[j] = fl[i] /\ Len(fl) - i + 1 = Len(c) - j

(* begin_frame waits for the frame whose place it takes.                   *)
LEMMA RoomIsMade ==
    ASSUME NEW fl \in Seq(Frames), Len(fl) <= FramesInFlight
    PROVE  Room(fl, IF Len(fl) = FramesInFlight THEN Tail(fl) ELSE fl)
<1>1. FramesInFlight \in Nat \ {0} /\ Len(fl) \in Nat
  BY BoundsAssumption
<1>2. CASE Len(fl) = FramesInFlight
  <2> DEFINE t == Tail(fl)
  <2>1. t \in Seq(Frames) /\ Len(t) = Len(fl) - 1 /\ \A j \in 1 .. Len(t) : t[j] = fl[j+1]
    BY <1>1, <1>2
  <2> HIDE DEF t
  <2>2. ASSUME NEW j \in 1 .. Len(t)
        PROVE  \E i \in 1 .. Len(fl) : t[j] = fl[i] /\ Len(fl) - i = Len(t) - j
    <3>1. j + 1 \in 1 .. Len(fl) /\ Len(fl) - (j + 1) = Len(t) - j
      BY <1>1, <2>1
    <3> QED
      BY <2>1, <3>1
  <2>3. Len(t) + 1 <= FramesInFlight
    BY <1>1, <1>2, <2>1
  <2>4. Room(fl, t)
    BY <2>1, <2>2, <2>3 DEF Room
  <2> QED
    BY <1>2, <2>4 DEF t
<1>3. CASE Len(fl) # FramesInFlight
  <2>1. Room(fl, fl)
    BY <1>1, <1>3 DEF Room
  <2> QED
    BY <1>3, <2>1
<1> QED
  BY <1>2, <1>3

(* The new frame comes last.                                               *)
LEMMA FrameIsLast ==
    ASSUME NEW fl \in Seq(Frames), NEW b, Room(fl, b), NEW frame \in Frames
    PROVE  Begun(fl, Append(b, frame), frame)
<1> DEFINE c == Append(b, frame)
<1>1. FramesInFlight \in Nat /\ Len(fl) \in Nat
  BY BoundsAssumption
<1>2. /\ b \in Seq(Frames) /\ Len(b) + 1 <= FramesInFlight
      /\ \A j \in 1 .. Len(b) : \E i \in 1 .. Len(fl) : b[j] = fl[i] /\ Len(fl) - i = Len(b) - j
  BY DEF Room
<1>3. /\ c \in Seq(Frames) /\ Len(c) = Len(b) + 1 /\ Len(b) \in Nat /\ c[Len(b) + 1] = frame
      /\ \A j \in 1 .. Len(b) : c[j] = b[j]
  BY <1>2
<1> HIDE DEF c
<1>4. ASSUME NEW j \in 1 .. Len(c), j # Len(c)
      PROVE  \E i \in 1 .. Len(fl) : c[j] = fl[i] /\ Len(fl) - i + 1 = Len(c) - j
  <2>1. j \in 1 .. Len(b)
    BY <1>3, <1>4
  <2>2. PICK i \in 1 .. Len(fl) : b[j] = fl[i] /\ Len(fl) - i = Len(b) - j
    BY <1>2, <2>1
  <2>3. c[j] = fl[i]
    BY <1>3, <2>1, <2>2
  <2>4. Len(fl) - i + 1 = Len(c) - j
    <3>1. ASSUME NEW x \in Nat, NEW y \in Nat, x - i = y - j
          PROVE  x - i + 1 = (y + 1) - j
      BY <3>1
    <3> QED
      BY <1>1, <1>3, <2>2, <3>1
  <2> QED
    BY <2>3, <2>4
<1>5. Len(c) \in Nat \ {0} /\ Len(c) <= FramesInFlight /\ c[Len(c)] = frame
  BY <1>1, <1>2, <1>3
<1>6. Begun(fl, c, frame)
  BY <1>3, <1>4, <1>5 DEF Begun
<1> QED
  BY <1>6 DEF c

(* What presenting does to a panel, whether a frame came out of it or not. *)
Presented(p, q) ==
    /\ q \in Panels /\ q.style = p.style /\ q.geom = p.geom /\ q.cache = p.cache
    /\ q.status = p.status
    /\ OwnInv(q) /\ (DrawInv(p) /\ RowsInv(p) => DrawInv(q))
    /\ \/ q.visible = p.visible /\ q.screen = p.screen
       \/ q.visible /\ q.screen = p.geom.list

(* A present that draws nothing may still have waited for the GPU.         *)
LEMMA SkippedIsPresented ==
    ASSUME NEW p \in Panels, OwnInv(p), NEW q \in Panels,
           q.style = p.style, q.geom = p.geom, q.cache = p.cache, q.status = p.status,
           q.visible = p.visible, q.screen = p.screen, q.ring = p.ring, q.live = p.live,
           q.epoch = p.epoch, q.ready \/ q.ready = p.ready,
           q.flights = p.flights \/ q.flights = <<>>
    PROVE  Presented(p, q)
<1>1. Held(q) = Held(p) /\ Cached(q) = Cached(p)
  BY DEF Held, Cached
<1>2. Len(q.flights) <= FramesInFlight /\ (~q.ready => q.flights = <<>>)
  BY BoundsAssumption DEF OwnInv
<1>3. OwnInv(q)
  BY <1>1, <1>2 DEF OwnInv
<1>4. DrawInv(p) => DrawInv(q)
  BY DEF DrawInv
<1> QED
  BY <1>3, <1>4 DEF Presented

(* The new frame uses what the current geometry does, which nobody parked. *)
LEMMA NewFrame ==
    ASSUME NEW p \in Panels, OwnInv(p), p.geom # None, RowsInv(p)
    PROVE  /\ Uses(p.geom) \subseteq p.live
           /\ \A s \in Slots : Uses(p.geom) \cap p.ring[s] = {}
<1>1. Uses(p.geom) \subseteq Held(p)
  BY DEF Uses, RowsInv, Held, OwnedBy
<1>2. Held(p) \subseteq Nat
  BY HeldType DEF Held, Ids
<1> QED
  BY <1>1, <1>2 DEF OwnInv

(* A frame that was submitted but not shown is in flight all the same.     *)
LEMMA FailedIsPresented ==
    ASSUME NEW p \in Panels, OwnInv(p), p.geom # None, NEW frame \in Frames,
           frame.uses = Uses(p.geom), NEW c, Begun(p.flights, c, frame),
           NEW q \in Panels,
           q.style = p.style, q.geom = p.geom, q.cache = p.cache, q.status = p.status,
           q.visible = p.visible, q.screen = p.screen, q.ring = p.ring, q.live = p.live,
           q.epoch = p.epoch, q.ready, q.flights = c
    PROVE  Presented(p, q)
<1> DEFINE n == Len(c)
<1>1. p.flights \in Seq(Frames) /\ Len(p.flights) <= FramesInFlight
      /\ DOMAIN p.flights = 1 .. Len(p.flights) /\ Len(p.flights) \in Nat
  BY DEF Panels, OwnInv
<1>2. /\ c \in Seq(Frames) /\ n \in Nat \ {0} /\ n <= FramesInFlight /\ c[n] = frame
      /\ \A j \in 1 .. n : j # n =>
            \E i \in 1 .. Len(p.flights) :
               c[j] = p.flights[i] /\ Len(p.flights) - i + 1 = n - j
  BY DEF Begun
<1>3. DOMAIN c = 1 .. n
  BY <1>2
<1>4. Held(q) = Held(p) /\ Cached(q) = Cached(p)
  BY DEF Held, Cached
<1> HIDE DEF n
<1>5. OwnInv(q)
  BY <1>2, <1>4 DEF OwnInv, n
<1>6. ASSUME DrawInv(p), RowsInv(p), NEW j \in 1 .. n, ~c[j].restyled
      PROVE  /\ c[j].uses \subseteq q.live
             /\ \A s \in Slots : c[j].uses \cap q.ring[s] # {} => Age(q.epoch, s) <= n - j
  <2>1. CASE j = n
    BY <1>2, <1>6, <2>1, NewFrame
  <2>2. CASE j # n
    <3>1. PICK i \in 1 .. Len(p.flights) :
             c[j] = p.flights[i] /\ Len(p.flights) - i + 1 = n - j
      BY <1>2, <2>2
    <3>2. /\ c[j].uses \subseteq p.live
          /\ \A s \in Slots : c[j].uses \cap p.ring[s] # {} =>
                Age(p.epoch, s) <= Len(p.flights) - i
      BY <1>1, <1>6, <3>1 DEF DrawInv
    <3>3. \A s \in Slots : Age(p.epoch, s) \in Nat
      BY AgeOfEpoch DEF Panels
    <3>4. ASSUME NEW s \in Slots, c[j].uses \cap q.ring[s] # {}
          PROVE  Age(q.epoch, s) <= n - j
      <4>1. Age(p.epoch, s) <= Len(p.flights) - i
        BY <3>2, <3>4
      <4> QED
        BY <1>1, <1>2, <3>1, <3>3, <4>1
    <3> QED
      BY <3>2, <3>4
  <2> QED
    BY <2>1, <2>2
<1>7. DrawInv(p) /\ RowsInv(p) => DrawInv(q)
  BY <1>3, <1>6 DEF DrawInv, n
<1> QED
  BY <1>5, <1>7 DEF Presented

(* A frame that was shown moves the ring on, and what is freed then no     *)
(* frame in flight uses.                                                   *)
LEMMA ShownIsPresented ==
    ASSUME NEW p \in Panels, OwnInv(p), p.geom # None, NEW frame \in Frames,
           frame.uses = Uses(p.geom), NEW c, Begun(p.flights, c, frame),
           NEW q \in Panels,
           q.style = p.style, q.geom = p.geom, q.cache = p.cache, q.status = p.status,
           q.visible, q.screen = p.geom.list, q.ready, q.flights = c,
           q.epoch = (p.epoch + 1) % Depth, q.live = p.live \ p.ring[q.epoch],
           q.ring = [p.ring EXCEPT ![q.epoch] = {}]
    PROVE  Presented(p, q)
<1> DEFINE n == Len(c)
           e == q.epoch
<1>1. p.flights \in Seq(Frames) /\ Len(p.flights) <= FramesInFlight
      /\ DOMAIN p.flights = 1 .. Len(p.flights) /\ Len(p.flights) \in Nat
  BY DEF Panels, OwnInv
<1>2. /\ c \in Seq(Frames) /\ n \in Nat \ {0} /\ n <= FramesInFlight /\ c[n] = frame
      /\ \A j \in 1 .. n : j # n =>
            \E i \in 1 .. Len(p.flights) :
               c[j] = p.flights[i] /\ Len(p.flights) - i + 1 = n - j
  BY DEF Begun
<1>3. DOMAIN c = 1 .. n
  BY <1>2
<1>4. Held(q) = Held(p) /\ Cached(q) = Cached(p)
  BY DEF Held, Cached
<1>5. e \in Slots /\ p.epoch \in Slots /\ p.ring \in [Slots -> Ids]
  BY DEF Panels
<1>6. \A s \in Slots : q.ring[s] = IF s = e THEN {} ELSE p.ring[s]
  BY <1>5
<1> HIDE DEF n
<1>7. ASSUME NEW x \in Nat
      PROVE  x \in q.live <=> x \in Held(q) \/ \E s \in Slots : x \in q.ring[s]
  <2>1. x \in p.live <=> x \in Held(p) \/ \E s \in Slots : x \in p.ring[s]
    BY DEF OwnInv
  <2>2. x \in Held(p) => x \notin p.ring[e]
    BY <1>5 DEF OwnInv
  <2>3. \A s \in Slots : s # e /\ x \in p.ring[s] => x \notin p.ring[e]
    BY <1>5 DEF OwnInv
  <2>4. x \in q.live <=> x \in p.live /\ x \notin p.ring[e]
    OBVIOUS
  <2>5. (\E s \in Slots : x \in q.ring[s]) <=> \E s \in Slots : s # e /\ x \in p.ring[s]
    BY <1>6
  <2> QED
    BY <1>4, <2>1, <2>2, <2>3, <2>4, <2>5
<1>8. \A s \in Slots : q.ring[s] \cap Held(q) = {}
  BY <1>4, <1>6 DEF OwnInv
<1>9. \A s, t \in Slots : s # t => q.ring[s] \cap q.ring[t] = {}
  BY <1>6 DEF OwnInv
<1>10. OwnInv(q)
  BY <1>2, <1>4, <1>7, <1>8, <1>9 DEF OwnInv, n
<1>11. ASSUME DrawInv(p), RowsInv(p), NEW j \in 1 .. n, ~c[j].restyled
       PROVE  /\ c[j].uses \subseteq q.live
              /\ \A s \in Slots : c[j].uses \cap q.ring[s] # {} => Age(e, s) <= n - j
  <2>1. CASE j = n
    BY <1>2, <1>5, <1>6, <1>11, <2>1, NewFrame
  <2>2. CASE j # n
    <3>1. PICK i \in 1 .. Len(p.flights) :
             c[j] = p.flights[i] /\ Len(p.flights) - i + 1 = n - j
      BY <1>2, <2>2
    <3>2. /\ c[j].uses \subseteq p.live
          /\ \A s \in Slots : c[j].uses \cap p.ring[s] # {} =>
                Age(p.epoch, s) <= Len(p.flights) - i
      BY <1>1, <1>11, <3>1 DEF DrawInv
    <3>3. Age(p.epoch, e) = Depth - 1 /\ \A s \in Slots : s # e => Age(e, s) = Age(p.epoch, s) + 1
      BY <1>5, AgesGrow
    <3>4. \A s \in Slots : Age(p.epoch, s) \in Nat
      BY <1>5, AgeOfEpoch
    <3>5. c[j].uses \cap p.ring[e] = {}
      <4>1. ~(Depth - 1 <= Len(p.flights) - i)
        BY <1>1, <1>2, <2>2, <3>1, BoundsAssumption
      <4> QED
        BY <1>5, <3>2, <3>3, <4>1
    <3>6. c[j].uses \subseteq q.live
      BY <3>2, <3>5
    <3>7. ASSUME NEW s \in Slots, c[j].uses \cap q.ring[s] # {}
          PROVE  Age(e, s) <= n - j
      <4>1. s # e /\ c[j].uses \cap p.ring[s] # {}
        BY <1>6, <3>7
      <4>2. Age(p.epoch, s) <= Len(p.flights) - i /\ Age(e, s) = Age(p.epoch, s) + 1
        BY <3>2, <3>3, <4>1
      <4> QED
        BY <1>1, <1>2, <3>1, <3>4, <4>2
    <3> QED
      BY <3>6, <3>7
  <2> QED
    BY <2>1, <2>2
<1>12. DrawInv(p) /\ RowsInv(p) => DrawInv(q)
  BY <1>3, <1>11 DEF DrawInv, n
<1> QED
  BY <1>10, <1>12 DEF Presented

(* popup_present, whatever its result.                                     *)
LEMMA PresentIsPresented ==
    ASSUME NEW p \in Panels, OwnInv(p), p.geom # None, NEW selected \in Int,
           NEW q \in Present(p, selected)
    PROVE  Presented(p, q)
<1> DEFINE frame == [uses |-> Uses(p.geom), restyled |-> FALSE]
           b == IF Len(p.flights) = FramesInFlight THEN Tail(p.flights) ELSE p.flights
           c == Append(b, frame)
           e == (p.epoch + 1) % Depth
           list == p.geom.list
           fl == <<>>
           none == p.streak + 1
<1>1. p.flights \in Seq(Frames) /\ Len(p.flights) <= FramesInFlight /\ p.geom \in Laid
      /\ p.epoch \in Slots /\ p.ring \in [Slots -> Ids] /\ p.live \in Ids /\ p.streak \in Nat
  BY DEF Panels, OwnInv
<1>2. frame \in Frames /\ frame.uses = Uses(p.geom)
  BY HeldType DEF Frames
<1> HIDE DEF frame
<1>3. Room(p.flights, b)
  BY <1>1, RoomIsMade
<1> HIDE DEF b
<1>4. Begun(p.flights, c, frame)
  BY <1>1, <1>2, <1>3, FrameIsLast
<1>5. c \in Seq(Frames)
  BY <1>4 DEF Begun
<1> HIDE DEF c
<1>6. e \in Slots
  BY <1>1, NextEpoch
<1>7. list \in Seq(Texts)
  BY <1>1 DEF Laid
<1> DEFINE ready == [p EXCEPT !.ready = TRUE]
           m == [ready EXCEPT !.flights = c, !.streak = 0, !.selected = selected,
                              !.visible = TRUE, !.screen = list]
           ok == Advance(m)
           timeout == IF p.streak + 1 >= RecoverStreak
                      THEN [WaitIdle(ready) EXCEPT !.streak = 0, !.retry = TRUE]
                      ELSE [ready EXCEPT !.streak = p.streak + 1, !.retry = TRUE]
           lost == [WaitIdle(ready) EXCEPT !.streak = 0, !.retry = TRUE]
           failed == [ready EXCEPT !.flights = c, !.streak = 0]
<1>8. ready \in Panels /\ ready.streak = p.streak
  BY DEF Panels
<1>9. q = ok \/ q = timeout \/ q = lost \/ q = ready \/ q = failed \/ q = p
  BY <1>8 DEF Present, c, b, frame
<1>10. CASE q = ok
  <2>1. q = [p EXCEPT !.ready = TRUE, !.flights = c, !.streak = 0, !.selected = selected,
                      !.visible = TRUE, !.screen = list, !.epoch = e,
                      !.live = p.live \ p.ring[e], !.ring = [p.ring EXCEPT ![e] = {}]]
    BY <1>10 DEF Advance, Drain, Free, Panels
  <2>2. p.live \ p.ring[e] \in Ids /\ {} \in Ids
    <3>1. p.ring[e] \in Ids
      BY <1>1, <1>6
    <3> QED
      BY <1>1, <3>1, IdsClosed
  <2>3. [p.ring EXCEPT ![e] = {}] \in [Slots -> Ids]
    BY <1>1, <2>2
  <2> HIDE DEF e, list
  <2>4. q \in Panels
    BY <1>5, <1>6, <1>7, <2>1, <2>2, <2>3 DEF Panels
  <2>5. /\ q.style = p.style /\ q.geom = p.geom /\ q.cache = p.cache /\ q.status = p.status
        /\ q.visible /\ q.screen = list /\ q.ready /\ q.flights = c /\ q.epoch = e
        /\ q.live = p.live \ p.ring[e] /\ q.ring = [p.ring EXCEPT ![e] = {}]
    BY <2>1 DEF Panels
  <2> QED
    BY <1>2, <1>4, <2>4, <2>5, ShownIsPresented DEF e, list
<1>11. CASE q = failed
  <2>1. q = [p EXCEPT !.ready = TRUE, !.flights = c, !.streak = 0]
    BY <1>11
  <2>2. q \in Panels
    BY <1>5, <2>1 DEF Panels
  <2>3. /\ q.style = p.style /\ q.geom = p.geom /\ q.cache = p.cache /\ q.status = p.status
        /\ q.visible = p.visible /\ q.screen = p.screen /\ q.ring = p.ring
        /\ q.live = p.live /\ q.epoch = p.epoch /\ q.ready /\ q.flights = c
    BY <2>1 DEF Panels
  <2> QED
    BY <1>2, <1>4, <2>2, <2>3, FailedIsPresented
<1>12. CASE q = timeout \/ q = lost \/ q = ready \/ q = p
  <2>1. <<>> \in Seq(Frames) /\ p.streak + 1 \in Nat
    BY <1>1
  <2>2. \/ q = [p EXCEPT !.ready = TRUE, !.flights = <<>>, !.streak = 0, !.retry = TRUE]
        \/ q = [p EXCEPT !.ready = TRUE, !.streak = p.streak + 1, !.retry = TRUE]
        \/ q = [p EXCEPT !.ready = TRUE]
        \/ q = p
    BY <1>12 DEF WaitIdle, Panels
  <2>3. q \in Panels
    <3>1. CASE q = [p EXCEPT !.ready = TRUE, !.flights = <<>>, !.streak = 0, !.retry = TRUE]
      BY <2>1, <3>1 DEF Panels
    <3>2. CASE q = [p EXCEPT !.ready = TRUE, !.streak = p.streak + 1, !.retry = TRUE]
      BY <2>1, <3>2 DEF Panels
    <3>3. CASE q = [p EXCEPT !.ready = TRUE]
      BY <3>3 DEF Panels
    <3> QED
      BY <2>2, <3>1, <3>2, <3>3
  <2>4. /\ q.style = p.style /\ q.geom = p.geom /\ q.cache = p.cache /\ q.status = p.status
        /\ q.visible = p.visible /\ q.screen = p.screen /\ q.ring = p.ring
        /\ q.live = p.live /\ q.epoch = p.epoch
        /\ (q.ready \/ q.ready = p.ready) /\ (q.flights = p.flights \/ q.flights = <<>>)
    BY <2>2 DEF Panels
  <2> QED
    BY <2>3, <2>4, SkippedIsPresented
<1> QED
  BY <1>9, <1>10, <1>11, <1>12

(* A change of what has nothing to do with layouts.                        *)
LEMMA Unmoved ==
    ASSUME NEW p, NEW q, q.geom = p.geom, q.cache = p.cache, q.ring = p.ring,
           q.live = p.live, q.flights = p.flights, q.epoch = p.epoch, q.ready = p.ready
    PROVE  /\ OwnInv(p) => OwnInv(q)
           /\ DrawInv(p) => DrawInv(q)
           /\ RowsInv(p) => RowsInv(q)
<1>1. Cached(q) = Cached(p) /\ Held(q) = Held(p)
  BY DEF Cached, Held
<1> QED
  BY <1>1 DEF OwnInv, DrawInv, RowsInv

(* What popup_render lays out, if anything: nothing is only for a list     *)
(* that is too long.                                                       *)
LEMMA RelaidIsLaidOut ==
    ASSUME NEW p \in Panels, OwnInv(p), mode \in Modes, NEW list \in Seq(Texts),
           NEW aux \in Statuses \cup {None}
    PROVE  LET R == Relaid(p, Delta(p, list, aux), list, aux)
           IN  /\ R = {} => Len(list) > MaxRows
               /\ \A q \in R : LaidOut(p, q, list) /\ (RowsInv(p) => RowsInv(q))
<1> DEFINE delta == Delta(p, list, aux)
           computed(q) == IF Len(list) > MaxRows THEN {} ELSE Compute(q, list, aux)
           R == Relaid(p, delta, list, aux)
<1>1. \/ delta = "content"
      \/ delta = "style"
      \/ delta = "aux" /\ p.geom # None /\ p.geom.list = list
      \/ delta = "selection" /\ p.geom # None /\ p.geom.list = list
  BY DEF Delta
<1>2. ASSUME NEW q \in Panels, Orders(p, q), NEW r \in computed(q)
      PROVE  LaidOut(p, r, list) /\ RowsInv(r)
  <2>1. OwnInv(q)
    BY <1>2 DEF Orders
  <2>2. r \in Compute(q, list, aux)
    BY <1>2
  <2>3. LaidOut(q, r, list) /\ RowsInv(r)
    BY <2>1, <2>2, ComputeOrders
  <2>4. LaidOut(p, r, list)
    BY <1>2, <2>3 DEF LaidOut, Orders, Like
  <2> QED
    BY <2>3, <2>4
<1>3. ASSUME NEW q \in Panels, OwnInv(q), computed(q) = {}
      PROVE  Len(list) > MaxRows
  BY <1>3, ComputeOrders
<1>4. Orders(p, p)
  BY DEF Orders, Like
<1> HIDE DEF delta
<1>5. CASE delta = "content"
  <2>1. R = computed(p)
    BY <1>5 DEF Relaid
  <2> HIDE DEF computed, R
  <2>2. R = {} => Len(list) > MaxRows
    BY <1>3, <2>1
  <2>3. \A q \in R : LaidOut(p, q, list) /\ RowsInv(q)
    BY <1>2, <1>4, <2>1
  <2> QED
    BY <2>2, <2>3 DEF R, delta
<1>6. CASE delta = "style"
  <2>1. R = computed(Restyle(p))
    BY <1>6 DEF Relaid
  <2>2. Restyle(p) \in Panels /\ Orders(p, Restyle(p)) /\ OwnInv(Restyle(p))
    BY RestyleOrders DEF Orders
  <2> HIDE DEF computed, R
  <2>3. R = {} => Len(list) > MaxRows
    BY <1>3, <2>1, <2>2
  <2>4. \A q \in R : LaidOut(p, q, list) /\ RowsInv(q)
    BY <1>2, <2>1, <2>2
  <2> QED
    BY <2>3, <2>4 DEF R, delta
<1>7. CASE delta = "aux" /\ p.geom # None /\ p.geom.list = list
  <2>1. R = Replace(p, list, aux, p.geom.rows) \cup computed(p)
    BY <1>7 DEF Relaid
  <2>2. p.geom.rows \in Ids
    BY <1>7 DEF Panels, Laid
  <2>3. /\ Replace(p, list, aux, p.geom.rows) # {}
        /\ \A q \in Replace(p, list, aux, p.geom.rows) :
              LaidOut(p, q, list) /\ (p.geom.rows \subseteq Cached(p) => RowsInv(q))
    BY <2>2, ReplaceOrders
  <2> HIDE DEF computed, R
  <2>4. R # {}
    BY <2>1, <2>3
  <2>5. \A q \in R : LaidOut(p, q, list) /\ (RowsInv(p) => RowsInv(q))
    BY <1>2, <1>4, <1>7, <2>1, <2>3 DEF RowsInv
  <2> QED
    BY <2>4, <2>5 DEF R, delta
<1>8. CASE delta = "selection" /\ p.geom # None /\ p.geom.list = list
  <2>1. R = {p}
    BY <1>8 DEF Relaid
  <2>2. LaidOut(p, p, list)
    BY <1>4, <1>8 DEF LaidOut
  <2> HIDE DEF R
  <2> QED
    BY <2>1, <2>2 DEF R, delta
<1> QED
  BY <1>1, <1>5, <1>6, <1>7, <1>8

-----------------------------------------------------------------------------
(* Updating.                                                               *)

(* A panel that is not visible is not on the screen.                       *)
SurfaceInv(p) == ~p.visible => p.screen = None

(* What an update for a list does to a panel; for a list that fits, its    *)
(* frames keep their layouts.                                              *)
Updated(p, list, r) ==
    /\ r \in Panels /\ r.style = p.style /\ r.status = p.status
    /\ OwnInv(r)
    /\ Len(list) <= MaxRows /\ DrawInv(p) /\ RowsInv(p) => DrawInv(r) /\ RowsInv(r)
    /\ SurfaceInv(p) => SurfaceInv(r) /\ r.screen \in {p.screen, list, None}

(* popup_render.                                                           *)
LEMMA RenderUpdates ==
    ASSUME NEW p \in Panels, OwnInv(p), mode \in Modes, NEW list \in Seq(Texts),
           NEW selected \in Int, NEW aux \in Statuses \cup {None},
           NEW r \in Render(p, list, selected, aux)
    PROVE  Updated(p, list, r)
<1> DEFINE q == [p EXCEPT !.retry = FALSE]
           delta == Delta(p, list, aux)
           laid == Relaid(q, delta, list, aux)
<1>1. q \in Panels
  BY DEF Panels
<1>2. /\ q.geom = p.geom /\ q.cache = p.cache /\ q.ring = p.ring /\ q.live = p.live
      /\ q.flights = p.flights /\ q.epoch = p.epoch /\ q.ready = p.ready
      /\ q.style = p.style /\ q.status = p.status /\ q.visible = p.visible
      /\ q.screen = p.screen
  BY DEF Panels
<1>3. Render(p, list, selected, aux) =
         IF delta = "selection" /\ selected = p.selected /\ p.visible THEN {q}
         ELSE IF laid = {} THEN {IF delta = "style" THEN Restyle(q) ELSE q}
         ELSE UNION {Present(m, selected) : m \in laid}
  BY DEF Render
<1> HIDE DEF q
<1>9. OwnInv(q) /\ (DrawInv(p) => DrawInv(q)) /\ (RowsInv(p) => RowsInv(q))
  BY <1>2, Unmoved
<1>4. /\ laid = {} => Len(list) > MaxRows
      /\ \A m \in laid : LaidOut(q, m, list) /\ (RowsInv(q) => RowsInv(m))
  <2>1. delta = Delta(q, list, aux)
    BY <1>2 DEF Delta
  <2> HIDE DEF delta
  <2> QED
    BY <1>1, <1>9, <2>1, RelaidIsLaidOut
<1>5. \/ r = q
      \/ laid = {} /\ r = Restyle(q)
      \/ \E m \in laid : r \in Present(m, selected)
  <2> HIDE DEF laid, delta
  <2> QED
    BY <1>3
<1> HIDE DEF laid, delta
<1>6. CASE r = q
  BY <1>1, <1>2, <1>9, <1>6 DEF Updated, SurfaceInv
<1>7. CASE laid = {} /\ r = Restyle(q)
  <2>1. r \in Panels /\ Orders(q, r)
    BY <1>1, <1>9, <1>7, RestyleOrders
  <2>2. ~(Len(list) <= MaxRows)
    BY <1>4, <1>7, BoundsAssumption
  <2> QED
    BY <1>2, <2>1, <2>2 DEF Updated, Orders, Like, SurfaceInv
<1>8. CASE \E m \in laid : r \in Present(m, selected)
  <2>1. PICK m \in laid : r \in Present(m, selected)
    BY <1>8
  <2>2. LaidOut(q, m, list) /\ (RowsInv(q) => RowsInv(m))
    BY <1>4
  <2>3. m \in Panels /\ OwnInv(m) /\ m.geom # None /\ m.geom.list = list
        /\ (DrawInv(q) => DrawInv(m)) /\ Like(q, m)
    BY <2>2 DEF LaidOut, Orders
  <2>4. Presented(m, r)
    BY <2>1, <2>3, PresentIsPresented
  <2>5. r \in Panels /\ r.style = p.style /\ r.status = p.status /\ OwnInv(r)
    BY <1>2, <2>3, <2>4 DEF Presented, Like
  <2>6. RowsInv(m) => RowsInv(r)
    BY <2>4 DEF Presented, RowsInv, Cached
  <2>7. DrawInv(p) /\ RowsInv(p) => DrawInv(r) /\ RowsInv(r)
    BY <1>9, <2>2, <2>3, <2>4, <2>6 DEF Presented
  <2>8. \/ r.visible = p.visible /\ r.screen = p.screen
        \/ r.visible /\ r.screen = list
    BY <1>2, <2>3, <2>4 DEF Presented, Like
  <2> QED
    BY <2>5, <2>7, <2>8 DEF Updated, SurfaceInv
<1> QED
  BY <1>5, <1>6, <1>7, <1>8

(* hide_surface.                                                           *)
LEMMA HideUpdates ==
    ASSUME NEW p \in Panels, OwnInv(p)
    PROVE  /\ Hide(p) \in Panels /\ OwnInv(Hide(p))
           /\ Hide(p).style = p.style /\ Hide(p).status = p.status
           /\ DrawInv(p) => DrawInv(Hide(p))
           /\ RowsInv(p) => RowsInv(Hide(p))
           /\ SurfaceInv(p) => SurfaceInv(Hide(p)) /\ Hide(p).screen = None
<1>1. CASE ~p.visible
  BY <1>1 DEF Hide, SurfaceInv
<1>2. CASE p.visible
  <2> DEFINE ids == OwnedBy(p.geom)
             r == Retire(p, ids)
             bare == [r EXCEPT !.geom = None]
             q == [r EXCEPT !.visible = FALSE, !.selected = -1, !.retry = FALSE,
                            !.screen = None, !.geom = None]
  <2>1. Hide(p) = q
    BY <1>2 DEF Hide
  <2>2. ids \in Ids /\ ids \subseteq Held(p)
    BY HeldType DEF Held
  <2>3. r \in Panels /\ Like(p, r) /\ r.geom = p.geom /\ r.cache = p.cache /\ Parks(p, r, ids)
    BY <2>2, RetireParks
  <2> HIDE DEF r
  <2>4. bare \in Panels /\ Like(p, bare) /\ Parks(p, bare, ids) /\ bare.geom = None
        /\ bare.cache = p.cache
    BY <2>3 DEF Panels, Like, Parks
  <2>5. Cached(bare) = Cached(p) /\ OwnedBy(bare.geom) = {}
    BY <2>4 DEF Cached, OwnedBy
  <2>6. Held(bare) = Held(p) \ ids
    BY <2>5 DEF Held, OwnInv
  <2>7. \A i, j \in DOMAIN bare.cache : bare.cache[i].id = bare.cache[j].id => i = j
    BY <2>4 DEF OwnInv
  <2>8. OwnInv(bare) /\ (DrawInv(p) => DrawInv(bare))
    BY <2>2, <2>4, <2>5, <2>6, <2>7, ParkingKeepsOrder
  <2>9. q \in Panels
    <3>1. -1 \in Int /\ None \in Laid \cup {None} /\ None \in Seq(Texts) \cup {None}
      OBVIOUS
    <3> QED
      BY <2>3, <3>1 DEF Panels
  <2>10. /\ q.geom = bare.geom /\ q.cache = bare.cache /\ q.ring = bare.ring
         /\ q.live = bare.live /\ q.flights = bare.flights /\ q.epoch = bare.epoch
         /\ q.ready = bare.ready
    BY <2>3 DEF Panels
  <2>11. q.style = p.style /\ q.status = p.status /\ ~q.visible /\ q.screen = None
    BY <2>3 DEF Panels, Like
  <2> HIDE DEF q, bare
  <2>12. OwnInv(q) /\ (DrawInv(p) => DrawInv(q))
    BY <2>8, <2>10, Unmoved
  <2>13. RowsInv(q)
    BY <2>4, <2>10 DEF RowsInv
  <2> QED
    BY <2>1, <2>9, <2>11, <2>12, <2>13 DEF SurfaceInv
<1> QED
  BY <1>1, <1>2

(* typio_wl_candidate_panel_update_content.                                *)
LEMMA UpdateUpdates ==
    ASSUME NEW p \in Panels, OwnInv(p), mode \in Modes, NEW list \in Seq(Texts),
           NEW selected \in Int, NEW r \in UpdateContent(p, list, selected)
    PROVE  Updated(p, list, r)
<1>1. p.status \in Statuses \cup {None} /\ -1 \in Int
  BY DEF Panels
<1>2. CASE list = <<>> /\ p.status = None
  <2>1. r = Hide(p)
    BY <1>2 DEF UpdateContent
  <2> QED
    BY <2>1, HideUpdates DEF Updated
<1>3. CASE list = <<>> /\ p.status # None
  <2>1. r \in Render(p, list, -1, p.status)
    BY <1>3 DEF UpdateContent
  <2> QED
    BY <1>1, <2>1, RenderUpdates
<1>4. CASE list # <<>>
  <2>1. r \in Render(p, list, selected, None)
    BY <1>4 DEF UpdateContent
  <2> QED
    BY <2>1, RenderUpdates
<1> QED
  BY <1>2, <1>3, <1>4

(* A panel that owns nothing is in order.                                  *)
LEMMA NothingOwned ==
    ASSUME NEW p, p.cache = <<>>, p.geom = None, p.live = {}, p.flights = <<>>,
           \A s \in Slots : p.ring[s] = {}
    PROVE  OwnInv(p) /\ DrawInv(p) /\ RowsInv(p)
<1>1. Cached(p) = {} /\ OwnedBy(p.geom) = {} /\ Held(p) = {}
  BY DEF Cached, OwnedBy, Held, ToSet
<1>2. Len(p.flights) <= FramesInFlight
  BY BoundsAssumption
<1> QED
  BY <1>1, <1>2 DEF OwnInv, DrawInv, RowsInv

(* The panel that is made at start and after a reconnect.                  *)
LEMMA NewPanelType ==
    ASSUME NEW style \in Styles
    PROVE  LET p == NewPanel(style)
           IN  /\ p \in Panels /\ OwnInv(p) /\ DrawInv(p) /\ RowsInv(p) /\ SurfaceInv(p)
               /\ p.screen = None
<1> DEFINE p == NewPanel(style)
<1>1. {} \in Ids
  BY FS_EmptySet DEF Ids
<1>2. <<>> \in Seq(Entries) /\ <<>> \in Seq(Frames) /\ 0 \in Slots /\ -1 \in Int
  BY BoundsAssumption DEF Slots
<1>3. [s \in 0 .. Depth - 1 |-> {}] \in [Slots -> Ids]
  BY <1>1 DEF Slots
<1>4. p \in Panels
  BY <1>1, <1>2, <1>3 DEF NewPanel, Panels
<1>5. /\ p.cache = <<>> /\ p.geom = None /\ p.live = {} /\ p.flights = <<>>
      /\ p.visible = FALSE /\ p.screen = None /\ \A s \in Slots : p.ring[s] = {}
  BY DEF NewPanel, Slots
<1> HIDE DEF p
<1>6. OwnInv(p) /\ DrawInv(p) /\ RowsInv(p)
  BY <1>5, NothingOwned
<1> QED
  BY <1>4, <1>5, <1>6 DEF SurfaceInv, p

-----------------------------------------------------------------------------
(* The inductive invariant.                                                *)

Preedits == {c.preedit : c \in Compositions}

(* What the variables hold.                                                *)
TypeOK ==
    /\ ctx \in [focused : BOOLEAN, comp : Compositions, selected : Int]
    /\ mode \in Modes
    /\ tracking \in [last : Preedits \cup {None}, pending : BOOLEAN, stale : BOOLEAN,
                     cut : BOOLEAN]
    /\ app \in Preedits \cup {None}
    /\ panel \in Panels

(* What is seen needs a focus, and a panel that is not visible is not on   *)
(* the screen.                                                             *)
FocusInv ==
    /\ ~ctx.focused => ctx.comp = Idle
    /\ SurfaceInv(panel)
    /\ CandidatesNeedFocus

(* What the frames in flight use, and the geometry of the next one.        *)
FramesInv == DrawInv(panel) /\ RowsInv(panel)

IInv == TypeOK /\ OwnInv(panel) /\ FocusInv /\ (ListsFit => FramesInv)

(* A composition has a list and a preedit.                                 *)
LEMMA CompositionTypes ==
    /\ \A c \in Compositions : c.list \in Seq(Texts) /\ c.preedit \in Preedits
    /\ Idle \in Compositions /\ Idle.list = <<>>
<1>1. ASSUME NEW c \in Compositions
      PROVE  c.list \in Seq(Texts)
  <2>1. c \in [list : Seq(Texts), preedit : {d.preedit : d \in Compositions}]
    BY DataAssumption
  <2> QED
    BY <2>1
<1>2. \A c \in Compositions : c.preedit \in Preedits
  BY DEF Preedits
<1>3. Idle \in Compositions /\ Idle.list = <<>>
  BY DataAssumption DEF Idle
<1> QED
  BY <1>1, <1>2, <1>3

(* The invariant holds of a new session and its panel.                     *)
LEMMA IInvInit == Init => IInv
<1> SUFFICES ASSUME Init PROVE IInv
  OBVIOUS
<1>1. PICK s \in Styles : panel = NewPanel(s)
  BY DEF Init
<1>2. /\ panel \in Panels /\ OwnInv(panel) /\ DrawInv(panel) /\ RowsInv(panel)
      /\ SurfaceInv(panel) /\ panel.screen = None
  BY <1>1, NewPanelType
<1>3. TypeOK
  BY <1>2, CompositionTypes DEF Init, TypeOK, NoTracking
<1>4. FocusInv
  BY <1>2 DEF Init, FocusInv, CandidatesNeedFocus
<1> QED
  BY <1>2, <1>3, <1>4 DEF IInv, FramesInv

(* What a step may do to the panel: it stays in order, keeps what its      *)
(* frames use, and shows no candidates but those of list.                  *)
PanelStep(list) ==
    /\ panel' \in Panels /\ OwnInv(panel')
    /\ ListsFit /\ FramesInv => DrawInv(panel') /\ RowsInv(panel')
    /\ SurfaceInv(panel')
    /\ panel'.screen \in {panel.screen, list, None}

(* An update of a panel is such a step.                                    *)
LEMMA UpdatedStep ==
    ASSUME IInv, NEW p \in Panels, NEW list \in Seq(Texts), NEW r, Updated(p, list, r),
           ListsFit => Len(list) <= MaxRows,
           p.screen = panel.screen, p.visible = panel.visible,
           DrawInv(panel) => DrawInv(p), RowsInv(panel) => RowsInv(p), panel' = r
    PROVE  PanelStep(list)
<1>1. SurfaceInv(p)
  BY DEF IInv, FocusInv, SurfaceInv
<1> QED
  BY <1>1 DEF Updated, PanelStep, FramesInv

(* The steps that update the panel, for the candidates of the context.     *)
LEMMA UpdatesStep ==
    ASSUME IInv, NEW p \in Panels, OwnInv(p), p.screen = panel.screen,
           p.visible = panel.visible,
           DrawInv(panel) => DrawInv(p), RowsInv(panel) => RowsInv(p),
           panel' \in UpdateContent(p, ctx.comp.list, ctx.selected)
    PROVE  PanelStep(ctx.comp.list)
<1>1. ctx.comp \in Compositions /\ ctx.selected \in Int /\ mode \in Modes
  BY DEF IInv, TypeOK
<1>2. ctx.comp.list \in Seq(Texts)
  BY <1>1, CompositionTypes
<1>3. Updated(p, ctx.comp.list, panel')
  BY <1>1, <1>2, UpdateUpdates
<1>4. ListsFit => Len(ctx.comp.list) <= MaxRows
  BY <1>1 DEF ListsFit
<1> QED
  BY <1>2, <1>3, <1>4, UpdatedStep

(* The steps that update it for a status text.                             *)
LEMMA StatusSteps ==
    ASSUME IInv, NEW s \in Statuses \cup {None},
           panel' \in UpdateContent([panel EXCEPT !.status = s], <<>>, -1)
    PROVE  PanelStep(<<>>)
<1> DEFINE p == [panel EXCEPT !.status = s]
<1>1. panel \in Panels /\ mode \in Modes /\ OwnInv(panel)
  BY DEF IInv, TypeOK
<1>2. p \in Panels
  BY <1>1 DEF Panels
<1>3. /\ p.geom = panel.geom /\ p.cache = panel.cache /\ p.ring = panel.ring
      /\ p.live = panel.live /\ p.flights = panel.flights /\ p.epoch = panel.epoch
      /\ p.ready = panel.ready /\ p.screen = panel.screen /\ p.visible = panel.visible
  BY <1>1 DEF Panels
<1>4. panel' \in UpdateContent(p, <<>>, -1)
  OBVIOUS
<1> HIDE DEF p
<1>5. OwnInv(p) /\ (DrawInv(panel) => DrawInv(p)) /\ (RowsInv(panel) => RowsInv(p))
  BY <1>1, <1>3, Unmoved
<1>6. <<>> \in Seq(Texts) /\ -1 \in Int /\ Len(<<>>) <= MaxRows
  BY BoundsAssumption
<1>7. Updated(p, <<>>, panel')
  BY <1>1, <1>2, <1>4, <1>5, <1>6, UpdateUpdates
<1> QED
  BY <1>2, <1>3, <1>5, <1>6, <1>7, UpdatedStep

(* The steps that hide it.                                                 *)
LEMMA HideStep ==
    ASSUME IInv, panel' = Hide(panel)
    PROVE  PanelStep(None) /\ panel'.screen = None
<1>1. panel \in Panels /\ OwnInv(panel) /\ SurfaceInv(panel)
  BY DEF IInv, TypeOK, FocusInv
<1> QED
  BY <1>1, HideUpdates DEF PanelStep, FramesInv

(* The steps that leave it alone.                                          *)
LEMMA SamePanelStep ==
    ASSUME IInv, panel' = panel
    PROVE  PanelStep(None) /\ panel'.screen = panel.screen
  BY DEF IInv, TypeOK, FocusInv, PanelStep, FramesInv

(* Another panel is made.                                                  *)
LEMMA ReconnectStep ==
    ASSUME IInv, panel' = NewPanel(panel.style)
    PROVE  PanelStep(None) /\ panel'.screen = None
<1>1. panel.style \in Styles
  BY DEF IInv, TypeOK, Panels
<1> QED
  BY <1>1, NewPanelType DEF PanelStep

(* The GPU is done with a frame: the others are as far back as before.     *)
LEMMA GpuStep ==
    ASSUME IInv, GpuFinishes
    PROVE  PanelStep(None) /\ panel'.screen = panel.screen
<1> DEFINE fl == panel.flights
           t == Tail(fl)
<1>1. panel \in Panels /\ OwnInv(panel) /\ SurfaceInv(panel) /\ fl \in Seq(Frames)
      /\ fl # <<>> /\ panel' = [panel EXCEPT !.flights = t]
  BY DEF IInv, TypeOK, FocusInv, Panels, GpuFinishes
<1>2. /\ t \in Seq(Frames) /\ Len(t) = Len(fl) - 1 /\ Len(fl) \in Nat
      /\ DOMAIN t = 1 .. Len(t) /\ DOMAIN fl = 1 .. Len(fl)
      /\ \A j \in 1 .. Len(t) : t[j] = fl[j+1]
  BY <1>1
<1> HIDE DEF t
<1>3. panel' \in Panels
  BY <1>1, <1>2 DEF Panels
<1>4. /\ panel'.geom = panel.geom /\ panel'.cache = panel.cache /\ panel'.ring = panel.ring
      /\ panel'.live = panel.live /\ panel'.flights = t /\ panel'.epoch = panel.epoch
      /\ panel'.ready = panel.ready /\ panel'.screen = panel.screen
      /\ panel'.visible = panel.visible
  BY <1>1 DEF Panels
<1>5. Cached(panel') = Cached(panel) /\ Held(panel') = Held(panel)
  BY <1>4 DEF Cached, Held
<1>6. panel.ready
  BY <1>1 DEF OwnInv
<1>7. Len(t) <= FramesInFlight
  BY <1>1, <1>2, BoundsAssumption DEF OwnInv
<1>8. OwnInv(panel')
  BY <1>1, <1>4, <1>5, <1>6, <1>7 DEF OwnInv
<1>9. ASSUME DrawInv(panel), NEW j \in 1 .. Len(t)
      PROVE  /\ j + 1 \in DOMAIN fl /\ t[j] = fl[j+1]
             /\ Len(t) - j = Len(fl) - (j + 1)
  BY <1>2
<1>10. DrawInv(panel) => DrawInv(panel')
  BY <1>2, <1>4, <1>9 DEF DrawInv
<1>11. RowsInv(panel) => RowsInv(panel')
  BY <1>4, <1>5 DEF RowsInv
<1> QED
  BY <1>1, <1>3, <1>4, <1>8, <1>10, <1>11 DEF PanelStep, FramesInv, SurfaceInv

(* A reload waits for the GPU and frees everything.                        *)
LEMMA InvalidateStep ==
    ASSUME IInv, InvalidateConfig
    PROVE  PanelStep(None) /\ panel'.screen = panel.screen
<1> DEFINE parked == UNION {panel.ring[s] : s \in DOMAIN panel.ring}
           p == IF panel.ready
                THEN [WaitIdle(panel) EXCEPT !.ring = [s \in DOMAIN panel.ring |-> {}],
                                             !.live = panel.live \ parked]
                ELSE panel
           empty == [s \in DOMAIN panel.ring |-> {}]
<1>1. panel \in Panels /\ OwnInv(panel) /\ SurfaceInv(panel) /\ DOMAIN panel.ring = Slots
  BY DEF IInv, TypeOK, FocusInv, Panels
<1>2. PICK s \in Styles : panel' = [Free(InvalidateCache(p), OwnedBy(p.geom)) EXCEPT
                                       !.geom = None, !.style = s]
  BY <1>1 DEF InvalidateConfig, WaitIdle, Panels
<1>3. {} \in Ids /\ <<>> \in Seq(Entries) /\ <<>> \in Seq(Frames)
  BY FS_EmptySet DEF Ids
<1>4. empty \in [Slots -> Ids] /\ \A t \in Slots : empty[t] = {}
  BY <1>1, <1>3
<1>5. panel.live \ (parked \cup Cached(panel) \cup OwnedBy(panel.geom)) = {}
  BY <1>1 DEF OwnInv, Held, Panels, Ids
<1>6. CASE panel.ready
  <2>1. p = [panel EXCEPT !.flights = <<>>, !.ring = empty, !.live = panel.live \ parked]
    BY <1>1, <1>6 DEF WaitIdle, Panels
  <2> HIDE DEF p, empty
  <2>2. /\ p.geom = panel.geom /\ p.cache = panel.cache /\ p.live = panel.live \ parked
        /\ Cached(p) = Cached(panel)
    BY <1>1, <2>1 DEF Panels, Cached
  <2>3. panel' = [panel EXCEPT !.flights = <<>>, !.ring = empty, !.cache = <<>>,
                       !.live = ((panel.live \ parked) \ Cached(panel)) \ OwnedBy(panel.geom),
                       !.geom = None, !.style = s]
    BY <1>1, <1>2, <2>1, <2>2 DEF Free, InvalidateCache, Panels
  <2>4. ((panel.live \ parked) \ Cached(panel)) \ OwnedBy(panel.geom) = {}
    BY <1>5
  <2>5. panel' = [panel EXCEPT !.flights = <<>>, !.ring = empty, !.cache = <<>>,
                       !.live = {}, !.geom = None, !.style = s]
    BY <2>3, <2>4
  <2>6. panel' \in Panels
    BY <1>1, <1>3, <1>4, <2>5 DEF Panels
  <2>7. /\ panel'.cache = <<>> /\ panel'.geom = None /\ panel'.live = {}
        /\ panel'.flights = <<>> /\ panel'.ring = empty /\ panel'.visible = panel.visible
        /\ panel'.screen = panel.screen
    BY <1>1, <2>5 DEF Panels
  <2>8. OwnInv(panel') /\ DrawInv(panel') /\ RowsInv(panel')
    BY <1>4, <2>7, NothingOwned
  <2> QED
    BY <1>1, <2>6, <2>7, <2>8 DEF PanelStep, SurfaceInv
<1>7. CASE ~panel.ready
  <2>1. p = panel
    BY <1>7
  <2>2. panel.flights = <<>> /\ \A t \in Slots : panel.ring[t] = {}
    BY <1>1, <1>7 DEF OwnInv
  <2>3. parked = {}
    BY <1>1, <2>2
  <2> HIDE DEF p, empty, parked
  <2>4. panel' = [panel EXCEPT !.cache = <<>>,
                       !.live = (panel.live \ Cached(panel)) \ OwnedBy(panel.geom),
                       !.geom = None, !.style = s]
    BY <1>1, <1>2, <2>1 DEF Free, InvalidateCache, Panels
  <2>5. (panel.live \ Cached(panel)) \ OwnedBy(panel.geom) = {}
    BY <1>5, <2>3
  <2>6. panel' = [panel EXCEPT !.cache = <<>>, !.live = {}, !.geom = None, !.style = s]
    BY <2>4, <2>5
  <2>7. panel' \in Panels
    BY <1>1, <1>3, <2>6 DEF Panels
  <2>8. /\ panel'.cache = <<>> /\ panel'.geom = None /\ panel'.live = {}
        /\ panel'.flights = panel.flights /\ panel'.ring = panel.ring
        /\ panel'.visible = panel.visible /\ panel'.screen = panel.screen
    BY <1>1, <2>6 DEF Panels
  <2>9. OwnInv(panel') /\ DrawInv(panel') /\ RowsInv(panel')
    BY <2>2, <2>8, NothingOwned
  <2> QED
    BY <1>1, <2>7, <2>8, <2>9 DEF PanelStep, SurfaceInv
<1> QED
  BY <1>6, <1>7

(* A change of scale, with or without an update.                           *)
LEMMA ScaleStep ==
    ASSUME IInv, ScaleChanges
    PROVE  PanelStep(ctx.comp.list)
<1>1. panel \in Panels /\ OwnInv(panel) /\ SurfaceInv(panel)
  BY DEF IInv, TypeOK, FocusInv
<1>2. PICK s \in Styles :
         IF panel.visible
         THEN panel' \in UpdateContent([panel EXCEPT !.style = s], ctx.comp.list, ctx.selected)
         ELSE panel' = [panel EXCEPT !.style = s]
  BY DEF ScaleChanges
<1> DEFINE p == [panel EXCEPT !.style = s]
<1>3. p \in Panels
  BY <1>1 DEF Panels
<1>4. /\ p.geom = panel.geom /\ p.cache = panel.cache /\ p.ring = panel.ring
      /\ p.live = panel.live /\ p.flights = panel.flights /\ p.epoch = panel.epoch
      /\ p.ready = panel.ready /\ p.screen = panel.screen /\ p.visible = panel.visible
  BY <1>1 DEF Panels
<1>5. IF panel.visible THEN panel' \in UpdateContent(p, ctx.comp.list, ctx.selected)
      ELSE panel' = p
  BY <1>2
<1> HIDE DEF p
<1>6. OwnInv(p) /\ (DrawInv(panel) => DrawInv(p)) /\ (RowsInv(panel) => RowsInv(p))
  BY <1>1, <1>4, Unmoved
<1>7. CASE panel.visible
  BY <1>3, <1>4, <1>5, <1>6, <1>7, UpdatesStep
<1>8. CASE ~panel.visible
  BY <1>1, <1>3, <1>4, <1>5, <1>6, <1>8 DEF PanelStep, FramesInv, SurfaceInv
<1> QED
  BY <1>7, <1>8

-----------------------------------------------------------------------------
(* The steps.                                                              *)

(* The step of the context, of the tracking and of the application's       *)
(* preedit keeps their types.                                              *)
LEMMA OtherTypesStep ==
    ASSUME IInv, [Next]_vars, panel' \in Panels
    PROVE  TypeOK'
<1>1. /\ ctx \in [focused : BOOLEAN, comp : Compositions, selected : Int] /\ mode \in Modes
      /\ tracking \in [last : Preedits \cup {None}, pending : BOOLEAN, stale : BOOLEAN,
                       cut : BOOLEAN]
      /\ app \in Preedits \cup {None} /\ panel \in Panels
  BY DEF IInv, TypeOK
<1>2. /\ ctx.comp.preedit \in Preedits /\ Idle \in Compositions /\ -1 \in Int
      /\ \A c \in Compositions : c.list \in Seq(Texts)
  BY <1>1, CompositionTypes
<1>3. CASE Compose
  <2>1. PICK c \in Compositions : \E s \in IF c.list = <<>> THEN {-1} ELSE DOMAIN c.list :
           ctx' = [ctx EXCEPT !.comp = c, !.selected = s]
    BY <1>3 DEF Compose
  <2>2. PICK s \in IF c.list = <<>> THEN {-1} ELSE DOMAIN c.list :
           ctx' = [ctx EXCEPT !.comp = c, !.selected = s]
    BY <2>1
  <2>3. s \in Int
    BY <1>2
  <2>4. ctx' \in [focused : BOOLEAN, comp : Compositions, selected : Int]
    BY <1>1, <2>2, <2>3
  <2>5. tracking' = [tracking EXCEPT !.pending = TRUE] /\ mode' = mode /\ app' = app
    BY <1>3 DEF Compose
  <2> QED
    BY <1>1, <2>4, <2>5 DEF TypeOK
<1>4. CASE Commit
  BY <1>1, <1>2, <1>4 DEF TypeOK, Commit, ResetTracking, NoTracking
<1>5. CASE FocusIn
  BY <1>1, <1>5 DEF TypeOK, FocusIn, ResetTracking, NoTracking
<1>6. CASE Reactivate
  BY <1>1, <1>6 DEF TypeOK, Reactivate, ResetTracking, NoTracking
<1>7. CASE FocusOut
  BY <1>1, <1>2, <1>7 DEF TypeOK, FocusOut, ResetTracking, NoTracking
<1>8. CASE Scrub \/ Reconnect
  <2>1. /\ tracking' = [tracking EXCEPT !.stale = tracking.stale \/ tracking.last # None]
        /\ app' = None /\ ctx' = ctx /\ mode' = mode
    BY <1>8 DEF Scrub, Reconnect
  <2>2. (tracking.stale \/ tracking.last # None) \in BOOLEAN
    OBVIOUS
  <2> QED
    BY <1>1, <2>1, <2>2 DEF TypeOK
<1>9. CASE ShowStatus \/ HideStatus \/ InvalidateConfig \/ ScaleChanges \/ GpuFinishes
  BY <1>1, <1>9 DEF TypeOK, ShowStatus, HideStatus, InvalidateConfig, ScaleChanges,
                    GpuFinishes
<1>10. CASE ModeChanges
  BY <1>1, <1>10 DEF TypeOK, ModeChanges
<1>11. CASE Flush
  <2>1. PICK p \in UpdateContent(panel, ctx.comp.list, ctx.selected) :
           /\ panel' = p
           /\ tracking' = [last |-> ctx.comp.preedit, pending |-> p.retry,
                           stale |-> tracking.stale /\ ~(ctx.comp.preedit # tracking.last),
                           cut |-> tracking.cut /\ ~(ctx.comp.preedit # tracking.last)]
    BY <1>11 DEF Flush
  <2>2. p.retry \in BOOLEAN
    BY <2>1 DEF Panels
  <2>3. tracking' \in [last : Preedits \cup {None}, pending : BOOLEAN, stale : BOOLEAN,
                       cut : BOOLEAN]
    BY <1>1, <1>2, <2>1, <2>2
  <2>4. app' \in Preedits \cup {None} /\ ctx' = ctx /\ mode' = mode
    BY <1>1, <1>2, <1>11 DEF Flush
  <2> QED
    BY <1>1, <2>3, <2>4 DEF TypeOK
<1>12. CASE UNCHANGED vars
  BY <1>1, <1>12 DEF TypeOK, vars
<1> QED
  BY <1>3, <1>4, <1>5, <1>6, <1>7, <1>8, <1>9, <1>10, <1>11, <1>12 DEF Next

(* What is shown after a step is what was, an empty list, or the           *)
(* candidates of a context that is focused.                                *)
Shows(list) ==
    /\ PanelStep(list)
    /\ ~ctx'.focused => ctx'.comp = Idle
    /\ ~ctx'.focused /\ panel'.screen # None => panel'.screen = <<>>

(* Every step updates the panel in one of the ways above.                  *)
LEMMA EachStepShows ==
    ASSUME IInv, [Next]_vars
    PROVE  \E list : Shows(list)
<1>1. /\ ctx \in [focused : BOOLEAN, comp : Compositions, selected : Int]
      /\ panel \in Panels /\ OwnInv(panel)
      /\ ~ctx.focused => ctx.comp = Idle
      /\ ~ctx.focused /\ panel.screen # None => panel.screen = <<>>
  BY DEF IInv, TypeOK, FocusInv, CandidatesNeedFocus
<1>2. Idle.list = <<>>
  BY CompositionTypes
<1>3. CASE Compose \/ FocusIn \/ Reactivate \/ Scrub \/ ModeChanges \/ UNCHANGED vars
  <2>1. panel' = panel
    BY <1>3 DEF Compose, FocusIn, Reactivate, Scrub, ModeChanges, vars
  <2>2. ctx'.focused \/ ctx' = ctx
    BY <1>1, <1>3 DEF Compose, FocusIn, Reactivate, Scrub, ModeChanges, vars
  <2>3. Shows(None)
    BY <1>1, <2>1, <2>2, SamePanelStep DEF Shows
  <2> QED
    BY <2>3
<1>4. CASE Commit \/ FocusOut
  <2>1. ASSUME Commit PROVE panel' = Hide(panel) /\ ctx'.comp = Idle
    BY <1>1, <2>1 DEF Commit
  <2>2. ASSUME FocusOut PROVE panel' = Hide(panel) /\ ctx'.comp = Idle
    BY <1>1, <2>2 DEF FocusOut
  <2>3. panel' = Hide(panel) /\ ctx'.comp = Idle
    BY <1>4, <2>1, <2>2
  <2>4. Shows(None)
    BY <2>3, HideStep DEF Shows
  <2> QED
    BY <2>4
<1>5. CASE Reconnect
  <2>1. panel' = NewPanel(panel.style) /\ ctx' = ctx
    BY <1>5 DEF Reconnect
  <2>2. Shows(None)
    BY <1>1, <2>1, ReconnectStep DEF Shows
  <2> QED
    BY <2>2
<1>6. CASE ShowStatus \/ HideStatus
  <2>1. ctx' = ctx /\ \E s \in Statuses \cup {None} :
           panel' \in UpdateContent([panel EXCEPT !.status = s], <<>>, -1)
    BY <1>6 DEF ShowStatus, HideStatus
  <2>2. PanelStep(<<>>)
    BY <2>1, StatusSteps
  <2>3. panel'.screen \in {panel.screen, <<>>, None}
    BY <2>2 DEF PanelStep
  <2>4. Shows(<<>>)
    BY <1>1, <2>1, <2>2, <2>3 DEF Shows
  <2> QED
    BY <2>4
<1>7. CASE InvalidateConfig
  <2>1. Shows(None)
    BY <1>1, <1>7, InvalidateStep DEF Shows, InvalidateConfig
  <2> QED
    BY <2>1
<1>8. CASE GpuFinishes
  <2>1. Shows(None)
    BY <1>1, <1>8, GpuStep DEF Shows, GpuFinishes
  <2> QED
    BY <2>1
<1>9. CASE ScaleChanges
  <2>1. PanelStep(ctx.comp.list) /\ ctx' = ctx
    BY <1>9, ScaleStep DEF ScaleChanges
  <2>2. panel'.screen \in {panel.screen, ctx.comp.list, None}
    BY <2>1 DEF PanelStep
  <2>3. Shows(ctx.comp.list)
    BY <1>1, <1>2, <2>1, <2>2 DEF Shows
  <2> QED
    BY <2>3
<1>10. CASE Flush
  <2>1. /\ panel' \in UpdateContent(panel, ctx.comp.list, ctx.selected)
        /\ ctx' = ctx /\ ctx.focused
    BY <1>10 DEF Flush
  <2>2. PanelStep(ctx.comp.list)
    BY <1>1, <2>1, UpdatesStep
  <2>3. Shows(ctx.comp.list)
    BY <2>1, <2>2 DEF Shows
  <2> QED
    BY <2>3
<1> QED
  BY <1>3, <1>4, <1>5, <1>6, <1>7, <1>8, <1>9, <1>10 DEF Next

(* Every step keeps it.                                                    *)
LEMMA IInvStep == IInv /\ [Next]_vars => IInv'
<1> SUFFICES ASSUME IInv, [Next]_vars PROVE IInv'
  OBVIOUS
<1>1. PICK list : Shows(list)
  BY EachStepShows
<1>2. panel' \in Panels /\ OwnInv(panel') /\ SurfaceInv(panel')
      /\ (ListsFit /\ FramesInv => DrawInv(panel') /\ RowsInv(panel'))
  BY <1>1 DEF Shows, PanelStep
<1>3. TypeOK'
  BY <1>2, OtherTypesStep
<1>4. FocusInv'
  BY <1>1, <1>2 DEF FocusInv, Shows, CandidatesNeedFocus
<1>5. ListsFit => FramesInv'
  BY <1>2 DEF IInv, FramesInv
<1> QED
  BY <1>2, <1>3, <1>4, <1>5 DEF IInv

(* So it always holds.                                                     *)
LEMMA SpecIInv == Spec => []IInv
  BY IInvInit, IInvStep, PTL DEF Spec

-----------------------------------------------------------------------------
(* The theorems.                                                           *)

(* The variables keep their types; the panel's records do, whatever is     *)
(* laid out, presented, skipped, hidden and invalidated.                   *)
THEOREM PanelTypes == Spec => []TypeOK
<1>1. IInv => TypeOK
  BY DEF IInv
<1> QED
  BY <1>1, SpecIInv, PTL

(* No layout is lost and none is freed twice: the cache, the ring and the  *)
(* geometry own every layout alive, one each (the retire ring of           *)
(* candidate_panel.cc).                                                    *)
THEOREM LayoutsAreOwned == Spec => []ResourcesAreOwned
<1>1. IInv => ResourcesAreOwned
  <2> SUFFICES ASSUME IInv PROVE ResourcesAreOwned
    OBVIOUS
  <2> DEFINE cached == Cached(panel)
             own == OwnedBy(panel.geom)
             parked == UNION {panel.ring[s] : s \in DOMAIN panel.ring}
  <2>1. panel \in Panels /\ OwnInv(panel)
    BY DEF IInv, TypeOK
  <2>2. /\ DOMAIN panel.ring = Slots /\ panel.live \subseteq Nat
        /\ \A s \in Slots : panel.ring[s] \subseteq Nat
    BY <2>1 DEF Panels, Ids
  <2>3. cached \subseteq Nat /\ own \subseteq Nat
    BY <2>1, HeldType DEF Ids
  <2>4. cached \cap own = {}
        /\ \A s, t \in DOMAIN panel.ring : s # t => panel.ring[s] \cap panel.ring[t] = {}
    BY <2>1, <2>2 DEF OwnInv
  <2>5. \A x \in Nat : x \in panel.live <=>
           x \in cached \/ x \in own \/ \E s \in Slots : x \in panel.ring[s]
    BY <2>1 DEF OwnInv, Held
  <2>6. \A s \in Slots : panel.ring[s] \cap (cached \cup own) = {}
    BY <2>1 DEF OwnInv, Held
  <2> HIDE DEF cached, own
  <2>7. panel.live = cached \cup own \cup parked
    BY <2>2, <2>3, <2>5
  <2>8. parked \cap (cached \cup own) = {}
    BY <2>2, <2>6
  <2> HIDE DEF parked
  <2> QED
    BY <2>4, <2>7, <2>8 DEF ResourcesAreOwned, cached, own, parked
<1> QED
  BY <1>1, SpecIInv, PTL

(* A frame in flight keeps the layouts it draws, on every path but the     *)
(* change of style, as long as no list is longer than the panel lays out   *)
(* (POPUP_RETIRE_DEPTH, POPUP_MAX_ROWS).                                   *)
THEOREM FramesAreSafe == ASSUME ListsFit PROVE Spec => []FramesKeepTheirLayouts
<1>1. IInv => FramesKeepTheirLayouts
  BY DEF IInv, FramesInv, DrawInv, FramesKeepTheirLayouts, ToSet
<1> QED
  BY <1>1, SpecIInv, PTL

(* An application without focus is offered no candidates                   *)
(* (transition_to_inactive).                                               *)
THEOREM NoFocusNoCandidates == Spec => []CandidatesNeedFocus
<1>1. IInv => CandidatesNeedFocus
  BY DEF IInv, FocusInv
<1> QED
  BY <1>1, SpecIInv, PTL

(* The preedit that was sent last is the one the application shows, unless *)
(* a resume or a reconnect took it away (typio_wl_text_ui_plan_update).    *)
THEOREM PreeditIsTracked == Spec => []TrackingIsTrue
<1>1. Init => TrackingIsTrue
  BY DEF Init, TrackingIsTrue
<1>2. TypeOK /\ TrackingIsTrue /\ [Next]_vars => TrackingIsTrue'
  <2> SUFFICES ASSUME TypeOK, TrackingIsTrue, [Next]_vars PROVE TrackingIsTrue'
    OBVIOUS
  <2>1. /\ ctx \in [focused : BOOLEAN, comp : Compositions, selected : Int]
        /\ tracking \in [last : Preedits \cup {None}, pending : BOOLEAN, stale : BOOLEAN,
                         cut : BOOLEAN]
    BY DEF TypeOK
  <2>2. CASE Compose
    BY <2>1, <2>2 DEF Compose, TrackingIsTrue
  <2>3. CASE Commit \/ FocusIn \/ Reactivate \/ FocusOut
    <3>1. tracking'.last = None /\ app' = None
      BY <2>3 DEF Commit, FocusIn, Reactivate, FocusOut, ResetTracking, NoTracking
    <3> QED
      BY <3>1 DEF TrackingIsTrue
  <2>4. CASE Scrub \/ Reconnect
    BY <2>1, <2>4 DEF Scrub, Reconnect, TrackingIsTrue
  <2>5. CASE ShowStatus \/ HideStatus \/ ModeChanges \/ InvalidateConfig \/ ScaleChanges
             \/ GpuFinishes \/ UNCHANGED vars
    BY <2>5 DEF ShowStatus, HideStatus, ModeChanges, InvalidateConfig, ScaleChanges,
                GpuFinishes, vars, TrackingIsTrue
  <2>6. CASE Flush
    <3>1. /\ ctx.focused /\ tracking'.last = ctx.comp.preedit
          /\ app' = IF ctx.comp.preedit # tracking.last THEN ctx.comp.preedit ELSE app
          /\ tracking'.stale = (tracking.stale /\ ~(ctx.comp.preedit # tracking.last))
      BY <2>6 DEF Flush
    <3> QED
      BY <3>1 DEF TrackingIsTrue
  <2> QED
    BY <2>2, <2>3, <2>4, <2>5, <2>6 DEF Next
<1> QED
  BY <1>1, <1>2, PanelTypes, PTL DEF Spec
=============================================================================
