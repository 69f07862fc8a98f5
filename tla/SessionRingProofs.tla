-------------------------- MODULE SessionRingProofs --------------------------
(***************************************************************************)
(* Proofs about SessionRing, for every ring limit and every set of event   *)
(* sizes.                                                                  *)
(***************************************************************************)
EXTENDS SessionRing, SequenceTheorems, WellFoundedInduction, NaturalsInduction, TLAPS

(* Every non-empty set of naturals has a least element, so Min is one. *)
LEMMA MinIsLeast ==
    ASSUME NEW S \in SUBSET Nat, S # {}
    PROVE  Min(S) \in S /\ \A x \in S : Min(S) <= x
<1>1. PICK x \in S : \A y \in S : ~(<<y, x>> \in OpToRel(<, Nat))
  BY NatLessThanWellFounded, WFMin, Zenon
<1>2. \A y \in S : ~(y < x)
  BY <1>1, Zenon DEF OpToRel
<1>3. \A y \in S : x <= y
  BY <1>2
<1> QED
  BY <1>3 DEF Min

-----------------------------------------------------------------------------
(* Dropping a prefix of an ordered run of events. *)
LEMMA SeqOfEvent ==
    ASSUME NEW b \in Seq(Event), NEW i \in 1..Len(b)
    PROVE  b[i] \in Event /\ b[i].seq \in Nat \ {0} /\ b[i].size \in Nat \ {0}
<1>1. b[i] \in Event
  BY ElementOfSeq
<1> QED
  BY <1>1 DEF Event

LEMMA WithoutShape ==
    ASSUME NEW b \in Seq(Event), NEW k \in 0..Len(b)
    PROVE  /\ Without(b, k) \in Seq(Event)
           /\ Len(Without(b, k)) = Len(b) - k
           /\ \A i \in 1..(Len(b) - k) : Without(b, k)[i] = b[i + k]
<1>1. \A i \in (k + 1)..Len(b) : b[i] \in Event
  BY ElementOfSeq
<1>2. k + 1 \in Int /\ Len(b) \in Int
  OBVIOUS
<1> QED
  BY <1>1, <1>2, SubSeqProperties DEF Without

LEMMA WithoutOrdered ==
    ASSUME NEW b \in Seq(Event), NEW k \in 0..Len(b), Ordered(b)
    PROVE  /\ Ordered(Without(b, k))
           /\ SeqsOf(Without(b, k)) = {s \in SeqsOf(b) : k > 0 => s > b[k].seq}
<1>0. Len(b) \in Nat
  OBVIOUS
<1>1. \A i \in 1..Len(b) : b[i].seq \in Nat
  BY SeqOfEvent
<1> DEFINE w == Without(b, k)
<1>2. /\ Len(w) = Len(b) - k
      /\ \A i \in 1..Len(w) : w[i] = b[i + k] /\ i + k \in 1..Len(b)
  BY WithoutShape, <1>0
<1> HIDE DEF w
<1>3. Ordered(w)
  <2> SUFFICES ASSUME NEW i \in 1..Len(w), NEW j \in 1..Len(w), i < j
               PROVE  w[i].seq < w[j].seq
    BY DEF Ordered
  <2>1. i + k < j + k
    OBVIOUS
  <2> QED
    BY <2>1, <1>2 DEF Ordered
<1>4. ASSUME NEW s \in SeqsOf(w)
      PROVE  s \in SeqsOf(b) /\ (k > 0 => s > b[k].seq)
  <2>1. PICK i \in 1..Len(w) : s = w[i].seq
    BY <1>4 DEF SeqsOf
  <2>2. s = b[i + k].seq /\ i + k \in 1..Len(b)
    BY <2>1, <1>2
  <2>3. ASSUME k > 0  PROVE b[k].seq < b[i + k].seq
    <3>1. k \in 1..Len(b) /\ k < i + k
      BY <2>3, <1>0
    <3> QED
      BY <3>1, <2>2 DEF Ordered
  <2> QED
    BY <2>2, <2>3, <1>1, <1>0 DEF SeqsOf
<1>5. ASSUME NEW s \in SeqsOf(b), k > 0 => s > b[k].seq
      PROVE  s \in SeqsOf(w)
  <2>1. PICK i \in 1..Len(b) : s = b[i].seq
    BY DEF SeqsOf
  <2>2. i > k
    <3> SUFFICES ASSUME i <= k  PROVE FALSE
      BY <1>0
    <3>1. k \in 1..Len(b) /\ b[k].seq < b[i].seq
      BY <2>1, <1>1, <1>5, <1>0
    <3>2. i = k \/ b[i].seq < b[k].seq
      BY <3>1 DEF Ordered
    <3> QED
      BY <3>1, <3>2, <1>1
  <2>3. i - k \in 1..Len(w) /\ (i - k) + k = i
    BY <2>2, <1>2, <1>0
  <2>4. w[i - k].seq = s
    BY <2>1, <2>3, <1>2
  <2> QED
    BY <2>3, <2>4 DEF SeqsOf
<1> QED
  BY <1>3, <1>4, <1>5 DEF w

(* The eviction loop always leaves at least the newest event. *)
LEMMA EvictCountRange ==
    ASSUME NEW b \in Seq(Event), Len(b) > 0, NEW bytes
    PROVE  EvictCount(b, bytes) \in 0..(Len(b) - 1)
<1>1. /\ StopPoints(b, bytes) \in SUBSET Nat
      /\ Len(b) - 1 \in StopPoints(b, bytes)
  BY DEF StopPoints
<1>2. EvictCount(b, bytes) \in StopPoints(b, bytes)
  BY <1>1, MinIsLeast DEF EvictCount
<1> QED
  BY <1>2 DEF StopPoints

-----------------------------------------------------------------------------
(* The inductive invariant of the ring's bookkeeping.  The byte count is left  *)
(* out: nothing about sequence numbers depends on when the loop stops.         *)
RingInv ==
    /\ seq \in Nat
    /\ ring.buf \in Seq(Event)
    /\ ring.tail \in Nat
    /\ ring.dropped \in Nat
    /\ NothingLostAboveDropped

(* The newest event at the end of the buffer keeps it ordered. *)
LEMMA AppendNewest ==
    ASSUME RingInv, NEW e \in Event, e.seq = seq + 1
    PROVE  LET b == Append(ring.buf, e)
           IN  /\ b \in Seq(Event)
               /\ Len(b) > 0
               /\ Ordered(b)
               /\ SeqsOf(b) = SeqsOf(ring.buf) \cup {seq + 1}
<1> DEFINE b == Append(ring.buf, e)
<1>1. /\ b \in Seq(Event)
      /\ Len(b) = Len(ring.buf) + 1
      /\ Len(ring.buf) \in Nat
      /\ b[Len(b)] = e
      /\ \A i \in 1..Len(ring.buf) : b[i] = ring.buf[i]
  BY DEF RingInv
<1> HIDE DEF b
<1>2. \A i \in 1..Len(ring.buf) : ring.buf[i].seq \in Nat /\ ring.buf[i].seq < seq + 1
  BY SeqOfEvent DEF RingInv, NothingLostAboveDropped, SeqsOf
<1>3. Ordered(b)
  <2> SUFFICES ASSUME NEW i \in 1..Len(b), NEW j \in 1..Len(b), i < j
               PROVE  b[i].seq < b[j].seq
    BY DEF Ordered
  <2>1. i \in 1..Len(ring.buf)
    BY <1>1
  <2>2. CASE j = Len(b)
    BY <2>1, <2>2, <1>1, <1>2
  <2>3. CASE j # Len(b)
    <3>1. j \in 1..Len(ring.buf)
      BY <2>3, <1>1
    <3> QED
      BY <2>1, <3>1, <1>1 DEF RingInv, NothingLostAboveDropped, Ordered
  <2> QED
    BY <2>2, <2>3
<1>4. SeqsOf(b) = SeqsOf(ring.buf) \cup {seq + 1}
  <2>1. ASSUME NEW s \in SeqsOf(b)  PROVE s \in SeqsOf(ring.buf) \cup {seq + 1}
    <3>1. PICK i \in 1..Len(b) : s = b[i].seq
      BY <2>1 DEF SeqsOf
    <3>2. i = Len(b) \/ i \in 1..Len(ring.buf)
      BY <1>1
    <3> QED
      BY <3>1, <3>2, <1>1 DEF SeqsOf
  <2>2. seq + 1 \in SeqsOf(b)
    BY <1>1 DEF SeqsOf
  <2>3. ASSUME NEW s \in SeqsOf(ring.buf)  PROVE s \in SeqsOf(b)
    <3>1. PICK i \in 1..Len(ring.buf) : s = ring.buf[i].seq
      BY <2>3 DEF SeqsOf
    <3>2. i \in 1..Len(b) /\ b[i] = ring.buf[i]
      BY <1>1
    <3> QED
      BY <3>1, <3>2 DEF SeqsOf
  <2> QED
    BY <2>1, <2>2, <2>3
<1> QED
  BY <1>1, <1>3, <1>4 DEF b

LEMMA EmitPreservesRingInv ==
    ASSUME RingInv, NEW size \in Sizes, NEW user \in BOOLEAN, Emit(size, user)
    PROVE  RingInv'
<1> DEFINE e == [seq |-> seq + 1, size |-> size, user |-> user]
           b == Append(ring.buf, e)
           k == EvictCount(b, ring.bytes + size)
<1>1. e \in Event /\ e.seq = seq + 1 /\ e.size = size
  BY SizesAssumption DEF Event, RingInv
<1>2. /\ b \in Seq(Event)
      /\ Len(b) > 0
      /\ Ordered(b)
      /\ SeqsOf(b) = SeqsOf(ring.buf) \cup {seq + 1}
  BY <1>1, AppendNewest
<1>3. seq' = seq + 1 /\ ring' = RingAppend(ring, e)
  BY DEF Emit
<1>4. Larger(ring.tail, seq + 1) = seq + 1 /\ seq + 1 \in Nat
  BY DEF RingInv, NothingLostAboveDropped, Larger
<1> HIDE DEF e
<1>5. CASE size > MaxBytes
  <2>1. /\ ring'.buf = ring.buf
        /\ ring'.tail = seq + 1
        /\ ring'.dropped = Larger(ring.dropped, seq + 1)
    BY <1>1, <1>3, <1>4, <1>5 DEF RingAppend
  <2>2. ring'.dropped = seq + 1
    BY <2>1 DEF RingInv, NothingLostAboveDropped, Larger
  <2> QED
    BY <2>1, <2>2, <1>3, <1>4 DEF RingInv, NothingLostAboveDropped
<1>6. CASE ~(size > MaxBytes)
  <2>1. k \in 0..(Len(b) - 1) /\ k \in 0..Len(b)
    <3> HIDE DEF b
    <3>1. k \in 0..(Len(b) - 1)
      BY <1>2, EvictCountRange
    <3> HIDE DEF k
    <3> QED
      BY <3>1, <1>2
  <2>2. /\ ring'.buf = Without(b, k)
        /\ ring'.tail = seq + 1
        /\ ring'.dropped = IF k = 0 THEN ring.dropped ELSE Larger(ring.dropped, b[k].seq)
    BY <1>1, <1>3, <1>4, <1>6 DEF RingAppend, Retain
  <2> HIDE DEF b, k
  <2>3. /\ Without(b, k) \in Seq(Event)
        /\ Ordered(Without(b, k))
        /\ SeqsOf(Without(b, k)) = {s \in SeqsOf(b) : k > 0 => s > b[k].seq}
    BY <1>2, <2>1, WithoutShape, WithoutOrdered
  <2>4. k > 0 => b[k].seq \in SeqsOf(b) /\ b[k].seq \in 1..(seq + 1)
    <3>1. k > 0 => b[k].seq \in SeqsOf(b)
      BY <1>2, <2>1 DEF SeqsOf
    <3> QED
      BY <3>1, <1>2 DEF RingInv, NothingLostAboveDropped
  <2>5. CASE k = 0
    BY <2>2, <2>3, <2>5, <1>2, <1>3, <1>4 DEF RingInv, NothingLostAboveDropped
  <2>6. CASE k > 0
    <3>1. b[k].seq # seq + 1
      <4>1. k < Len(b) /\ Len(b) \in 1..Len(b) /\ k \in 1..Len(b)
        BY <2>1, <2>6, <1>2
      <4>2. b[k].seq < b[Len(b)].seq
        BY <4>1, <1>2 DEF Ordered
      <4>3. b[Len(b)].seq \in SeqsOf(b)
        BY <4>1 DEF SeqsOf
      <4> QED
        BY <4>2, <4>3, <1>2, <2>4, <2>6 DEF RingInv, NothingLostAboveDropped
    <3>2. ring'.dropped \in Nat /\ ring'.dropped <= seq
      BY <2>2, <2>4, <2>6, <3>1 DEF Larger, RingInv, NothingLostAboveDropped
    <3>3. SeqsOf(ring'.buf) \subseteq 1..(seq + 1)
      BY <2>2, <2>3, <1>2 DEF RingInv, NothingLostAboveDropped
    <3>4. ring'.dropped \notin SeqsOf(ring'.buf)
      BY <2>2, <2>3, <2>4, <2>6, <3>2, <1>2 DEF Larger, RingInv, NothingLostAboveDropped
    <3>5. ASSUME NEW s \in (ring'.dropped + 1)..(seq + 1)  PROVE s \in SeqsOf(ring'.buf)
      <4>1. s > ring.dropped /\ s > b[k].seq /\ s \in Nat
        BY <3>2, <3>5, <2>2, <2>4, <2>6 DEF Larger, RingInv
      <4>2. s \in SeqsOf(b)
        BY <4>1, <1>2 DEF RingInv, NothingLostAboveDropped
      <4> QED
        BY <4>1, <4>2, <2>2, <2>3
    <3> QED
      BY <2>2, <2>3, <3>2, <3>3, <3>4, <3>5, <1>3, <1>4 DEF RingInv, NothingLostAboveDropped
  <2> QED
    BY <2>1, <2>5, <2>6
<1> QED
  BY <1>5, <1>6

(* The ring's sequence bookkeeping is invariant: what it retains is in        *)
(* emission order, and everything above the highest dropped number is there.  *)
THEOREM RingInvariant == Spec => []RingInv
<1>1. Init => RingInv
  BY DEF Init, EmptyRing, RingInv, NothingLostAboveDropped, Ordered, SeqsOf
<1>2. RingInv /\ [Next]_vars => RingInv'
  <2> SUFFICES ASSUME RingInv, [Next]_vars
               PROVE  RingInv'
    OBVIOUS
  <2>1. CASE Next
    BY <2>1, EmitPreservesRingInv DEF Next
  <2>2. CASE UNCHANGED vars
    BY <2>2 DEF vars, RingInv, NothingLostAboveDropped
  <2> QED
    BY <2>1, <2>2
<1> QED
  BY <1>1, <1>2, PTL DEF Spec

(* The highest dropped number bounds the loss: everything emitted after it is  *)
(* still replayable, which is what the truncation test relies on.              *)
THEOREM RingBookkeeping == Spec => []NothingLostAboveDropped
<1>1. RingInv => NothingLostAboveDropped
  BY DEF RingInv
<1> QED
  BY <1>1, RingInvariant, PTL

-----------------------------------------------------------------------------
(* The events above a cursor are exactly those with a larger number. *)
LEMMA AboveIsExact ==
    ASSUME NEW b \in Seq(Event), Ordered(b), NEW last \in Nat
    PROVE  SeqsOf(Above(b, last)) = {s \in SeqsOf(b) : s > last}
<1> DEFINE K == {k \in 0..Len(b) : k = Len(b) \/ b[k + 1].seq > last}
           m == Min(K)
<1>1. Len(b) \in Nat /\ \A i \in 1..Len(b) : b[i].seq \in Nat
  BY SeqOfEvent
<1>2. K \in SUBSET Nat /\ Len(b) \in K
  BY <1>1
<1>3. m \in K /\ \A x \in K : m <= x
  BY <1>2, MinIsLeast
<1>4. m \in 0..Len(b) /\ (m = Len(b) \/ b[m + 1].seq > last)
  BY <1>3
<1>5. \A k \in 0..Len(b) : k < m => b[k + 1].seq <= last
  BY <1>1, <1>3, <1>4
<1>6. Above(b, last) = Without(b, m)
  BY DEF Above
<1> HIDE DEF m, K
<1>7. SeqsOf(Without(b, m)) = {s \in SeqsOf(b) : m > 0 => s > b[m].seq}
  BY <1>4, WithoutOrdered
<1>8. ASSUME NEW s \in SeqsOf(b)
      PROVE  (m > 0 => s > b[m].seq) <=> s > last
  <2>1. PICK i \in 1..Len(b) : s = b[i].seq
    BY <1>8 DEF SeqsOf
  <2>2. CASE i <= m
    <3>1. (i - 1) \in 0..Len(b) /\ i - 1 < m /\ (i - 1) + 1 = i
      BY <2>2, <1>4, <1>1
    <3>2. s <= last
      BY <3>1, <2>1, <1>5
    <3>3. m > 0 /\ m \in 1..Len(b) /\ (i = m \/ b[i].seq < b[m].seq)
      BY <2>2, <1>4, <1>1 DEF Ordered
    <3> QED
      BY <3>2, <3>3, <2>1, <1>1
  <2>3. CASE i > m
    <3>1. m + 1 \in 1..Len(b) /\ m # Len(b) /\ (i = m + 1 \/ b[m + 1].seq < b[i].seq)
      BY <2>3, <1>4, <1>1 DEF Ordered
    <3>2. s > last
      BY <3>1, <2>1, <1>4, <1>1
    <3>3. m > 0 => m \in 1..Len(b) /\ b[m].seq < b[i].seq
      BY <2>3, <1>4, <1>1 DEF Ordered
    <3> QED
      BY <3>2, <3>3, <2>1, <1>1
  <2> QED
    BY <2>2, <2>3, <1>4
<1> QED
  BY <1>6, <1>7, <1>8

LEMMA GapArithmetic ==
    ASSUME NEW S, NEW t \in Nat, NEW d \in Nat, d <= t, d \notin S,
           S \subseteq 1..t, (d + 1)..t \subseteq S
    PROVE  d > 0 <=> S # 1..t
<1>1. ASSUME d > 0  PROVE S # 1..t
  <2>1. d \in 1..t
    BY <1>1
  <2> QED
    BY <2>1
<1>2. ASSUME d = 0  PROVE S = 1..t
  <2>1. (d + 1)..t = 1..t
    BY <1>2
  <2> QED
    BY <2>1
<1> QED
  BY <1>1, <1>2

LEMMA RingInvImpliesReplayExact == RingInv => ReplayExact
<1> SUFFICES ASSUME RingInv, NEW last \in 0..(seq + 1)
             PROVE  LET env  == ReplayFrom(ring, last)
                        base == IF env.rebuild THEN 0 ELSE last
                    IN  env.truncated <=> SeqsOf(env.events) # (base + 1)..env.to
  BY DEF ReplayExact
<1> USE DEF RingInv, NothingLostAboveDropped
<1>1. last \in Nat
  OBVIOUS
<1>2. CASE last > ring.tail
  <2>3. ring.dropped > 0 <=> SeqsOf(ring.buf) # (0 + 1)..ring.tail
    BY GapArithmetic
  <2> QED
    BY <2>3, <1>2 DEF ReplayFrom, RebuildReplay, Envelope
<1>3. CASE ~(last > ring.tail)
  <2>1. SeqsOf(Above(ring.buf, last)) = {s \in SeqsOf(ring.buf) : s > last}
    BY <1>1, AboveIsExact
  <2> DEFINE got == SeqsOf(Above(ring.buf, last))
             cut == \/ ring.buf # <<>> /\ last + 1 < HeadSeq(ring)
                    \/ HasGapAfter(ring, last)
  <2>2. got \subseteq (last + 1)..ring.tail
    BY <2>1, <1>1
  <2>3. ASSUME ~cut  PROVE (last + 1)..ring.tail \subseteq got
    BY <2>1, <2>3, <1>1 DEF HasGapAfter
  <2>4. ASSUME cut  PROVE \E s \in (last + 1)..ring.tail : s \notin got
    <3>1. CASE HasGapAfter(ring, last)
      BY <3>1, <2>1, <1>1 DEF HasGapAfter
    <3>2. CASE ring.buf # <<>> /\ last + 1 < HeadSeq(ring)
      <4>1. 1 \in 1..Len(ring.buf) /\ HeadSeq(ring) = ring.buf[1].seq
        BY <3>2, EmptySeq DEF HeadSeq
      <4>2. ring.buf[1].seq \in SeqsOf(ring.buf)
        BY <4>1 DEF SeqsOf
      <4>3. \A s \in SeqsOf(ring.buf) : ring.buf[1].seq <= s
        BY <4>1, SeqOfEvent DEF SeqsOf, Ordered
      <4>4. last + 1 \in (last + 1)..ring.tail /\ last + 1 \notin got
        BY <4>1, <4>2, <4>3, <3>2, <2>1, <1>1
      <4> QED
        BY <4>4
    <3> QED
      BY <3>1, <3>2, <2>4
  <2> HIDE DEF got, cut
  <2>5. cut <=> got # (last + 1)..ring.tail
    BY <2>2, <2>3, <2>4
  <2> QED
    BY <2>5, <1>3 DEF got, cut, ReplayFrom, Envelope
<1> QED
  BY <1>2, <1>3

(* Whatever the limits and the sizes of the events, replay_from never leaves a *)
(* gap undeclared and never declares one that is not there.                    *)
THEOREM ReplayIsExact == Spec => []ReplayExact
  BY RingInvariant, RingInvImpliesReplayExact, PTL

-----------------------------------------------------------------------------
(* Only user_msg events begin a turn: a retained one is never newer than the  *)
(* start of the current turn, and what is retained at that number is one.     *)
StartsMarked(b, start) ==
    \A i \in 1..Len(b) : /\ b[i].user => b[i].seq <= start
                         /\ b[i].seq = start => b[i].user

RingIsRecord(r) ==
    r = [buf |-> r.buf, bytes |-> r.bytes, tail |-> r.tail, dropped |-> r.dropped]

TurnInv ==
    /\ RingInv
    /\ RingIsRecord(ring)
    /\ turnStart \in 0..seq
    /\ StartsMarked(ring.buf, turnStart)

(* An append retains the new event and some of the former ones, or only those. *)
LEMMA AppendRetains ==
    ASSUME NEW b \in Seq(Event), NEW bytes, NEW tail, NEW dropped, NEW e \in Event
    PROVE  LET r == [buf |-> b, bytes |-> bytes, tail |-> tail, dropped |-> dropped]
               c == RingAppend(r, e).buf
           IN  \A i \in 1..Len(c) : c[i] = e \/ \E j \in 1..Len(b) : c[i] = b[j]
<1> DEFINE r == [buf |-> b, bytes |-> bytes, tail |-> tail, dropped |-> dropped]
           a == Append(b, e)
           k == EvictCount(a, bytes + e.size)
           c == RingAppend(r, e).buf
<1>1. /\ a \in Seq(Event) /\ Len(a) = Len(b) + 1 /\ Len(b) \in Nat /\ a[Len(b) + 1] = e
      /\ \A i \in 1..Len(b) : a[i] = b[i]
  OBVIOUS
<1>2. c = b \/ c = Without(a, k)
  BY DEF RingAppend, Retain
<1>3. k \in 0..(Len(a) - 1)
  <2> HIDE DEF a
  <2>1. Len(a) > 0
    BY <1>1
  <2> QED
    BY <1>1, <2>1, EvictCountRange
<1> HIDE DEF a, k, c
<1>4. \A i \in 1..Len(a) : a[i] = e \/ \E j \in 1..Len(b) : a[i] = b[j]
  BY <1>1
<1>5. CASE c = Without(a, k)
  <2>1. k \in 0..Len(a)
    BY <1>1, <1>3
  <2>2. /\ Len(c) = Len(a) - k
        /\ \A i \in 1..(Len(a) - k) : c[i] = a[i + k]
    BY <1>1, <1>5, <2>1, WithoutShape
  <2>3. \A i \in 1..Len(c) : c[i] = a[i + k] /\ i + k \in 1..Len(a)
    BY <1>1, <2>1, <2>2
  <2> QED
    BY <1>4, <2>3 DEF c
<1>6. CASE c = b
  BY <1>6 DEF c
<1> QED
  BY <1>2, <1>5, <1>6

LEMMA EmitPreservesTurnInv ==
    ASSUME TurnInv, NEW size \in Sizes, NEW user \in BOOLEAN, Emit(size, user)
    PROVE  TurnInv'
<1> DEFINE e == [seq |-> seq + 1, size |-> size, user |-> user]
<1>1. RingInv'
  BY EmitPreservesRingInv DEF TurnInv
<1>2. e \in Event /\ seq \in Nat /\ turnStart \in 0..seq /\ ring.buf \in Seq(Event)
  BY SizesAssumption DEF Event, TurnInv, RingInv
<1>3. /\ seq' = seq + 1 /\ turnStart' = IF user THEN seq + 1 ELSE turnStart
      /\ ring' = RingAppend(ring, e)
  BY DEF Emit
<1>4. \A i \in 1..Len(ring'.buf) :
        ring'.buf[i] = e \/ \E j \in 1..Len(ring.buf) : ring'.buf[i] = ring.buf[j]
  <2>1. ring = [buf |-> ring.buf, bytes |-> ring.bytes, tail |-> ring.tail,
                dropped |-> ring.dropped]
    BY DEF TurnInv, RingIsRecord
  <2> HIDE DEF e
  <2> QED
    BY <1>2, <1>3, <2>1, AppendRetains
<1>5. \A j \in 1..Len(ring.buf) : ring.buf[j].seq \in 1..seq
  BY SeqOfEvent DEF TurnInv, RingInv, NothingLostAboveDropped, SeqsOf
<1>6. StartsMarked(ring.buf, turnStart)
  BY DEF TurnInv
<1>7. e.seq = seq + 1 /\ e.user = user
  OBVIOUS
<1> HIDE DEF e
<1>8. StartsMarked(ring.buf, turnStart)'
  <2> SUFFICES ASSUME NEW i \in 1..Len(ring'.buf)
               PROVE  /\ ring'.buf[i].user => ring'.buf[i].seq <= turnStart'
                      /\ ring'.buf[i].seq = turnStart' => ring'.buf[i].user
    BY DEF StartsMarked
  <2>1. CASE ring'.buf[i] = e
    BY <2>1, <1>2, <1>3, <1>7
  <2>2. CASE \E j \in 1..Len(ring.buf) : ring'.buf[i] = ring.buf[j]
    <3>1. PICK j \in 1..Len(ring.buf) : ring'.buf[i] = ring.buf[j]
      BY <2>2
    <3>2. /\ ring.buf[j].user => ring.buf[j].seq <= turnStart
          /\ ring.buf[j].seq = turnStart => ring.buf[j].user
      BY <1>6 DEF StartsMarked
    <3> QED
      BY <3>1, <3>2, <1>2, <1>3, <1>5
  <2> QED
    BY <2>1, <2>2, <1>4
<1>9. RingIsRecord(ring')
  BY <1>3 DEF RingAppend, Retain, RingIsRecord
<1> QED
  BY <1>1, <1>2, <1>3, <1>8, <1>9 DEF TurnInv, RingIsRecord

(* The retained starts of turns stay where the latest turn began.             *)
LEMMA TurnInvariant == Spec => []TurnInv
<1>1. Init => TurnInv
  BY DEF Init, EmptyRing, TurnInv, RingInv, RingIsRecord, NothingLostAboveDropped, Ordered,
         SeqsOf, StartsMarked
<1>2. TurnInv /\ [Next]_vars => TurnInv'
  <2>1. ASSUME TurnInv, Next PROVE TurnInv'
    BY <2>1, EmitPreservesTurnInv DEF Next
  <2>2. ASSUME TurnInv, UNCHANGED vars PROVE TurnInv'
    BY <2>2 DEF vars, TurnInv, RingInv, RingIsRecord, NothingLostAboveDropped, StartsMarked
  <2> QED
    BY <2>1, <2>2
<1> QED
  BY <1>1, <1>2, PTL DEF Spec

(* A finite set of positions has a last one, so Max is one. *)
LEMMA MaxIsGreatest ==
    ASSUME NEW n \in Nat, NEW S \in SUBSET (1..n), S # {}
    PROVE  Max(S) \in S /\ \A x \in S : x <= Max(S)
<1> DEFINE D == {n - x : x \in S}
<1>1. D \in SUBSET Nat /\ D # {}
  OBVIOUS
<1>2. Min(D) \in D /\ \A d \in D : Min(D) <= d
  BY <1>1, MinIsLeast
<1>3. PICK m \in S : Min(D) = n - m
  BY <1>2
<1>4. \A x \in S : m >= x
  <2> SUFFICES ASSUME NEW x \in S PROVE m >= x
    OBVIOUS
  <2>1. n - x \in D
    OBVIOUS
  <2>2. n - m <= n - x /\ m \in 1..n /\ x \in 1..n
    BY <1>2, <1>3, <2>1
  <2> QED
    BY <2>2
<1>5. \E y \in S : \A x \in S : y >= x
  BY <1>4
<1> QED
  BY <1>5 DEF Max

LEMMA TurnInvImpliesTurnReplayHonest == TurnInv => TurnReplayHonest
<1> SUFFICES ASSUME TurnInv PROVE TurnReplayHonest
  OBVIOUS
<1> DEFINE b == ring.buf
<1>1. /\ b \in Seq(Event) /\ Len(b) \in Nat /\ Ordered(b) /\ seq \in Nat
      /\ turnStart \in 0..seq /\ ring.tail = seq /\ ring.dropped \in Nat
      /\ SeqsOf(b) \subseteq 1..seq /\ (ring.dropped + 1)..seq \subseteq SeqsOf(b)
  BY DEF TurnInv, RingInv, NothingLostAboveDropped
<1>2. StartsMarked(b, turnStart)
  BY DEF TurnInv
<1>3. \A i \in 1..Len(b) : b[i].seq \in SeqsOf(b) /\ b[i].seq \in 1..seq
  BY <1>1 DEF SeqsOf
<1> HIDE DEF b
<1>4. turnStart # 0 /\ turnStart \notin SeqsOf(b) => ring.dropped >= turnStart
  BY <1>1
(* What follows the last start among those that the caller accepts. *)
<1>5. ASSUME NEW start \in {AnyUser, turnStart}, TurnStarts(ring, start) # {}
      PROVE  LET m == Max(TurnStarts(ring, start))
                 have == Without(b, m - 1)
             IN  /\ m \in 1..Len(b) /\ have # <<>> /\ have[1].seq = b[m].seq
                 /\ b[m].seq <= turnStart
                 /\ turnStart \in SeqsOf(b) => b[m].seq = turnStart
                 /\ SeqsOf(have) = {s \in SeqsOf(b) : s >= b[m].seq}
  <2> DEFINE m == Max(TurnStarts(ring, start))
             have == Without(b, m - 1)
  <2>1. TurnStarts(ring, start) \in SUBSET (1..Len(b))
    BY DEF TurnStarts, b
  <2>2. m \in TurnStarts(ring, start) /\ \A i \in TurnStarts(ring, start) : i <= m
    BY <1>1, <1>5, <2>1, MaxIsGreatest
  <2>3. m \in 1..Len(b) /\ b[m].user /\ b[m].seq <= turnStart
    BY <1>2, <2>2 DEF TurnStarts, StartsMarked, b
  <2>4. turnStart \in SeqsOf(b) => b[m].seq = turnStart
    <3> SUFFICES ASSUME turnStart \in SeqsOf(b) PROVE b[m].seq = turnStart
      OBVIOUS
    <3>1. PICK i \in 1..Len(b) : b[i].seq = turnStart
      BY DEF SeqsOf
    <3>2. i \in TurnStarts(ring, start)
      BY <1>2, <3>1 DEF TurnStarts, StartsMarked, b
    <3>3. i = m \/ b[i].seq < b[m].seq
      BY <1>1, <2>2, <2>3, <3>2 DEF Ordered
    <3> QED
      BY <1>1, <1>3, <2>3, <3>1, <3>3
  <2>5. m - 1 \in 0..Len(b)
    BY <1>1, <2>3
  <2> HIDE DEF m
  <2>6. /\ have \in Seq(Event) /\ Len(have) = Len(b) - (m - 1)
        /\ \A i \in 1..(Len(b) - (m - 1)) : have[i] = b[i + (m - 1)]
        /\ SeqsOf(have) = {s \in SeqsOf(b) : m - 1 > 0 => s > b[m - 1].seq}
    BY <1>1, <2>5, WithoutShape, WithoutOrdered
  <2> HIDE DEF have
  <2>7. have # <<>> /\ have[1] = b[m]
    <3>1. 1 \in 1..(Len(b) - (m - 1)) /\ 1 + (m - 1) = m
      BY <1>1, <2>3
    <3>2. Len(have) > 0
      BY <1>1, <2>3, <2>6
    <3> QED
      BY <2>6, <3>1, <3>2, EmptySeq
  <2>8. ASSUME NEW s \in SeqsOf(b)
        PROVE  (m - 1 > 0 => s > b[m - 1].seq) <=> s >= b[m].seq
    <3>1. PICK i \in 1..Len(b) : s = b[i].seq
      BY <2>8 DEF SeqsOf
    <3>2. CASE i < m
      <4>1. b[i].seq < b[m].seq /\ m - 1 > 0 /\ m - 1 \in 1..Len(b)
        BY <1>1, <2>3, <3>2 DEF Ordered
      <4>2. i = m - 1 \/ b[i].seq < b[m - 1].seq
        BY <1>1, <2>3, <3>2, <4>1 DEF Ordered
      <4> QED
        BY <1>3, <2>3, <3>1, <4>1, <4>2
    <3>3. CASE i >= m
      <4>1. i = m \/ b[m].seq < b[i].seq
        BY <1>1, <2>3, <3>3 DEF Ordered
      <4>2. m - 1 > 0 => m - 1 \in 1..Len(b) /\ b[m - 1].seq < b[i].seq
        BY <1>1, <2>3, <3>3 DEF Ordered
      <4> QED
        BY <1>3, <2>3, <3>1, <4>1, <4>2
    <3> QED
      BY <2>3, <3>2, <3>3
  <2>9. SeqsOf(have) = {s \in SeqsOf(b) : s >= b[m].seq}
    BY <2>6, <2>8
  <2> QED
    BY <2>3, <2>4, <2>7, <2>9 DEF m, have
<1>6. ASSUME NEW start \in {AnyUser, turnStart}, NEW env \in CurrentTurnReplay(ring, start),
             ~env.truncated
      PROVE  SeqsOf(env.events) = turnStart..env.to
  <2> DEFINE m == Max(TurnStarts(ring, start))
             have == Without(b, m - 1)
  <2>1. TurnStarts(ring, start) # {}
    BY <1>6 DEF CurrentTurnReplay, Envelope
  <2>2. env = Envelope(FALSE, ring.dropped >= have[1].seq, ring.tail, have)
    BY <1>6, <2>1 DEF CurrentTurnReplay, b
  <2>3. /\ m \in 1..Len(b) /\ have[1].seq = b[m].seq /\ b[m].seq <= turnStart
        /\ turnStart \in SeqsOf(b) => b[m].seq = turnStart
        /\ SeqsOf(have) = {s \in SeqsOf(b) : s >= b[m].seq}
    BY <1>5, <2>1
  <2> HIDE DEF m, have
  <2>4. /\ ~(ring.dropped >= b[m].seq) /\ env.events = have /\ env.to = seq
    BY <1>1, <1>6, <2>2, <2>3 DEF Envelope
  <2>5. b[m].seq \in 1..seq
    BY <1>3, <2>3
  <2>6. turnStart \in SeqsOf(b)
    BY <1>1, <1>4, <2>3, <2>4, <2>5
  <2>7. b[m].seq = turnStart /\ ring.dropped < turnStart
    BY <1>1, <2>3, <2>4, <2>5, <2>6
  <2>8. \A s \in turnStart..seq : s \in SeqsOf(b)
    BY <1>1, <2>7
  <2>9. \A s : s \in SeqsOf(have) <=> s \in turnStart..seq
    BY <1>1, <2>3, <2>7, <2>8
  <2>10. SeqsOf(have) = turnStart..seq
    BY <2>9
  <2> QED
    BY <2>4, <2>10
<1>7. ASSUME turnStart # 0, turnStart \notin SeqsOf(b)
      PROVE  \E env \in CurrentTurnReplay(ring, AnyUser) : env.truncated
  <2>1. CASE TurnStarts(ring, AnyUser) = {}
    <3>1. ring.tail # 0
      BY <1>1, <1>7
    <3>2. CurrentTurnReplay(ring, AnyUser) = {Envelope(FALSE, TRUE, ring.tail, <<>>)}
      BY <2>1, <3>1 DEF CurrentTurnReplay
    <3>3. Envelope(FALSE, TRUE, ring.tail, <<>>).truncated
      BY DEF Envelope
    <3> QED
      BY <3>2, <3>3
  <2>2. CASE TurnStarts(ring, AnyUser) # {}
    <3> DEFINE m == Max(TurnStarts(ring, AnyUser))
               have == Without(b, m - 1)
    <3>1. m \in 1..Len(b) /\ have[1].seq = b[m].seq /\ b[m].seq <= turnStart
      BY <1>5, <2>2
    <3>2. CurrentTurnReplay(ring, AnyUser)
            = {Envelope(FALSE, ring.dropped >= have[1].seq, ring.tail, have)}
      BY <2>2 DEF CurrentTurnReplay, b
    <3> HIDE DEF m, have
    <3>3. ring.dropped >= have[1].seq
      BY <1>1, <1>3, <1>4, <1>7, <3>1
    <3>4. Envelope(FALSE, ring.dropped >= have[1].seq, ring.tail, have).truncated
      BY <3>3 DEF Envelope
    <3> QED
      BY <3>2, <3>4
  <2> QED
    BY <2>1, <2>2
<1> QED
  BY <1>6, <1>7 DEF TurnReplayHonest, b

(* Whatever the limits and the sizes of the events, current_turn_replay never  *)
(* passes an older turn off as the current one.                                *)
THEOREM TurnReplayIsHonest == Spec => []TurnReplayHonest
  BY TurnInvariant, TurnInvImpliesTurnReplayHonest, PTL

----------------------------------------------------------------------------
(* The byte budget: the running byte count is the size of what is retained   *)
(* and neither limit is ever exceeded.  SizeOf is a recursive function, so   *)
(* the first part characterises it by its running totals, by the least       *)
(* counterexample in place of induction.                                     *)

\* The running totals of the sizes of a run of events.
Totals(b, g) ==
    /\ g \in [0..Len(b) -> Int]
    /\ g[0] = 0
    /\ \A i \in 1..Len(b) : g[i] = g[i - 1] + b[i].size

(* Every run of events has running totals. *)
LEMMA TotalsExist ==
    ASSUME NEW b \in Seq(Event)
    PROVE  \E g : Totals(b, g)
<1> DEFINE G(n) == {g \in [0..n -> Int] :
                      g[0] = 0 /\ \A i \in 1..n : g[i] = g[i - 1] + b[i].size}
           Bad == {n \in 0..Len(b) : G(n) = {}}
<1>1. Len(b) \in Nat /\ \A i \in 1..Len(b) : b[i].size \in Int
  BY SeqOfEvent
<1>2. SUFFICES Bad = {}
  <2>1. Len(b) \notin Bad
    BY <1>2
  <2>2. PICK g : g \in G(Len(b))
    BY <2>1, <1>1
  <2> QED
    BY <2>2 DEF Totals
<1>3. SUFFICES ASSUME Bad # {}  PROVE FALSE
  OBVIOUS
<1> DEFINE m == Min(Bad)
<1>4. Bad \in SUBSET Nat
  BY <1>1
<1>5. m \in Bad /\ \A n \in Bad : m <= n
  BY <1>3, <1>4, MinIsLeast
<1> HIDE DEF m
<1>6. m \in 0..Len(b) /\ G(m) = {}
  BY <1>5
<1>7. m # 0
  <2>1. [i \in 0..0 |-> 0] \in G(0)
    OBVIOUS
  <2> QED
    BY <2>1, <1>6
<1>8. m - 1 \in 0..Len(b) /\ m - 1 \notin Bad
  <2>1. m \in Nat /\ m <= Len(b) /\ m - 1 \in 0..Len(b)
    BY <1>1, <1>6, <1>7
  <2>2. ~(m <= m - 1)
    BY <2>1
  <2> HIDE DEF Bad
  <2> QED
    BY <2>1, <2>2, <1>5
<1>9. PICK g : g \in G(m - 1)
  BY <1>8
<1> DEFINE h == [i \in 0..m |-> IF i = m THEN g[m - 1] + b[m].size ELSE g[i]]
<1>10. h \in G(m)
  <2>1. g \in [0..(m - 1) -> Int] /\ g[0] = 0
        /\ \A i \in 1..(m - 1) : g[i] = g[i - 1] + b[i].size
    BY <1>9
  <2>2. m \in 1..Len(b) /\ m \in Int
    BY <1>1, <1>6, <1>7
  <2>3. h \in [0..m -> Int]
    BY <2>1, <2>2, <1>1
  <2>4. h[0] = 0
    BY <2>1, <2>2
  <2>5. \A i \in 1..m : h[i] = h[i - 1] + b[i].size
    BY <2>1, <2>2
  <2> QED
    BY <2>3, <2>4, <2>5
<1> QED
  BY <1>6, <1>10

(* Running totals are unique. *)
LEMMA TotalsAgree ==
    ASSUME NEW b \in Seq(Event), NEW g, Totals(b, g),
           NEW u, u[0] = 0, \A i \in 1..Len(b) : u[i] = u[i - 1] + b[i].size
    PROVE  \A i \in 0..Len(b) : u[i] = g[i]
<1> DEFINE Bad == {i \in 0..Len(b) : u[i] # g[i]}
           m == Min(Bad)
<1>1. Len(b) \in Nat
  OBVIOUS
<1>2. SUFFICES ASSUME Bad # {}  PROVE FALSE
  OBVIOUS
<1>3. Bad \in SUBSET Nat
  BY <1>1
<1>4. m \in Bad /\ \A n \in Bad : m <= n
  BY <1>2, <1>3, MinIsLeast
<1> HIDE DEF m
<1>5. m \in 0..Len(b) /\ u[m] # g[m] /\ m # 0
  BY <1>4 DEF Totals
<1>6. m - 1 \in 0..Len(b) /\ m - 1 \notin Bad /\ m \in 1..Len(b)
  BY <1>1, <1>4, <1>5
<1>7. u[m - 1] = g[m - 1]
  BY <1>6
<1> QED
  BY <1>5, <1>6, <1>7 DEF Totals

(* The size of a run is the last of its running totals. *)
LEMMA SizeIsTotal ==
    ASSUME NEW b \in Seq(Event), NEW g, Totals(b, g)
    PROVE  SizeOf(b) = g[Len(b)]
<1> DEFINE step(u) == [i \in 0..Len(b) |-> IF i = 0 THEN 0 ELSE u[i - 1] + b[i].size]
           up == CHOOSE u : u = step(u)
<1>1. Len(b) \in Nat
  OBVIOUS
<1>2. g = step(g)
  BY <1>1 DEF Totals
<1>3. up = step(up)
  BY <1>2
<1>4. SizeOf(b) = up[Len(b)]
  BY DEF SizeOf
<1> HIDE DEF up
<1>5. up[0] = 0 /\ \A i \in 1..Len(b) : up[i] = up[i - 1] + b[i].size
  BY <1>1, <1>3
<1>6. up[Len(b)] = g[Len(b)]
  BY <1>1, <1>5, TotalsAgree
<1> QED
  BY <1>4, <1>6

LEMMA SizeIsInt ==
    ASSUME NEW b \in Seq(Event)
    PROVE  SizeOf(b) \in Int
<1>1. PICK g : Totals(b, g)
  BY TotalsExist
<1>2. SizeOf(b) = g[Len(b)] /\ Len(b) \in 0..Len(b)
  BY <1>1, SizeIsTotal
<1> QED
  BY <1>1, <1>2 DEF Totals

LEMMA SizeOfAppend ==
    ASSUME NEW b \in Seq(Event), NEW e \in Event
    PROVE  /\ SizeOf(b) \in Int
           /\ SizeOf(Append(b, e)) = SizeOf(b) + e.size
<1>1. PICK g : Totals(b, g)
  BY TotalsExist
<1>2. SizeOf(b) = g[Len(b)]
  BY <1>1, SizeIsTotal
<1> DEFINE c == Append(b, e)
           h == [i \in 0..(Len(b) + 1) |-> IF i = Len(b) + 1 THEN g[Len(b)] + e.size ELSE g[i]]
<1>3. /\ c \in Seq(Event)
      /\ Len(c) = Len(b) + 1
      /\ Len(b) \in Nat
      /\ c[Len(b) + 1] = e
      /\ \A i \in 1..Len(b) : c[i] = b[i]
  OBVIOUS
<1> HIDE DEF c
<1>4. e.size \in Int
  BY DEF Event
<1>5. h \in [0..Len(c) -> Int] /\ h[0] = 0
  BY <1>1, <1>3, <1>4 DEF Totals
<1>6. \A i \in 1..Len(c) : h[i] = h[i - 1] + c[i].size
  BY <1>1, <1>3 DEF Totals
<1>7. Totals(c, h)
  BY <1>5, <1>6 DEF Totals
<1>8. SizeOf(c) = h[Len(c)]
  <2> HIDE DEF h
  <2> QED
    BY <1>3, <1>7, SizeIsTotal
<1>9. h[Len(c)] = g[Len(b)] + e.size
  BY <1>3
<1> QED
  BY <1>1, <1>2, <1>3, <1>8, <1>9 DEF c, Totals

(* Evicting k events takes their bytes off the total. *)
LEMMA SizeOfWithout ==
    ASSUME NEW b \in Seq(Event), NEW k \in 0..Len(b)
    PROVE  /\ SizeOf(SubSeq(b, 1, k)) \in Int
           /\ SizeOf(Without(b, k)) = SizeOf(b) - SizeOf(SubSeq(b, 1, k))
<1>1. PICK g : Totals(b, g)
  BY TotalsExist
<1>2. SizeOf(b) = g[Len(b)]
  BY <1>1, SizeIsTotal
<1>3. Len(b) \in Nat
  OBVIOUS
<1> DEFINE p == SubSeq(b, 1, k)
           w == Without(b, k)
           gp == [i \in 0..k |-> g[i]]
           gw == [i \in 0..(Len(b) - k) |-> g[i + k] - g[k]]
<1>4. /\ p \in Seq(Event)
      /\ Len(p) = k
      /\ \A i \in 1..k : p[i] = b[i]
  <2>1. \A i \in 1..k : b[i] \in Event
    BY ElementOfSeq, <1>3
  <2> QED
    BY <2>1, <1>3, SubSeqProperties
<1>5. /\ w \in Seq(Event)
      /\ Len(w) = Len(b) - k
      /\ \A i \in 1..(Len(b) - k) : w[i] = b[i + k]
  BY WithoutShape
<1> HIDE DEF p, w
<1>5b. k \in Nat /\ k <= Len(b) /\ (\A i \in 0..Len(b) : g[i] \in Int)
       /\ g[0] = 0 /\ \A i \in 1..Len(b) : g[i] = g[i - 1] + b[i].size
  BY <1>1, <1>3 DEF Totals
<1>6. Totals(p, gp)
  <2>1. gp \in [0..Len(p) -> Int] /\ gp[0] = 0
    BY <1>3, <1>4, <1>5b
  <2>2. \A i \in 1..Len(p) : gp[i] = gp[i - 1] + p[i].size
    BY <1>3, <1>4, <1>5b
  <2> QED
    BY <2>1, <2>2 DEF Totals
<1>7. Totals(w, gw)
  <2>1. gw \in [0..Len(w) -> Int] /\ gw[0] = 0
    <3>1. \A i \in 0..(Len(b) - k) : i + k \in 0..Len(b) /\ g[i + k] - g[k] \in Int
      BY <1>5b, <1>3
    <3>2. 0 \in 0..(Len(b) - k) /\ g[0 + k] - g[k] = 0
      BY <1>5b, <1>3
    <3> QED
      BY <3>1, <3>2, <1>5
  <2>2. ASSUME NEW i \in 1..Len(w)  PROVE gw[i] = gw[i - 1] + w[i].size
    <3>1. i + k \in 1..Len(b) /\ (i + k) - 1 = (i - 1) + k /\ (i - 1) + k \in 0..Len(b)
          /\ i \in 0..(Len(b) - k) /\ i - 1 \in 0..(Len(b) - k)
      BY <1>3, <1>5
    <3>2. g[i + k] = g[(i - 1) + k] + w[i].size
      BY <1>1, <1>5, <3>1 DEF Totals
    <3>3. g[i + k] \in Int /\ g[(i - 1) + k] \in Int /\ g[k] \in Int /\ w[i].size \in Int
      <4>1. w[i] \in Event
        BY <1>5, SeqOfEvent
      <4>2. w[i].size \in Int
        BY <4>1 DEF Event
      <4> QED
        BY <4>2, <3>1, <1>5b, <1>3
    <3> QED
      BY <3>1, <3>2, <3>3
  <2> QED
    BY <2>1, <2>2 DEF Totals
<1>8. SizeOf(p) = gp[Len(p)] /\ SizeOf(w) = gw[Len(w)]
  <2> HIDE DEF gp, gw
  <2> QED
    BY <1>4, <1>5, <1>6, <1>7, SizeIsTotal
<1>9. gp[Len(p)] = g[k] /\ gw[Len(w)] = g[Len(b)] - g[k] /\ g[k] \in Int
  BY <1>1, <1>3, <1>4, <1>5 DEF Totals
<1> QED
  BY <1>2, <1>8, <1>9 DEF p, w

-----------------------------------------------------------------------------
(* The inductive invariant: the byte count is exact, so the eviction loop's    *)
(* exit condition speaks about what the ring really retains.                   *)
BudgetInv == RingInv /\ RingTypeOK /\ WithinBudget

(* The loop stops with the ring inside both limits: either it saw that it was, *)
(* or one event is left and that one is no larger than the budget.             *)
LEMMA EvictionFits ==
    ASSUME NEW b \in Seq(Event), Len(b) > 0, b[Len(b)].size <= MaxBytes,
           NEW k, k = EvictCount(b, SizeOf(b))
    PROVE  /\ k \in 0..Len(b)
           /\ Len(Without(b, k)) <= MaxEvents
           /\ SizeOf(Without(b, k)) <= MaxBytes
<1>0. Len(b) \in Nat
  OBVIOUS
<1>1. /\ StopPoints(b, SizeOf(b)) \in SUBSET Nat
      /\ Len(b) - 1 \in StopPoints(b, SizeOf(b))
  BY <1>0 DEF StopPoints
<1>2. k \in StopPoints(b, SizeOf(b))
  BY <1>1, MinIsLeast DEF EvictCount
<1>3. /\ k \in 0..(Len(b) - 1)
      /\ k = Len(b) - 1 \/ ~Overfull(Without(b, k), SizeOf(b) - SizeOf(SubSeq(b, 1, k)))
  BY <1>2 DEF StopPoints
<1>4. k \in 0..Len(b)
  BY <1>0, <1>3
<1> DEFINE w == Without(b, k)
<1>5. w \in Seq(Event) /\ Len(w) = Len(b) - k /\ \A i \in 1..(Len(b) - k) : w[i] = b[i + k]
  BY <1>4, WithoutShape
<1>6. /\ SizeOf(w) = SizeOf(b) - SizeOf(SubSeq(b, 1, k))
      /\ SizeOf(w) \in Int
  <2>1. SizeOf(w) = SizeOf(b) - SizeOf(SubSeq(b, 1, k))
    BY <1>4, SizeOfWithout
  <2>2. SizeOf(w) \in Int
    <3> HIDE DEF w
    <3> QED
      BY <1>5, SizeIsInt
  <2> QED
    BY <2>1, <2>2
<1> HIDE DEF w
<1>7. CASE k = Len(b) - 1
  <2>1. Len(w) = 1 /\ w[1] = b[Len(b)]
    BY <1>0, <1>5, <1>7
  <2>2. SizeOf(w) = b[Len(b)].size
    <3> DEFINE g == [i \in 0..1 |-> IF i = 0 THEN 0 ELSE w[1].size]
    <3>1. w[1].size \in Int
      BY <1>5, <2>1, SeqOfEvent
    <3>2. Totals(w, g)
      BY <2>1, <3>1 DEF Totals
    <3>3. SizeOf(w) = g[Len(w)]
      <4> HIDE DEF g
      <4> QED
        BY <1>5, <3>2, SizeIsTotal
    <3> QED
      BY <3>3, <2>1
  <2> QED
    BY <2>1, <2>2, <1>4, RingAssumption DEF w
<1>8. CASE k # Len(b) - 1
  <2>1. ~(Len(w) > MaxEvents) /\ ~(SizeOf(w) > MaxBytes)
    BY <1>3, <1>6, <1>8 DEF Overfull, w
  <2>2. Len(w) \in Int
    BY <1>0, <1>4, <1>5
  <2> QED
    BY <2>1, <2>2, <1>4, <1>6, RingAssumption DEF w
<1> QED
  BY <1>7, <1>8

LEMMA EmitPreservesBudget ==
    ASSUME BudgetInv, NEW size \in Sizes, NEW user \in BOOLEAN, Emit(size, user)
    PROVE  BudgetInv'
<1>1. RingInv'
  BY EmitPreservesRingInv DEF BudgetInv
<1> DEFINE e == [seq |-> seq + 1, size |-> size, user |-> user]
           b == Append(ring.buf, e)
           k == EvictCount(b, ring.bytes + size)
<1>2. e \in Event /\ e.size = size /\ e.seq = seq + 1 /\ size \in Nat
  BY SizesAssumption DEF Event, BudgetInv, RingTypeOK
<1>3. ring' = RingAppend(ring, e) /\ seq' = seq + 1 /\ turnStart' \in 0..seq'
  BY DEF Emit, BudgetInv, RingTypeOK
<1>4. ring.buf \in Seq(Event) /\ ring.bytes = SizeOf(ring.buf) /\ ring.bytes \in Int
  BY DEF BudgetInv, RingTypeOK, WithinBudget
<1>5. /\ ring'.buf \in Seq(Event)
      /\ ring'.tail \in Nat
      /\ ring'.dropped \in Nat
      /\ seq' \in Nat
  BY <1>1 DEF RingInv
<1> HIDE DEF e
<1>6. CASE size > MaxBytes
  <2>1. ring' = [buf |-> ring.buf, bytes |-> ring.bytes,
                 tail |-> Larger(ring.tail, e.seq),
                 dropped |-> Larger(ring.dropped, e.seq)]
    BY <1>2, <1>3, <1>6 DEF RingAppend
  <2>2. RingTypeOK'
    BY <2>1, <1>3, <1>4, <1>5 DEF RingTypeOK
  <2>3. WithinBudget'
    BY <2>1 DEF WithinBudget, BudgetInv
  <2> QED
    BY <1>1, <2>2, <2>3 DEF BudgetInv
<1>7. CASE ~(size > MaxBytes)
  <2>1. /\ b \in Seq(Event)
        /\ Len(b) > 0
        /\ b[Len(b)] = e
        /\ SizeOf(b) = ring.bytes + size
    BY <1>2, <1>4, SizeOfAppend
  <2>2. k \in 0..Len(b) /\ Len(Without(b, k)) <= MaxEvents /\ SizeOf(Without(b, k)) <= MaxBytes
    <3>1. k = EvictCount(b, SizeOf(b)) /\ b[Len(b)].size <= MaxBytes
      BY <2>1, <1>2, <1>7, RingAssumption
    <3> HIDE DEF b, k
    <3> QED
      BY <2>1, <3>1, EvictionFits
  <2>3. ring' = [buf |-> Without(b, k),
                 bytes |-> (ring.bytes + size) - SizeOf(SubSeq(b, 1, k)),
                 tail |-> Larger(ring.tail, e.seq),
                 dropped |-> IF k = 0 THEN ring.dropped ELSE Larger(ring.dropped, b[k].seq)]
    BY <1>2, <1>3, <1>7 DEF RingAppend, Retain
  <2> HIDE DEF b, k
  <2>4. /\ SizeOf(SubSeq(b, 1, k)) \in Int
        /\ SizeOf(Without(b, k)) = SizeOf(b) - SizeOf(SubSeq(b, 1, k))
    BY <2>1, <2>2, SizeOfWithout
  <2>5. ring'.bytes \in Int /\ ring'.bytes = SizeOf(ring'.buf) /\ ring'.buf = Without(b, k)
    BY <2>1, <2>3, <2>4, <1>2, <1>4
  <2>6. RingTypeOK'
    <3>1. ring' \in [buf : Seq(Event), bytes : Int, tail : Nat, dropped : Nat]
      BY <2>3, <2>5, <1>5
    <3> QED
      BY <3>1, <1>3, <1>5 DEF RingTypeOK
  <2>7. WithinBudget'
    BY <2>2, <2>5 DEF WithinBudget
  <2> QED
    BY <1>1, <2>6, <2>7 DEF BudgetInv
<1> QED
  BY <1>6, <1>7

LEMMA BudgetInvariant == Spec => []BudgetInv
<1>1. Init => BudgetInv
  <2> SUFFICES ASSUME Init  PROVE BudgetInv
    OBVIOUS
  <2>1. RingInv
    BY DEF Init, EmptyRing, RingInv, NothingLostAboveDropped, Ordered, SeqsOf
  <2>2. RingTypeOK
    BY DEF Init, EmptyRing, RingTypeOK
  <2>3. SizeOf(<<>>) = 0
    <3> DEFINE g == [i \in 0..0 |-> 0]
    <3>1. Totals(<<>>, g) /\ <<>> \in Seq(Event) /\ Len(<<>>) = 0
      BY DEF Totals
    <3>2. SizeOf(<<>>) = g[Len(<<>>)]
      <4> HIDE DEF g
      <4> QED
        BY <3>1, SizeIsTotal
    <3> QED
      BY <3>1, <3>2
  <2>4. WithinBudget
    BY <2>3, RingAssumption DEF Init, EmptyRing, WithinBudget
  <2> QED
    BY <2>1, <2>2, <2>4 DEF BudgetInv
<1>2. BudgetInv /\ [Next]_vars => BudgetInv'
  <2> SUFFICES ASSUME BudgetInv, [Next]_vars
               PROVE  BudgetInv'
    OBVIOUS
  <2>1. CASE Next
    BY <2>1, EmitPreservesBudget DEF Next
  <2>2. CASE UNCHANGED vars
    BY <2>2 DEF vars, BudgetInv, RingInv, NothingLostAboveDropped, RingTypeOK, WithinBudget
  <2> QED
    BY <2>1, <2>2
<1> QED
  BY <1>1, <1>2, PTL DEF Spec

(* Every state of a session's ring has its type. *)
THEOREM RingTypeCorrect == Spec => []RingTypeOK
<1>1. BudgetInv => RingTypeOK
  BY DEF BudgetInv
<1> QED
  BY <1>1, BudgetInvariant, PTL

(* Neither the event limit nor the byte limit is ever exceeded, and the byte   *)
(* count never drifts, for every pair of limits and every mix of event sizes.  *)
THEOREM RingWithinBudget == Spec => []WithinBudget
<1>1. BudgetInv => WithinBudget
  BY DEF BudgetInv
<1> QED
  BY <1>1, BudgetInvariant, PTL

(* The ring's four promises together: typed, nothing lost above the declared   *)
(* gap, both limits kept, and every replay envelope honest about what it lacks. *)
THEOREM RingIsSafe == Spec => []RingSafe
<1>1. RingTypeOK /\ NothingLostAboveDropped /\ WithinBudget /\ ReplayExact => RingSafe
  BY DEF RingSafe
<1> QED
  BY <1>1, RingTypeCorrect, RingBookkeeping, RingWithinBudget, ReplayIsExact, PTL
=============================================================================
