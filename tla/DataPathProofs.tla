--------------------------- MODULE DataPathProofs ---------------------------
(***************************************************************************)
(* Proofs about three parts of the data path that share no state: the ring *)
(* of frames (Ring), the budget and report of a turn (Drive) and the       *)
(* reactor (Reactor).                                                      *)
(***************************************************************************)
EXTENDS Ring, Drive, Reactor, SequenceTheorems, TLAPS

-----------------------------------------------------------------------------
(***************************************************************************)
(* Slot ownership in the frame ring, for every capacity, slot count,       *)
(* cursor width and batch size that RingBounds admits.                     *)
(*                                                                         *)
(* SlotsOwned is not inductive: that a reservation stays clear of the      *)
(* committed slots rests on how far the producer's copy of head may lag    *)
(* (LagInv), and that the stream ends after its last slot rests on the     *)
(* producer being gone for good once the consumer has seen it go (EndInv). *)
(***************************************************************************)

Used == FrameSub(ringTail, ringHead)

Producers ==
    [buffered : BOOLEAN, at : {"idle", "reserve", "fill", "dropped"}, seen : FrameCursors,
     max : 1 .. MaxBatch, base : FrameCursors, len : 0 .. RingCapacity, written : 0 .. RingCapacity]
Consumers ==
    [at : {"idle", "check", "alive", "recheck", "read", "dropped"}, seen : FrameCursors,
     max : 1 .. MaxBatch, len : 0 .. MaxBatch,
     result : {"none", "empty", "disconnected", "batch"}]

RingTypesInv ==
    /\ ringHead \in FrameCursors /\ ringTail \in FrameCursors
    /\ ringSlots \in [0 .. RingSlots - 1 -> RingValues]
    /\ ringAlive \in [producer : BOOLEAN, consumer : BOOLEAN]
    /\ producer \in Producers /\ consumer \in Consumers
    /\ committed \in Seq(RingValues)

\* How far each side's copy of the other's cursor may lag, and what a batch in
\* progress may cover.
LagInv ==
    /\ FrameSub(ringHead, producer.seen) + Used <= RingCapacity
    /\ FrameSub(consumer.seen, ringHead) <= Used
    /\ producer.at = "fill" =>
         /\ producer.base = ringTail
         /\ FrameSub(ringTail, producer.seen) + producer.len <= RingCapacity
    /\ producer.at # "fill" => producer.len = 0
    /\ producer.written <= producer.len
    /\ consumer.at = "read" => consumer.len <= FrameSub(consumer.seen, ringHead)
    /\ consumer.at # "read" => consumer.len = 0

ContentsInv ==
    /\ Len(committed) = Used
    /\ \A i \in 1 .. Used : Slot(ringHead, i - 1) = committed[i]

EndInv ==
    /\ producer.at = "dropped" <=> ~ringAlive.producer
    /\ consumer.at = "recheck" => producer.at = "dropped"
    /\ consumer.result = "disconnected" => producer.at = "dropped" /\ Used = 0

RingInv == RingTypesInv /\ LagInv /\ ContentsInv /\ EndInv

-----------------------------------------------------------------------------
(* Cursor arithmetic. *)

\* No multiple of the slot count lies strictly between 0 and the slot count.
LEMMA MultiplesApart ==
    ASSUME NEW n \in Nat, NEW z \in Int, 0 < n * z PROVE n <= n * z
<1>1. CASE z <= 0
    <2>1. n * z <= 0 BY <1>1
    <2> QED BY <2>1
<1>2. CASE z >= 1 BY <1>2
<1> QED BY <1>1, <1>2

\* The sizes bounded() chooses are positive.
LEMMA SizesPositive ==
    ASSUME RingBounds
    PROVE RingSlots \in Nat \ {0} /\ RingCursors \in Nat \ {0} /\ RingSlots <= RingCursors
<1>1. PICK m \in 1 .. RingCursors : RingCursors = m * RingSlots BY DEF RingBounds
<1> QED BY <1>1 DEF RingBounds

\* sequence & mask picks a slot, and leaves a multiple of the slot count.
LEMMA IndexOf ==
    ASSUME RingBounds, NEW c \in FrameCursors
    PROVE /\ FrameIndex(c) \in 0 .. RingSlots - 1
          /\ \E q \in Int : c = RingSlots * q + FrameIndex(c)
<1>1. RingSlots \in Nat \ {0} /\ RingCursors \in Nat \ {0} BY SizesPositive
<1>2. /\ c \div RingSlots \in Int
      /\ FrameIndex(c) \in 0 .. RingSlots - 1
      /\ c = RingSlots * (c \div RingSlots) + FrameIndex(c)
    BY <1>1 DEF FrameIndex, FrameCursors
<1> QED BY <1>2

\* Cursors fewer than a whole ring apart never share a slot, also across the wrap.
LEMMA IndexesApart ==
    ASSUME RingBounds, NEW c \in FrameCursors, NEW j \in Nat, NEW k \in Nat,
           j < k, k < RingSlots
    PROVE FrameIndex(FrameAdd(c, j)) # FrameIndex(FrameAdd(c, k))
<1> DEFINE a == FrameAdd(c, j)
           b == FrameAdd(c, k)
<1>1. PICK m \in 1 .. RingCursors : RingCursors = m * RingSlots BY DEF RingBounds
<1>2. a \in FrameCursors /\ b \in FrameCursors
    BY SizesPositive DEF FrameCursors, FrameAdd
<1>3. b - a = k - j \/ b - a = k - j - RingCursors
    BY SizesPositive DEF FrameCursors, FrameAdd
<1> SUFFICES ASSUME FrameIndex(a) = FrameIndex(b) PROVE FALSE OBVIOUS
<1> HIDE DEF a, b
<1>4. PICK q \in Int : a = RingSlots * q + FrameIndex(a) BY <1>2, IndexOf
<1>5. PICK r \in Int : b = RingSlots * r + FrameIndex(b) BY <1>2, IndexOf
<1>6. FrameIndex(b) \in Int BY <1>2, IndexOf, SizesPositive
<1>7. b - a = RingSlots * (r - q) BY <1>4, <1>5, <1>6, SizesPositive
<1>8. CASE b - a = k - j
    BY <1>7, <1>8, MultiplesApart, SizesPositive
<1>9. CASE b - a = k - j - RingCursors
    <2>1. k - j = RingSlots * (r - q + m) BY <1>1, <1>7, <1>9, SizesPositive
    <2> QED BY <2>1, MultiplesApart, SizesPositive
<1> QED BY <1>3, <1>8, <1>9

\* How cursor sums and differences compose while they stay within the width.
LEMMA CursorSums ==
    ASSUME RingBounds, NEW c \in FrameCursors, NEW k \in Nat, k < RingCursors
    PROVE /\ FrameAdd(c, k) \in FrameCursors
          /\ FrameIndex(FrameAdd(c, k)) \in 0 .. RingSlots - 1
          /\ \A j \in Nat : j + k < RingCursors =>
                FrameAdd(FrameAdd(c, k), j) = FrameAdd(c, k + j)
<1>1. FrameAdd(c, k) \in FrameCursors BY SizesPositive DEF FrameAdd, FrameCursors
<1>2. FrameIndex(FrameAdd(c, k)) \in 0 .. RingSlots - 1 BY <1>1, IndexOf
<1>3. \A j \in Nat : j + k < RingCursors =>
          FrameAdd(FrameAdd(c, k), j) = FrameAdd(c, k + j)
    BY SizesPositive DEF FrameAdd, FrameCursors
<1> QED BY <1>1, <1>2, <1>3

\* Cursors count modulo their width, and a difference takes one to the other.
LEMMA CursorDifference ==
    ASSUME RingBounds, NEW a \in FrameCursors, NEW b \in FrameCursors
    PROVE /\ FrameSub(a, b) \in Nat /\ FrameSub(a, b) < RingCursors
          /\ FrameAdd(b, FrameSub(a, b)) = a
          /\ FrameSub(a, a) = 0
          /\ FrameSub(a, b) = 0 => a = b
BY SizesPositive DEF FrameAdd, FrameSub, FrameCursors

\* Moving either cursor moves the difference.
LEMMA CursorMoves ==
    ASSUME RingBounds, NEW a \in FrameCursors, NEW b \in FrameCursors, NEW k \in Nat
    PROVE /\ FrameSub(a, b) + k < RingCursors =>
                FrameSub(FrameAdd(a, k), b) = FrameSub(a, b) + k
          /\ k <= FrameSub(a, b) =>
                FrameSub(a, FrameAdd(b, k)) = FrameSub(a, b) - k
BY SizesPositive DEF FrameAdd, FrameSub, FrameCursors

\* Three cursors in order.
LEMMA CursorsInOrder ==
    ASSUME RingBounds, NEW a \in FrameCursors, NEW b \in FrameCursors, NEW c \in FrameCursors,
           FrameSub(b, a) + FrameSub(c, b) < RingCursors
    PROVE FrameSub(c, a) = FrameSub(b, a) + FrameSub(c, b)
BY SizesPositive DEF FrameSub, FrameCursors

\* A load returns something between what was seen and what is there.
LEMMA LoadBetween ==
    ASSUME RingBounds, NEW s \in FrameCursors, NEW c \in FrameCursors, NEW l \in Loads(s, c)
    PROVE /\ l \in FrameCursors
          /\ FrameSub(l, s) + FrameSub(c, l) = FrameSub(c, s)
BY SizesPositive DEF Loads, FrameSub, FrameCursors

-----------------------------------------------------------------------------
(* The producer thread. *)

\* Where the copies of the cursors lie.
LEMMA LagFacts ==
    ASSUME RingBounds, RingTypesInv, LagInv
    PROVE /\ producer.seen \in FrameCursors /\ consumer.seen \in FrameCursors
          /\ producer.base \in FrameCursors
          /\ Used \in Nat /\ Used <= RingCapacity /\ Used < RingCursors
          /\ FrameSub(ringTail, producer.seen) = FrameSub(ringHead, producer.seen) + Used
          /\ FrameSub(ringTail, producer.seen) <= RingCapacity
          /\ FrameSub(ringHead, producer.seen) \in Nat
          /\ FrameSub(consumer.seen, ringHead) \in Nat
          /\ ringTail = FrameAdd(ringHead, Used)
<1>1. /\ producer.seen \in FrameCursors /\ consumer.seen \in FrameCursors /\ producer.base \in FrameCursors
      /\ ringHead \in FrameCursors /\ ringTail \in FrameCursors
    BY DEF RingTypesInv, Producers, Consumers
<1>2. /\ Used \in Nat /\ FrameSub(ringHead, producer.seen) \in Nat
      /\ FrameSub(consumer.seen, ringHead) \in Nat
      /\ ringTail = FrameAdd(ringHead, Used)
    BY <1>1, CursorDifference DEF Used
<1>3. RingCapacity \in Nat /\ RingCapacity < RingCursors /\ RingCursors \in Nat
    BY DEF RingBounds
<1>4. FrameSub(ringHead, producer.seen) + Used <= RingCapacity BY DEF LagInv
<1>5. FrameSub(ringTail, producer.seen) = FrameSub(ringHead, producer.seen) + Used
    BY <1>1, <1>2, <1>3, <1>4, CursorsInOrder DEF Used
<1> QED BY <1>1, <1>2, <1>3, <1>4, <1>5

\* Steps that move no cursor and touch no slot leave what the slots hold alone.
LEMMA ContentsUntouched ==
    ASSUME ContentsInv, UNCHANGED <<ringHead, ringTail, ringSlots, committed>>
    PROVE ContentsInv'
BY DEF ContentsInv, Used, Slot

\* The invariant holds of an empty ring.
LEMMA InitRingInv ==
    ASSUME RingBounds PROVE RingInit => RingInv
<1> SUFFICES ASSUME RingInit PROVE RingInv OBVIOUS
<1>1. 0 \in FrameCursors /\ FrameSub(0, 0) = 0
    BY SizesPositive DEF FrameCursors, FrameSub
<1>2. RingTypesInv BY <1>1 DEF RingInit, RingTypesInv, Producers, Consumers, RingBounds
<1>3. LagInv BY <1>1 DEF RingInit, LagInv, Used, RingBounds
<1>4. ContentsInv BY <1>1 DEF RingInit, ContentsInv, Used
<1>5. EndInv BY DEF RingInit, EndInv
<1> QED BY <1>2, <1>3, <1>4, <1>5 DEF RingInv

\* A reservation begins with the producer's own cursor.
LEMMA ReserveBeginRing ==
    ASSUME RingBounds, RingInv, NEW max \in 1 .. MaxBatch, ReserveBegin(max)
    PROVE RingInv'
<1> USE DEF RingInv, ReserveBegin
<1>1. RingTypesInv' BY DEF RingTypesInv, Producers
<1>2. LagInv' BY DEF LagInv, RingTypesInv, Producers, Used
<1>3. ContentsInv' BY ContentsUntouched
<1>4. EndInv' BY DEF EndInv, RingTypesInv, Producers, Used
<1> QED BY <1>1, <1>2, <1>3, <1>4

\* A reservation against a copy h of head, however old, leaves the committed slots
\* out.
LEMMA ReservedRing ==
    ASSUME RingBounds, RingInv, producer.at = "reserve",
           NEW h \in FrameCursors, FrameSub(ringHead, h) + Used <= RingCapacity,
           FrameSub(ringTail, h) < RingCapacity,
           Reserved(h),
           UNCHANGED <<ringHead, ringTail, ringSlots, ringAlive, consumer, committed>>
    PROVE RingInv'
<1> DEFINE len == Least(ContiguousAvailable(h), producer.max)
<1>1. ringTail \in FrameCursors /\ producer.max \in Nat \ {0} /\ RingCapacity \in Nat
    BY DEF RingInv, RingTypesInv, Producers, RingBounds
<1>2. FrameSub(ringTail, h) \in Nat /\ RingSlots - FrameIndex(ringTail) \in Nat
    BY <1>1, CursorDifference, IndexOf, SizesPositive
<1>3. len \in 0 .. RingCapacity /\ FrameSub(ringTail, h) + len <= RingCapacity
    BY <1>1, <1>2 DEF ContiguousAvailable, Least
<1>4. producer' = [producer EXCEPT !.at = "fill", !.seen = h, !.base = ringTail, !.written = 0,
                                   !.len = len]
    BY DEF Reserved
<1> HIDE DEF len
<1>5. producer' \in Producers
    <2>1. producer \in Producers /\ 0 \in 0 .. RingCapacity
        BY <1>1 DEF RingInv, RingTypesInv
    <2> QED BY <1>1, <1>3, <1>4, <2>1 DEF Producers
<1>6. RingTypesInv' BY <1>5 DEF RingInv, RingTypesInv
<1>7. LagInv' BY <1>3, <1>4 DEF RingInv, RingTypesInv, Producers, LagInv, Used
<1>8. ContentsInv' BY ContentsUntouched DEF RingInv
<1>9. EndInv' BY <1>4 DEF RingInv, EndInv, RingTypesInv, Producers, Used
<1> QED BY <1>6, <1>7, <1>8, <1>9 DEF RingInv

\* A reservation is given only slots that were free when the head was loaded.
LEMMA ReserveCheckRing ==
    ASSUME RingBounds, RingInv, ReserveCheck PROVE RingInv'
<1>1. /\ ringHead \in FrameCursors /\ ringTail \in FrameCursors /\ producer.seen \in FrameCursors
      /\ producer.at = "reserve"
      /\ UNCHANGED <<ringHead, ringTail, ringSlots, ringAlive, consumer, committed>>
    BY DEF ReserveCheck, RingInv, RingTypesInv, Producers
<1>2. ASSUME NEW h \in FrameCursors, FrameSub(ringHead, h) + Used <= RingCapacity,
             FrameSub(FrameAdd(ringTail, 1), h) <= RingCapacity, Reserved(h)
      PROVE RingInv'
    <2>1. Used \in Nat BY LagFacts DEF RingInv
    <2>2. FrameSub(ringHead, h) \in Nat BY <1>1, CursorDifference
    <2>3. FrameSub(ringTail, h) = FrameSub(ringHead, h) + Used
        <3>1. FrameSub(ringHead, h) + Used < RingCursors
            BY <1>2, <2>1, <2>2 DEF RingBounds
        <3> QED BY <1>1, <1>2, <3>1, CursorsInOrder DEF Used
    <2>4. FrameSub(FrameAdd(ringTail, 1), h) = FrameSub(ringTail, h) + 1
        BY <1>1, <1>2, <2>1, <2>2, <2>3, CursorMoves DEF RingBounds
    <2>5. FrameSub(ringTail, h) < RingCapacity
        BY <1>2, <2>1, <2>2, <2>3, <2>4 DEF RingBounds
    <2> QED BY <1>1, <1>2, <2>5, ReservedRing
<1>3. CASE Reserved(producer.seen)
           /\ FrameSub(FrameAdd(ringTail, 1), producer.seen) <= RingCapacity
    BY <1>1, <1>2, <1>3 DEF RingInv, LagInv
<1>4. ASSUME NEW h \in Loads(producer.seen, ringHead)
      PROVE h \in FrameCursors /\ FrameSub(ringHead, h) + Used <= RingCapacity
    <2>1. /\ h \in FrameCursors
          /\ FrameSub(h, producer.seen) + FrameSub(ringHead, h)
                = FrameSub(ringHead, producer.seen)
        BY <1>1, LoadBetween
    <2>2. FrameSub(h, producer.seen) \in Nat /\ FrameSub(ringHead, h) \in Nat
        BY <1>1, <2>1, CursorDifference
    <2>3. Used \in Nat /\ FrameSub(ringHead, producer.seen) + Used <= RingCapacity
        BY LagFacts DEF RingInv, LagInv
    <2> QED BY <2>1, <2>2, <2>3 DEF RingBounds
<1>5. ASSUME NEW h \in Loads(producer.seen, ringHead), Reserved(h),
             ~(FrameSub(FrameAdd(ringTail, 1), h) > RingCapacity)
      PROVE RingInv'
    <2>1. FrameSub(FrameAdd(ringTail, 1), h) \in Nat
        <3>1. FrameAdd(ringTail, 1) \in FrameCursors BY <1>1, CursorSums DEF RingBounds
        <3> QED BY <1>4, <3>1, CursorDifference
    <2> QED BY <1>2, <1>4, <1>5, <2>1 DEF RingBounds
<1>6. ASSUME NEW h \in Loads(producer.seen, ringHead),
             producer' = [producer EXCEPT !.at = "idle", !.seen = h]
      PROVE RingInv'
    <2>1. h \in FrameCursors /\ FrameSub(ringHead, h) + Used <= RingCapacity BY <1>4
    <2>2. RingTypesInv' BY <1>1, <1>6, <2>1 DEF RingInv, RingTypesInv, Producers
    <2>3. LagInv' BY <1>1, <1>6, <2>1 DEF RingInv, RingTypesInv, Producers, LagInv, Used
    <2>4. ContentsInv' BY <1>1, ContentsUntouched DEF RingInv
    <2>5. EndInv' BY <1>1, <1>6 DEF RingInv, EndInv, RingTypesInv, Producers, Used
    <2> QED BY <2>2, <2>3, <2>4, <2>5 DEF RingInv
<1> QED BY <1>3, <1>5, <1>6 DEF ReserveCheck

\* A place the producer may write lies behind the committed slots, in the same lap.
LEMMA ReservedPlaces ==
    ASSUME RingBounds, RingInv, producer.at = "fill", NEW w \in Nat, w <= producer.len
    PROVE /\ producer.base = ringTail /\ Used + w <= RingCapacity
          /\ FrameAdd(producer.base, w) = FrameAdd(ringHead, Used + w)
          /\ FrameAdd(producer.base, w) \in FrameCursors
<1>1. /\ ringHead \in FrameCursors /\ ringTail \in FrameCursors /\ producer.len \in Nat
      /\ RingCapacity \in Nat /\ RingCapacity < RingCursors /\ RingCursors \in Nat
    BY DEF RingInv, RingTypesInv, Producers, RingBounds
<1>2. /\ Used \in Nat /\ Used < RingCursors
      /\ FrameSub(ringTail, producer.seen) = FrameSub(ringHead, producer.seen) + Used
      /\ FrameSub(ringHead, producer.seen) \in Nat
      /\ ringTail = FrameAdd(ringHead, Used)
    BY LagFacts DEF RingInv
<1>3. /\ producer.base = ringTail
      /\ FrameSub(ringTail, producer.seen) + producer.len <= RingCapacity
    BY DEF RingInv, LagInv
<1>4. Used + w <= RingCapacity BY <1>1, <1>2, <1>3
<1>5. FrameAdd(FrameAdd(ringHead, Used), w) = FrameAdd(ringHead, Used + w)
    BY <1>1, <1>2, <1>4, CursorSums
<1>6. FrameAdd(ringTail, w) \in FrameCursors BY <1>1, <1>2, <1>4, CursorSums
<1> QED BY <1>2, <1>3, <1>4, <1>5, <1>6

\* A reserved slot holds no committed value when it is filled.
LEMMA WriteSlotRing ==
    ASSUME RingBounds, RingInv, NEW v \in RingValues, WriteSlot(v) PROVE RingInv'
<1> DEFINE w == producer.written
           place == FrameIndex(FrameAdd(producer.base, w))
<1>1. /\ producer.at = "fill" /\ w \in Nat /\ w < producer.len /\ producer.len \in Nat
      /\ producer.len <= RingCapacity /\ ringHead \in FrameCursors
      /\ RingCapacity \in Nat /\ RingCapacity <= RingSlots /\ RingSlots \in Nat
      /\ ringSlots \in [0 .. RingSlots - 1 -> RingValues]
    BY DEF WriteSlot, RingInv, RingTypesInv, Producers, RingBounds
<1>2. /\ producer' = [producer EXCEPT !.written = w + 1]
      /\ ringSlots' = [ringSlots EXCEPT ![place] = v]
      /\ UNCHANGED <<ringHead, ringTail, ringAlive, consumer, committed>>
    BY DEF WriteSlot
<1>3. /\ Used \in Nat /\ Used + w + 1 <= RingCapacity
      /\ place = FrameIndex(FrameAdd(ringHead, Used + w))
      /\ place \in 0 .. RingSlots - 1
    <2>1. Used \in Nat BY LagFacts DEF RingInv
    <2>2. w + 1 \in Nat /\ w + 1 <= producer.len BY <1>1
    <2>3. Used + (w + 1) <= RingCapacity BY <1>1, <2>2, ReservedPlaces
    <2>4. /\ FrameAdd(producer.base, w) = FrameAdd(ringHead, Used + w)
          /\ FrameAdd(producer.base, w) \in FrameCursors
        BY <1>1, ReservedPlaces
    <2>5. place \in 0 .. RingSlots - 1 BY <2>4, IndexOf
    <2> QED BY <1>1, <2>1, <2>3, <2>4, <2>5
<1> HIDE DEF w, place
<1>4. ASSUME NEW i \in 1 .. Used
      PROVE Slot(ringHead, i - 1)' = Slot(ringHead, i - 1)
    <2>1. i - 1 \in Nat /\ i - 1 < Used + w /\ Used + w < RingSlots /\ Used + w \in Nat
        BY <1>1, <1>3
    <2>2. FrameIndex(FrameAdd(ringHead, i - 1)) # place
        BY <1>1, <1>3, <2>1, IndexesApart
    <2>3. FrameIndex(FrameAdd(ringHead, i - 1)) \in 0 .. RingSlots - 1
        BY <1>1, <2>1, CursorSums, SizesPositive
    <2> QED BY <1>1, <1>2, <2>2, <2>3 DEF Slot
<1>5. producer' \in Producers
    <2>1. w + 1 \in 0 .. RingCapacity BY <1>1
    <2> QED BY <1>2, <2>1 DEF RingInv, RingTypesInv, Producers
<1>6. ringSlots' \in [0 .. RingSlots - 1 -> RingValues] BY <1>1, <1>2
<1>7. RingTypesInv' BY <1>2, <1>5, <1>6 DEF RingInv, RingTypesInv
<1>8. LagInv'
    BY <1>1, <1>2 DEF RingInv, RingTypesInv, Producers, LagInv, Used, w
<1>9. ContentsInv'
    <2>1. Used' = Used /\ Len(committed') = Used /\ UNCHANGED <<ringHead, committed>>
        BY <1>2 DEF Used, RingInv, ContentsInv
    <2> QED BY <1>4, <2>1 DEF RingInv, ContentsInv
<1>10. EndInv' BY <1>1, <1>2 DEF RingInv, EndInv, RingTypesInv, Producers, Used
<1> QED BY <1>7, <1>8, <1>9, <1>10 DEF RingInv

\* The release store of tail appends what the first n reserved slots hold.
LEMMA PublishRing ==
    ASSUME RingBounds, RingInv, producer.at = "fill", NEW n \in Nat, n <= producer.len,
           Publish(n), UNCHANGED <<ringHead, ringSlots, ringAlive, consumer>>
    PROVE RingInv'
<1> DEFINE new == [i \in 1 .. n |-> Slot(producer.base, i - 1)]
<1>1. /\ ringHead \in FrameCursors /\ ringTail \in FrameCursors /\ RingCapacity \in Nat
      /\ RingCapacity < RingCursors /\ RingCapacity <= RingSlots
      /\ RingCursors \in Nat /\ RingSlots \in Nat
      /\ ringSlots \in [0 .. RingSlots - 1 -> RingValues] /\ committed \in Seq(RingValues)
      /\ producer \in Producers /\ producer.len \in Nat
    BY DEF RingInv, RingTypesInv, Producers, RingBounds
<1>2. Used \in Nat /\ Used < RingCursors /\ ringTail = FrameAdd(ringHead, Used)
    BY LagFacts DEF RingInv
<1>3. /\ producer.base = ringTail /\ Used + n <= RingCapacity
      /\ FrameAdd(producer.base, n) = FrameAdd(ringHead, Used + n)
      /\ FrameAdd(producer.base, n) \in FrameCursors
    BY ReservedPlaces
<1>4. ringTail' = FrameAdd(ringTail, n) /\ ringTail' \in FrameCursors
    <2>1. n = 0 => FrameAdd(ringTail, n) = ringTail
        BY <1>1, SizesPositive DEF FrameAdd, FrameCursors
    <2> QED BY <1>3, <2>1 DEF Publish
<1>5. Used' = Used + n
    <2>1. FrameSub(FrameAdd(ringTail, n), ringHead) = FrameSub(ringTail, ringHead) + n
        BY <1>1, <1>2, <1>3, CursorMoves DEF Used
    <2> QED BY <1>4, <2>1 DEF Used
<1>6. ASSUME NEW j \in 0 .. n - 1
      PROVE /\ Slot(producer.base, j) = Slot(ringHead, Used + j)
            /\ Slot(producer.base, j) \in RingValues
    <2>1. /\ FrameAdd(producer.base, j) = FrameAdd(ringHead, Used + j)
          /\ FrameAdd(producer.base, j) \in FrameCursors
        BY <1>1, ReservedPlaces
    <2>2. FrameIndex(FrameAdd(producer.base, j)) \in 0 .. RingSlots - 1 BY <2>1, IndexOf
    <2> QED BY <1>1, <2>1, <2>2 DEF Slot
<1>7. new \in Seq(RingValues) /\ Len(new) = n
    <2>1. \A i \in 1 .. n : Slot(producer.base, i - 1) \in RingValues BY <1>6
    <2> QED BY <2>1
<1>8. committed' = committed \o new BY DEF Publish
<1>9. committed' \in Seq(RingValues) BY <1>1, <1>7, <1>8
<1>10. producer' = [producer EXCEPT !.at = "idle", !.base = 0, !.len = 0, !.written = 0]
    BY DEF Publish
<1>11. producer' \in Producers
    <2>1. 0 \in FrameCursors /\ 0 \in 0 .. RingCapacity BY <1>1, SizesPositive DEF FrameCursors
    <2> QED BY <1>1, <1>10, <2>1 DEF Producers
<1>12. RingTypesInv' BY <1>4, <1>9, <1>11 DEF RingInv, RingTypesInv
<1>13. LagInv'
    <2>1. /\ producer.seen \in FrameCursors
          /\ FrameSub(ringTail, producer.seen) + producer.len <= RingCapacity
          /\ FrameSub(ringTail, producer.seen) = FrameSub(ringHead, producer.seen) + Used
          /\ FrameSub(ringHead, producer.seen) \in Nat
          /\ FrameSub(consumer.seen, ringHead) \in Nat
          /\ FrameSub(consumer.seen, ringHead) <= Used
        BY LagFacts DEF RingInv, LagInv
    <2>2. producer'.seen = producer.seen /\ producer'.len = 0 /\ producer'.written = 0
          /\ producer'.at = "idle"
        BY <1>1, <1>10 DEF Producers
    <2>3. FrameSub(ringHead, producer.seen) + (Used + n) <= RingCapacity
        BY <1>1, <1>2, <2>1
    <2>4. FrameSub(consumer.seen, ringHead) <= Used + n BY <1>2, <2>1
    <2> QED BY <1>5, <2>2, <2>3, <2>4 DEF RingInv, LagInv
<1>14. ContentsInv'
    <2>1. Len(committed) = Used BY DEF RingInv, ContentsInv
    <2>2. Len(committed') = Used + n
        <3> HIDE DEF new
        <3> QED BY <1>1, <1>7, <1>8, <2>1, ConcatProperties
    <2>3. ASSUME NEW i \in 1 .. Used + n PROVE Slot(ringHead, i - 1) = committed'[i]
        <3>1. CASE i <= Used
            <4>1. committed'[i] = committed[i]
                <5> HIDE DEF new
                <5> QED BY <1>1, <1>2, <1>7, <1>8, <2>1, <3>1
            <4> QED BY <1>2, <3>1, <4>1 DEF RingInv, ContentsInv
        <3>2. CASE i > Used
            <4>1. i - Used \in 1 .. n /\ i - Used - 1 \in 0 .. n - 1 /\ Used + (i - Used - 1) = i - 1
                BY <1>2, <3>2
            <4>2. committed'[i] = new[i - Used]
                <5> HIDE DEF new
                <5> QED BY SMTT(60), <1>1, <1>2, <1>7, <1>8, <2>1, <3>2
            <4>3. new[i - Used] = Slot(producer.base, i - Used - 1) BY <4>1
            <4> QED BY <1>6, <4>1, <4>2, <4>3
        <3> QED BY <1>2, <3>1, <3>2
    <2>4. \A i \in 1 .. Used + n : Slot(ringHead, i - 1)' = Slot(ringHead, i - 1) BY DEF Slot
    <2> QED BY <1>5, <2>2, <2>3, <2>4 DEF ContentsInv
<1>15. EndInv'
    <2>1. ringAlive.producer /\ consumer.at # "recheck" /\ consumer.result # "disconnected"
        BY DEF RingInv, EndInv
    <2>2. producer'.at = "idle" BY <1>1, <1>10 DEF Producers
    <2> QED BY <2>1, <2>2 DEF EndInv
<1> QED BY <1>12, <1>13, <1>14, <1>15 DEF RingInv

\* The producer goes without taking back what it committed.
LEMMA DropProducerRing ==
    ASSUME RingBounds, RingInv, DropProducer PROVE RingInv'
<1> USE DEF RingInv, DropProducer
<1>1. RingTypesInv' BY DEF RingTypesInv, Producers
<1>2. LagInv' BY DEF LagInv, RingTypesInv, Producers, Used
<1>3. ContentsInv' BY ContentsUntouched
<1>4. EndInv' BY DEF EndInv, RingTypesInv, Producers, Used
<1> QED BY <1>1, <1>2, <1>3, <1>4

-----------------------------------------------------------------------------
(* The consumer thread. *)

\* A batch begins with the consumer's own cursor.
LEMMA ReadBeginRing ==
    ASSUME RingBounds, RingInv, NEW max \in 1 .. MaxBatch, ReadBegin(max) PROVE RingInv'
<1> USE DEF RingInv, ReadBegin
<1>1. RingTypesInv' BY DEF RingTypesInv, Consumers
<1>2. LagInv' BY DEF LagInv, RingTypesInv, Consumers, Used
<1>3. ContentsInv' BY ContentsUntouched
<1>4. EndInv' BY DEF EndInv, RingTypesInv, Consumers, Used
<1> QED BY <1>1, <1>2, <1>3, <1>4

\* A batch borrowed with a copy t of tail covers committed slots only.
LEMMA BorrowRing ==
    ASSUME RingBounds, RingInv, NEW t \in FrameCursors, FrameSub(t, ringHead) <= Used,
           Borrow(t), UNCHANGED <<ringHead, ringTail, ringSlots, ringAlive, producer, committed>>
    PROVE RingInv'
<1> DEFINE len == Least(Least(FrameSub(t, ringHead), RingSlots - FrameIndex(ringHead)), consumer.max)
<1>1. ringHead \in FrameCursors /\ consumer \in Consumers /\ consumer.max \in 1 .. MaxBatch /\ MaxBatch \in Nat
    BY DEF RingInv, RingTypesInv, Consumers, RingBounds
<1>2. FrameSub(t, ringHead) \in Nat /\ RingSlots - FrameIndex(ringHead) \in Nat
    BY <1>1, CursorDifference, IndexOf, SizesPositive
<1>3. len \in 0 .. MaxBatch /\ len <= FrameSub(t, ringHead)
    BY <1>1, <1>2 DEF Least
<1>4. consumer' = [consumer EXCEPT !.at = "read", !.seen = t, !.result = "batch", !.len = len]
    BY DEF Borrow
<1> HIDE DEF len
<1>5. /\ consumer' \in Consumers /\ consumer'.at = "read" /\ consumer'.seen = t
      /\ consumer'.result = "batch" /\ consumer'.len = len
    BY <1>1, <1>3, <1>4 DEF Consumers
<1>6. RingTypesInv' BY <1>5 DEF RingInv, RingTypesInv
<1>7. LagInv' BY <1>3, <1>5 DEF RingInv, LagInv, Used
<1>8. ContentsInv' BY ContentsUntouched DEF RingInv
<1>9. EndInv' BY <1>5 DEF RingInv, EndInv
<1> QED BY <1>6, <1>7, <1>8, <1>9 DEF RingInv

\* A read that ends, or looks again, with a copy t of tail.
LEMMA LookedRing ==
    ASSUME RingBounds, RingInv, NEW t \in FrameCursors, FrameSub(t, ringHead) <= Used,
           NEW at \in {"idle", "alive", "recheck"},
           NEW result \in {"none", "empty", "disconnected", "batch"},
           consumer.at # "read",
           consumer' = [consumer EXCEPT !.at = at, !.seen = t, !.result = result],
           at = "recheck" => ~ringAlive.producer,
           result = "disconnected" => producer.at = "dropped" /\ Used = 0,
           UNCHANGED <<ringHead, ringTail, ringSlots, ringAlive, producer, committed>>
    PROVE RingInv'
<1>1. /\ consumer' \in Consumers /\ consumer'.at = at /\ consumer'.seen = t
      /\ consumer'.result = result /\ consumer'.len = consumer.len
    BY DEF RingInv, RingTypesInv, Consumers
<1>2. RingTypesInv' BY <1>1 DEF RingInv, RingTypesInv
<1>3. LagInv' BY <1>1 DEF RingInv, LagInv, Used
<1>4. ContentsInv' BY ContentsUntouched DEF RingInv
<1>5. EndInv' BY <1>1 DEF RingInv, EndInv, Used
<1> QED BY <1>2, <1>3, <1>4, <1>5 DEF RingInv

\* A batch is given only slots that were committed when the tail was loaded.
LEMMA ReadCheckRing ==
    ASSUME RingBounds, RingInv, ReadCheck PROVE RingInv'
<1>1. /\ ringHead \in FrameCursors /\ ringTail \in FrameCursors /\ consumer \in Consumers
      /\ consumer.seen \in FrameCursors /\ Used \in Nat
      /\ FrameSub(consumer.seen, ringHead) <= Used
      /\ UNCHANGED <<ringHead, ringTail, ringSlots, ringAlive, producer, committed>>
    BY LagFacts DEF ReadCheck, RingInv, RingTypesInv, LagInv
<1>2. ASSUME NEW t \in Loads(consumer.seen, ringTail), consumer.seen = ringHead
      PROVE t \in FrameCursors /\ FrameSub(t, ringHead) <= Used
    BY <1>1, <1>2 DEF Loads, Used
<1>3. CASE consumer.at = "check" /\ Borrow(consumer.seen)
    BY <1>1, <1>3, BorrowRing
<1>4. CASE /\ consumer.at = "check" /\ consumer.seen = ringHead
           /\ \E t \in Loads(consumer.seen, ringTail) :
                IF t # ringHead THEN Borrow(t)
                ELSE consumer' = [consumer EXCEPT !.at = "alive", !.seen = t]
    <2>1. PICK t \in Loads(consumer.seen, ringTail) :
            IF t # ringHead THEN Borrow(t)
            ELSE consumer' = [consumer EXCEPT !.at = "alive", !.seen = t]
        BY <1>4
    <2>2. t \in FrameCursors /\ FrameSub(t, ringHead) <= Used BY <1>2, <1>4
    <2>3. CASE Borrow(t) BY <1>1, <2>2, <2>3, BorrowRing
    <2>4. CASE consumer' = [consumer EXCEPT !.at = "alive", !.seen = t]
        <3>1. /\ consumer' = [consumer EXCEPT !.at = "alive", !.seen = t, !.result = consumer.result]
              /\ consumer.result \in {"none", "empty", "disconnected", "batch"}
            BY <1>1, <2>4 DEF Consumers
        <3>2. consumer.result = "disconnected" => producer.at = "dropped" /\ Used = 0
            BY DEF RingInv, EndInv
        <3> QED BY <1>1, <1>4, <2>2, <3>1, <3>2, LookedRing
    <2> QED BY <2>1, <2>3, <2>4
<1>5. CASE consumer.at = "alive" /\ ReadStops("empty", consumer.seen)
    BY <1>1, <1>5, LookedRing DEF ReadStops
<1>6. CASE /\ consumer.at = "alive" /\ ~ringAlive.producer
           /\ consumer' = [consumer EXCEPT !.at = "recheck"]
    <2>1. /\ consumer' = [consumer EXCEPT !.at = "recheck", !.seen = consumer.seen,
                                          !.result = consumer.result]
          /\ consumer.result \in {"none", "empty", "disconnected", "batch"}
        BY <1>1, <1>6 DEF Consumers
    <2>2. consumer.result = "disconnected" => producer.at = "dropped" /\ Used = 0
        BY DEF RingInv, EndInv
    <2> QED BY <1>1, <1>6, <2>1, <2>2, LookedRing
<1>7. CASE consumer.at = "recheck" /\ ringTail = ringHead /\ ReadStops("disconnected", ringTail)
    <2>1. producer.at = "dropped" BY <1>7 DEF RingInv, EndInv
    <2>2. Used = 0 /\ FrameSub(ringTail, ringHead) <= Used
        BY <1>1, <1>7, CursorDifference DEF Used
    <2> QED BY <1>1, <1>7, <2>1, <2>2, LookedRing DEF ReadStops
<1>8. CASE consumer.at = "recheck" /\ Borrow(ringTail)
    BY <1>1, <1>8, BorrowRing DEF Used
<1> QED BY <1>3, <1>4, <1>5, <1>6, <1>7, <1>8 DEF ReadCheck

\* The release store of head gives up the first slots of the batch, all committed.
LEMMA ReleaseRing ==
    ASSUME RingBounds, RingInv, Release PROVE RingInv'
<1> DEFINE len == consumer.len
<1>1. /\ ringHead \in FrameCursors /\ ringTail \in FrameCursors /\ consumer \in Consumers
      /\ committed \in Seq(RingValues) /\ len \in Nat /\ MaxBatch \in Nat
      /\ RingCapacity \in Nat /\ RingCapacity < RingCursors /\ RingCursors \in Nat
    BY DEF RingInv, RingTypesInv, Consumers, RingBounds
<1>2. /\ producer.seen \in FrameCursors /\ consumer.seen \in FrameCursors
      /\ Used \in Nat /\ Used <= RingCapacity
      /\ FrameSub(ringTail, producer.seen) = FrameSub(ringHead, producer.seen) + Used
      /\ FrameSub(ringTail, producer.seen) <= RingCapacity
      /\ FrameSub(ringHead, producer.seen) \in Nat
      /\ FrameSub(consumer.seen, ringHead) \in Nat
    BY LagFacts DEF RingInv
<1>3. len <= FrameSub(consumer.seen, ringHead) /\ FrameSub(consumer.seen, ringHead) <= Used
    BY DEF Release, RingInv, LagInv
<1>4. /\ ringHead' = FrameAdd(ringHead, len)
      /\ committed' = SubSeq(committed, len + 1, Len(committed))
      /\ consumer' = [consumer EXCEPT !.at = "idle", !.len = 0]
      /\ UNCHANGED <<ringTail, ringSlots, ringAlive, producer>>
    BY DEF Release
<1> HIDE DEF len
<1>5. len < RingCursors /\ ringHead' \in FrameCursors
    <2>1. len < RingCursors BY <1>1, <1>2, <1>3
    <2> QED BY <1>1, <1>4, <2>1, CursorSums
<1>6. /\ Used' = Used - len
      /\ FrameSub(consumer.seen, ringHead') = FrameSub(consumer.seen, ringHead) - len
      /\ FrameSub(ringHead', producer.seen) = FrameSub(ringHead, producer.seen) + len
    <2>1. FrameSub(ringTail, FrameAdd(ringHead, len)) = FrameSub(ringTail, ringHead) - len
        BY <1>1, <1>2, <1>3, CursorMoves DEF Used
    <2>2. FrameSub(consumer.seen, FrameAdd(ringHead, len))
            = FrameSub(consumer.seen, ringHead) - len
        BY <1>1, <1>2, <1>3, CursorMoves
    <2>3. FrameSub(ringHead, producer.seen) + len < RingCursors BY <1>1, <1>2, <1>3
    <2>4. FrameSub(FrameAdd(ringHead, len), producer.seen)
            = FrameSub(ringHead, producer.seen) + len
        BY <1>1, <1>2, <2>3, CursorMoves
    <2> QED BY <1>4, <2>1, <2>2, <2>4 DEF Used
<1>7. Len(committed) = Used BY DEF RingInv, ContentsInv
<1>8. /\ committed' \in Seq(RingValues) /\ Len(committed') = Used - len
      /\ \A i \in 1 .. Used - len : committed'[i] = committed[i + len]
    <2>1. /\ len + 1 \in Int /\ Used \in Int /\ len <= Used
          /\ \A i \in len + 1 .. Used : committed[i] \in RingValues
        BY <1>1, <1>2, <1>3, <1>7
    <2>2. committed' = SubSeq(committed, len + 1, Used) BY <1>4, <1>7
    <2>3. /\ committed' \in Seq(RingValues)
          /\ Len(committed') = IF len + 1 <= Used THEN Used - (len + 1) + 1 ELSE 0
          /\ \A i \in 1 .. Used - (len + 1) + 1 : committed'[i] = committed[len + 1 + i - 1]
        BY <2>1, <2>2, SubSeqProperties
    <2> QED BY <1>1, <1>2, <2>1, <2>3
<1>9. /\ consumer' \in Consumers /\ consumer'.at = "idle" /\ consumer'.len = 0
      /\ consumer'.seen = consumer.seen /\ consumer'.result = consumer.result
    <2>1. 0 \in 0 .. MaxBatch BY <1>1
    <2> QED BY <1>1, <1>4, <2>1 DEF Consumers
<1>10. RingTypesInv' BY <1>4, <1>5, <1>8, <1>9 DEF RingInv, RingTypesInv
<1>11. LagInv'
    <2>1. FrameSub(ringHead, producer.seen)' + Used' <= RingCapacity
        BY <1>1, <1>2, <1>3, <1>4, <1>6
    <2>2. FrameSub(consumer.seen, ringHead)' <= Used'
        BY <1>1, <1>2, <1>3, <1>6, <1>9
    <2> QED BY <1>4, <1>9, <2>1, <2>2 DEF RingInv, LagInv
<1>12. ContentsInv'
    <2>1. ASSUME NEW i \in 1 .. Used - len
          PROVE Slot(ringHead, i - 1)' = committed'[i]
        <3>1. /\ i - 1 \in Nat /\ (i - 1) + len < RingCursors /\ i + len \in 1 .. Used
              /\ len + (i - 1) = (i + len) - 1
            BY <1>1, <1>2, <1>3
        <3>2. FrameAdd(ringHead', i - 1) = FrameAdd(ringHead, (i + len) - 1)
            <4>1. \A j \in Nat : j + len < RingCursors =>
                     FrameAdd(FrameAdd(ringHead, len), j) = FrameAdd(ringHead, len + j)
                BY <1>1, <1>5, CursorSums
            <4>2. FrameAdd(ringHead', i - 1) = FrameAdd(ringHead, len + (i - 1))
                BY <1>4, <3>1, <4>1
            <4> QED BY <3>1, <4>2
        <3>3. Slot(ringHead, i - 1)' = Slot(ringHead, (i + len) - 1)
            BY <1>4, <3>2 DEF Slot
        <3>4. Slot(ringHead, (i + len) - 1) = committed[i + len]
            BY <3>1 DEF RingInv, ContentsInv
        <3> QED BY <1>8, <3>3, <3>4
    <2> QED BY <1>6, <1>8, <2>1 DEF ContentsInv
<1>13. EndInv'
    BY <1>1, <1>2, <1>3, <1>4, <1>6, <1>9 DEF RingInv, EndInv
<1> QED BY <1>10, <1>11, <1>12, <1>13 DEF RingInv

\* The consumer goes; what it has not released stays where it is.
LEMMA DropConsumerRing ==
    ASSUME RingBounds, RingInv, DropConsumer PROVE RingInv'
<1> USE DEF RingInv, DropConsumer
<1>1. RingTypesInv' BY DEF RingTypesInv, Consumers
<1>2. LagInv' BY DEF LagInv, RingTypesInv, Consumers, Used
<1>3. ContentsInv' BY ContentsUntouched
<1>4. EndInv' BY DEF EndInv, RingTypesInv, Consumers, Used
<1> QED BY <1>1, <1>2, <1>3, <1>4

-----------------------------------------------------------------------------
(* The theorems. *)

\* Every access to the ring keeps the invariant.
LEMMA StepRingInv ==
    ASSUME RingBounds, RingInv, [RingNext]_ringVars PROVE RingInv'
<1>1. ASSUME NEW n \in 0 .. RingCapacity, Commit(n) PROVE RingInv'
    BY <1>1, PublishRing DEF Commit, RingBounds
<1>2. CASE Flush
    <2>1. producer.written \in Nat /\ producer.written <= producer.len
        BY DEF RingInv, RingTypesInv, Producers, LagInv, RingBounds
    <2> QED BY <1>2, <2>1, PublishRing DEF Flush
<1>3. CASE UNCHANGED ringVars
    BY <1>3 DEF ringVars, RingInv, RingTypesInv, LagInv, ContentsInv, EndInv, Used, Slot
<1> QED
    BY <1>1, <1>2, <1>3, ReserveBeginRing, ReadBeginRing, ReserveCheckRing, WriteSlotRing,
       DropProducerRing, ReadCheckRing, ReleaseRing, DropConsumerRing DEF RingNext

\* The inductive invariant of the frame ring (ring.rs).
THEOREM FrameRingInvariant ==
    RingSpec => []RingInv
<1>1. RingInit => RingInv BY FrameRingAssumption, InitRingInv
<1>2. RingInv /\ [RingNext]_ringVars => RingInv' BY FrameRingAssumption, StepRingInv
<1> QED BY <1>1, <1>2, PTL DEF RingSpec

\* Every cursor keeps its width across the wrap, every slot a value, every batch
\* its bound.
THEOREM FrameRingTypes ==
    RingSpec => []RingTypeOK
<1>1. RingInv => RingTypeOK
    BY FrameRingAssumption DEF RingInv, RingTypesInv, LagInv, Producers, Consumers, RingTypeOK, RingBounds
<1> QED BY <1>1, FrameRingInvariant, PTL

\* Committed slots keep their values until they are released, whatever the
\* producer reserves, fills, commits in part or drops, and the consumer is told of
\* the end only after the last of them.
THEOREM FrameSlotsOwned ==
    RingSpec => []SlotsOwned
<1>1. RingInv => SlotsOwned
    <2> SUFFICES ASSUME RingInv PROVE SlotsOwned OBVIOUS
    <2>1. Used \in Nat /\ Len(committed) = Used /\ committed \in Seq(RingValues)
        BY FrameRingAssumption, LagFacts DEF RingInv, RingTypesInv, ContentsInv
    <2>2. consumer.len <= Used
        <3>1. consumer.len \in Nat /\ FrameSub(consumer.seen, ringHead) \in Nat
            BY FrameRingAssumption, LagFacts DEF RingInv, RingTypesInv, Consumers, RingBounds
        <3> QED BY <2>1, <3>1 DEF RingInv, LagInv
    <2>3. \A i \in 1 .. Len(committed) : Slot(ringHead, i - 1) = committed[i]
        BY <2>1 DEF RingInv, ContentsInv
    <2>4. consumer.result = "disconnected" => committed = <<>>
        BY <2>1 DEF RingInv, EndInv
    <2> QED BY <2>1, <2>2, <2>3, <2>4 DEF SlotsOwned, Used
<1> QED BY <1>1, FrameRingInvariant, PTL
-----------------------------------------------------------------------------
(***************************************************************************)
(* Bounded turns, for all budgets, buffer sizes and queue capacities.      *)
(*                                                                         *)
(* TurnIsBounded needs the types: the budget is a saturating subtraction,  *)
(* so it bounds what moved only because an operation never starts with     *)
(* more bytes than are left.  That a turn says why it stopped also needs   *)
(* that no operation takes a wait or the exhaustion back.                  *)
(***************************************************************************)

\* The buffers of the pool are free, queued, or with a consumer.
DriveTypesInv ==
    /\ turn \in Turns /\ slot \in Slots
    /\ inbound \in 0 .. MaxPending /\ room \in 0 .. MaxPending
    /\ queue \in Seq(1 .. ReadCapacity) /\ Len(queue) <= QueueCapacity
    /\ free \in Nat /\ free + Len(queue) <= BufferCount
    /\ moved \in [bytes : Nat, steps : Nat]
    /\ lost \in BOOLEAN /\ refused \in BOOLEAN

DriveInv == DriveTypesInv /\ StopIsExplained /\ TurnIsBounded

-----------------------------------------------------------------------------
(* The budget and the report. *)

\* What an operation that goes on may make of the report: nothing is taken back.
Continues(t, u) ==
    /\ u \in Turns
    /\ t.exhausted => u.exhausted
    /\ t.wait \subseteq u.wait
    /\ u.continuation => t.continuation \/ "local_buffer" \in u.wait

\* An operation takes one step from the budget and goes on with the same turn.
LEMMA StepContinues ==
    ASSUME DriveBounds, NEW t \in Turns, t.steps > 0
    PROVE /\ Continues(t, Step(t))
          /\ Step(t).steps = t.steps - 1
          /\ Step(t).bytes = t.bytes /\ Step(t).events = t.events
BY DEF Step, Turns, Continues, DriveBounds

\* Reporting an exhausted budget or a wait takes nothing from the budget.
LEMMA ReportContinues ==
    ASSUME NEW t \in Turns, NEW w \in Waits
    PROVE /\ Continues(t, Exhaust(t)) /\ Exhaust(t).exhausted
          /\ Exhaust(t).bytes = t.bytes /\ Exhaust(t).steps = t.steps
          /\ Continues(t, WaitFor(t, w)) /\ w \in WaitFor(t, w).wait
          /\ WaitFor(t, w).bytes = t.bytes /\ WaitFor(t, w).steps = t.steps
          /\ Continues(t, WaitForLocalBuffer(t)) /\ "local_buffer" \in WaitForLocalBuffer(t).wait
          /\ WaitForLocalBuffer(t).bytes = t.bytes /\ WaitForLocalBuffer(t).steps = t.steps
          /\ Continues(t, StateChanged(t))
          /\ StateChanged(t).bytes = t.bytes /\ StateChanged(t).steps = t.steps
BY DEF Exhaust, WaitFor, WaitForLocalBuffer, StateChanged, Turns, Waits, Continues

\* The byte budget bounds the bytes: what is charged is at least what moved.
LEMMA SpendBytesContinues ==
    ASSUME DriveBounds, NEW t \in Turns, NEW n \in Nat, n <= t.bytes
    PROVE /\ Continues(t, SpendBytes(t, n))
          /\ SpendBytes(t, n).bytes + n <= t.bytes /\ SpendBytes(t, n).steps = t.steps
<1> DEFINE b == Minus(t.bytes, MostOf(n, 1))
           u == [t EXCEPT !.bytes = b, !.progress = TRUE]
<1>1. b \in 0 .. ByteBudget /\ b + n <= t.bytes
    BY DEF Minus, MostOf, Turns, DriveBounds
<1> HIDE DEF b
<1>2. u \in Turns /\ Continues(t, u) /\ u.bytes = b /\ u.steps = t.steps
    BY <1>1 DEF Turns, Continues
<1>3. SpendBytes(t, n) \in {u, Exhaust(u)} BY DEF SpendBytes, b
<1>4. /\ Exhaust(u) \in Turns /\ Continues(t, Exhaust(u))
      /\ Exhaust(u).bytes = b /\ Exhaust(u).steps = t.steps
    BY <1>2 DEF Exhaust, Turns, Continues
<1> QED BY <1>1, <1>2, <1>3, <1>4

\* An event takes its place in the events and its bytes.
LEMMA SpendEventContinues ==
    ASSUME DriveBounds, NEW t \in Turns, NEW n \in Nat, n <= t.bytes, CanEmitEvent(t)
    PROVE /\ Continues(t, SpendEvent(t, n))
          /\ SpendEvent(t, n).bytes + n <= t.bytes /\ SpendEvent(t, n).steps = t.steps
<1> DEFINE b == Minus(t.bytes, MostOf(n, 1))
<1>1. b \in 0 .. ByteBudget /\ b + n <= t.bytes
    BY DEF Minus, MostOf, Turns, DriveBounds
<1>2. SpendEvent(t, n) = [t EXCEPT !.events = @ - 1, !.bytes = b, !.progress = TRUE]
    BY DEF SpendEvent
<1>3. t.events - 1 \in 0 .. EventBudget BY DEF CanEmitEvent, Turns, DriveBounds
<1> HIDE DEF b
<1> QED BY <1>1, <1>2, <1>3 DEF Turns, Continues

-----------------------------------------------------------------------------
(* What an operation does to the turn. *)

\* An operation that stops and says why, before or after it started.
LEMMA StopsExplained ==
    ASSUME DriveBounds, DriveInv, NEW t \in Turns, turn' = t, Continues(turn, t),
           (t.exhausted \/ t.wait # {}), t.bytes = turn.bytes, refused' = TRUE, UNCHANGED lost,
           \/ t.steps = turn.steps /\ UNCHANGED moved
           \/ t.steps = turn.steps - 1 /\ Started(0)
    PROVE StopIsExplained' /\ TurnIsBounded' /\ moved' \in [bytes : Nat, steps : Nat]
<1>1. StopIsExplained' BY DEF DriveInv, StopIsExplained, Continues
<1>2. ~lost' BY Zenon DEF DriveInv, TurnIsBounded
<1>3. /\ moved \in [bytes : Nat, steps : Nat] /\ turn.bytes \in Nat /\ turn.steps \in Nat
      /\ t.bytes \in Nat /\ t.steps \in Nat
      /\ moved.bytes + turn.bytes <= ByteBudget /\ moved.steps + turn.steps <= StepBudget
    BY DEF DriveInv, DriveTypesInv, TurnIsBounded, Turns, DriveBounds
<1>4. /\ moved' \in [bytes : Nat, steps : Nat]
      /\ moved'.bytes + turn'.bytes <= ByteBudget /\ moved'.steps + turn'.steps <= StepBudget
    BY <1>3 DEF Started, DriveBounds
<1> QED BY <1>1, <1>2, <1>4 DEF TurnIsBounded

\* A turn that paid for n bytes and a step.
Charged(t, n) ==
    /\ t \in Turns /\ Continues(turn, t)
    /\ t.bytes + n <= turn.bytes /\ t.steps = turn.steps - 1

\* An operation that moves n bytes it has been charged for.
LEMMA MovesCharged ==
    ASSUME DriveBounds, DriveInv, NEW t, NEW n \in Nat, turn' = t, Charged(t, n),
           Started(n), UNCHANGED <<lost, refused>>
    PROVE /\ turn' \in Turns /\ moved' \in [bytes : Nat, steps : Nat]
          /\ StopIsExplained' /\ TurnIsBounded'
<1> USE DEF Charged
<1>1. StopIsExplained' BY DEF DriveInv, StopIsExplained, Continues
<1>2. ~lost' BY Zenon DEF DriveInv, TurnIsBounded
<1>3. /\ moved \in [bytes : Nat, steps : Nat] /\ turn.bytes \in Nat /\ turn.steps \in Nat
      /\ t.bytes \in Nat /\ t.steps \in Nat
      /\ moved.bytes + turn.bytes <= ByteBudget /\ moved.steps + turn.steps <= StepBudget
    BY DEF DriveInv, DriveTypesInv, TurnIsBounded, Turns, DriveBounds
<1>4. /\ moved' \in [bytes : Nat, steps : Nat]
      /\ moved'.bytes + turn'.bytes <= ByteBudget /\ moved'.steps + turn'.steps <= StepBudget
    BY <1>3 DEF Started, DriveBounds
<1> QED BY <1>1, <1>2, <1>4 DEF TurnIsBounded

\* Continues is transitive: a step and then a charge.
LEMMA ContinuesOn ==
    ASSUME NEW t, NEW u, NEW v, Continues(t, u), Continues(u, v) PROVE Continues(t, v)
BY DEF Continues

\* A turn that has been charged for the bytes it moved stays within its budget.
LEMMA ChargedTurns ==
    ASSUME DriveBounds, DriveInv, CanContinue(turn), NEW n \in Nat, n <= turn.bytes
    PROVE /\ Charged(SpendBytes(Step(turn), n), n)
          /\ CanEmitEvent(turn) => Charged(SpendEvent(Step(turn), n), n)
<1>1. /\ turn \in Turns /\ turn.steps > 0 BY DEF DriveInv, DriveTypesInv, CanContinue
<1>2. /\ Continues(turn, Step(turn)) /\ Step(turn) \in Turns /\ Step(turn).steps = turn.steps - 1
      /\ Step(turn).bytes = turn.bytes /\ Step(turn).events = turn.events
    BY <1>1, StepContinues DEF Continues
<1>3. CanEmitEvent(turn) => CanEmitEvent(Step(turn)) BY <1>2 DEF CanEmitEvent
<1>4. /\ Continues(Step(turn), SpendBytes(Step(turn), n))
      /\ SpendBytes(Step(turn), n).bytes + n <= turn.bytes
      /\ SpendBytes(Step(turn), n).steps = turn.steps - 1
    BY <1>2, SpendBytesContinues
<1>5. CanEmitEvent(turn) =>
        /\ Continues(Step(turn), SpendEvent(Step(turn), n))
        /\ SpendEvent(Step(turn), n).bytes + n <= turn.bytes
        /\ SpendEvent(Step(turn), n).steps = turn.steps - 1
    BY <1>2, <1>3, SpendEventContinues
<1>6. \A t : Continues(Step(turn), t) => Continues(turn, t) /\ t \in Turns
    BY <1>2, ContinuesOn DEF Continues
<1> QED BY <1>4, <1>5, <1>6 DEF Charged

\* Refuse: the operation stops before it starts.
LEMMA RefuseKeeps ==
    ASSUME DriveBounds, DriveInv, NEW w \in Waits,
           Refuse(Exhaust(turn)) \/ Refuse(WaitFor(turn, w)) \/ Refuse(WaitForLocalBuffer(turn))
    PROVE DriveInv'
<1>1. PICK t \in {Exhaust(turn), WaitFor(turn, w), WaitForLocalBuffer(turn)} : Refuse(t)
    OBVIOUS
<1>2. turn \in Turns BY DEF DriveInv, DriveTypesInv
<1>3. /\ t \in Turns /\ Continues(turn, t) /\ (t.exhausted \/ t.wait # {})
      /\ t.bytes = turn.bytes /\ t.steps = turn.steps
    <2> USE ReportContinues, <1>2 DEF Continues
    <2>1. CASE t = Exhaust(turn) BY <2>1
    <2>2. CASE t = WaitFor(turn, w) BY <2>2
    <2>3. CASE t = WaitForLocalBuffer(turn) BY <2>3
    <2> QED BY <2>1, <2>2, <2>3
<1>4. /\ turn' = t /\ refused' = TRUE
      /\ UNCHANGED <<slot, inbound, room, queue, free, moved, lost>>
    BY <1>1 DEF Refuse
<1>5. StopIsExplained' /\ TurnIsBounded' BY <1>3, <1>4, StopsExplained
<1>6. DriveTypesInv' BY <1>3, <1>4 DEF DriveInv, DriveTypesInv
<1> QED BY <1>5, <1>6 DEF DriveInv

\* Blocked: the operation spent its step and found nothing to do.
LEMMA BlockedKeeps ==
    ASSUME DriveBounds, DriveInv, CanContinue(turn), NEW w \in Waits, NEW s \in Slots,
           Blocked(WaitFor(Step(turn), w), s) \/ Blocked(WaitForLocalBuffer(Step(turn)), s)
    PROVE DriveInv'
<1> DEFINE u == Step(turn)
<1>1. PICK t \in {WaitFor(u, w), WaitForLocalBuffer(u)} : Blocked(t, s) OBVIOUS
<1>2. turn \in Turns /\ turn.steps > 0 BY DEF DriveInv, DriveTypesInv, CanContinue
<1>3. u \in Turns /\ Continues(turn, u) /\ u.bytes = turn.bytes /\ u.steps = turn.steps - 1
    BY <1>2, StepContinues DEF Continues
<1> HIDE DEF u
<1>4. /\ t \in Turns /\ Continues(u, t) /\ t.wait # {}
      /\ t.bytes = turn.bytes /\ t.steps = turn.steps - 1
    <2> USE ReportContinues, <1>3 DEF Continues
    <2>1. CASE t = WaitFor(u, w) BY <2>1
    <2>2. CASE t = WaitForLocalBuffer(u) BY <2>2
    <2> QED BY <2>1, <2>2
<1>5. Continues(turn, t) BY <1>3, <1>4, ContinuesOn
<1>6. /\ turn' = t /\ refused' = TRUE /\ slot' = s /\ Started(0)
      /\ UNCHANGED <<inbound, room, queue, free, lost>>
    BY <1>1 DEF Blocked
<1>7. StopIsExplained' /\ TurnIsBounded' /\ moved' \in [bytes : Nat, steps : Nat]
    BY <1>4, <1>5, <1>6, StopsExplained
<1>8. DriveTypesInv' BY <1>4, <1>6, <1>7 DEF DriveInv, DriveTypesInv
<1> QED BY <1>7, <1>8 DEF DriveInv

-----------------------------------------------------------------------------
(* What an operation does to the buffers. *)

\* The amounts the least of which an operation moves.
LEMMA Amounts ==
    ASSUME DriveBounds, DriveInv
    PROVE  /\ turn.bytes \in Nat /\ turn.steps \in Nat /\ turn.events \in Nat
           /\ inbound \in 0 .. MaxPending /\ room \in 0 .. MaxPending
           /\ MaxPending \in Nat /\ ReadCapacity \in Nat \ {0}
BY DEF DriveInv, DriveTypesInv, DriveBounds, Turns

\* Bytes taken from the source are charged before they are queued.
LEMMA TakeKeeps ==
    ASSUME DriveBounds, DriveInv, CanContinue(turn), NEW n \in 1 .. inbound,
           n <= turn.bytes, free > 0, Take(n), UNCHANGED lost,
           \/ turn' = SpendBytes(Step(turn), n)
           \/ turn' = SpendEvent(Step(turn), n) /\ CanEmitEvent(turn)
    PROVE DriveInv'
<1>1. n \in Nat /\ inbound - n \in 0 .. MaxPending /\ free - 1 \in Nat
    BY DEF DriveInv, DriveTypesInv, DriveBounds
<1>2. Charged(turn', n) BY <1>1, ChargedTurns
<1>3. /\ turn' \in Turns /\ moved' \in [bytes : Nat, steps : Nat]
      /\ StopIsExplained' /\ TurnIsBounded'
    BY <1>1, <1>2, MovesCharged DEF Take
<1>4. free' + Len(queue') <= BufferCount
    BY <1>1 DEF DriveInv, DriveTypesInv, DriveBounds, Take
<1>5. DriveTypesInv' BY <1>1, <1>2, <1>3, <1>4 DEF DriveInv, DriveTypesInv, Take
<1> QED BY <1>3, <1>5 DEF DriveInv

\* The front of a queue that is not empty.
LEMMA FrontOfQueue ==
    ASSUME DriveBounds, DriveInv, queue # <<>>
    PROVE /\ queue \in Seq(1 .. ReadCapacity) /\ Len(queue) \in Nat \ {0}
          /\ Head(queue) = queue[1] /\ Head(queue) \in 1 .. ReadCapacity
          /\ Head(queue) \in Nat
          /\ Tail(queue) \in Seq(1 .. ReadCapacity) /\ Len(Tail(queue)) = Len(queue) - 1
<1> DEFINE S == 1 .. ReadCapacity
<1>1. queue \in Seq(S) BY DEF DriveInv, DriveTypesInv
<1> HIDE DEF S
<1>2. Len(queue) \in Nat /\ Len(queue) # 0 BY <1>1, EmptySeq
<1>3. 1 \in 1 .. Len(queue) BY <1>2
<1>4. queue[1] \in S /\ Head(queue) = queue[1] BY <1>1, <1>2, <1>3
<1>5. Tail(queue) \in Seq(S) /\ Len(Tail(queue)) = Len(queue) - 1 BY <1>1, <1>2
<1> USE DEF S
<1>6. Head(queue) \in Nat BY <1>4 DEF DriveBounds
<1> QED BY <1>1, <1>2, <1>4, <1>5, <1>6

\* Bytes given to the sink are charged before they leave the queue.
LEMMA GiveKeeps ==
    ASSUME DriveBounds, DriveInv, CanContinue(turn), queue # <<>>, NEW n \in 1 .. room,
           n <= turn.bytes, n <= Head(queue), Give(n), UNCHANGED lost,
           \/ turn' = SpendBytes(Step(turn), n)
           \/ turn' = SpendEvent(Step(turn), n) /\ CanEmitEvent(turn)
    PROVE DriveInv'
<1>1. n \in Nat /\ room - n \in 0 .. MaxPending
    BY DEF DriveInv, DriveTypesInv, DriveBounds
<1>2. Charged(turn', n) BY <1>1, ChargedTurns
<1>3. /\ turn' \in Turns /\ moved' \in [bytes : Nat, steps : Nat]
      /\ StopIsExplained' /\ TurnIsBounded'
    BY <1>1, <1>2, MovesCharged DEF Give
<1>4. /\ queue \in Seq(1 .. ReadCapacity) /\ Len(queue) \in Nat \ {0}
      /\ Head(queue) \in 1 .. ReadCapacity /\ Head(queue) = queue[1]
    BY FrontOfQueue
<1>5. /\ queue' \in Seq(1 .. ReadCapacity) /\ Len(queue') <= QueueCapacity
      /\ free' \in Nat /\ free' + Len(queue') <= BufferCount
    <2>1. CASE n = Head(queue)
        <3>1. queue' = Tail(queue) /\ free' = free + 1 BY <2>1 DEF Give
        <3>2. Tail(queue) \in Seq(1 .. ReadCapacity) /\ Len(Tail(queue)) = Len(queue) - 1
            BY <1>4, FrontOfQueue
        <3> QED BY <1>4, <3>1, <3>2 DEF DriveInv, DriveTypesInv, DriveBounds
    <2>2. CASE n # Head(queue)
        <3>1. queue' = [queue EXCEPT ![1] = queue[1] - n] /\ free' = free BY <2>2 DEF Give
        <3>2. queue[1] - n \in 1 .. ReadCapacity BY <1>1, <1>4, <2>2 DEF DriveBounds
        <3>3. queue' \in Seq(1 .. ReadCapacity) /\ Len(queue') = Len(queue)
            BY <1>4, <3>1, <3>2
        <3> QED BY <1>4, <3>1, <3>3 DEF DriveInv, DriveTypesInv, DriveBounds
    <2> QED BY <2>1, <2>2
<1>6. DriveTypesInv' BY <1>1, <1>2, <1>3, <1>5 DEF DriveInv, DriveTypesInv, Give
<1> QED BY <1>3, <1>6 DEF DriveInv

\* An item queued inside the turn takes a buffer, a place and its bytes.
LEMMA QueuedKeeps ==
    ASSUME DriveBounds, DriveInv, CanContinue(turn), NEW n \in 1 .. ReadCapacity,
           n <= turn.bytes, free > 0, Len(queue) < QueueCapacity, Queued(n),
           inbound' \in 0 .. MaxPending
    PROVE DriveInv'
<1>1. n \in Nat BY DEF DriveBounds
<1>2. Charged(turn', n) BY <1>1, ChargedTurns DEF Queued
<1>3. /\ turn' \in Turns /\ moved' \in [bytes : Nat, steps : Nat]
      /\ StopIsExplained' /\ TurnIsBounded'
    BY <1>1, <1>2, MovesCharged DEF Queued
<1>4. /\ queue' \in Seq(1 .. ReadCapacity) /\ Len(queue') = Len(queue) + 1
      /\ free' = free - 1
    BY DEF Queued, DriveInv, DriveTypesInv
<1>5. DriveTypesInv'
    BY <1>2, <1>3, <1>4 DEF DriveInv, DriveTypesInv, Queued, DriveBounds
<1> QED BY <1>3, <1>5 DEF DriveInv

\* A step of work that moves n bytes, none of them through a buffer of the pool.
LEMMA StepKeeps ==
    ASSUME DriveBounds, DriveInv, NEW n \in Nat, Charged(turn', n), Started(n),
           UNCHANGED <<queue, free, lost, refused>>, slot' \in Slots,
           inbound' \in 0 .. MaxPending, room' \in 0 .. MaxPending
    PROVE DriveInv'
<1>1. /\ turn' \in Turns /\ moved' \in [bytes : Nat, steps : Nat]
      /\ StopIsExplained' /\ TurnIsBounded'
    BY MovesCharged
<1>2. DriveTypesInv' BY <1>1 DEF DriveInv, DriveTypesInv
<1> QED BY <1>1, <1>2 DEF DriveInv

\* The changes of readiness a turn makes give a slot again.
LEMMA SlotsKept ==
    ASSUME NEW s \in Slots
    PROVE /\ ClearReadAfterWouldBlock(s) \in Slots
          /\ ClearWriteAfterWouldBlock(s) \in Slots
          /\ MarkReady(s, TRUE, TRUE) \in Slots
<1>1. (s.readable \/ TRUE) \in BOOLEAN /\ (s.writable \/ TRUE) \in BOOLEAN OBVIOUS
<1> QED BY <1>1 DEF ClearReadAfterWouldBlock, ClearWriteAfterWouldBlock, MarkReady, Slots

-----------------------------------------------------------------------------
(* The initial state and the operations. *)

\* A turn begins with its whole budget and an empty report.
LEMMA FreshTurnIsTurn ==
    ASSUME DriveBounds PROVE FreshTurn \in Turns
BY DEF DriveBounds, FreshTurn, Turns

\* The invariant holds before the first turn.
LEMMA InitDriveInv ==
    ASSUME DriveBounds, DriveInit PROVE DriveInv
<1>1. slot \in Slots
    <2>1. Registered("ReadWrite", TRUE) \in Slots
        BY DEF Registered, Slots, Interests, Reads, Writes
    <2> QED BY <2>1 DEF DriveInit
<1>2. turn \in Turns BY FreshTurnIsTurn DEF DriveInit
<1>3. lost \in BOOLEAN /\ refused \in BOOLEAN /\ ~lost /\ ~refused BY Zenon DEF DriveInit
<1>4. /\ queue \in Seq(1 .. ReadCapacity) /\ Len(queue) = 0 BY DEF DriveInit
<1>5. DriveTypesInv
    <2>1. /\ inbound \in 0 .. MaxPending /\ room \in 0 .. MaxPending
          /\ Len(queue) <= QueueCapacity /\ free \in Nat /\ free + Len(queue) <= BufferCount
          /\ moved \in [bytes : Nat, steps : Nat]
        BY <1>4 DEF DriveBounds, DriveInit
    <2> QED BY <1>1, <1>2, <1>3, <1>4, <2>1 DEF DriveTypesInv
<1>6. StopIsExplained BY <1>3 DEF StopIsExplained, DriveInit, FreshTurn
<1>7. TurnIsBounded
    BY <1>3 DEF TurnIsBounded, DriveInit, FreshTurn, DriveBounds
<1> QED BY <1>5, <1>6, <1>7 DEF DriveInv

\* read_stream_ready: a read is as long as the budget, the buffer and the source allow.
LEMMA ReadStreamKeeps ==
    ASSUME DriveBounds, DriveInv, ReadStream PROVE DriveInv'
<1> USE DEF Waits
<1>1. CASE \/ Refuse(WaitFor(turn, "reactor_read")) \/ Refuse(Exhaust(turn))
           \/ Refuse(WaitForLocalBuffer(turn))
    BY <1>1, RefuseKeeps
<1>2. CASE CanContinue(turn) /\ Blocked(WaitFor(Step(turn), "reactor_read"),
                                        ClearReadAfterWouldBlock(slot))
    BY <1>2, BlockedKeeps, SlotsKept DEF DriveInv, DriveTypesInv
<1>3. CASE /\ free > 0 /\ CanContinue(turn) /\ UNCHANGED lost
           /\ \E n \in 1 .. LeastOf(inbound, LeastOf(ReadCapacity, turn.bytes)) :
                turn' = SpendBytes(Step(turn), n) /\ Take(n)
    <2>1. PICK n \in 1 .. LeastOf(inbound, LeastOf(ReadCapacity, turn.bytes)) :
                turn' = SpendBytes(Step(turn), n) /\ Take(n)
        BY <1>3
    <2>2. n \in 1 .. inbound /\ n <= turn.bytes
        BY Amounts DEF LeastOf
    <2> QED BY <1>3, <2>1, <2>2, TakeKeeps
<1> QED BY <1>1, <1>2, <1>3 DEF ReadStream

\* recv_smoltcp_tcp moves what smoltcp holds into one buffer.
LEMMA RecvSmoltcpKeeps ==
    ASSUME DriveBounds, DriveInv, RecvSmoltcp PROVE DriveInv'
<1> DEFINE n == LeastOf(inbound, LeastOf(ReadCapacity, turn.bytes))
<1>1. CASE Refuse(Exhaust(turn)) \/ Refuse(WaitForLocalBuffer(turn))
    BY <1>1, RefuseKeeps DEF Waits
<1>2. CASE /\ CanContinue(turn) /\ free > 0 /\ inbound > 0 /\ UNCHANGED lost
           /\ turn' = SpendBytes(Step(turn), n) /\ Take(n)
    <2>1. n \in 1 .. inbound /\ n <= turn.bytes
        BY <1>2, Amounts DEF LeastOf, CanContinue
    <2> HIDE DEF n
    <2> QED BY <1>2, <2>1, TakeKeeps
<1> QED BY <1>1, <1>2 DEF RecvSmoltcp

\* write_stream_queue_ready and send_smoltcp_tcp_queue write the head of the queue, in part if need be.
LEMMA WriteStreamQueueKeeps ==
    ASSUME DriveBounds, DriveInv, WriteStreamQueue \/ SendSmoltcpQueue PROVE DriveInv'
<1> USE DEF Waits
<1>1. CASE \/ Refuse(WaitFor(turn, "reactor_write")) \/ Refuse(WaitFor(turn, "guest_send"))
           \/ Refuse(Exhaust(turn))
    BY <1>1, RefuseKeeps
<1>2. CASE CanContinue(turn) /\ Blocked(WaitFor(Step(turn), "reactor_write"),
                                        ClearWriteAfterWouldBlock(slot))
    BY <1>2, BlockedKeeps, SlotsKept DEF DriveInv, DriveTypesInv
<1>3. CASE /\ queue # <<>> /\ CanContinue(turn) /\ UNCHANGED lost
           /\ \E n \in 1 .. LeastOf(room, LeastOf(Head(queue), turn.bytes)) :
                turn' = SpendBytes(Step(turn), n) /\ Give(n)
    <2>1. PICK n \in 1 .. LeastOf(room, LeastOf(Head(queue), turn.bytes)) :
                turn' = SpendBytes(Step(turn), n) /\ Give(n)
        BY <1>3
    <2>2. Head(queue) \in Nat BY <1>3, FrontOfQueue
    <2>3. room \in Nat /\ turn.bytes \in Nat
        BY DEF DriveInv, DriveTypesInv, DriveBounds, Turns
    <2>4. n \in 1 .. room /\ n <= turn.bytes /\ n <= Head(queue) BY <2>2, <2>3 DEF LeastOf
    <2> QED BY <1>3, <2>1, <2>4, GiveKeeps
<1> QED BY <1>1, <1>2, <1>3 DEF WriteStreamQueue, SendSmoltcpQueue

\* recv_datagram_ready takes a datagram whole, or leaves it.
LEMMA RecvDatagramKeeps ==
    ASSUME DriveBounds, DriveInv, RecvDatagram PROVE DriveInv'
<1> USE DEF Waits
<1>1. CASE Refuse(WaitFor(turn, "reactor_read")) \/ Refuse(Exhaust(turn))
    BY <1>1, RefuseKeeps
<1>2. CASE /\ WholeItemFits(turn, ReadCapacity)
           /\ \/ Blocked(WaitForLocalBuffer(Step(turn)), slot)
              \/ Blocked(WaitFor(Step(turn), "reactor_read"), ClearReadAfterWouldBlock(slot))
    BY <1>2, BlockedKeeps, SlotsKept DEF DriveInv, DriveTypesInv, WholeItemFits
<1>3. CASE /\ WholeItemFits(turn, ReadCapacity) /\ free > 0 /\ UNCHANGED lost
           /\ \E n \in 1 .. LeastOf(inbound, ReadCapacity) :
                turn' = SpendBytes(Step(turn), n) /\ Take(n)
    <2>1. PICK n \in 1 .. LeastOf(inbound, ReadCapacity) :
                turn' = SpendBytes(Step(turn), n) /\ Take(n)
        BY <1>3
    <2>2. n \in 1 .. inbound /\ n <= turn.bytes /\ CanContinue(turn)
        BY <1>3, Amounts DEF LeastOf, WholeItemFits
    <2> QED BY <1>3, <2>1, <2>2, TakeKeeps
<1> QED BY <1>1, <1>2, <1>3 DEF RecvDatagram

\* send_datagram_ready sends a datagram whole, or leaves it.
LEMMA SendDatagramKeeps ==
    ASSUME DriveBounds, DriveInv, SendDatagram PROVE DriveInv'
<1> USE DEF Waits
<1> DEFINE n == Head(queue)
<1>0. queue # <<>> /\ n \in 1 .. ReadCapacity /\ n \in Nat
    BY FrontOfQueue DEF SendDatagram
<1>1. CASE Refuse(WaitFor(turn, "reactor_write")) \/ Refuse(Exhaust(turn))
    BY <1>1, RefuseKeeps
<1>2. CASE /\ WholeItemFits(turn, n)
           /\ Blocked(WaitFor(Step(turn), "reactor_write"), ClearWriteAfterWouldBlock(slot))
    BY <1>2, BlockedKeeps, SlotsKept DEF DriveInv, DriveTypesInv, WholeItemFits
<1>3. CASE /\ WholeItemFits(turn, n) /\ room >= n
           /\ turn' = SpendBytes(Step(turn), n) /\ Give(n) /\ UNCHANGED lost
    <2>1. n \in 1 .. room /\ n <= turn.bytes /\ CanContinue(turn) /\ n <= Head(queue)
        BY <1>0, <1>3, Amounts DEF WholeItemFits
    <2> QED BY <1>0, <1>3, <2>1, GiveKeeps
<1> QED BY <1>1, <1>2, <1>3 DEF SendDatagram

\* A step alone: no bytes are moved and none are paid for.
LEMMA StepCharged ==
    ASSUME DriveBounds, DriveInv, turn.steps > 0 PROVE Charged(Step(turn), 0)
<1>1. turn \in Turns BY DEF DriveInv, DriveTypesInv
<1>2. Continues(turn, Step(turn)) /\ Step(turn).steps = turn.steps - 1
      /\ Step(turn).bytes = turn.bytes
    BY <1>1, StepContinues
<1>3. turn.bytes \in Nat BY <1>1 DEF Turns, DriveBounds
<1> QED BY <1>2, <1>3 DEF Charged, Continues

\* A transport step that moves nothing is charged as a step only.
LEMMA TransportCharged ==
    ASSUME DriveBounds, DriveInv, CanContinue(turn), NEW n \in Nat, n <= turn.bytes,
           turn' = IF n = 0 THEN Step(turn) ELSE SpendBytes(Step(turn), n)
    PROVE Charged(turn', n)
<1>1. CASE n = 0 BY <1>1, StepCharged DEF CanContinue
<1>2. CASE n # 0 BY <1>2, ChargedTurns
<1> QED BY <1>1, <1>2

\* A read of the TLS transport is charged for what it moved.
LEMMA TransportReadKeeps ==
    ASSUME DriveBounds, DriveInv, TransportRead PROVE DriveInv'
<1> USE DEF Waits
<1>1. CASE Refuse(WaitFor(turn, "reactor_read")) \/ Refuse(Exhaust(turn))
    BY <1>1, RefuseKeeps
<1>2. CASE CanContinue(turn) /\ Blocked(WaitFor(Step(turn), "reactor_read"),
                                        ClearReadAfterWouldBlock(slot))
    BY <1>2, BlockedKeeps, SlotsKept DEF DriveInv, DriveTypesInv
<1>3. CASE /\ CanContinue(turn)
           /\ \E n \in 0 .. Chunk(turn, inbound) :
                /\ turn' = IF n = 0 THEN Step(turn) ELSE SpendBytes(Step(turn), n)
                /\ inbound' = inbound - n /\ Started(n)
           /\ UNCHANGED <<slot, room, queue, free, lost, refused>>
    <2>1. PICK n \in 0 .. Chunk(turn, inbound) :
                /\ turn' = IF n = 0 THEN Step(turn) ELSE SpendBytes(Step(turn), n)
                /\ inbound' = inbound - n /\ Started(n)
        BY <1>3
    <2>2. n \in Nat /\ n <= turn.bytes /\ inbound - n \in 0 .. MaxPending
        BY Amounts DEF Chunk, LeastOf
    <2>3. Charged(turn', n) BY <1>3, <2>1, <2>2, TransportCharged
    <2>4. slot' \in Slots /\ room' \in 0 .. MaxPending BY <1>3 DEF DriveInv, DriveTypesInv
    <2> QED BY <1>3, <2>1, <2>2, <2>3, <2>4, StepKeeps
<1> QED BY <1>1, <1>2, <1>3 DEF TransportRead

\* A write of the TLS transport is charged for what it moved.
LEMMA TransportWriteKeeps ==
    ASSUME DriveBounds, DriveInv, TransportWrite PROVE DriveInv'
<1> USE DEF Waits
<1>1. CASE Refuse(WaitFor(turn, "reactor_write")) \/ Refuse(Exhaust(turn))
    BY <1>1, RefuseKeeps
<1>2. CASE CanContinue(turn) /\ Blocked(WaitFor(Step(turn), "reactor_write"),
                                        ClearWriteAfterWouldBlock(slot))
    BY <1>2, BlockedKeeps, SlotsKept DEF DriveInv, DriveTypesInv
<1>3. CASE /\ CanContinue(turn)
           /\ \E n \in 0 .. Chunk(turn, room) :
                /\ turn' = IF n = 0 THEN Step(turn) ELSE SpendBytes(Step(turn), n)
                /\ room' = room - n /\ Started(n)
           /\ UNCHANGED <<slot, inbound, queue, free, lost, refused>>
    <2>1. PICK n \in 0 .. Chunk(turn, room) :
                /\ turn' = IF n = 0 THEN Step(turn) ELSE SpendBytes(Step(turn), n)
                /\ room' = room - n /\ Started(n)
        BY <1>3
    <2>2. n \in Nat /\ n <= turn.bytes /\ room - n \in 0 .. MaxPending
        BY Amounts DEF Chunk, LeastOf
    <2>3. Charged(turn', n) BY <1>3, <2>1, <2>2, TransportCharged
    <2>4. slot' \in Slots /\ inbound' \in 0 .. MaxPending BY <1>3 DEF DriveInv, DriveTypesInv
    <2> QED BY <1>3, <2>1, <2>2, <2>3, <2>4, StepKeeps
<1> QED BY <1>1, <1>2, <1>3 DEF TransportWrite

\* An event can still be emitted after the step of the frame was spent: the frame
\* that moved is always accounted for.
LEMMA FrameAccounted ==
    ASSUME DriveBounds, DriveInv, NEW n \in Nat, FrameAdmitted(n),
           lost' = (lost \/ ~CanEmitEvent(Step(turn)))
    PROVE CanEmitEvent(turn) /\ CanContinue(turn) /\ n <= turn.bytes /\ lost' = lost
<1>1. CanEmitEvent(turn) /\ CanContinue(turn) /\ n <= turn.bytes
    BY DEF FrameAdmitted, WholeItemFits
<1>2. turn \in Turns /\ turn.steps > 0 BY <1>1 DEF DriveInv, DriveTypesInv, CanContinue
<1>3. CanEmitEvent(Step(turn)) BY <1>1, <1>2, StepContinues DEF CanEmitEvent
<1>4. lost \in BOOLEAN BY DEF DriveInv, DriveTypesInv
<1>5. lost' = lost BY <1>3, <1>4, Zenon
<1> QED BY <1>1, <1>5

\* A guest frame is read only when the budget can account for all of it.
LEMMA ReadGuestFrameKeeps ==
    ASSUME DriveBounds, DriveInv, ReadGuestFrame PROVE DriveInv'
<1> USE DEF Waits
<1>1. CASE Refuse(Exhaust(turn)) BY <1>1, RefuseKeeps
<1>2. CASE /\ FrameAdmitted(ReadCapacity)
           /\ \/ Blocked(WaitForLocalBuffer(Step(turn)), slot)
              \/ Blocked(WaitFor(Step(turn), "guest_recv"), slot)
    <2>1. CanContinue(turn) /\ slot \in Slots
        BY <1>2 DEF FrameAdmitted, WholeItemFits, DriveInv, DriveTypesInv
    <2> QED BY <1>2, <2>1, BlockedKeeps
<1>3. CASE /\ FrameAdmitted(ReadCapacity) /\ free > 0
           /\ \E n \in 1 .. LeastOf(inbound, ReadCapacity) :
                turn' = SpendEvent(Step(turn), n) /\ Take(n)
           /\ lost' = (lost \/ ~CanEmitEvent(Step(turn)))
    <2>1. PICK n \in 1 .. LeastOf(inbound, ReadCapacity) :
                turn' = SpendEvent(Step(turn), n) /\ Take(n)
        BY <1>3
    <2>2. /\ CanEmitEvent(turn) /\ CanContinue(turn) /\ ReadCapacity <= turn.bytes
          /\ UNCHANGED lost
        <3>1. ReadCapacity \in Nat BY DEF DriveBounds
        <3> QED BY <1>3, <3>1, FrameAccounted
    <2>3. n \in 1 .. inbound /\ n <= turn.bytes
        BY <2>2, Amounts DEF LeastOf
    <2> QED BY <1>3, <2>1, <2>2, <2>3, TakeKeeps
<1> QED BY <1>1, <1>2, <1>3 DEF ReadGuestFrame

\* A guest frame is written only when the budget can account for all of it.
LEMMA WriteGuestFrameKeeps ==
    ASSUME DriveBounds, DriveInv, WriteGuestFrame PROVE DriveInv'
<1> USE DEF Waits
<1> DEFINE n == Head(queue)
<1>0. queue # <<>> /\ n \in 1 .. ReadCapacity /\ n \in Nat
    BY FrontOfQueue DEF WriteGuestFrame
<1>1. CASE Refuse(Exhaust(turn)) BY <1>1, RefuseKeeps
<1>2. CASE FrameAdmitted(n) /\ Blocked(WaitFor(Step(turn), "guest_send"), slot)
    <2>1. CanContinue(turn) /\ slot \in Slots
        BY <1>2 DEF FrameAdmitted, WholeItemFits, DriveInv, DriveTypesInv
    <2> QED BY <1>2, <2>1, BlockedKeeps
<1>3. CASE /\ FrameAdmitted(n) /\ room >= n
           /\ turn' = SpendEvent(Step(turn), n) /\ Give(n)
           /\ lost' = (lost \/ ~CanEmitEvent(Step(turn)))
    <2>1. CanEmitEvent(turn) /\ CanContinue(turn) /\ n <= turn.bytes /\ UNCHANGED lost
        BY <1>0, <1>3, FrameAccounted
    <2>2. n \in 1 .. room /\ n <= Head(queue)
        BY <1>0, <1>3 DEF DriveInv, DriveTypesInv, DriveBounds
    <2> QED BY <1>0, <1>3, <2>1, <2>2, GiveKeeps
<1> QED BY <1>1, <1>2, <1>3 DEF WriteGuestFrame

\* Output of a protocol and frames for the guest are queued while there is room.
LEMMA QueueingKeeps ==
    ASSUME DriveBounds, DriveInv,
           QueueProtocolOutput \/ \E n \in 1 .. ReadCapacity : EnqueueGuestFrame(n)
    PROVE DriveInv'
<1> USE DEF Waits
<1>1. CASE Refuse(Exhaust(turn)) \/ Refuse(WaitFor(turn, "guest_send"))
    BY <1>1, RefuseKeeps
<1>2. CASE CanContinue(turn) /\ Blocked(WaitFor(Step(turn), "local_buffer"), slot)
    BY <1>2, BlockedKeeps DEF DriveInv, DriveTypesInv
<1>3. ASSUME NEW n \in 1 .. ReadCapacity, free > 0, Len(queue) < QueueCapacity,
             WholeItemFits(turn, n), Queued(n), UNCHANGED inbound
      PROVE DriveInv'
    <2>1. CanContinue(turn) /\ n <= turn.bytes /\ inbound' \in 0 .. MaxPending
        BY <1>3 DEF WholeItemFits, DriveInv, DriveTypesInv
    <2> QED BY <1>3, <2>1, QueuedKeeps
<1>4. CASE \E n \in 1 .. ReadCapacity : EnqueueGuestFrame(n)
    BY <1>1, <1>3, <1>4 DEF EnqueueGuestFrame
<1>5. CASE QueueProtocolOutput
    <2> DEFINE n == Chunk(turn, LeastOf(inbound, ReadCapacity))
    <2>1. CASE CanContinue(turn) /\ free > 0 /\ Queued(n) /\ inbound' = inbound - n
        <3>1. inbound > 0 /\ Len(queue) < QueueCapacity BY <1>5 DEF QueueProtocolOutput
        <3>0. /\ turn.bytes \in Nat \ {0} /\ inbound \in Nat \ {0} /\ inbound <= MaxPending
              /\ ReadCapacity \in Nat \ {0} /\ MaxPending \in Nat
            BY <2>1, <3>1 DEF CanContinue, DriveInv, DriveTypesInv, DriveBounds, Turns
        <3>2. n \in 1 .. ReadCapacity /\ n <= turn.bytes /\ inbound - n \in 0 .. MaxPending
            BY <3>0 DEF Chunk, LeastOf
        <3> HIDE DEF n
        <3> QED BY <2>1, <3>1, <3>2, QueuedKeeps
    <2> QED BY <1>1, <1>2, <1>5, <2>1 DEF QueueProtocolOutput
<1> QED BY <1>4, <1>5

\* State changes and events are charged to the turn.
LEMMA ApplyStateChangeKeeps ==
    ASSUME DriveBounds, DriveInv, ApplyStateChange \/ PushEvent PROVE DriveInv'
<1>1. CASE Refuse(Exhaust(turn)) \/ Refuse(WaitFor(turn, "local_buffer")) BY <1>1, RefuseKeeps DEF Waits
<1> DEFINE u == Step(turn)
           e == [u EXCEPT !.events = @ - 1]
<1>2. ASSUME NEW t \in {u, e}, turn.steps > 0, t = e => turn.events > 0,
             turn' = StateChanged(t), Started(0),
             UNCHANGED <<slot, inbound, room, queue, free, lost, refused>>
      PROVE DriveInv'
    <2>1. Charged(u, 0) BY <1>2, StepCharged
    <2>2. u.events = turn.events /\ turn.events \in 0 .. EventBudget
        BY <1>2, StepContinues DEF DriveInv, DriveTypesInv, Turns
    <2> HIDE DEF u
    <2>3. Charged(t, 0)
        <3>1. CASE t = u BY <2>1, <3>1
        <3>2. CASE t = e
            <4>1. u.events - 1 \in 0 .. EventBudget BY <1>2, <2>2, <3>2 DEF DriveBounds
            <4> QED BY <2>1, <3>2, <4>1 DEF Charged, Continues, Turns
        <3> QED BY <3>1, <3>2
    <2>4. Charged(StateChanged(t), 0) BY <2>3 DEF StateChanged, Charged, Continues, Turns
    <2>5. slot' \in Slots /\ inbound' \in 0 .. MaxPending /\ room' \in 0 .. MaxPending
        BY <1>2 DEF DriveInv, DriveTypesInv
    <2>6. Charged(turn', 0) /\ 0 \in Nat BY <1>2, <2>4
    <2> QED BY <1>2, <2>5, <2>6, StepKeeps
<1>3. CASE ApplyStateChange
    BY <1>1, <1>2, <1>3 DEF ApplyStateChange, CanContinue
<1>4. CASE PushEvent BY <1>1, <1>2, <1>4 DEF PushEvent
<1> QED BY <1>3, <1>4

\* The next turn begins with a fresh budget and forgets the report of the last one.
LEMMA NewTurnKeeps ==
    ASSUME DriveBounds, DriveInv, NewTurn PROVE DriveInv'
<1>1. turn' \in Turns BY FreshTurnIsTurn DEF NewTurn
<1>2. ~refused' /\ refused' \in BOOLEAN /\ ~lost'
    BY Zenon DEF NewTurn, DriveInv, TurnIsBounded
<1>3. moved' \in [bytes : Nat, steps : Nat] BY DEF NewTurn
<1>4. DriveTypesInv' BY <1>1, <1>2, <1>3 DEF NewTurn, DriveInv, DriveTypesInv
<1>5. StopIsExplained' BY <1>2 DEF NewTurn, StopIsExplained, FreshTurn
<1>6. TurnIsBounded' BY <1>2 DEF NewTurn, TurnIsBounded, FreshTurn, DriveBounds
<1> QED BY <1>4, <1>5, <1>6 DEF DriveInv

\* What happens outside between two turns changes neither budget nor report.
LEMMA ExternalKeeps ==
    ASSUME DriveBounds, DriveInv, External PROVE DriveInv'
<1>1. UNCHANGED <<turn, queue, moved, lost, refused>> BY DEF External
<1>5. StopIsExplained' /\ TurnIsBounded'
    BY <1>1, Zenon DEF DriveInv, StopIsExplained, TurnIsBounded
<1>2. slot' \in Slots BY SlotsKept DEF External, DriveInv, DriveTypesInv
<1>3. /\ inbound' \in 0 .. MaxPending /\ room' \in 0 .. MaxPending
      /\ free' \in Nat /\ free' + Len(queue') <= BufferCount
    <2>1. /\ inbound \in 0 .. MaxPending /\ room \in 0 .. MaxPending /\ MaxPending \in Nat
          /\ free \in Nat /\ Len(queue) \in Nat /\ free + Len(queue) <= BufferCount
          /\ BufferCount \in Nat
        BY DEF DriveInv, DriveTypesInv, DriveBounds
    <2>2. \/ inbound < MaxPending /\ inbound' = inbound + 1 /\ UNCHANGED <<room, free>>
          \/ room < MaxPending /\ room' = room + 1 /\ UNCHANGED <<inbound, free>>
          \/ free + Len(queue) < BufferCount /\ free' = free + 1 /\ UNCHANGED <<inbound, room>>
          \/ UNCHANGED <<inbound, room, free>>
        BY Zenon DEF External
    <2> QED BY <1>1, <2>1, <2>2
<1>4. DriveTypesInv' BY <1>1, <1>2, <1>3 DEF DriveInv, DriveTypesInv
<1> QED BY <1>4, <1>5 DEF DriveInv

-----------------------------------------------------------------------------
(* The theorems. *)

\* Every operation of a turn keeps the invariant.
LEMMA NextDriveInv ==
    ASSUME DriveBounds, DriveInv, [DriveNext]_driveVars PROVE DriveInv'
<1>1. CASE DriveNext
    BY <1>1, ReadStreamKeeps, RecvSmoltcpKeeps, WriteStreamQueueKeeps, RecvDatagramKeeps,
       SendDatagramKeeps, TransportReadKeeps, TransportWriteKeeps, ReadGuestFrameKeeps,
       WriteGuestFrameKeeps, QueueingKeeps, ApplyStateChangeKeeps, NewTurnKeeps, ExternalKeeps
    DEF DriveNext
<1>2. CASE UNCHANGED driveVars
    BY <1>2 DEF driveVars, DriveInv, DriveTypesInv, StopIsExplained, TurnIsBounded
<1> QED BY <1>1, <1>2

\* The inductive invariant of the turns: every operation keeps it.
THEOREM TurnInvariant ==
    DriveSpec => []DriveInv
<1>1. DriveInit => DriveInv BY DriveAssumption, InitDriveInv
<1>2. DriveInv /\ [DriveNext]_driveVars => DriveInv' BY DriveAssumption, NextDriveInv
<1> QED BY <1>1, <1>2, PTL DEF DriveSpec

\* The budget, the report, the slot, the pool and the queue of a turn have their
\* types: no budget goes below zero and the pool never hands out more buffers than
\* it has.
THEOREM TurnTypes ==
    DriveSpec => []DriveTypeOK
<1>1. ASSUME DriveInv PROVE DriveTypeOK
    <2>1. free \in 0 .. BufferCount BY <1>1, DriveAssumption DEF DriveInv, DriveTypesInv, DriveBounds
    <2>2. {lost, refused} \subseteq BOOLEAN BY <1>1, Zenon DEF DriveInv, DriveTypesInv
    <2> QED BY <1>1, <2>1, <2>2 DEF DriveInv, DriveTypesInv, DriveTypeOK
<1> QED BY <1>1, TurnInvariant, PTL

\* A turn of drive.rs never moves more bytes or starts more operations than its
\* budget, and never moves a guest frame that its budget then refuses to account for.
THEOREM TurnsAreBounded ==
    DriveSpec => []TurnIsBounded
<1>1. DriveInv => TurnIsBounded BY DEF DriveInv
<1> QED BY <1>1, TurnInvariant, PTL

\* Whenever an operation of a turn stops with work left, the report the event loop
\* reads says so: the budget ran out, or a wait is recorded.
THEOREM StopsAreExplained ==
    DriveSpec => []StopIsExplained
<1>1. DriveInv => StopIsExplained BY DEF DriveInv
<1> QED BY <1>1, TurnInvariant, PTL

\* Both together: the event loop may rely on the report of a turn.
THEOREM TurnsAreHonest == DriveSpec => []TurnHonest
<1>1. TurnIsBounded /\ StopIsExplained => TurnHonest
  BY DEF TurnHonest
<1> QED
  BY TurnsAreBounded, StopsAreExplained, <1>1, PTL
-----------------------------------------------------------------------------
(***************************************************************************)
(* Proofs about the reactor, for any number of sources, registrations and  *)
(* places in its tables.                                                   *)
(***************************************************************************)

\* Tokens are fresh: no two items share one, and neither the tables nor the selector
\* know one that was not handed out.
TokenInv ==
    /\ \A i \in Items : token[i] < nextToken
    /\ \A i, j \in Items : token[i] = token[j] /\ IsRegistered(i) => i = j
    /\ \A e \in edges : e[1] < nextToken

\* The selector is armed with what the owner's slot says, except that a suspended
\* source is not armed at all; a source that is not registered has a cleared slot.
ArmedInv ==
    \A i \in Items :
        /\ IsRegistered(i) => armed[token[i]] = io[i].interest
        /\ ~IsRegistered(i) => io[i] = Cleared
        /\ i \in suspended => IsRegistered(i) /\ io[i].interest = "Disabled"

\* An edge on its way to a registered item was raised for its registration.
EdgeInv ==
    \A i \in Items, d \in Directions : <<token[i], d>> \in edges => <<i, d>> \in edgeSince

\* The inductive invariant.
ReactorInv ==
    /\ ReactorTypeOK /\ TokenInv /\ ArmedInv /\ EdgeInv
    /\ ReadinessNotLost /\ LatchIsOwn

\* What SetInterest, MarkReady and a registration make is a slot.
LEMMA SlotTypes ==
    /\ \A interest \in Interests, p \in BOOLEAN : Registered(interest, p) \in Slots
    /\ \A s \in Slots, interest \in Interests : SetInterest(s, interest) \in Slots
    /\ \A s \in Slots, p, q \in BOOLEAN : MarkReady(s, p, q) \in Slots
    /\ \A s \in Slots : ClearReadAfterWouldBlock(s) \in Slots
    /\ \A s \in Slots : ClearWriteAfterWouldBlock(s) \in Slots
<1>1. \A interest \in Interests, p \in BOOLEAN : Registered(interest, p) \in Slots
  <2> SUFFICES ASSUME NEW interest \in Interests, NEW p \in BOOLEAN
               PROVE  Registered(interest, p) \in Slots
    OBVIOUS
  <2>1. (p /\ Reads(interest)) \in BOOLEAN /\ Writes(interest) \in BOOLEAN
    BY DEF Reads, Writes
  <2> QED BY <2>1 DEF Registered, Slots
<1>2. \A s \in Slots, interest \in Interests : SetInterest(s, interest) \in Slots
  BY DEF SetInterest, Slots, Reads, Writes
<1>3. \A s \in Slots, p, q \in BOOLEAN : MarkReady(s, p, q) \in Slots
  BY DEF MarkReady, Slots
<1>4. \A s \in Slots : ClearReadAfterWouldBlock(s) \in Slots
  BY DEF ClearReadAfterWouldBlock, Slots
<1>5. \A s \in Slots : ClearWriteAfterWouldBlock(s) \in Slots
  BY DEF ClearWriteAfterWouldBlock, Slots
<1> QED BY <1>1, <1>2, <1>3, <1>4, <1>5

\* Cleared is a slot with nothing latched and nothing to try.
LEMMA ClearedSlot ==
    /\ Cleared \in Slots /\ Cleared.interest = "Disabled"
    /\ ~Cleared.readable /\ ~Cleared.writable
<1>1. Cleared \in Slots
  BY SlotTypes DEF Cleared, Interests
<1> QED BY <1>1 DEF Cleared, Registered

\* Nothing is registered at first.
LEMMA ReactorInitInv == ASSUME ReactorBounds, ReactorInit PROVE ReactorInv
<1>1. ReactorTypeOK
  BY ClearedSlot DEF ReactorBounds, ReactorInit, ReactorTypeOK, Interests, Tokens, NoToken
<1>2. TokenInv
  BY DEF ReactorInit, TokenInv, IsRegistered, NoToken
<1>3. ArmedInv
  BY DEF ReactorInit, ArmedInv, IsRegistered
<1>4. EdgeInv
  BY DEF ReactorInit, EdgeInv
<1>5. ReadinessNotLost
  BY DEF ReactorInit, ReadinessNotLost, IsRegistered
<1>6. LatchIsOwn
  BY ClearedSlot DEF ReactorInit, LatchIsOwn
<1> QED BY <1>1, <1>2, <1>3, <1>4, <1>5, <1>6 DEF ReactorInv

\* A registration gets a token nobody holds, in the tables and in the selector, and
\* whatever is ready at that moment is reported to it.
LEMMA RegisterKeeps ==
    ASSUME ReactorBounds, ReactorInv, NEW i \in Items, NEW interest \in Interests,
           Register(i, interest)
    PROVE  ReactorInv'
<1> USE DEF ReactorInv
<1>a. /\ nextToken \in Tokens /\ nextToken' = nextToken + 1 /\ nextToken \in Nat
      /\ token[i] = NoToken /\ i \in Items /\ interest \in Interests
  BY DEF ReactorBounds, Register, ReactorTypeOK, Tokens, IsRegistered
<1>b. Added(i, nextToken, interest) = {nextToken} \X (ready[i] \cap Watched(interest))
  BY DEF Added
<1>c. ready[i] \subseteq Directions /\ Watched(interest) \subseteq Directions
  BY DEF ReactorTypeOK, Watched
<1>d. \A e \in edges' : e \in edges \/ (e[1] = nextToken /\ e[2] \in ready[i] \cap Watched(interest)
                                        /\ e = <<nextToken, e[2]>>)
  BY <1>b DEF Register
<1>e. UNCHANGED <<suspended, ready>>
  BY DEF Register
<1>1. CASE ~TablesHaveRoom
  <2>0. UNCHANGED <<token, armed, io, edgeSince>>
    BY <1>1 DEF Register
  <2>1. ReactorTypeOK'
    BY <2>0, <1>a, <1>c, <1>d, <1>e DEF ReactorTypeOK, Tokens, ReactorBounds
  <2>2. TokenInv'
    BY <2>0, <1>a, <1>d DEF TokenInv, IsRegistered, ReactorTypeOK, Tokens, ReactorBounds, NoToken
  <2>3. ArmedInv'
    BY <2>0, <1>e DEF ArmedInv, IsRegistered
  <2>4. EdgeInv'
    BY <2>0, <1>a, <1>d DEF EdgeInv, TokenInv, ReactorTypeOK, Tokens, ReactorBounds, NoToken
  <2>5. ReadinessNotLost'
    BY <2>0, <1>e DEF ReadinessNotLost, IsRegistered, Register
  <2>6. LatchIsOwn'
    BY <2>0 DEF LatchIsOwn
  <2> QED BY <2>1, <2>2, <2>3, <2>4, <2>5, <2>6
<1>2. CASE TablesHaveRoom
  <2> DEFINE new == Registered(interest, i \in Streams)
  <2>0. /\ token' = [token EXCEPT ![i] = nextToken]
        /\ armed' = [armed EXCEPT ![nextToken] = interest]
        /\ io' = [io EXCEPT ![i] = new]
        /\ edgeSince' = edgeSince \cup ({i} \X (ready[i] \cap Watched(interest)))
        /\ edges' = edges \cup ({nextToken} \X (ready[i] \cap Watched(interest)))
    BY <1>2, <1>b DEF Register
  <2>n. /\ new \in Slots /\ new.interest = interest
        /\ ~new.readable /\ ~new.writable
    <3>0. (i \in Streams) \in BOOLEAN
      OBVIOUS
    <3>1. new \in Slots
      BY <3>0, SlotTypes
    <3> QED BY <3>1 DEF Registered
  <2> HIDE DEF new
  <2>1. ReactorTypeOK'
    BY <2>0, <2>n, <1>a, <1>c, <1>d, <1>e DEF ReactorTypeOK, Tokens, ReactorBounds
  <2>t. /\ token'[i] = nextToken /\ io'[i] = new /\ armed'[nextToken] = interest
        /\ \A j \in Items \ {i} : token'[j] = token[j] /\ io'[j] = io[j]
        /\ \A j \in Items : token[j] < nextToken /\ token[j] \in Nat
        /\ \A j \in Items : IsRegistered(j) => armed'[token[j]] = armed[token[j]]
        /\ nextToken # NoToken
    BY <2>0, <1>a DEF ReactorTypeOK, Tokens, TokenInv, IsRegistered, NoToken, ReactorBounds
  <2>2. TokenInv'
    <3>1. \A j \in Items : token'[j] < nextToken'
      BY <2>t, <1>a
    <3>2. \A j, k \in Items : token'[j] = token'[k] /\ IsRegistered(j)' => j = k
      BY <2>t, <1>a DEF TokenInv, IsRegistered
    <3>3. \A e \in edges' : e[1] < nextToken'
      BY <1>a, <1>d DEF TokenInv, ReactorTypeOK, Tokens, ReactorBounds
    <3> QED BY <3>1, <3>2, <3>3 DEF TokenInv
  <2>3. ArmedInv'
    <3> SUFFICES ASSUME NEW j \in Items
                 PROVE  /\ IsRegistered(j)' => armed'[token'[j]] = io'[j].interest
                        /\ ~IsRegistered(j)' => io'[j] = Cleared
                        /\ j \in suspended => IsRegistered(j)' /\ io'[j].interest = "Disabled"
      BY <1>e DEF ArmedInv
    <3>1. CASE j = i
      <4>1. i \notin suspended
        BY DEF ArmedInv, Register
      <4> QED BY <3>1, <2>t, <2>n, <4>1 DEF IsRegistered
    <3>2. CASE j # i
      BY <3>2, <2>t DEF ArmedInv, IsRegistered
    <3> QED BY <3>1, <3>2
  <2>4. EdgeInv'
    BY <2>0, <2>t, <1>a, <1>d DEF EdgeInv, TokenInv, ReactorTypeOK, Tokens, ReactorBounds
  <2>5. ReadinessNotLost'
    <3> SUFFICES ASSUME NEW j \in Items, NEW d \in Directions, IsRegistered(j)',
                        d \in ready[j] \cap Watched(io'[j].interest)
                 PROVE  \/ IF d = "r" THEN CanRead(io'[j]) ELSE CanWrite(io'[j])
                        \/ <<token'[j], d>> \in edges'
      BY <1>e DEF ReadinessNotLost
    <3>1. CASE j = i
      BY <3>1, <2>0, <2>t, <2>n
    <3>2. CASE j # i
      BY <3>2, <2>0, <2>t DEF ReadinessNotLost, IsRegistered
    <3> QED BY <3>1, <3>2
  <2>6. LatchIsOwn'
    BY ZenonT(60), <2>0, <2>t, <2>n DEF LatchIsOwn
  <2> QED BY <2>1, <2>2, <2>3, <2>4, <2>5, <2>6
<1> QED BY <1>1, <1>2

\* A change of interest: a direction that stays enabled keeps its latch, its probe and
\* its edge, one that is enabled anew is probed.
LEMMA ReregisterKeeps ==
    ASSUME ReactorBounds, ReactorInv, NEW i \in Items, NEW interest \in Interests,
           Reregister(i, interest)
    PROVE  ReactorInv'
<1> USE DEF ReactorInv
<1> DEFINE s == io[i]
           new == SetInterest(s, interest)
<1>a. /\ IsRegistered(i) /\ token[i] \in Tokens /\ s \in Slots
      /\ io' = [io EXCEPT ![i] = new]
      /\ UNCHANGED <<token, nextToken, ready>>
  BY DEF Reregister, IsRegistered, ReactorTypeOK
<1>b. new \in Slots
  BY <1>a, SlotTypes
<1>c. /\ new.interest = interest /\ new.readable = s.readable /\ new.writable = s.writable
      /\ new.readProbe = (Reads(interest) /\ (s.readProbe \/ ~Reads(s.interest)))
      /\ new.writeProbe = (Writes(interest) /\ (s.writeProbe \/ ~Writes(s.interest)))
  BY <1>a DEF SetInterest, Slots
<1> HIDE DEF new
<1>d. armed' = [armed EXCEPT ![token[i]] = interest]
  BY DEF Reregister, Rearm, Suspend
<1>e. /\ suspended' \subseteq suspended \cup {i}
      /\ i \in suspended' => interest = "Disabled"
  BY DEF Reregister, Rearm, Suspend
<1>f. /\ edgeSince \subseteq edgeSince'
      /\ edgeSince' \subseteq edgeSince \cup ({i} \X Directions)
      /\ \A e \in edges' : e \in edges \/ (e[1] = token[i] /\ e[2] \in Directions
                                           /\ e = <<token[i], e[2]>> /\ <<i, e[2]>> \in edgeSince')
      /\ \A e \in edges : e[1] # token[i] \/ e[2] \in Watched(interest) \/ interest = "Disabled"
                           => e \in edges'
  <2>1. CASE Rearm(i, interest)
    <3>1. edges \subseteq Tokens \X Directions /\ ready[i] \cap Watched(interest) \subseteq Directions
      BY DEF ReactorTypeOK
    <3>2. interest # "Disabled"
      BY <2>1 DEF Rearm
    <3>3. CASE i \in suspended
      BY <2>1, <3>1, <3>2, <3>3 DEF Rearm, Added
    <3>4. CASE i \notin suspended
      BY <2>1, <3>1, <3>2, <3>4 DEF Rearm
    <3> QED BY <3>3, <3>4
  <2>2. CASE Suspend(i, interest)
    BY <2>2 DEF Suspend
  <2> QED BY <2>1, <2>2 DEF Reregister
<1>g. /\ io'[i] = new /\ armed'[token[i]] = interest
      /\ \A j \in Items \ {i} : io'[j] = io[j]
      /\ \A j \in Items \ {i} : IsRegistered(j) => armed'[token[j]] = armed[token[j]] /\ token[j] # token[i]
  BY <1>a, <1>d DEF ReactorTypeOK, TokenInv, IsRegistered
<1>1. ReactorTypeOK'
  <2>1. suspended' \subseteq Items
    BY <1>e DEF ReactorTypeOK
  <2>2. edges' \subseteq Tokens \X Directions
    <3> SUFFICES ASSUME NEW e \in edges' PROVE e \in Tokens \X Directions
      OBVIOUS
    <3>1. CASE e \in edges
      BY <3>1 DEF ReactorTypeOK
    <3>2. CASE e[2] \in Directions /\ e = <<token[i], e[2]>>
      <4>1. PICK d \in Directions : e = <<token[i], d>>
        BY <3>2
      <4> QED BY <4>1, <1>a
    <3> QED BY <3>1, <3>2, <1>f
  <2>3. edgeSince' \subseteq Items \X Directions
    BY <1>f DEF ReactorTypeOK
  <2> QED BY <2>1, <2>2, <2>3, <1>a, <1>b, <1>d DEF ReactorTypeOK
<1>2. TokenInv'
  BY <1>a, <1>f DEF TokenInv, IsRegistered
<1>3. ArmedInv'
  <2> SUFFICES ASSUME NEW j \in Items
               PROVE  /\ IsRegistered(j) => armed'[token[j]] = io'[j].interest
                      /\ ~IsRegistered(j) => io'[j] = Cleared
                      /\ j \in suspended' => IsRegistered(j) /\ io'[j].interest = "Disabled"
    BY <1>a DEF ArmedInv, IsRegistered
  <2>1. CASE j = i
    BY <2>1, <1>a, <1>c, <1>e, <1>g
  <2>2. CASE j # i
    BY <2>2, <1>e, <1>g DEF ArmedInv
  <2> QED BY <2>1, <2>2
<1>4. EdgeInv'
  <2> SUFFICES ASSUME NEW j \in Items, NEW d \in Directions, <<token[j], d>> \in edges'
               PROVE  <<j, d>> \in edgeSince'
    BY <1>a DEF EdgeInv
  <2>1. CASE <<token[j], d>> \in edges
    BY <2>1, <1>f DEF EdgeInv
  <2>2. CASE token[j] = token[i] /\ <<i, d>> \in edgeSince'
    BY <2>2, <1>a DEF TokenInv
  <2> QED BY <2>1, <2>2, <1>f
<1>5. ReadinessNotLost'
  <2> SUFFICES ASSUME NEW j \in Items, NEW d \in Directions, IsRegistered(j),
                      d \in ready[j] \cap Watched(io'[j].interest)
               PROVE  \/ IF d = "r" THEN CanRead(io'[j]) ELSE CanWrite(io'[j])
                      \/ <<token[j], d>> \in edges'
    BY <1>a DEF ReadinessNotLost, IsRegistered
  <2>1. CASE j # i
    BY <2>1, <1>f, <1>g DEF ReadinessNotLost
  <2>2. CASE j = i /\ d \notin Watched(s.interest)
    BY <2>2, <1>c, <1>g DEF Watched, CanRead, CanWrite, Directions
  <2>3. CASE j = i /\ d \in Watched(s.interest) /\ <<token[i], d>> \in edges
    BY <2>3, <1>c, <1>f, <1>g
  <2>4. CASE j = i /\ d \in Watched(s.interest) /\ <<token[i], d>> \notin edges
    <3>1. IF d = "r" THEN CanRead(s) ELSE CanWrite(s)
      BY <2>4, <1>a DEF ReadinessNotLost
    <3> QED BY <2>4, <3>1, <1>c, <1>g DEF Watched, CanRead, CanWrite, Directions
  <2> QED BY <2>1, <2>2, <2>3, <2>4
<1>6. LatchIsOwn'
  BY <1>a, <1>c, <1>f, <1>g DEF LatchIsOwn
<1> QED BY <1>1, <1>2, <1>3, <1>4, <1>5, <1>6

\* The selector refuses a change: the item is no longer marked as suspended, and it is
\* still not armed.
LEMMA ReregisterFailsKeeps ==
    ASSUME ReactorInv, NEW i \in Items, ReregisterFails(i)
    PROVE  ReactorInv'
<1> USE DEF ReactorInv, ReregisterFails
<1>1. ReactorTypeOK'
  BY DEF ReactorTypeOK
<1>2. TokenInv' /\ EdgeInv' /\ ReadinessNotLost' /\ LatchIsOwn'
  BY DEF TokenInv, EdgeInv, ReadinessNotLost, LatchIsOwn, IsRegistered
<1>3. ArmedInv'
  BY DEF ArmedInv, IsRegistered
<1> QED BY <1>1, <1>2, <1>3

\* A removal forgets the token, the latch and the suspension; an edge that is still on
\* its way has nobody to go to.
LEMMA DeregisterKeeps ==
    ASSUME ReactorInv, NEW i \in Items, Deregister(i)
    PROVE  ReactorInv'
<1> USE DEF ReactorInv
<1>a. /\ IsRegistered(i) /\ token[i] \in Tokens
      /\ token' = [token EXCEPT ![i] = NoToken]
      /\ armed' = [armed EXCEPT ![token[i]] = "Disabled"]
      /\ suspended' = suspended \ {i}
      /\ io' = [io EXCEPT ![i] = Cleared]
      /\ edgeSince' = edgeSince \ ({i} \X Directions)
      /\ UNCHANGED <<nextToken, edges, ready>>
  BY DEF Deregister, IsRegistered, ReactorTypeOK
<1>b. /\ token'[i] = NoToken /\ io'[i] = Cleared
      /\ \A j \in Items \ {i} : token'[j] = token[j] /\ io'[j] = io[j]
      /\ \A j \in Items \ {i} : IsRegistered(j) => armed'[token[j]] = armed[token[j]]
  BY <1>a DEF ReactorTypeOK, TokenInv, IsRegistered
<1>c. \A d : <<NoToken, d>> \notin edges
  BY DEF ReactorTypeOK, Tokens, NoToken
<1>1. ReactorTypeOK'
  BY <1>a, ClearedSlot DEF ReactorTypeOK, Interests
<1>2. TokenInv'
  BY <1>a, <1>b DEF TokenInv, IsRegistered, ReactorTypeOK, NoToken
<1>3. ArmedInv'
  BY <1>a, <1>b DEF ArmedInv, IsRegistered
<1>4. EdgeInv'
  <2> SUFFICES ASSUME NEW j \in Items, NEW d \in Directions, <<token'[j], d>> \in edges
               PROVE  <<j, d>> \in edgeSince'
    BY <1>a DEF EdgeInv
  <2>1. j # i
    BY <1>b, <1>c
  <2> QED BY <2>1, <1>a, <1>b DEF EdgeInv
<1>5. ReadinessNotLost'
  BY <1>a, <1>b DEF ReadinessNotLost, IsRegistered
<1>6. LatchIsOwn'
  BY <1>a, <1>b, ClearedSlot DEF LatchIsOwn
<1> QED BY <1>1, <1>2, <1>3, <1>4, <1>5, <1>6

\* A poll latches every edge of a source that is not suspended; a suspended one has
\* asked for nothing.
LEMMA PollKeeps == ASSUME ReactorInv, Poll PROVE ReactorInv'
<1> USE DEF ReactorInv
<1> DEFINE told(i) == {d \in Directions : i \notin suspended /\ <<token[i], d>> \in edges}
<1>a. /\ io' = [i \in Items |-> MarkReady(io[i], "r" \in told(i), "w" \in told(i))]
      /\ edges' = {}
      /\ UNCHANGED <<token, nextToken, suspended, armed, ready, edgeSince>>
  BY DEF Poll
<1>b. ASSUME NEW i \in Items
      PROVE  /\ io'[i] \in Slots /\ io'[i].interest = io[i].interest
             /\ io'[i].readable = (io[i].readable \/ "r" \in told(i))
             /\ io'[i].writable = (io[i].writable \/ "w" \in told(i))
             /\ io'[i].readProbe = io[i].readProbe /\ io'[i].writeProbe = io[i].writeProbe
  <2>1. io[i] \in Slots
    BY DEF ReactorTypeOK
  <2>2. io'[i] = MarkReady(io[i], "r" \in told(i), "w" \in told(i))
    BY <1>a
  <2>3. ("r" \in told(i)) \in BOOLEAN /\ ("w" \in told(i)) \in BOOLEAN
    OBVIOUS
  <2> HIDE DEF told
  <2>4. io'[i] \in Slots
    BY <2>1, <2>2, <2>3, SlotTypes
  <2> QED BY <2>1, <2>2, <2>4 DEF MarkReady, Slots
<1>1. ReactorTypeOK'
  BY <1>a, <1>b DEF ReactorTypeOK
<1>2. TokenInv' /\ EdgeInv'
  BY <1>a DEF TokenInv, EdgeInv, IsRegistered
<1>3. ArmedInv'
  <2> SUFFICES ASSUME NEW i \in Items
               PROVE  /\ IsRegistered(i) => armed[token[i]] = io'[i].interest
                      /\ ~IsRegistered(i) => io'[i] = Cleared
                      /\ i \in suspended => IsRegistered(i) /\ io'[i].interest = "Disabled"
    BY <1>a DEF ArmedInv, IsRegistered
  <2>1. ASSUME ~IsRegistered(i) PROVE io'[i] = Cleared
    <3>1. told(i) = {} /\ io[i] = Cleared
      BY <2>1 DEF ReactorTypeOK, ArmedInv, IsRegistered, Tokens, NoToken
    <3>2. io'[i] \in Slots /\ Cleared \in Slots
      BY <1>b, ClearedSlot
    <3>3. /\ io'[i].interest = Cleared.interest
          /\ io'[i].readProbe = Cleared.readProbe /\ io'[i].writeProbe = Cleared.writeProbe
      BY <3>1, <1>b
    <3>4. "r" \notin told(i) /\ "w" \notin told(i)
      BY <3>1
    <3> HIDE DEF told
    <3>5. io'[i].readable = Cleared.readable
      BY <3>1, <3>2, <3>4, <1>b DEF Slots
    <3>6. io'[i].writable = Cleared.writable
      BY <3>1, <3>2, <3>4, <1>b DEF Slots
    <3> QED BY <3>2, <3>3, <3>5, <3>6 DEF Slots
  <2> QED BY <2>1, <1>b DEF ArmedInv
<1>5. ReadinessNotLost'
  <2> SUFFICES ASSUME NEW i \in Items, NEW d \in Directions, IsRegistered(i),
                      d \in ready[i] \cap Watched(io[i].interest)
               PROVE  IF d = "r" THEN CanRead(io'[i]) ELSE CanWrite(io'[i])
    BY <1>a, <1>b DEF ReadinessNotLost, IsRegistered
  <2>1. i \notin suspended
    BY DEF ArmedInv, Watched, Reads, Writes
  <2>2. CASE <<token[i], d>> \in edges
    BY <2>1, <2>2, <1>b DEF Watched, CanRead, CanWrite, Directions
  <2>3. CASE <<token[i], d>> \notin edges
    <3>1. IF d = "r" THEN CanRead(io[i]) ELSE CanWrite(io[i])
      BY <2>3 DEF ReadinessNotLost
    <3> QED BY <3>1, <1>b DEF CanRead, CanWrite
  <2> QED BY <2>2, <2>3
<1>6. LatchIsOwn'
  BY <1>a, <1>b DEF LatchIsOwn, EdgeInv, Directions
<1> QED BY <1>1, <1>2, <1>3, <1>5, <1>6

\* An operation that makes progress changes no slot, and one that would block clears a
\* latch of a direction that is not ready.
LEMMA TryIoKeeps ==
    ASSUME ReactorInv, NEW i \in Items, NEW d \in Directions, TryIo(i, d)
    PROVE  ReactorInv'
<1> USE DEF ReactorInv
<1>a. UNCHANGED <<token, nextToken, suspended, armed, edges, edgeSince>>
  BY DEF TryIo
<1>b. TokenInv' /\ EdgeInv'
  BY <1>a DEF TokenInv, EdgeInv, IsRegistered
<1>1. CASE UNCHANGED io
  <2>1. /\ ready' \in [Items -> SUBSET Directions]
        /\ \A j \in Items : ready'[j] \subseteq ready[j]
    BY <1>1 DEF TryIo, ReactorTypeOK
  <2>2. ReactorTypeOK'
    BY <1>a, <1>1, <2>1 DEF ReactorTypeOK
  <2>3. ArmedInv' /\ LatchIsOwn'
    BY <1>a, <1>1 DEF ArmedInv, LatchIsOwn, IsRegistered
  <2>4. ReadinessNotLost'
    BY <1>a, <1>1, <2>1 DEF ReadinessNotLost, IsRegistered
  <2> QED BY <1>b, <2>2, <2>3, <2>4
<1>2. CASE d \notin ready[i] /\ UNCHANGED ready
           /\ io' = [io EXCEPT ![i] = IF d = "r" THEN ClearReadAfterWouldBlock(@)
                                                 ELSE ClearWriteAfterWouldBlock(@)]
  <2> DEFINE new == IF d = "r" THEN ClearReadAfterWouldBlock(io[i]) ELSE ClearWriteAfterWouldBlock(io[i])
  <2>0. io[i] \in Slots /\ new \in Slots
    BY SlotTypes DEF ReactorTypeOK
  <2>1. /\ new.interest = io[i].interest
        /\ new.readable => io[i].readable
        /\ new.writable => io[i].writable
        /\ d # "r" => new.readable = io[i].readable /\ new.readProbe = io[i].readProbe
        /\ d = "r" => new.writable = io[i].writable /\ new.writeProbe = io[i].writeProbe
    BY <2>0 DEF ClearReadAfterWouldBlock, ClearWriteAfterWouldBlock, Slots
  <2>2. io' = [io EXCEPT ![i] = new]
    BY <1>2
  <2>3. IsRegistered(i)
    <3>1. io[i] # Cleared
      BY ClearedSlot DEF TryIo, CanRead, CanWrite, Reads, Writes
    <3> QED BY <3>1 DEF ArmedInv
  <2> HIDE DEF new
  <2>4. io'[i] = new /\ \A j \in Items \ {i} : io'[j] = io[j]
    BY <2>2 DEF ReactorTypeOK
  <2>5. ReactorTypeOK'
    BY <1>a, <1>2, <2>0, <2>2 DEF ReactorTypeOK
  <2>6. ArmedInv'
    BY <1>a, <2>1, <2>3, <2>4 DEF ArmedInv, IsRegistered
  <2>7. LatchIsOwn'
    BY <1>a, <2>1, <2>4 DEF LatchIsOwn
  <2>8. ReadinessNotLost'
    <3> SUFFICES ASSUME NEW j \in Items, NEW e \in Directions, IsRegistered(j),
                        e \in ready[j] \cap Watched(io'[j].interest)
                 PROVE  \/ IF e = "r" THEN CanRead(io'[j]) ELSE CanWrite(io'[j])
                        \/ <<token[j], e>> \in edges
      BY <1>a, <1>2 DEF ReadinessNotLost, IsRegistered
    <3>1. CASE j # i
      BY <3>1, <2>4 DEF ReadinessNotLost
    <3>2. CASE j = i
      <4>1. e # d
        BY <3>2, <1>2
      <4>2. \/ IF e = "r" THEN CanRead(io[i]) ELSE CanWrite(io[i])
            \/ <<token[i], e>> \in edges
        BY <3>2, <2>1, <2>4 DEF ReadinessNotLost
      <4> QED BY <3>2, <4>1, <4>2, <2>1, <2>4 DEF CanRead, CanWrite, Directions
    <3> QED BY <3>1, <3>2
  <2> QED BY <1>b, <2>5, <2>6, <2>7, <2>8
<1> QED BY <1>1, <1>2 DEF TryIo

\* What arrives raises an edge wherever the owner's slot is interested.
LEMMA ArrivesKeeps ==
    ASSUME ReactorInv, NEW i \in Items, NEW d \in Directions, Arrives(i, d)
    PROVE  ReactorInv'
<1> USE DEF ReactorInv
<1>a. /\ UNCHANGED <<token, nextToken, suspended, io, armed>>
      /\ ready' = [ready EXCEPT ![i] = @ \cup {d}]
  BY DEF Arrives
<1>b. /\ edges \subseteq edges' /\ edgeSince \subseteq edgeSince'
      /\ edges' \subseteq edges \cup {<<token[i], d>>}
      /\ edgeSince' \subseteq edgeSince \cup {<<i, d>>}
      /\ edges' # edges => IsRegistered(i) /\ <<i, d>> \in edgeSince'
      /\ IsRegistered(i) /\ d \in Watched(armed[token[i]]) => <<token[i], d>> \in edges'
  BY DEF Arrives
<1>1. ReactorTypeOK'
  <2>1. IsRegistered(i) => token[i] \in Tokens
    BY DEF ReactorTypeOK, IsRegistered
  <2>2. edges' \subseteq Tokens \X Directions /\ edgeSince' \subseteq Items \X Directions
    BY <1>b, <2>1 DEF ReactorTypeOK
  <2> QED BY <2>2, <1>a DEF ReactorTypeOK
<1>2. TokenInv'
  BY <1>a, <1>b DEF TokenInv, IsRegistered
<1>3. ArmedInv'
  BY <1>a DEF ArmedInv, IsRegistered
<1>4. EdgeInv'
  <2> SUFFICES ASSUME NEW j \in Items, NEW e \in Directions, <<token[j], e>> \in edges'
               PROVE  <<j, e>> \in edgeSince'
    BY <1>a DEF EdgeInv
  <2>1. CASE <<token[j], e>> \in edges
    BY <2>1, <1>b DEF EdgeInv
  <2>2. CASE <<token[j], e>> \notin edges
    <3>1. token[j] = token[i] /\ e = d /\ IsRegistered(i) /\ <<i, d>> \in edgeSince'
      BY <2>2, <1>b
    <3> QED BY <3>1 DEF TokenInv
  <2> QED BY <2>1, <2>2
<1>5. ReadinessNotLost'
  <2> SUFFICES ASSUME NEW j \in Items, NEW e \in Directions, IsRegistered(j),
                      e \in ready'[j] \cap Watched(io[j].interest)
               PROVE  \/ IF e = "r" THEN CanRead(io[j]) ELSE CanWrite(io[j])
                      \/ <<token[j], e>> \in edges'
    BY <1>a DEF ReadinessNotLost, IsRegistered
  <2>1. CASE e \in ready[j]
    BY <2>1, <1>b DEF ReadinessNotLost
  <2>2. CASE e \notin ready[j]
    <3>1. j = i /\ e = d
      BY <2>2, <1>a DEF ReactorTypeOK
    <3> QED BY <3>1, <1>b DEF ArmedInv
  <2> QED BY <2>1, <2>2
<1>6. LatchIsOwn'
  BY <1>a, <1>b DEF LatchIsOwn
<1> QED BY <1>1, <1>2, <1>3, <1>4, <1>5, <1>6

\* Every step of the reactor keeps the invariant.
LEMMA ReactorNextKeeps ==
    ASSUME ReactorBounds, ReactorInv, [ReactorNext]_reactorVars
    PROVE  ReactorInv'
<1>1. CASE ReactorNext
  BY <1>1, RegisterKeeps, ReregisterKeeps, ReregisterFailsKeeps, DeregisterKeeps, PollKeeps,
     TryIoKeeps, ArrivesKeeps DEF ReactorNext
<1>2. CASE UNCHANGED reactorVars
  BY <1>2 DEF reactorVars, ReactorInv, ReactorTypeOK, TokenInv, ArmedInv, EdgeInv,
     ReadinessNotLost, LatchIsOwn, IsRegistered
<1> QED BY <1>1, <1>2

\* The inductive invariant of the reactor (reactor/mio/mod.rs).
THEOREM ReactorInvariant ==
    ReactorSpec => []ReactorInv
<1>1. ReactorInit => ReactorInv
  BY ReactorAssumption, ReactorInitInv
<1>2. ReactorInv /\ [ReactorNext]_reactorVars => ReactorInv'
  BY ReactorAssumption, ReactorNextKeeps
<1> QED BY <1>1, <1>2, PTL DEF ReactorSpec

\* Every variable of the reactor keeps its type.
THEOREM ReactorTypes ==
    ReactorSpec => []ReactorTypeOK
<1>1. ReactorInv => ReactorTypeOK
  BY DEF ReactorInv
<1> QED BY <1>1, ReactorInvariant, PTL

\* Readiness in a direction its owner asked for is never forgotten: not when an
\* interest changes, not across a suspension, and not when other sources come and go.
THEOREM ReadinessIsKept ==
    ReactorSpec => []ReadinessNotLost
<1>1. ReactorInv => ReadinessNotLost
  BY DEF ReactorInv
<1> QED BY <1>1, ReactorInvariant, PTL

\* No owner is told of an edge that belongs to an earlier registration of its item.
THEOREM LatchesAreOwn ==
    ReactorSpec => []LatchIsOwn
<1>1. ReactorInv => LatchIsOwn
  BY DEF ReactorInv
<1> QED BY <1>1, ReactorInvariant, PTL

\* Both together: every edge that matters reaches its owner and nobody else.
THEOREM EdgesAreDelivered == ReactorSpec => []EdgesDelivered
<1>1. ReadinessNotLost /\ LatchIsOwn => EdgesDelivered
  BY DEF EdgesDelivered
<1> QED
  BY ReadinessIsKept, LatchesAreOwn, <1>1, PTL
=============================================================================
