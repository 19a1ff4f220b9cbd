-------------------------------- MODULE Ring --------------------------------
(***************************************************************************)
(* libs/agentdp-ds/src/sync/ring.rs: the cross-thread ring whose slots are *)
(* filled and read in place.  A producer reserves a contiguous run of      *)
(* slots, fills them and commits all, some or none; the consumer borrows a *)
(* contiguous run of committed slots and releases it when it is done.      *)
(*                                                                         *)
(* Each action is one access to shared memory.  A load of the other side's *)
(* cursor returns any value it has held since this side last synchronised  *)
(* with it; a load of its liveness flag may still see true.  Cursors wrap: *)
(* they live in 0 .. RingCursors - 1 (2^64 in the code).                   *)
(***************************************************************************)
EXTENDS Integers, Sequences

CONSTANTS
    RingValues,     \* what a slot may be filled with
    RingCapacity,   \* logical capacity: max(requested, 1)
    RingSlots,      \* physical capacity: the next power of two
    RingCursors,    \* number of cursor values
    MaxBatch        \* largest batch either side asks for

\* bounded(): what the constructor makes of the capacity asked for, with cursors
\* that are far wider than any capacity.
RingBounds ==
    /\ RingCapacity \in Nat \ {0} /\ RingSlots \in Nat /\ RingCapacity <= RingSlots
    /\ RingCursors \in Nat /\ RingCapacity + 1 < RingCursors
    /\ \E k \in 1 .. RingCursors : RingCursors = k * RingSlots
    /\ MaxBatch \in Nat \ {0}

ASSUME FrameRingAssumption == RingBounds

VARIABLES
    ringHead, ringTail,   \* the shared cursors
    ringSlots,            \* the slots; never uninitialised (T: Default)
    ringAlive,            \* [producer, consumer]: the shared flags
    producer, consumer,   \* what each thread keeps to itself
    committed             \* ghost: the values committed and not released

ringVars == <<ringHead, ringTail, ringSlots, ringAlive, producer, consumer, committed>>

FrameCursors == 0 .. RingCursors - 1
Least(a, b) == IF a <= b THEN a ELSE b

FrameAdd(c, k) == IF c + k < RingCursors THEN c + k ELSE c + k - RingCursors
FrameSub(a, b) == IF b <= a THEN a - b ELSE a - b + RingCursors

\* sequence & mask, with mask = RingSlots - 1 and RingSlots a power of two.
FrameIndex(cursor) == cursor % RingSlots
Slot(cursor, i) == ringSlots[FrameIndex(FrameAdd(cursor, i))]

\* The values a coherent load of a cursor last seen at `seen` may return.
Loads(seen, current) ==
    {c \in FrameCursors : FrameSub(c, seen) <= FrameSub(current, seen)}

\* bounded / buffered: a plain producer hands out batches, a buffered one
\* publishes by itself when its batch of `size` is full.
RingInit ==
    /\ ringHead = 0 /\ ringTail = 0
    /\ \E v \in RingValues : ringSlots = [i \in 0 .. RingSlots - 1 |-> v]
    /\ ringAlive = [producer |-> TRUE, consumer |-> TRUE]
    /\ producer \in [buffered : BOOLEAN, at : {"idle"}, seen : {0}, max : {1},
                     base : {0}, len : {0}, written : {0}]
    /\ consumer = [at |-> "idle", seen |-> 0, max |-> 1, len |-> 0, result |-> "none"]
    /\ committed = <<>>

-----------------------------------------------------------------------------
(* The producer thread *)

\* try_reserve_batch(max), and write_with when no reserved slot is left, begin
\* with a look at consumer_alive.
ReserveBegin(max) ==
    /\ producer.at = "idle" /\ producer.written = producer.len
    /\ \/ producer' = [producer EXCEPT !.at = "reserve", !.max = max]
       \/ ~ringAlive.consumer /\ UNCHANGED producer    \* Disconnected
    /\ UNCHANGED <<ringHead, ringTail, ringSlots, ringAlive, consumer, committed>>

\* Mutant: the room is counted without the slots already committed.
ContiguousAvailableAnyhow(seen) == RingSlots - FrameIndex(ringTail)

\* contiguous_available: what the cached head leaves free, up to the end of
\* the slot array.
ContiguousAvailable(seen) ==
    Least(RingCapacity - FrameSub(ringTail, seen), RingSlots - FrameIndex(ringTail))

Reserved(seen) ==
    producer' = [producer EXCEPT !.at = "fill", !.seen = seen, !.base = ringTail, !.written = 0,
                                 !.len = Least(ContiguousAvailable(seen), producer.max)]

\* reserve_len: the head is loaded again only when the cached one says full.
ReserveCheck ==
    /\ producer.at = "reserve"
    /\ IF FrameSub(FrameAdd(ringTail, 1), producer.seen) <= RingCapacity
       THEN Reserved(producer.seen)
       ELSE \E h \in Loads(producer.seen, ringHead) :
              IF FrameSub(FrameAdd(ringTail, 1), h) > RingCapacity
              THEN producer' = [producer EXCEPT !.at = "idle", !.seen = h]    \* Full
              ELSE Reserved(h)
    /\ UNCHANGED <<ringHead, ringTail, ringSlots, ringAlive, consumer, committed>>

\* fill, get_mut and write_with change reserved slots in place.
WriteSlot(v) ==
    /\ producer.at = "fill" /\ producer.written < producer.len
    /\ ringSlots' = [ringSlots EXCEPT ![FrameIndex(FrameAdd(producer.base, producer.written))] = v]
    /\ producer' = [producer EXCEPT !.written = @ + 1]
    /\ UNCHANGED <<ringHead, ringTail, ringAlive, consumer, committed>>

\* The release store of tail.
Publish(n) ==
    /\ ringTail' = IF n = 0 THEN ringTail ELSE FrameAdd(producer.base, n)
    /\ committed' = committed \o [i \in 1 .. n |-> Slot(producer.base, i - 1)]
    /\ producer' = [producer EXCEPT !.at = "idle", !.base = 0, !.len = 0, !.written = 0]

\* commit, commit_len, and the drop of a batch, which commits nothing.
Commit(n) ==
    /\ ~producer.buffered
    /\ producer.at = "fill" /\ n <= producer.len
    /\ Publish(n)
    /\ UNCHANGED <<ringHead, ringSlots, ringAlive, consumer>>

\* BufferedProducer::flush, by itself when the batch is full or when asked.
Flush ==
    /\ producer.buffered /\ producer.at = "fill"
    /\ Publish(producer.written)
    /\ UNCHANGED <<ringHead, ringSlots, ringAlive, consumer>>

\* Dropping a buffered producer flushes it first.
DropProducer ==
    /\ producer.at = "idle" /\ ringAlive.producer
    /\ producer' = [producer EXCEPT !.at = "dropped"]
    /\ ringAlive' = [ringAlive EXCEPT !.producer = FALSE]
    /\ UNCHANGED <<ringHead, ringTail, ringSlots, consumer, committed>>

-----------------------------------------------------------------------------
(* The consumer thread *)

ReadBegin(max) ==
    /\ consumer.at = "idle"
    /\ consumer' = [consumer EXCEPT !.at = "check", !.max = max]
    /\ UNCHANGED <<ringHead, ringTail, ringSlots, ringAlive, producer, committed>>

ReadStops(result, seen) ==
    consumer' = [consumer EXCEPT !.at = "idle", !.seen = seen, !.result = result]

\* The batch ends at the last committed slot, at the end of the array, or at
\* the caller's bound.
Borrow(seen) ==
    consumer' = [consumer EXCEPT !.at = "read", !.seen = seen, !.result = "batch",
                   !.len = Least(Least(FrameSub(seen, ringHead), RingSlots - FrameIndex(ringHead)), consumer.max)]

\* try_read_batch: the cached tail, the tail, the producer's flag, and, once
\* that says gone, the tail again: the acquire load that saw false makes every
\* store of the producer visible.
ReadCheck ==
    /\ \/ /\ consumer.at = "check" /\ consumer.seen # ringHead
          /\ Borrow(consumer.seen)
       \/ /\ consumer.at = "check" /\ consumer.seen = ringHead
          /\ \E t \in Loads(consumer.seen, ringTail) :
               IF t # ringHead THEN Borrow(t) ELSE consumer' = [consumer EXCEPT !.at = "alive", !.seen = t]
       \/ /\ consumer.at = "alive"
          /\ \/ ReadStops("empty", consumer.seen)
             \/ ~ringAlive.producer /\ consumer' = [consumer EXCEPT !.at = "recheck"]
       \/ /\ consumer.at = "recheck"
          /\ IF ringTail = ringHead THEN ReadStops("disconnected", ringTail) ELSE Borrow(ringTail)
    /\ UNCHANGED <<ringHead, ringTail, ringSlots, ringAlive, producer, committed>>

\* release, or the drop of the batch: the release store of head.
Release ==
    /\ consumer.at = "read"
    /\ ringHead' = FrameAdd(ringHead, consumer.len)
    /\ committed' = SubSeq(committed, consumer.len + 1, Len(committed))
    /\ consumer' = [consumer EXCEPT !.at = "idle", !.len = 0]
    /\ UNCHANGED <<ringTail, ringSlots, ringAlive, producer>>

DropConsumer ==
    /\ consumer.at = "idle" /\ ringAlive.consumer
    /\ consumer' = [consumer EXCEPT !.at = "dropped"]
    /\ ringAlive' = [ringAlive EXCEPT !.consumer = FALSE]
    /\ UNCHANGED <<ringHead, ringTail, ringSlots, producer, committed>>

RingNext ==
    \/ \E max \in 1 .. MaxBatch : ReserveBegin(max) \/ ReadBegin(max)
    \/ ReserveCheck
    \/ \E v \in RingValues : WriteSlot(v)
    \/ \E n \in 0 .. RingCapacity : Commit(n)
    \/ Flush
    \/ DropProducer
    \/ ReadCheck
    \/ Release
    \/ DropConsumer

RingSpec == RingInit /\ [][RingNext]_ringVars
-----------------------------------------------------------------------------

RingTypeOK ==
    /\ ringHead \in FrameCursors /\ ringTail \in FrameCursors
    /\ ringSlots \in [0 .. RingSlots - 1 -> RingValues]
    /\ producer.at \in {"idle", "reserve", "fill", "dropped"}
    /\ producer.written \in 0 .. producer.len
    /\ consumer.at \in {"idle", "check", "alive", "recheck", "read", "dropped"}
    /\ consumer.len \in 0 .. MaxBatch

\* A committed slot keeps its value until the consumer has released it: no
\* reservation of the producer, however stale its copy of head, ever reaches a
\* slot the consumer may be reading, the consumer borrows committed slots
\* only, and the stream ends for it only after the last one
\* (try_reserve_batch, try_read_batch).
SlotsOwned ==
    /\ Len(committed) = FrameSub(ringTail, ringHead)
    /\ consumer.len <= Len(committed)
    /\ \A i \in 1 .. Len(committed) : Slot(ringHead, i - 1) = committed[i]
    /\ consumer.result = "disconnected" => committed = <<>>
=============================================================================
