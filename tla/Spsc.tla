-------------------------------- MODULE Spsc --------------------------------
(***************************************************************************)
(* libs/agentdp-ds/src/sync/spsc.rs: the lock-free bounded queue that      *)
(* carries NetworkCommands from the server thread to an instance's network *)
(* thread.  One sender thread and one receiver thread share a ring of      *)
(* slots, two cursors and two liveness flags.                              *)
(*                                                                         *)
(* Each action is one access to shared memory.  Loads follow the           *)
(* release/acquire orderings the code asks for: a thread that loads the    *)
(* other side's cursor or flag may see any value it has held since this    *)
(* thread last synchronised with it, never an older one, and every write   *)
(* that happened before the store it reads is visible with it.             *)
(*                                                                         *)
(* Cursors are u64 values that wrap: they live in 0 .. CursorSpace - 1.    *)
(***************************************************************************)
EXTENDS Integers, Sequences

CONSTANTS
    Values,
    Capacity,     \* logical capacity: max(requested, 1)
    SlotCount,    \* physical capacity: the next power of two
    CursorSpace   \* number of cursor values, 2^64 in the code

ASSUME RingAssumption ==
    /\ Capacity \in Nat \ {0}
    /\ SlotCount \in Nat
    /\ Capacity <= SlotCount
    /\ CursorSpace \in Nat
    /\ Capacity < CursorSpace
    /\ \E k \in 1..CursorSpace : CursorSpace = k * SlotCount

Uninit == <<"uninit">>    \* MaybeUninit: no live value in the slot

ASSUME ValuesAssumption == Uninit \notin Values

VARIABLES
    head, tail,                    \* the shared cursors
    slots,                         \* slots[i] is a live value or Uninit
    senderAlive, receiverAlive,    \* the shared flags
    cachedHead, cachedTail,        \* each side's private copy of the other's cursor
    spc, value,                    \* the sender thread: where it is, what it sends
    rpc, draining, item,           \* the receiver thread: where, try_recv or drain, what it read
    sent, received,                \* the last results
    freed                          \* Inner has been dropped

svars == <<cachedHead, spc, value, sent>>
rvars == <<cachedTail, rpc, draining, item, received>>
vars == <<head, tail, slots, senderAlive, receiverAlive, svars, rvars, freed>>

Cursors == 0 .. CursorSpace - 1

\* Mutant: the cursor does not wrap.
PlainAdd(c, k) == c + k

WrappingAdd(c, k) ==
    IF c + k < CursorSpace THEN c + k ELSE c + k - CursorSpace

WrappingSub(a, b) ==
    IF b <= a THEN a - b ELSE a - b + CursorSpace

\* Mutant: the mask is taken from the logical capacity.
RingIndexByCapacity(cursor) == cursor % Capacity

\* cursor & mask, with mask = SlotCount - 1 and SlotCount a power of two.
RingIndex(cursor) == cursor % SlotCount

\* The values a coherent load may return: the ones the cursor has held since
\* it was last seen at `seen`.
LoadCursor(seen, current) ==
    {c \in Cursors : WrappingSub(c, seen) <= WrappingSub(current, seen)}

Init ==
    /\ head = 0 /\ tail = 0
    /\ slots = [i \in 0 .. SlotCount - 1 |-> Uninit]
    /\ senderAlive = TRUE /\ receiverAlive = TRUE
    /\ cachedHead = 0 /\ cachedTail = 0
    /\ spc = "idle" /\ value = Uninit
    /\ rpc = "idle" /\ draining = FALSE /\ item = Uninit
    /\ sent = <<"none">> /\ received = <<"none">>
    /\ freed = FALSE

-----------------------------------------------------------------------------
(* try_send *)

SendStopped(result) ==
    /\ spc' = "idle"
    /\ value' = Uninit
    /\ sent' = result

\* try_send begins by loading receiver_alive.  A flag goes from true to false
\* once, and a load may still see true.
SendBegin(v) ==
    /\ spc = "idle"
    /\ \/ spc' = "check" /\ value' = v /\ UNCHANGED sent
       \/ ~receiverAlive /\ SendStopped(<<"disconnected">>)
    /\ UNCHANGED <<head, tail, slots, senderAlive, receiverAlive, cachedHead, rvars, freed>>

\* The cached head says whether there is room; when it does not, head is
\* loaded again and a ring that is still full ends the call.
SendCheck ==
    /\ spc = "check"
    /\ IF WrappingSub(tail, cachedHead) # Capacity
       THEN spc' = "write" /\ UNCHANGED <<cachedHead, value, sent>>
       ELSE \E h \in LoadCursor(cachedHead, head) :
              /\ cachedHead' = h
              /\ IF WrappingSub(tail, h) = Capacity
                 THEN SendStopped(<<"full">>)
                 ELSE spc' = "write" /\ UNCHANGED <<value, sent>>
    /\ UNCHANGED <<head, tail, slots, senderAlive, receiverAlive, rvars, freed>>

SendWrite ==
    /\ spc = "write"
    /\ slots' = [slots EXCEPT ![RingIndex(tail)] = value]
    /\ spc' = "publish"
    /\ UNCHANGED <<head, tail, senderAlive, receiverAlive, cachedHead, value, sent, rvars, freed>>

SendPublish ==
    /\ spc = "publish"
    /\ tail' = WrappingAdd(tail, 1)
    /\ SendStopped(<<"ok">>)
    /\ UNCHANGED <<head, slots, senderAlive, receiverAlive, cachedHead, rvars, freed>>

DropSender ==
    /\ spc = "idle"
    /\ spc' = "dropped"
    /\ senderAlive' = FALSE
    /\ UNCHANGED <<head, tail, slots, receiverAlive, cachedHead, value, sent, rvars, freed>>

-----------------------------------------------------------------------------
(* try_recv and drain *)

RecvStopped(result) ==
    /\ rpc' = "idle"
    /\ draining' = FALSE
    /\ received' = result

RecvBegin ==
    /\ rpc = "idle"
    /\ rpc' = "check"
    /\ draining' \in BOOLEAN
    /\ UNCHANGED <<head, tail, slots, senderAlive, receiverAlive, cachedTail, item, received, svars, freed>>

\* Both calls load tail when the cached copy says empty.  On a ring that is
\* still empty drain returns, and try_recv goes on to look at sender_alive.
RecvCheck ==
    /\ rpc = "check"
    /\ IF cachedTail # head
       THEN rpc' = "read" /\ UNCHANGED <<cachedTail, draining, received>>
       ELSE \E t \in LoadCursor(cachedTail, tail) :
              /\ cachedTail' = t
              /\ \/ t # head /\ rpc' = "read" /\ UNCHANGED <<draining, received>>
                 \/ t = head /\ draining /\ RecvStopped(received)
                 \/ t = head /\ ~draining /\ rpc' = "alive" /\ UNCHANGED <<draining, received>>
    /\ UNCHANGED <<head, tail, slots, senderAlive, receiverAlive, item, svars, freed>>

\* Mutant: a dead sender ends the call without a second look at tail.
RecvSenderAliveFinal ==
    /\ rpc = "alive"
    /\ \/ RecvStopped(<<"empty">>)
       \/ ~senderAlive /\ RecvStopped(<<"disconnected">>)
    /\ UNCHANGED <<head, tail, slots, senderAlive, receiverAlive, cachedTail, item, svars, freed>>

RecvSenderAlive ==
    /\ rpc = "alive"
    /\ \/ RecvStopped(<<"empty">>)
       \/ ~senderAlive /\ rpc' = "recheck" /\ UNCHANGED <<draining, received>>
    /\ UNCHANGED <<head, tail, slots, senderAlive, receiverAlive, cachedTail, item, svars, freed>>

\* The acquire load that saw sender_alive = false makes every store of the
\* sender visible: this load of tail returns its last value.
RecvRecheck ==
    /\ rpc = "recheck"
    /\ cachedTail' = tail
    /\ IF tail = head
       THEN RecvStopped(<<"disconnected">>)
       ELSE rpc' = "read" /\ UNCHANGED <<draining, received>>
    /\ UNCHANGED <<head, tail, slots, senderAlive, receiverAlive, item, svars, freed>>

\* read_one: assume_init_read moves the value out of the slot ...
RecvRead ==
    /\ rpc = "read"
    /\ item' = slots[RingIndex(head)]
    /\ slots' = [slots EXCEPT ![RingIndex(head)] = Uninit]
    /\ rpc' = "advance"
    /\ UNCHANGED <<head, tail, senderAlive, receiverAlive, cachedTail, draining, received, svars, freed>>

\* ... and the release store of head gives the slot back.  drain loops.
RecvAdvance ==
    /\ rpc = "advance"
    /\ head' = WrappingAdd(head, 1)
    /\ received' = <<"item", item>>
    /\ item' = Uninit
    /\ rpc' = IF draining THEN "check" ELSE "idle"
    /\ UNCHANGED <<tail, slots, senderAlive, receiverAlive, cachedTail, draining, svars, freed>>

DropReceiver ==
    /\ rpc = "idle"
    /\ rpc' = "dropped"
    /\ receiverAlive' = FALSE
    /\ UNCHANGED <<head, tail, slots, senderAlive, cachedTail, draining, item, received, svars, freed>>

\* Inner::drop runs once both Arcs are gone and drops the slots in [head, tail).
DropInner ==
    /\ spc = "dropped" /\ rpc = "dropped" /\ ~freed
    /\ freed' = TRUE
    /\ slots' = [i \in 0 .. SlotCount - 1 |->
                   IF \E k \in 0 .. WrappingSub(tail, head) - 1 :
                        RingIndex(WrappingAdd(head, k)) = i
                   THEN Uninit ELSE slots[i]]
    /\ UNCHANGED <<head, tail, senderAlive, receiverAlive, svars, rvars>>

-----------------------------------------------------------------------------

Sender == (\E v \in Values : SendBegin(v)) \/ SendCheck \/ SendWrite \/ SendPublish \/ DropSender

Receiver ==
    \/ RecvBegin \/ RecvCheck \/ RecvSenderAlive \/ RecvRecheck
    \/ RecvRead \/ RecvAdvance \/ DropReceiver

Next == Sender \/ Receiver \/ DropInner

Spec == Init /\ [][Next]_vars

-----------------------------------------------------------------------------
(* Properties *)

Occupied == WrappingSub(tail, head)

Results == {<<"none">>, <<"ok">>, <<"full">>, <<"empty">>, <<"disconnected">>}

\* Every variable holds a value of its Rust type, and the flags agree with the
\* threads that own them.
TypeOK ==
    /\ head \in Cursors /\ tail \in Cursors
    /\ cachedHead \in Cursors /\ cachedTail \in Cursors
    /\ slots \in [0 .. SlotCount - 1 -> Values \cup {Uninit}]
    /\ spc \in {"idle", "check", "write", "publish", "dropped"}
    /\ rpc \in {"idle", "check", "alive", "recheck", "read", "advance", "dropped"}
    /\ value \in Values \cup {Uninit} /\ item \in Values \cup {Uninit}
    /\ senderAlive \in BOOLEAN /\ receiverAlive \in BOOLEAN
    /\ draining \in BOOLEAN /\ freed \in BOOLEAN
    /\ sent \in Results
    /\ received \in Results \cup ({"item"} \X (Values \cup {Uninit}))
    /\ senderAlive <=> spc # "dropped"
    /\ receiverAlive <=> rpc # "dropped"

\* The SAFETY comments of try_send and read_one: the sender only ever writes a
\* slot that holds no live value, the receiver only reads an initialised one, and
\* the two never have the same slot in hand, even at full capacity and across the
\* wrap of the cursors.
SlotExclusive ==
    /\ spc = "write" => slots[RingIndex(tail)] = Uninit
    /\ rpc = "read" => slots[RingIndex(head)] # Uninit
    /\ (spc \in {"write", "publish"} /\ rpc \in {"read", "advance"})
          => RingIndex(tail) # RingIndex(head)

\* The cursors stay in order, head <= cached tail <= tail <= cached head + Capacity
\* around the cursor space, and what each thread has established so far holds.
CursorInv ==
    /\ Occupied <= Capacity
    /\ WrappingSub(head, cachedHead) + Occupied <= Capacity
    /\ WrappingSub(cachedTail, head) <= Occupied
    /\ spc \in {"write", "publish"} => WrappingSub(tail, cachedHead) < Capacity
    /\ rpc \in {"read", "advance"} => cachedTail # head
    /\ rpc \in {"alive", "recheck"} => cachedTail = head
    /\ rpc = "recheck" => ~senderAlive
    /\ freed => spc = "dropped" /\ rpc = "dropped"

\* Slot k places after head holds a live value exactly when it is queued and not
\* already moved out, or written and about to be published.
Live(k) ==
    \/ k < Occupied /\ ~(k = 0 /\ rpc = "advance")
    \/ k = Occupied /\ spc = "publish"

SlotAt(k) == RingIndex(WrappingAdd(head, k))

SlotInv ==
    /\ ~freed => \A k \in 0 .. Occupied : Live(k) => slots[SlotAt(k)] # Uninit
    /\ \A i \in 0 .. SlotCount - 1 :
         slots[i] # Uninit => ~freed /\ \E k \in 0 .. Occupied : Live(k) /\ SlotAt(k) = i
    /\ spc \in {"check", "write", "publish"} => value \in Values
    /\ spc = "publish" => slots[RingIndex(tail)] = value
    /\ rpc = "advance" => item \in Values

\* The inductive invariant behind SlotExclusive, NothingLeaked and ImplementsQueue.
RingInv == TypeOK /\ CursorInv /\ SlotInv

\* drops_queued_items_when_channel_is_dropped: once the channel is gone no value
\* is leaked in a slot, wherever in [head, tail) it was queued.
NothingLeaked == freed => \A i \in 0 .. SlotCount - 1 : slots[i] = Uninit

\* The unsafe code on the slots is sound: no slot is used by both sides or before it holds
\* a value, and none still holds one when Inner is gone.
SlotsSound == SlotExclusive /\ NothingLeaked

\* The values in flight, oldest first: the receiver keeps the front value in hand
\* between moving it out of its slot and publishing head.
QueueAt(k) ==
    IF k = 1 /\ rpc = "advance" THEN item ELSE slots[SlotAt(k - 1)]

Queue == IF freed THEN <<>> ELSE [k \in 1 .. Occupied |-> QueueAt(k)]

Abstract == INSTANCE BoundedQueue WITH
    queue <- Queue,
    senderOpen <- senderAlive,
    receiverOpen <- receiverAlive

\* The ring of slots implements the bounded FIFO queue: nothing lost, duplicated
\* or reordered, and the receiver is told Disconnected only after the last value.
ImplementsQueue == Abstract!QSpec

=============================================================================
