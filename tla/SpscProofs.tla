----------------------------- MODULE SpscProofs -----------------------------
(***************************************************************************)
(* Proofs about the single-producer single-consumer ring for every         *)
(* capacity, ring size and cursor width that RingAssumption admits.        *)
(***************************************************************************)
EXTENDS Spsc, SequenceTheorems, TLAPS

\* A product of the ring size that is strictly between 0 and the ring size does
\* not exist: the arithmetic behind the injectivity of ring_index.
LEMMA NoSmallMultiple ==
    ASSUME NEW n \in Nat, NEW z \in Int, 0 < n * z, n * z < n
    PROVE FALSE
<1>1. CASE z <= 0
    <2>1. n * z <= 0 BY <1>1
    <2> QED BY <2>1
<1>2. CASE z >= 1
    <2>1. n * z >= n BY <1>2
    <2> QED BY <2>1
<1> QED BY <1>1, <1>2

\* bounded(): the capacities are positive and the ring size divides the cursor
\* space.
LEMMA RingFacts ==
    /\ SlotCount \in Nat \ {0}
    /\ CursorSpace \in Nat \ {0}
BY RingAssumption

\* a = SlotCount * (a \div SlotCount) + ring_index(a)
LEMMA Divide ==
    ASSUME NEW a \in Cursors
    PROVE /\ a \div SlotCount \in Int
          /\ RingIndex(a) \in 0 .. SlotCount - 1
          /\ a = SlotCount * (a \div SlotCount) + RingIndex(a)
BY RingFacts DEF RingIndex, Cursors

\* Two cursors less than the ring size apart never share a slot, even when
\* the cursor wraps between them (the ring size divides the cursor space).
LEMMA RingIndexInjective ==
    ASSUME NEW c \in Cursors, NEW j \in 0 .. SlotCount - 1, NEW k \in 0 .. SlotCount - 1,
           j < k
    PROVE RingIndex(WrappingAdd(c, j)) # RingIndex(WrappingAdd(c, k))
<1> DEFINE a == WrappingAdd(c, j)
           b == WrappingAdd(c, k)
<1>0. PICK m \in 1 .. CursorSpace : CursorSpace = m * SlotCount BY RingAssumption
<1>1. a \in Cursors /\ b \in Cursors
    <2>1. SlotCount <= CursorSpace BY <1>0, RingFacts
    <2> QED BY <2>1, RingFacts DEF Cursors, WrappingAdd
<1>2. b - a = k - j \/ b - a = k - j - CursorSpace
    BY RingFacts DEF Cursors, WrappingAdd
<1> SUFFICES ASSUME RingIndex(a) = RingIndex(b) PROVE FALSE
    OBVIOUS
<1> HIDE DEF a, b
<1>3. PICK q \in Int : a = SlotCount * q + RingIndex(a) BY <1>1, Divide
<1>4. PICK r \in Int : b = SlotCount * r + RingIndex(b) BY <1>1, Divide
<1>5. b - a = SlotCount * (r - q)
    BY <1>1, <1>3, <1>4, RingFacts, Divide
<1>6. CASE b - a = k - j
    <2>1. 0 < SlotCount * (r - q) /\ SlotCount * (r - q) < SlotCount
        BY <1>5, <1>6, RingFacts
    <2> QED BY <2>1, NoSmallMultiple, RingFacts
<1>7. CASE b - a = k - j - CursorSpace
    <2>1. k - j = SlotCount * (r - q) + SlotCount * m
        BY <1>0, <1>5, <1>7, RingFacts
    <2>2. SlotCount * (r - q) + SlotCount * m = SlotCount * (r - q + m)
        BY RingFacts
    <2>3. 0 < SlotCount * (r - q + m) /\ SlotCount * (r - q + m) < SlotCount
        BY <2>1, <2>2, RingFacts
    <2> QED BY <2>3, NoSmallMultiple, RingFacts
<1> QED BY <1>2, <1>6, <1>7

\* The slots k = 0 .. SlotCount - 1 places after a cursor are distinct.
LEMMA SlotsDistinct ==
    ASSUME NEW c \in Cursors, NEW j \in 0 .. SlotCount - 1, NEW k \in 0 .. SlotCount - 1,
           RingIndex(WrappingAdd(c, j)) = RingIndex(WrappingAdd(c, k))
    PROVE j = k
<1>1. ~(j < k) BY RingIndexInjective
<1>2. ~(k < j) BY RingIndexInjective
<1> QED BY <1>1, <1>2, RingFacts

\* Cursor arithmetic: the places after head and the places after head + 1.
LEMMA CursorFacts ==
    ASSUME NEW h \in Cursors, NEW t \in Cursors
    PROVE /\ WrappingSub(t, h) \in 0 .. CursorSpace - 1
          /\ WrappingAdd(h, WrappingSub(t, h)) = t
          /\ WrappingAdd(h, 0) = h
          /\ WrappingAdd(h, 1) \in Cursors
          /\ \A k \in 0 .. CursorSpace - 1 : RingIndex(WrappingAdd(h, k)) \in 0 .. SlotCount - 1
          /\ \A k \in 0 .. CursorSpace - 2 :
                WrappingAdd(WrappingAdd(h, 1), k) = WrappingAdd(h, k + 1)
<1>1. CursorSpace > 1 BY RingAssumption
<1>2. \A k \in 0 .. CursorSpace - 1 : WrappingAdd(h, k) \in Cursors
    BY RingFacts DEF WrappingAdd, Cursors
<1>3. \A k \in 0 .. CursorSpace - 1 : RingIndex(WrappingAdd(h, k)) \in 0 .. SlotCount - 1
    BY <1>2, Divide
<1> QED BY <1>1, <1>3, RingFacts DEF WrappingSub, WrappingAdd, Cursors

\* A channel fresh from bounded() satisfies the invariant.
LEMMA InitRing == Init => RingInv
<1> SUFFICES ASSUME Init PROVE RingInv OBVIOUS
<1>1. 0 \in Cursors /\ WrappingSub(0, 0) = 0
    BY RingFacts DEF Cursors, WrappingSub
<1>2. TypeOK BY <1>1 DEF Init, TypeOK, Results
<1>3. CursorInv BY <1>1, RingAssumption DEF Init, CursorInv, Occupied
<1>4. SlotInv BY <1>1 DEF Init, SlotInv, Live, Occupied
<1> QED BY <1>2, <1>3, <1>4 DEF RingInv

\* Every step keeps the types.
LEMMA StepTypes == TypeOK /\ [Next]_vars => TypeOK'
<1> SUFFICES ASSUME TypeOK, [Next]_vars PROVE TypeOK' OBVIOUS
<1>0. head \in Cursors /\ tail \in Cursors /\ cachedHead \in Cursors /\ cachedTail \in Cursors
    BY DEF TypeOK
<1>1. WrappingAdd(head, 1) \in Cursors /\ WrappingAdd(tail, 1) \in Cursors
    BY <1>0, CursorFacts
<1>2. RingIndex(head) \in 0 .. SlotCount - 1 /\ RingIndex(tail) \in 0 .. SlotCount - 1
    BY <1>0, Divide
<1>3. ASSUME NEW v \in Values, SendBegin(v) PROVE TypeOK'
    BY <1>3 DEF SendBegin, SendStopped, TypeOK, Results, rvars
<1>4. CASE SendCheck
    BY <1>4 DEF SendCheck, SendStopped, LoadCursor, TypeOK, Results, rvars
<1>5. CASE SendWrite
    BY <1>5, <1>2 DEF SendWrite, TypeOK, rvars
<1>6. CASE SendPublish
    BY <1>6, <1>1 DEF SendPublish, SendStopped, TypeOK, Results, rvars
<1>7. CASE DropSender
    BY <1>7 DEF DropSender, TypeOK, rvars
<1>8. CASE RecvBegin
    BY <1>8 DEF RecvBegin, TypeOK, svars
<1>9. CASE RecvCheck
    BY <1>9 DEF RecvCheck, RecvStopped, LoadCursor, TypeOK, svars
<1>10. CASE RecvSenderAlive
    BY <1>10 DEF RecvSenderAlive, RecvStopped, TypeOK, Results, svars
<1>11. CASE RecvRecheck
    BY <1>11 DEF RecvRecheck, RecvStopped, TypeOK, Results, svars
<1>12. CASE RecvRead
    BY <1>12, <1>2 DEF RecvRead, TypeOK, svars
<1>13. CASE RecvAdvance
    BY <1>13, <1>1 DEF RecvAdvance, TypeOK, svars
<1>14. CASE DropReceiver
    BY <1>14 DEF DropReceiver, TypeOK, svars
<1>15. CASE DropInner
    BY <1>15 DEF DropInner, TypeOK, svars, rvars
<1>16. CASE UNCHANGED vars
    BY <1>16 DEF vars, svars, rvars, TypeOK
<1> QED
    BY <1>3, <1>4, <1>5, <1>6, <1>7, <1>8, <1>9, <1>10, <1>11, <1>12, <1>13, <1>14, <1>15, <1>16
       DEF Next, Sender, Receiver

\* Every step keeps the cursors in order.
LEMMA StepCursors == TypeOK /\ CursorInv /\ [Next]_vars => CursorInv'
<1> SUFFICES ASSUME TypeOK, CursorInv, [Next]_vars PROVE CursorInv' OBVIOUS
<1>0. head \in Cursors /\ tail \in Cursors /\ cachedHead \in Cursors /\ cachedTail \in Cursors
    BY DEF TypeOK
<1> USE RingAssumption DEF Cursors, WrappingSub, WrappingAdd, Occupied
<1>3. ASSUME NEW v \in Values, SendBegin(v) PROVE CursorInv'
    BY <1>3 DEF SendBegin, SendStopped, CursorInv, rvars, TypeOK
<1>4. CASE SendCheck
    <2>1. CASE WrappingSub(tail, cachedHead) # Capacity
        BY <1>0, <1>4, <2>1 DEF SendCheck, CursorInv, rvars, TypeOK
    <2>2. CASE WrappingSub(tail, cachedHead) = Capacity
        <3>1. PICK h \in LoadCursor(cachedHead, head) :
                /\ cachedHead' = h
                /\ IF WrappingSub(tail, h) = Capacity
                   THEN SendStopped(<<"full">>)
                   ELSE spc' = "write" /\ UNCHANGED <<value, sent>>
            BY <1>4, <2>2 DEF SendCheck
        <3>2. h \in Cursors /\ WrappingSub(h, cachedHead) <= WrappingSub(head, cachedHead)
            BY DEF LoadCursor
        <3>3. UNCHANGED <<head, tail, slots, senderAlive, receiverAlive, rvars, freed>>
            BY <1>4 DEF SendCheck
        <3>4. WrappingSub(head, h) + Occupied <= Capacity
            BY <1>0, <3>2 DEF CursorInv
        <3>5. WrappingSub(tail, h) <= Capacity
            BY <1>0, <3>2, <3>4
        <3>6. spc' = "idle" \/ (spc' = "write" /\ WrappingSub(tail, h) < Capacity)
            BY <1>0, <3>1, <3>2, <3>5 DEF SendStopped
        <3> QED BY <1>0, <1>4, <3>1, <3>2, <3>3, <3>4, <3>6 DEF CursorInv, rvars, TypeOK, SendCheck
    <2> QED BY <2>1, <2>2
<1>5. CASE SendWrite
    BY <1>5 DEF SendWrite, CursorInv, rvars
<1>6. CASE SendPublish
    BY <1>0, <1>6 DEF SendPublish, SendStopped, CursorInv, rvars, TypeOK
<1>7. CASE DropSender
    BY <1>7 DEF DropSender, CursorInv, rvars
<1>8. CASE RecvBegin
    BY <1>8 DEF RecvBegin, CursorInv, svars, TypeOK
<1>9. CASE RecvCheck
    <2>1. CASE cachedTail # head
        BY <1>9, <2>1 DEF RecvCheck, CursorInv, svars, TypeOK
    <2>2. CASE cachedTail = head
        <3>1. PICK t \in LoadCursor(cachedTail, tail) :
                /\ cachedTail' = t
                /\ \/ t # head /\ rpc' = "read"
                   \/ t = head /\ rpc' \in {"idle", "alive"}
            BY <1>9, <2>2 DEF RecvCheck, RecvStopped, TypeOK
        <3>2. t \in Cursors /\ WrappingSub(t, head) <= WrappingSub(tail, head)
            BY <2>2 DEF LoadCursor
        <3>3. UNCHANGED <<head, tail, slots, senderAlive, receiverAlive, item, svars, freed>>
            BY <1>9 DEF RecvCheck
        <3> QED BY <1>0, <1>9, <3>1, <3>2, <3>3 DEF RecvCheck, CursorInv, svars, TypeOK
    <2> QED BY <2>1, <2>2
<1>10. CASE RecvSenderAlive
    BY <1>10 DEF RecvSenderAlive, RecvStopped, CursorInv, svars, TypeOK
<1>11. CASE RecvRecheck
    BY <1>0, <1>11 DEF RecvRecheck, RecvStopped, CursorInv, svars, TypeOK
<1>12. CASE RecvRead
    BY <1>12 DEF RecvRead, CursorInv, svars, TypeOK
<1>13. CASE RecvAdvance
    BY <1>0, <1>13 DEF RecvAdvance, CursorInv, svars, TypeOK
<1>14. CASE DropReceiver
    BY <1>14 DEF DropReceiver, CursorInv, svars, TypeOK
<1>15. CASE DropInner
    BY <1>15 DEF DropInner, CursorInv, svars, rvars, TypeOK
<1>16. CASE UNCHANGED vars
    BY <1>16 DEF vars, svars, rvars, CursorInv
<1> QED
    BY <1>3, <1>4, <1>5, <1>6, <1>7, <1>8, <1>9, <1>10, <1>11, <1>12, <1>13, <1>14, <1>15, <1>16
       DEF Next, Sender, Receiver

\* What the arithmetic says about the occupied part of the ring.
LEMMA OccupiedFacts ==
    ASSUME TypeOK, CursorInv
    PROVE /\ Occupied \in 0 .. CursorSpace - 1
          /\ Occupied <= SlotCount
          /\ Occupied < CursorSpace
          /\ tail = WrappingAdd(head, Occupied)
          /\ head = WrappingAdd(head, 0)
          /\ spc \in {"write", "publish"} => Occupied < SlotCount /\ Occupied + 1 < CursorSpace
          /\ spc \in {"write", "publish"} => WrappingSub(WrappingAdd(tail, 1), head) = Occupied + 1
          /\ rpc \in {"read", "advance"} => Occupied > 0
          /\ rpc \in {"read", "advance"} => WrappingSub(tail, WrappingAdd(head, 1)) = Occupied - 1
<1>0. head \in Cursors /\ tail \in Cursors /\ cachedHead \in Cursors /\ cachedTail \in Cursors
    BY DEF TypeOK
<1> QED
    BY <1>0, RingAssumption DEF CursorInv, Occupied, WrappingSub, WrappingAdd, Cursors

\* Steps that neither move a value nor a cursor leave the slots as they are.
LEMMA SlotsUntouched ==
    ASSUME SlotInv, UNCHANGED <<head, tail, slots, freed>>,
           rpc = "advance" <=> rpc' = "advance",
           spc = "publish" <=> spc' = "publish",
           spc' \in {"check", "write", "publish"} => value' \in Values,
           spc' = "publish" => value' = value,
           item' = item
    PROVE SlotInv'
BY DEF SlotInv, Live, SlotAt, Occupied

\* Every step keeps the live values where the cursors say they are.
LEMMA StepSlots == RingInv /\ [Next]_vars => SlotInv'
<1> SUFFICES ASSUME RingInv, [Next]_vars PROVE SlotInv' OBVIOUS
<1>0. TypeOK /\ CursorInv /\ SlotInv BY DEF RingInv
<1>1. head \in Cursors /\ tail \in Cursors BY <1>0 DEF TypeOK
<1>2. \A k \in 0 .. Occupied : SlotAt(k) \in 0 .. SlotCount - 1
    <2> SUFFICES ASSUME NEW k \in 0 .. Occupied PROVE SlotAt(k) \in 0 .. SlotCount - 1 OBVIOUS
    <2>1. k \in 0 .. CursorSpace - 1 BY <1>0, OccupiedFacts, RingFacts
    <2> QED BY <1>1, <2>1, CursorFacts DEF SlotAt
<1>3. ASSUME NEW v \in Values, SendBegin(v) PROVE SlotInv'
    BY <1>0, <1>3, SlotsUntouched DEF SendBegin, SendStopped, rvars
<1>4. CASE SendCheck
    <2>1. /\ UNCHANGED <<head, tail, slots, rvars, freed>>
          /\ spc' \in {"idle", "write"}
          /\ spc = "check"
          /\ spc' = "write" => value' = value
        BY <1>4 DEF SendCheck, SendStopped
    <2>2. value \in Values BY <1>0, <2>1 DEF SlotInv
    <2> QED BY <1>0, <2>1, <2>2, SlotsUntouched DEF rvars
<1>5. CASE SendWrite
    <2>1. /\ UNCHANGED <<head, tail, value, rvars, freed>>
          /\ spc = "write" /\ spc' = "publish"
          /\ slots' = [slots EXCEPT ![RingIndex(tail)] = value]
          /\ ~freed
          /\ value \in Values /\ value # Uninit
        BY <1>0, <1>5, ValuesAssumption DEF SendWrite, CursorInv, SlotInv
    <2>2. RingIndex(tail) = SlotAt(Occupied) BY <1>0, OccupiedFacts DEF SlotAt
    <2>3. Occupied \in 0 .. SlotCount - 1 BY <1>0, <2>1, OccupiedFacts, RingFacts
    <2>4. \A k \in 0 .. Occupied : SlotAt(k) = SlotAt(Occupied) => k = Occupied
        <3> SUFFICES ASSUME NEW k \in 0 .. Occupied, SlotAt(k) = SlotAt(Occupied) PROVE k = Occupied
            OBVIOUS
        <3>1. k \in 0 .. SlotCount - 1 BY <2>3, RingFacts
        <3>2. RingIndex(WrappingAdd(head, k)) = RingIndex(WrappingAdd(head, Occupied)) BY DEF SlotAt
        <3> HIDE DEF Occupied
        <3> QED BY <1>1, <2>3, <3>1, <3>2, SlotsDistinct
    <2>5. Occupied' = Occupied /\ \A k \in 0 .. Occupied : SlotAt(k)' = SlotAt(k)
        BY <2>1 DEF Occupied, SlotAt
    <2>6. \A k \in 0 .. Occupied : Live(k)' <=> (Live(k) \/ k = Occupied)
        BY <2>1, <2>3 DEF Live, Occupied, rvars
    <2>7. \A i \in 0 .. SlotCount - 1 :
            slots'[i] = IF i = SlotAt(Occupied) THEN value ELSE slots[i]
        BY <1>0, <2>1, <2>2 DEF TypeOK
    <2>8. \A k \in 0 .. Occupied : Live(k)' => slots'[SlotAt(k)'] # Uninit
        <3> SUFFICES ASSUME NEW k \in 0 .. Occupied, Live(k)' PROVE slots'[SlotAt(k)] # Uninit
            BY <2>5
        <3>1. CASE k = Occupied BY <1>2, <2>1, <2>7, <3>1
        <3>2. CASE k # Occupied
            <4>1. slots[SlotAt(k)] # Uninit BY <1>0, <2>1, <2>6, <3>2 DEF SlotInv
            <4>2. SlotAt(k) # SlotAt(Occupied) BY <2>4, <3>2
            <4> QED BY <1>2, <2>7, <4>1, <4>2
        <3> QED BY <3>1, <3>2
    <2>9. \A i \in 0 .. SlotCount - 1 :
            slots'[i] # Uninit => ~freed' /\ \E k \in 0 .. Occupied' : Live(k)' /\ SlotAt(k)' = i
        <3> SUFFICES ASSUME NEW i \in 0 .. SlotCount - 1, slots'[i] # Uninit
                     PROVE \E k \in 0 .. Occupied : Live(k)' /\ SlotAt(k) = i
            BY <2>1, <2>5
        <3>1. CASE i = SlotAt(Occupied)
            <4>1. Occupied \in 0 .. Occupied BY <2>3
            <4> QED BY <2>6, <3>1, <4>1
        <3>2. CASE i # SlotAt(Occupied)
            <4>1. slots[i] # Uninit BY <2>7, <3>2
            <4> QED BY <1>0, <2>6, <4>1 DEF SlotInv
        <3> QED BY <3>1, <3>2
    <2>10. slots'[RingIndex(tail')] = value'
        BY <1>2, <2>1, <2>2, <2>3, <2>7
    <2> QED BY <1>0, <2>1, <2>5, <2>8, <2>9, <2>10 DEF SlotInv, rvars
<1>6. CASE SendPublish
    <2>1. /\ UNCHANGED <<head, slots, rvars, freed>>
          /\ spc = "publish" /\ spc' = "idle"
          /\ tail' = WrappingAdd(tail, 1)
        BY <1>6 DEF SendPublish, SendStopped
    <2>2. Occupied' = Occupied + 1
        BY <1>0, <2>1, OccupiedFacts DEF Occupied
    <2>3. rpc = "advance" => Occupied > 0 BY <1>0, OccupiedFacts
    <2>4. Occupied \in Nat BY <1>0, OccupiedFacts
    <2>5. \A k \in 0 .. Occupied : (Live(k)' <=> Live(k)) /\ SlotAt(k)' = SlotAt(k)
        BY <2>1, <2>2, <2>3, <2>4 DEF Live, SlotAt, rvars
    <2>6. \A k \in Nat : k = Occupied + 1 => ~Live(k)' BY <2>1, <2>2, <2>4 DEF Live
    <2>7. 0 .. Occupied' = (0 .. Occupied) \cup {Occupied + 1} BY <2>2, <2>4
    <2>8. ~freed' => \A k \in 0 .. Occupied' : Live(k)' => slots'[SlotAt(k)'] # Uninit
        <3> SUFFICES ASSUME ~freed, NEW k \in 0 .. Occupied', Live(k)'
                     PROVE slots'[SlotAt(k)'] # Uninit
            BY <2>1
        <3>1. k \in 0 .. Occupied BY <2>4, <2>6, <2>7
        <3>2. Live(k) /\ SlotAt(k)' = SlotAt(k) BY <2>5, <3>1
        <3> QED BY <1>0, <2>1, <3>1, <3>2 DEF SlotInv
    <2>9. \A i \in 0 .. SlotCount - 1 :
            slots'[i] # Uninit => ~freed' /\ \E k \in 0 .. Occupied' : Live(k)' /\ SlotAt(k)' = i
        BY <1>0, <2>1, <2>5, <2>7 DEF SlotInv
    <2> QED BY <1>0, <2>1, <2>8, <2>9 DEF SlotInv, rvars
<1>7. CASE DropSender
    BY <1>0, <1>7, SlotsUntouched DEF DropSender, rvars
<1>8. CASE RecvBegin
    BY <1>0, <1>8, SlotsUntouched DEF RecvBegin, svars, SlotInv
<1>9. CASE RecvCheck
    <2>1. /\ UNCHANGED <<head, tail, slots, item, svars, freed>>
          /\ rpc = "check" /\ rpc' \in {"read", "idle", "alive"}
        BY <1>9 DEF RecvCheck, RecvStopped
    <2> QED BY <1>0, <2>1, SlotsUntouched DEF svars, SlotInv
<1>10. CASE RecvSenderAlive
    BY <1>0, <1>10, SlotsUntouched DEF RecvSenderAlive, RecvStopped, svars, SlotInv
<1>11. CASE RecvRecheck
    BY <1>0, <1>11, SlotsUntouched DEF RecvRecheck, RecvStopped, svars, SlotInv
<1>12. CASE RecvRead
    <2>1. /\ UNCHANGED <<head, tail, svars, freed>>
          /\ rpc = "read" /\ rpc' = "advance"
          /\ item' = slots[RingIndex(head)]
          /\ slots' = [slots EXCEPT ![RingIndex(head)] = Uninit]
          /\ ~freed
        BY <1>0, <1>12 DEF RecvRead, CursorInv
    <2>2. RingIndex(head) = SlotAt(0) /\ 0 \in 0 .. Occupied /\ 0 < Occupied /\ Occupied \in Nat
        BY <1>0, <2>1, OccupiedFacts DEF SlotAt
    <2>3. \A k \in 0 .. Occupied : Live(k) /\ SlotAt(k) = SlotAt(0) => k = 0
        <3> SUFFICES ASSUME NEW k \in 0 .. Occupied, Live(k), SlotAt(k) = SlotAt(0) PROVE k = 0
            OBVIOUS
        <3>1. k \in 0 .. SlotCount - 1
            BY <1>0, <2>2, OccupiedFacts, RingFacts DEF Live
        <3> QED BY <1>1, <2>2, <3>1, RingFacts, SlotsDistinct DEF SlotAt
    <2>4. Occupied' = Occupied /\ \A k \in 0 .. Occupied : SlotAt(k)' = SlotAt(k)
        BY <2>1 DEF Occupied, SlotAt
    <2>5. \A k \in 0 .. Occupied : Live(k)' <=> (Live(k) /\ k # 0)
        BY <2>1, <2>2 DEF Live, Occupied, svars
    <2>6. \A i \in 0 .. SlotCount - 1 :
            slots'[i] = IF i = SlotAt(0) THEN Uninit ELSE slots[i]
        BY <1>0, <2>1, <2>2 DEF TypeOK
    <2>7. Live(0) BY <2>1, <2>2 DEF Live
    <2>8. \A k \in 0 .. Occupied : Live(k)' => slots'[SlotAt(k)'] # Uninit
        BY <1>0, <1>2, <2>1, <2>3, <2>4, <2>5, <2>6 DEF SlotInv
    <2>9. \A i \in 0 .. SlotCount - 1 :
            slots'[i] # Uninit => ~freed' /\ \E k \in 0 .. Occupied' : Live(k)' /\ SlotAt(k)' = i
        BY <1>0, <2>1, <2>2, <2>4, <2>5, <2>6 DEF SlotInv
    <2>10. item' \in Values
        <3>1. slots[SlotAt(0)] # Uninit BY <1>0, <2>1, <2>2, <2>7 DEF SlotInv
        <3> QED BY <1>0, <1>2, <2>1, <2>2, <3>1 DEF TypeOK
    <2>11. spc = "publish" => RingIndex(tail) # SlotAt(0)
        <3> SUFFICES ASSUME spc = "publish" PROVE SlotAt(Occupied) # SlotAt(0)
            BY <1>0, OccupiedFacts DEF SlotAt
        <3>1. Live(Occupied) BY DEF Live
        <3>2. Occupied \in 0 .. Occupied BY <2>2
        <3> QED BY <2>2, <2>3, <3>1, <3>2
    <2>12. spc' = "publish" => slots'[RingIndex(tail')] = value'
        <3>1. RingIndex(tail) \in 0 .. SlotCount - 1 BY <1>1, Divide
        <3> QED BY <1>0, <2>1, <2>6, <2>11, <3>1 DEF SlotInv, svars
    <2>13. spc' \in {"check", "write", "publish"} => value' \in Values
        BY <1>0, <2>1 DEF SlotInv, svars
    <2> QED BY <2>4, <2>8, <2>9, <2>10, <2>12, <2>13 DEF SlotInv
<1>13. CASE RecvAdvance
    <2>1. /\ UNCHANGED <<tail, slots, svars, freed>>
          /\ rpc = "advance" /\ rpc' \in {"check", "idle"}
          /\ head' = WrappingAdd(head, 1)
        BY <1>13 DEF RecvAdvance
    <2>2. Occupied' = Occupied - 1 /\ Occupied \in Nat /\ Occupied > 0 /\ Occupied < CursorSpace
        BY <1>0, <2>1, OccupiedFacts DEF Occupied
    <2>3. \A k \in 0 .. Occupied' : SlotAt(k)' = SlotAt(k + 1)
        <3> SUFFICES ASSUME NEW k \in 0 .. Occupied' PROVE SlotAt(k)' = SlotAt(k + 1) OBVIOUS
        <3>1. k \in 0 .. CursorSpace - 2 BY <2>2, RingFacts
        <3>2. WrappingAdd(WrappingAdd(head, 1), k) = WrappingAdd(head, k + 1)
            BY <1>1, <3>1, CursorFacts
        <3>3. SlotAt(k)' = RingIndex(WrappingAdd(WrappingAdd(head, 1), k)) BY <2>1 DEF SlotAt, RingIndex, WrappingAdd
        <3> QED BY <3>2, <3>3 DEF SlotAt
    <2>4. \A k \in 0 .. Occupied' : Live(k)' <=> Live(k + 1)
        BY <2>1, <2>2 DEF Live, svars
    <2>5. ~Live(0) BY <2>1, <2>2 DEF Live
    <2>6. \A k \in 0 .. Occupied' : k + 1 \in 0 .. Occupied BY <2>2
    <2>7. ~freed' => \A k \in 0 .. Occupied' : Live(k)' => slots'[SlotAt(k)'] # Uninit
        BY <1>0, <2>1, <2>3, <2>4, <2>6 DEF SlotInv
    <2>8. ASSUME NEW i \in 0 .. SlotCount - 1, slots'[i] # Uninit
          PROVE ~freed' /\ \E k \in 0 .. Occupied' : Live(k)' /\ SlotAt(k)' = i
        <3>1. PICK k \in 0 .. Occupied : ~freed /\ Live(k) /\ SlotAt(k) = i
            BY <1>0, <2>1, <2>8 DEF SlotInv
        <3>2. k # 0 BY <2>5, <3>1
        <3>3. k - 1 \in 0 .. Occupied' /\ (k - 1) + 1 = k BY <2>2, <3>2
        <3> QED BY <2>1, <2>3, <2>4, <3>1, <3>3
    <2> QED BY <1>0, <2>1, <2>7, <2>8 DEF SlotInv, svars
<1>14. CASE DropReceiver
    BY <1>0, <1>14, SlotsUntouched DEF DropReceiver, svars, SlotInv
<1>15. CASE DropInner
    <2>1. /\ UNCHANGED <<head, tail, svars, rvars>>
          /\ spc = "dropped" /\ rpc = "dropped" /\ ~freed /\ freed'
          /\ slots' = [i \in 0 .. SlotCount - 1 |->
                         IF \E k \in 0 .. Occupied - 1 : SlotAt(k) = i
                         THEN Uninit ELSE slots[i]]
        BY <1>15 DEF DropInner, Occupied, SlotAt
    <2>2. ASSUME NEW i \in 0 .. SlotCount - 1 PROVE slots'[i] = Uninit
        <3>1. CASE \E k \in 0 .. Occupied - 1 : SlotAt(k) = i BY <2>1, <3>1
        <3>2. CASE ~\E k \in 0 .. Occupied - 1 : SlotAt(k) = i
            <4>1. \A k \in 0 .. Occupied : Live(k) => k \in 0 .. Occupied - 1
                BY <1>0, <2>1, OccupiedFacts DEF Live
            <4>2. slots[i] = Uninit BY <1>0, <3>2, <4>1 DEF SlotInv
            <4> QED BY <2>1, <3>2, <4>2
        <3> QED BY <3>1, <3>2
    <2> QED BY <1>0, <2>1, <2>2 DEF SlotInv, svars, rvars
<1>16. CASE UNCHANGED vars
    BY <1>0, <1>16, SlotsUntouched DEF vars, svars, rvars, SlotInv
<1> QED
    BY <1>3, <1>4, <1>5, <1>6, <1>7, <1>8, <1>9, <1>10, <1>11, <1>12, <1>13, <1>14, <1>15, <1>16
       DEF Next, Sender, Receiver

\* RingInv is inductive, for every capacity, ring size and cursor width.
THEOREM RingInvariant == Spec => []RingInv
<1>1. RingInv /\ [Next]_vars => RingInv'
    BY StepTypes, StepCursors, StepSlots DEF RingInv
<1> QED BY InitRing, <1>1, PTL DEF Spec

\* Type correctness: cursors of the ring stay in their width, also when they wrap.
THEOREM TypeCorrect == Spec => []TypeOK
<1>1. RingInv => TypeOK BY DEF RingInv
<1> QED BY RingInvariant, <1>1, PTL

\* No data race on a slot, no read of an uninitialised one, no value overwritten
\* before it is read: the SAFETY comments of try_send and read_one.
THEOREM SlotExclusion == Spec => []SlotExclusive
<1>1. RingInv => SlotExclusive
    <2> SUFFICES ASSUME RingInv PROVE SlotExclusive OBVIOUS
    <2>0. TypeOK /\ CursorInv /\ SlotInv BY DEF RingInv
    <2>1. head \in Cursors /\ tail \in Cursors BY <2>0 DEF TypeOK
    <2>2. /\ Occupied \in Nat /\ Occupied <= SlotCount
          /\ RingIndex(tail) = SlotAt(Occupied) /\ RingIndex(head) = SlotAt(0)
          /\ RingIndex(tail) \in 0 .. SlotCount - 1
        BY <2>0, <2>1, OccupiedFacts, Divide DEF SlotAt
    <2>3. ASSUME spc \in {"write", "publish"}, NEW k \in 0 .. Occupied, SlotAt(k) = RingIndex(tail)
          PROVE k = Occupied
        <3>1. Occupied \in 0 .. SlotCount - 1 BY <2>0, <2>2, <2>3, OccupiedFacts, RingFacts
        <3>2. k \in 0 .. SlotCount - 1 BY <3>1, RingFacts
        <3>3. RingIndex(WrappingAdd(head, k)) = RingIndex(WrappingAdd(head, Occupied))
            BY <2>2, <2>3 DEF SlotAt
        <3> HIDE DEF Occupied
        <3> QED BY <2>1, <3>1, <3>2, <3>3, SlotsDistinct
    <2>4. spc = "write" => slots[RingIndex(tail)] = Uninit
        BY <2>0, <2>2, <2>3 DEF SlotInv, Live
    <2>5. rpc = "read" => slots[RingIndex(head)] # Uninit
        BY <2>0, <2>2, OccupiedFacts DEF SlotInv, Live, CursorInv
    <2>6. (spc \in {"write", "publish"} /\ rpc \in {"read", "advance"})
             => RingIndex(tail) # RingIndex(head)
        BY <2>0, <2>2, <2>3, OccupiedFacts
    <2> QED BY <2>4, <2>5, <2>6 DEF SlotExclusive
<1> QED BY RingInvariant, <1>1, PTL

\* Dropping the channel drops every value that was sent and not received.
THEOREM NoLeak == Spec => []NothingLeaked
<1>1. RingInv => NothingLeaked BY DEF RingInv, SlotInv, NothingLeaked
<1> QED BY RingInvariant, <1>1, PTL

\* Both together: what the SAFETY comments of spsc.rs promise of the slots.
THEOREM SlotsAreSound == Spec => []SlotsSound
<1>1. SlotExclusive /\ NothingLeaked => SlotsSound
  BY DEF SlotsSound
<1> QED
  BY SlotExclusion, NoLeak, <1>1, PTL

-----------------------------------------------------------------------------
(* The ring implements the bounded queue. *)

\* The abstract queue is a sequence of at most Capacity values, the value in the
\* receiver's hand included.
LEMMA QueueFacts ==
    ASSUME RingInv, ~freed
    PROVE /\ Queue \in Seq(Values)
          /\ Len(Queue) = Occupied
          /\ \A k \in 1 .. Occupied : Queue[k] = QueueAt(k)
<1>0. TypeOK /\ CursorInv /\ SlotInv BY DEF RingInv
<1>1. Occupied \in Nat BY <1>0, OccupiedFacts
<1>2. ASSUME NEW k \in 1 .. Occupied PROVE QueueAt(k) \in Values
    <2>1. CASE k = 1 /\ rpc = "advance" BY <1>0, <2>1 DEF QueueAt, SlotInv
    <2>2. CASE ~(k = 1 /\ rpc = "advance")
        <3>1. k - 1 \in 0 .. Occupied /\ k - 1 < Occupied /\ Live(k - 1)
            BY <1>1, <2>2 DEF Live
        <3>2. slots[SlotAt(k - 1)] # Uninit BY <1>0, <3>1 DEF SlotInv
        <3>3. SlotAt(k - 1) \in 0 .. SlotCount - 1
            <4>1. k - 1 \in 0 .. CursorSpace - 1 BY <1>0, <3>1, OccupiedFacts, RingFacts
            <4> QED BY <1>0, <4>1, CursorFacts DEF SlotAt, TypeOK
        <3> QED BY <1>0, <2>2, <3>2, <3>3 DEF QueueAt, TypeOK
    <2> QED BY <2>1, <2>2
<1>3. Queue = [k \in 1 .. Occupied |-> QueueAt(k)] BY DEF Queue
<1>4. Queue \in [1 .. Occupied -> Values] BY <1>2, <1>3
<1>5. Queue \in Seq(Values) BY <1>1, <1>4, SeqDef
<1>6. Len(Queue) = Occupied
    <2>1. DOMAIN Queue = 1 .. Occupied BY <1>3
    <2>2. Len(Queue) \in Nat /\ DOMAIN Queue = 1 .. Len(Queue) BY <1>5, LenProperties
    <2> QED BY <1>1, <2>1, <2>2
<1> QED BY <1>3, <1>5, <1>6

\* Two views of the ring that agree on every place are the same queue.
LEMMA SameQueue ==
    ASSUME freed' <=> freed, Occupied' = Occupied,
           \A k \in 1 .. Occupied : QueueAt(k)' = QueueAt(k)
    PROVE Queue' = Queue
BY DEF Queue

\* Steps that move nothing leave the queue as it is.
LEMMA QueueUntouched ==
    ASSUME UNCHANGED <<head, tail, slots, item>>, freed' <=> freed,
           rpc = "advance" <=> rpc' = "advance"
    PROVE Queue' = Queue
<1>1. Occupied' = Occupied BY DEF Occupied
<1>2. \A k \in 1 .. Occupied : QueueAt(k)' = QueueAt(k) BY DEF QueueAt, SlotAt
<1> QED BY <1>1, <1>2, SameQueue

\* Writing the slot at tail does not touch a queued value.
LEMMA WriteKeepsQueue == RingInv /\ SendWrite => Queue' = Queue
<1> SUFFICES ASSUME RingInv, SendWrite PROVE Queue' = Queue OBVIOUS
<1>0. TypeOK /\ CursorInv /\ SlotInv BY DEF RingInv
<1>1. /\ UNCHANGED <<head, tail, rvars, freed>> /\ spc = "write"
      /\ slots' = [slots EXCEPT ![RingIndex(tail)] = value]
    BY DEF SendWrite
<1>2. Occupied' = Occupied /\ Occupied \in 0 .. SlotCount - 1 /\ RingIndex(tail) = SlotAt(Occupied)
    BY <1>0, <1>1, OccupiedFacts, RingFacts DEF Occupied, SlotAt
<1>3. ASSUME NEW k \in 1 .. Occupied PROVE QueueAt(k)' = QueueAt(k)
    <2>1. k - 1 \in 0 .. SlotCount - 1 /\ k - 1 # Occupied BY <1>2, RingFacts
    <2>2. SlotAt(k - 1) # SlotAt(Occupied)
        <3> HIDE DEF Occupied
        <3> QED BY <1>0, <1>2, <2>1, SlotsDistinct DEF SlotAt, TypeOK
    <2>3. SlotAt(k - 1)' = SlotAt(k - 1) BY <1>1 DEF SlotAt
    <2>4. SlotAt(k - 1) \in 0 .. SlotCount - 1
        <3>1. k - 1 \in 0 .. CursorSpace - 1 BY <1>0, <1>2, <2>1, OccupiedFacts, RingFacts
        <3> QED BY <1>0, <3>1, CursorFacts DEF SlotAt, TypeOK
    <2>5. slots'[SlotAt(k - 1)] = slots[SlotAt(k - 1)]
        BY <1>0, <1>1, <1>2, <2>2, <2>4 DEF TypeOK
    <2> QED BY <1>1, <2>3, <2>5 DEF QueueAt, rvars
<1> QED BY <1>1, <1>2, <1>3, SameQueue

\* Moving the front value out of its slot keeps it at the front of the queue.
LEMMA ReadKeepsQueue == RingInv /\ RecvRead => Queue' = Queue
<1> SUFFICES ASSUME RingInv, RecvRead PROVE Queue' = Queue OBVIOUS
<1>0. TypeOK /\ CursorInv /\ SlotInv BY DEF RingInv
<1>1. /\ UNCHANGED <<head, tail, svars, freed>> /\ rpc = "read" /\ rpc' = "advance"
      /\ item' = slots[RingIndex(head)]
      /\ slots' = [slots EXCEPT ![RingIndex(head)] = Uninit]
    BY DEF RecvRead
<1>2. /\ Occupied' = Occupied /\ Occupied \in Nat /\ Occupied <= SlotCount
      /\ RingIndex(head) = SlotAt(0)
    BY <1>0, <1>1, OccupiedFacts, RingFacts DEF Occupied, SlotAt
<1>3. ASSUME NEW k \in 1 .. Occupied PROVE QueueAt(k)' = QueueAt(k)
    <2>1. CASE k = 1 BY <1>1, <1>2, <2>1 DEF QueueAt
    <2>2. CASE k # 1
        <3>1. k - 1 \in 0 .. SlotCount - 1 /\ k - 1 # 0 /\ 0 \in 0 .. SlotCount - 1
            BY <1>2, <2>2, RingFacts
        <3>2. SlotAt(k - 1) # SlotAt(0)
            BY <1>0, <3>1, SlotsDistinct DEF SlotAt, TypeOK
        <3>3. SlotAt(k - 1)' = SlotAt(k - 1) BY <1>1 DEF SlotAt
        <3>4. SlotAt(k - 1) \in 0 .. SlotCount - 1
            <4>1. k - 1 \in 0 .. CursorSpace - 1 BY <1>0, <1>2, OccupiedFacts, RingFacts
            <4> QED BY <1>0, <4>1, CursorFacts DEF SlotAt, TypeOK
        <3>5. slots'[SlotAt(k - 1)] = slots[SlotAt(k - 1)]
            BY <1>0, <1>1, <1>2, <3>2, <3>4 DEF TypeOK
        <3> QED BY <2>2, <3>3, <3>5 DEF QueueAt
    <2> QED BY <2>1, <2>2
<1> QED BY <1>1, <1>2, <1>3, SameQueue

\* Publishing tail appends the value to the queue.
LEMMA PublishAppends ==
    RingInv /\ RingInv' /\ SendPublish
        => Queue' = Append(Queue, value) /\ Len(Queue) < Capacity
<1> SUFFICES ASSUME RingInv, RingInv', SendPublish
             PROVE Queue' = Append(Queue, value) /\ Len(Queue) < Capacity
    OBVIOUS
<1>0. TypeOK /\ CursorInv /\ SlotInv BY DEF RingInv
<1>1. /\ UNCHANGED <<head, slots, rvars, freed>> /\ spc = "publish" /\ ~freed
      /\ tail' = WrappingAdd(tail, 1)
      /\ value \in Values
    BY <1>0 DEF SendPublish, CursorInv, SlotInv
<1>2. Occupied' = Occupied + 1 /\ Occupied \in Nat
    BY <1>0, <1>1, OccupiedFacts DEF Occupied
<1>3. /\ Queue \in Seq(Values) /\ Len(Queue) = Occupied
      /\ \A k \in 1 .. Occupied : Queue[k] = QueueAt(k)
    BY <1>1, QueueFacts
<1>4. /\ Queue' \in Seq(Values) /\ Len(Queue') = Occupied + 1
      /\ \A k \in 1 .. Occupied + 1 : Queue'[k] = QueueAt(k)'
    <2>1. ~freed' BY <1>1
    <2>2. (RingInv /\ ~freed => /\ Queue \in Seq(Values)
                               /\ Len(Queue) = Occupied
                               /\ \A k \in 1 .. Occupied : Queue[k] = QueueAt(k))'
        BY QueueFacts, PTL
    <2> QED BY <1>2, <2>1, <2>2
<1>5. \A k \in 1 .. Occupied : QueueAt(k)' = QueueAt(k)
    BY <1>1 DEF QueueAt, SlotAt, rvars
<1>6. \A k \in 1 .. Occupied + 1 : k = Occupied + 1 => QueueAt(k)' = value
    <2> SUFFICES ASSUME NEW k \in 1 .. Occupied + 1, k = Occupied + 1 PROVE QueueAt(k)' = value
        OBVIOUS
    <2>1. rpc = "advance" => Occupied > 0 BY <1>0, OccupiedFacts
    <2>2. QueueAt(k)' = slots'[SlotAt(k - 1)'] BY <1>1, <1>2, <2>1 DEF QueueAt, rvars
    <2>3. k - 1 = Occupied BY <1>2
    <2>4. SlotAt(k - 1)' = SlotAt(k - 1) BY <1>1 DEF SlotAt
    <2>5. SlotAt(k - 1) = RingIndex(tail) BY <1>0, <2>3, OccupiedFacts DEF SlotAt
    <2> QED BY <1>0, <1>1, <2>2, <2>4, <2>5 DEF SlotInv
<1>7. /\ Append(Queue, value) \in Seq(Values) /\ Len(Append(Queue, value)) = Occupied + 1
      /\ \A k \in 1 .. Occupied + 1 :
            Append(Queue, value)[k] = IF k = Occupied + 1 THEN value ELSE Queue[k]
    <2> HIDE DEF Queue, Occupied
    <2> QED BY <1>1, <1>2, <1>3
<1>8. \A k \in 1 .. Occupied + 1 : Queue'[k] = Append(Queue, value)[k]
    BY <1>2, <1>3, <1>4, <1>5, <1>6, <1>7
<1>9. Queue' = Append(Queue, value) BY <1>4, <1>7, <1>8, SeqEqual
<1>10. Occupied < Capacity
    BY <1>0, <1>1, RingAssumption DEF CursorInv, TypeOK, Occupied, WrappingSub, Cursors
<1> QED BY <1>3, <1>9, <1>10

\* Publishing head removes the front of the queue, the value in hand.
LEMMA AdvanceRemoves ==
    RingInv /\ RingInv' /\ RecvAdvance
        => Queue # <<>> /\ Queue' = Tail(Queue) /\ item = Head(Queue)
<1> SUFFICES ASSUME RingInv, RingInv', RecvAdvance
             PROVE Queue # <<>> /\ Queue' = Tail(Queue) /\ item = Head(Queue)
    OBVIOUS
<1>0. TypeOK /\ CursorInv /\ SlotInv BY DEF RingInv
<1>1. /\ UNCHANGED <<tail, slots, freed>> /\ rpc = "advance" /\ rpc' # "advance" /\ ~freed
      /\ head' = WrappingAdd(head, 1)
    BY <1>0 DEF RecvAdvance, CursorInv
<1>2. Occupied' = Occupied - 1 /\ Occupied \in Nat /\ Occupied > 0 /\ Occupied < CursorSpace
    BY <1>0, <1>1, OccupiedFacts DEF Occupied
<1>3. /\ Queue \in Seq(Values) /\ Len(Queue) = Occupied
      /\ \A k \in 1 .. Occupied : Queue[k] = QueueAt(k)
    BY <1>1, QueueFacts
<1>4. /\ Queue' \in Seq(Values) /\ Len(Queue') = Occupied - 1
      /\ \A k \in 1 .. Occupied - 1 : Queue'[k] = QueueAt(k)'
    <2>1. ~freed' BY <1>1
    <2>2. (RingInv /\ ~freed => /\ Queue \in Seq(Values)
                               /\ Len(Queue) = Occupied
                               /\ \A k \in 1 .. Occupied : Queue[k] = QueueAt(k))'
        BY QueueFacts, PTL
    <2> QED BY <1>2, <2>1, <2>2
<1>5. ASSUME NEW k \in 1 .. Occupied - 1 PROVE QueueAt(k)' = QueueAt(k + 1)
    <2>1. k - 1 \in 0 .. CursorSpace - 2 /\ (k - 1) + 1 = (k + 1) - 1 /\ k + 1 # 1
        BY <1>2, RingFacts
    <2>2. WrappingAdd(WrappingAdd(head, 1), k - 1) = WrappingAdd(head, (k + 1) - 1)
        BY <1>0, <2>1, CursorFacts DEF TypeOK
    <2>3. SlotAt(k - 1)' = RingIndex(WrappingAdd(WrappingAdd(head, 1), k - 1))
        BY <1>1 DEF SlotAt, RingIndex, WrappingAdd
    <2>4. SlotAt(k - 1)' = SlotAt((k + 1) - 1) BY <2>2, <2>3 DEF SlotAt
    <2> QED BY <1>1, <2>1, <2>4 DEF QueueAt
<1>6. Queue # <<>>
    <2>1. Len(<<>>) = 0 OBVIOUS
    <2> QED BY <1>2, <1>3, <2>1
<1>7. /\ Tail(Queue) \in Seq(Values) /\ Len(Tail(Queue)) = Occupied - 1
      /\ \A k \in 1 .. Occupied - 1 : Tail(Queue)[k] = Queue[k + 1]
    BY <1>3, <1>6, HeadTailProperties
<1>8. \A k \in 1 .. Occupied - 1 : Queue'[k] = Tail(Queue)[k]
    BY <1>2, <1>3, <1>4, <1>5, <1>7
<1>9. Queue' = Tail(Queue) BY <1>4, <1>7, <1>8, SeqEqual
<1>10. item = Head(Queue)
    <2>1. Queue[1] = item BY <1>1, <1>2, <1>3 DEF QueueAt
    <2>2. Head(Queue) = Queue[1] BY <1>3, <1>6
    <2> QED BY <2>1, <2>2
<1> QED BY <1>6, <1>9, <1>10

\* Every run of the ring is a run of the bounded FIFO queue: the cached cursors,
\* the wrap, the late flag loads and the logical capacity below the ring size are
\* invisible to its users.
THEOREM RefinesQueue == Spec => ImplementsQueue
<1>1. Init => Abstract!QInit
    <2> SUFFICES ASSUME Init PROVE Abstract!QInit OBVIOUS
    <2>1. Occupied = 0 BY RingFacts DEF Init, Occupied, WrappingSub
    <2>2. Queue = <<>> BY <2>1 DEF Init, Queue
    <2> QED BY <2>2 DEF Init, Abstract!QInit, Abstract!NoResult
<1>2. RingInv /\ RingInv' /\ [Next]_vars => [Abstract!QNext]_(Abstract!qvars)
    <2> SUFFICES ASSUME RingInv, RingInv', [Next]_vars
                 PROVE [Abstract!QNext]_(Abstract!qvars)
        OBVIOUS
    <2>0. TypeOK /\ CursorInv /\ SlotInv BY DEF RingInv
    <2> USE DEF Abstract!qvars
    <2>3. ASSUME NEW v \in Values, SendBegin(v) PROVE [Abstract!QNext]_(Abstract!qvars)
        <3>1. Queue' = Queue BY <2>3, QueueUntouched DEF SendBegin, SendStopped, rvars
        <3> QED BY <2>0, <2>3, <3>1
            DEF SendBegin, SendStopped, rvars, TypeOK,
                Abstract!QNext, Abstract!SendRefused, Abstract!Disconnected
    <2>4. CASE SendCheck
        <3>1. Queue' = Queue BY <2>4, QueueUntouched DEF SendCheck, SendStopped, rvars
        <3> QED BY <2>0, <2>4, <3>1
            DEF SendCheck, SendStopped, rvars, TypeOK,
                Abstract!QNext, Abstract!SendRefused, Abstract!Full
    <2>5. CASE SendWrite
        BY <2>5, WriteKeepsQueue DEF SendWrite, rvars
    <2>6. CASE SendPublish
        BY <2>0, <2>6, PublishAppends
        DEF SendPublish, SendStopped, rvars, TypeOK, SlotInv,
            Abstract!QNext, Abstract!Send, Abstract!Ok
    <2>7. CASE DropSender
        <3>1. Queue' = Queue BY <2>7, QueueUntouched DEF DropSender, rvars
        <3> QED BY <2>0, <2>7, <3>1
            DEF DropSender, rvars, TypeOK, Abstract!QNext, Abstract!CloseSender
    <2>8. CASE RecvBegin
        <3>1. Queue' = Queue BY <2>8, QueueUntouched DEF RecvBegin, svars
        <3> QED BY <2>8, <3>1 DEF RecvBegin, svars
    <2>9. CASE RecvCheck
        <3>1. UNCHANGED <<head, tail, slots, item, freed, senderAlive, receiverAlive, sent, received>>
              /\ rpc = "check" /\ rpc' # "advance"
            BY <2>9 DEF RecvCheck, RecvStopped, svars
        <3>2. Queue' = Queue BY <3>1, QueueUntouched
        <3> QED BY <3>1, <3>2
    <2>10. CASE RecvSenderAlive
        <3>1. Queue' = Queue BY <2>10, QueueUntouched DEF RecvSenderAlive, RecvStopped, svars
        <3> QED BY <2>0, <2>10, <3>1
            DEF RecvSenderAlive, RecvStopped, svars, TypeOK,
                Abstract!QNext, Abstract!ReceiveNothing, Abstract!Empty
    <2>11. CASE RecvRecheck
        <3>1. Queue' = Queue BY <2>11, QueueUntouched DEF RecvRecheck, RecvStopped, svars
        <3>2. ASSUME tail = head PROVE Queue = <<>>
            <4>1. Occupied = 0 BY <2>0, <3>2, RingFacts DEF Occupied, WrappingSub, TypeOK, Cursors
            <4> QED BY <2>0, <2>11, <4>1 DEF Queue, RecvRecheck, CursorInv
        <3> QED BY <2>0, <2>11, <3>1, <3>2
            DEF RecvRecheck, RecvStopped, svars, TypeOK, CursorInv,
                Abstract!QNext, Abstract!ReceiveNothing, Abstract!Disconnected
    <2>12. CASE RecvRead
        BY <2>12, ReadKeepsQueue DEF RecvRead, svars
    <2>13. CASE RecvAdvance
        BY <2>0, <2>13, AdvanceRemoves
        DEF RecvAdvance, svars, TypeOK, Abstract!QNext, Abstract!Receive, Abstract!Item
    <2>14. CASE DropReceiver
        <3>1. Queue' = Queue BY <2>14, QueueUntouched DEF DropReceiver, svars
        <3> QED BY <2>0, <2>14, <3>1
            DEF DropReceiver, svars, TypeOK, Abstract!QNext, Abstract!CloseReceiver
    <2>15. CASE DropInner
        <3>1. Queue' = <<>> BY <2>15 DEF DropInner, Queue
        <3> QED BY <2>0, <2>15, <3>1
            DEF DropInner, svars, rvars, TypeOK, Abstract!QNext, Abstract!Discard
    <2>16. CASE UNCHANGED vars
        <3>1. Queue' = Queue BY <2>16, QueueUntouched DEF vars, rvars
        <3> QED BY <2>16, <3>1 DEF vars, svars, rvars
    <2> QED
        BY <2>3, <2>4, <2>5, <2>6, <2>7, <2>8, <2>9, <2>10, <2>11, <2>12, <2>13, <2>14, <2>15, <2>16
           DEF Next, Sender, Receiver
<1> QED BY RingInvariant, <1>1, <1>2, PTL DEF Spec, ImplementsQueue, Abstract!QSpec

=============================================================================
