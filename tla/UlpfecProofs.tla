---------------------------- MODULE UlpfecProofs ----------------------------
(***************************************************************************)
(* Proofs about UlpfecStream, for every window, mask, list and block, and  *)
(* every stream of up to half a turn of the sequence numbers, whatever is  *)
(* lost of it and however it is reordered within a window.                 *)
(***************************************************************************)
EXTENDS UlpfecStream, CursorLemmas, SequenceTheorems, FiniteSetTheorems

-----------------------------------------------------------------------------
(* Sequence numbers, by the number of their packet.                        *)

LEMMA Ranges ==
  /\ Capacity \in Nat \ {0} /\ HalfRange \in Nat \ {0} /\ SeqRange \in Nat \ {0}
  /\ 3 * Capacity < HalfRange /\ SeqRange = 2 * HalfRange
  /\ FirstSeq \in SeqNum /\ MaxSent \in Nat /\ MaxSent <= HalfRange
  /\ MaskBits \in Nat \ {0} /\ BlockLen \in 1 .. MaskBits /\ FecCapacity \in Nat \ {0}
  BY CapacityAssumption, HalfRangeAssumption, RangeAssumption, StreamAssumption, FecAssumption
     DEF SeqRange

LEMMA SeqOfInt ==
  ASSUME NEW i \in Int
  PROVE  SeqOf(i) \in SeqNum /\ \E q \in Int : FirstSeq + (i - 1) = SeqRange * q + SeqOf(i)
  <1>1. FirstSeq + (i - 1) \in Int /\ SeqRange \in Nat \ {0}
    BY Ranges DEF SeqNum
  <1>2. QED
    BY <1>1, DivMod DEF SeqOf, Plus, SeqNum

\* The distance between two packets not too far apart is the difference of their
\* numbers.
LEMMA DistanceNear ==
  ASSUME NEW i \in Int, NEW j \in Int, j - i \in -HalfRange .. HalfRange - 1
  PROVE  distance(SeqOf(i), SeqOf(j)) = j - i
  <1>1. PICK p \in Int : FirstSeq + (i - 1) = SeqRange * p + SeqOf(i)
    BY SeqOfInt
  <1>2. PICK q \in Int : FirstSeq + (j - 1) = SeqRange * q + SeqOf(j)
    BY SeqOfInt
  <1> DEFINE x == SeqOf(i)
             y == SeqOf(j)
             r == IF j >= i THEN j - i ELSE j - i + SeqRange
             k == IF j >= i THEN p - q ELSE p - q - 1
  <1>3. x \in Int /\ y \in Int /\ i \in Int /\ j \in Int /\ FirstSeq \in Int
    BY SeqOfInt, Ranges DEF SeqNum
  <1>4. FirstSeq + (i - 1) = SeqRange * p + x /\ FirstSeq + (j - 1) = SeqRange * q + y
    BY <1>1, <1>2
  <1> HIDE DEF x, y
  <1>5. k \in Int /\ r \in 0 .. SeqRange - 1
    BY Ranges
  <1>6. y - x = (j - i) + SeqRange * (p - q)
    BY <1>3, <1>4, Ranges
  <1>7. y - x = SeqRange * k + r
    <2>1. CASE j >= i
      BY <2>1, <1>6, <1>3, Ranges
    <2>2. CASE ~ (j >= i)
      <3>1. k = p - q - 1 /\ r = j - i + SeqRange
        BY <2>2
      <3> HIDE DEF k, r
      <3>2. SeqRange * k = SeqRange * (p - q) - SeqRange
        BY <3>1, Ranges
      <3>3. QED
        BY <3>1, <3>2, <1>6, <1>3, <1>5, Ranges
    <2>3. QED
      BY <2>1, <2>2
  <1> HIDE DEF k
  <1>8. r = (y - x) % SeqRange
    <2> HIDE DEF r
    <2>1. y - x \in Int
      BY <1>3
    <2>2. QED
      BY <2>1, <1>5, <1>7, ModUnique, Ranges
  <1>9. IF r < HalfRange THEN r = j - i ELSE r - SeqRange = j - i
    BY Ranges
  <1> HIDE DEF r
  <1>10. QED
    BY <1>8, <1>9 DEF distance, x, y

LEMMA DistanceOf ==
  ASSUME NEW i \in 1 .. MaxSent, NEW j \in 1 .. MaxSent
  PROVE  distance(SeqOf(i), SeqOf(j)) = j - i
  <1>1. i \in Int /\ j \in Int /\ j - i \in -HalfRange .. HalfRange - 1
    BY Ranges
  <1>2. QED
    BY <1>1, DistanceNear

\* Different packets have different sequence numbers.
LEMMA SeqOfInjective ==
  ASSUME NEW i \in 1 .. MaxSent, NEW j \in 1 .. MaxSent, SeqOf(i) = SeqOf(j)
  PROVE  i = j
  <1>1. distance(SeqOf(i), SeqOf(i)) = i - i /\ distance(SeqOf(i), SeqOf(j)) = j - i
    BY DistanceOf
  <1>2. QED
    BY <1>1

\* Going on from a packet's number.
LEMMA PlusOf ==
  ASSUME NEW i \in Int, NEW d \in Int
  PROVE  Plus(SeqOf(i), d) = SeqOf(i + d)
  <1> DEFINE a == FirstSeq + (i - 1)
  <1>1. a \in Int /\ a + d = FirstSeq + ((i + d) - 1)
    BY Ranges DEF SeqNum
  <1>2. ((a % SeqRange) + d) % SeqRange = (a + d) % SeqRange
    <2> HIDE DEF a
    <2>1. QED
      BY <1>1, ModAdd, Ranges
  <1>3. QED
    BY <1>1, <1>2 DEF SeqOf, Plus

\* What lies a distance ahead is what is reached by going on so far.
LEMMA PlusDistance ==
  ASSUME NEW f \in SeqNum, NEW t \in SeqNum
  PROVE  Plus(f, distance(f, t)) = t /\ distance(f, t) \in -HalfRange .. HalfRange - 1
  <1> DEFINE d == t - f
             m == d % SeqRange
             x == distance(f, t)
             q == IF m < HalfRange THEN d \div SeqRange ELSE d \div SeqRange + 1
  <1>1. d \in Int /\ f \in Int /\ t \in 0 .. SeqRange - 1
    BY Ranges DEF SeqNum
  <1>2. m \in 0 .. SeqRange - 1 /\ d \div SeqRange \in Int /\ d = SeqRange * (d \div SeqRange) + m
    <2> HIDE DEF d
    <2>1. QED
      BY <1>1, DivMod, Ranges
  <1>3. x = IF m < HalfRange THEN m ELSE m - SeqRange
    BY DEF distance
  <1>4. x \in -HalfRange .. HalfRange - 1
    BY <1>2, <1>3, Ranges
  <1>5. q \in Int /\ d = SeqRange * q + x
    <2> DEFINE e == d \div SeqRange
    <2>1. e \in Int /\ d = SeqRange * e + m /\ q = IF m < HalfRange THEN e ELSE e + 1
      BY <1>2
    <2> HIDE DEF e, d, m, x, q
    <2>2. SeqRange * (e + 1) = SeqRange * e + SeqRange
      BY <2>1, Ranges
    <2>3. QED
      BY <1>2, <1>3, <2>1, <2>2, Ranges
  <1> DEFINE a == f + x
  <1>6. a \in Int /\ -q \in Int /\ a = SeqRange * (-q) + t
    <2>1. d = t - f
      OBVIOUS
    <2> HIDE DEF d, x, q
    <2>2. SeqRange * (-q) = -(SeqRange * q)
      BY <1>5, Ranges
    <2>3. QED
      BY <1>1, <1>4, <1>5, <2>1, <2>2, Ranges
  <1> HIDE DEF a, q
  <1>7. a % SeqRange = t
    BY <1>1, <1>6, ModUnique, Ranges
  <1>8. QED
    BY <1>4, <1>7 DEF Plus, a

-----------------------------------------------------------------------------
(* The window.                                                             *)

\* The number of the packet that position 0 stands for, and the cell that is
\* the place of a packet, in the window or beside it.
Front == last - cur.count + 1

Place(i) == At(cur, i - Front)

\* The window ends with the latest packet.
WindowInv ==
  /\ TypeOK
  /\ Linked(cur)
  /\ last = 0 => cur.count = 0
  /\ last > 0 => Front \in 1 .. last /\ startSeq = SeqOf(Front)

\* A slot holds a packet that was sent, or none.
Held(slot, j) == slot.seq = SeqOf(j) /\ slot.payload # None

SlotInv ==
  \A c \in Cell : \/ slots[c].seq = 0 /\ slots[c].payload = None
                  \/ /\ slots[c].payload \subseteq Sent
                     /\ \E j \in 1 .. last : Held(slots[c], j)

WindowCells == cur' \in Cursor /\ Linked(cur') /\ Front' \in 1 .. last' /\ startSeq' = SeqOf(Front')

Placed(k, pkt) == /\ slots' = [slots EXCEPT ![Place(k)'] = pkt]
                  /\ lastSlot' = Place(k)'

\* What an arrival may do to the window: nothing; move it and leave every packet
\* in its place; or begin anew, behind all packets.
Refused == /\ UNCHANGED <<cur, slots, startSeq, lastSlot, last>>
           /\ state' \in Failure

Moved(k, pkt) ==
  /\ last > 0 /\ WindowCells /\ k \in Front' .. last' /\ last' = IF k > last THEN k ELSE last
  /\ \A i \in Int : Place(i)' = Place(i)
  /\ Front' > Front => cur'.count = Capacity
  /\ Front' < Front => cur.count < Capacity
  /\ \/ Placed(k, pkt) /\ state' \in Success \ {"kOutOfOrderReset"}
     \/ UNCHANGED <<slots, lastSlot>> /\ Front' <= Front /\ state' = "kDuplicatePacket"

Restarted(k, pkt) ==
  /\ WindowCells /\ k > last /\ last' = k /\ Front' = k
  /\ Placed(k, pkt)
  /\ state' = IF last = 0 THEN "kFirstPacket" ELSE "kOutOfOrderReset"

\* The distance from the start of the window.
LEMMA PositionOf ==
  ASSUME WindowInv, last > 0, NEW i \in 1 .. MaxSent
  PROVE  Position(SeqOf(i)) = i - Front /\ Front \in 1 .. MaxSent
  <1>1. Front \in 1 .. MaxSent /\ startSeq = SeqOf(Front)
    BY Ranges DEF WindowInv, TypeOK
  <1> HIDE DEF Front
  <1>2. QED
    BY <1>1, DistanceOf DEF Position

LEMMA WindowNumbers ==
  ASSUME WindowInv
  PROVE  /\ last \in 0 .. MaxSent /\ cur \in Cursor /\ cur.count \in 0 .. Capacity /\ Front \in Int
         /\ last = 0 <=> cur.count = 0
         /\ slots \in [Cell -> Slot] /\ lastSlot \in Cell
  <1>1. last \in 0 .. MaxSent /\ cur \in Cursor /\ slots \in [Cell -> Slot] /\ lastSlot \in Cell
    BY DEF WindowInv, TypeOK, FecTypeOK, WindowTypeOK
  <1>2. cur.count \in 0 .. Capacity
    BY <1>1, CursorInts
  <1>3. last > 0 => cur.count > 0
    BY <1>1, <1>2, Ranges DEF WindowInv, Front
  <1>4. QED
    BY <1>1, <1>2, <1>3, Ranges DEF WindowInv, Front

\* A packet sent, as a packet of the window.
Pkt(k) == [seq |-> SeqOf(k), payload |-> PayloadOf(k)]

\* A FEC packet follows a block.
LEMMA FecLate ==
  ASSUME NEW k \in 1 .. MaxSent, isFec(k)
  PROVE  k >= BlockLen + 1
  <1>1. k % (BlockLen + 1) = 0 /\ BlockLen + 1 \in Nat \ {0} /\ k \in Int
    BY Ranges DEF isFec
  <1>2. k = (BlockLen + 1) * (k \div (BlockLen + 1)) + 0 /\ k \div (BlockLen + 1) \in Int
    BY <1>1, DivMod
  <1> DEFINE q == k \div (BlockLen + 1)
             N == BlockLen + 1
  <1>3. q \in Int /\ k = N * q /\ N \in Nat \ {0}
    BY <1>1, <1>2
  <1> HIDE DEF q, N
  <1>4. q >= 1
    BY <1>3
  <1>5. N * q >= N
    BY <1>3, <1>4
  <1>6. QED
    BY <1>3, <1>5 DEF N

LEMMA PktFits ==
  ASSUME NEW k \in 1 .. MaxSent
  PROVE  /\ Pkt(k) \in Packet /\ Pkt(k) \in Slot /\ Pkt(k).payload # None
         /\ Pkt(k).payload \subseteq Sent
         /\ \A slot : Stored(Pkt(k), slot) = Pkt(k)
  <1>1. SeqOf(k) \in SeqNum
    BY SeqOfInt
  <1>2. PayloadOf(k) \subseteq Sent
    <2>1. CASE isFec(k)
      <3>1. k >= BlockLen + 1
        BY <2>1, FecLate
      <3>2. k - BlockLen .. k - 1 \subseteq 1 .. MaxSent
        BY <3>1, Ranges
      <3>3. QED
        BY <2>1, <3>2 DEF PayloadOf, Sent
    <2>2. CASE ~ isFec(k)
      BY <2>2 DEF PayloadOf, Sent
    <2>3. QED
      BY <2>1, <2>2
  <1>3. PayloadOf(k) \in Payload /\ PayloadOf(k) # None
    BY <1>2, StreamAssumption, PayloadAssumption
  <1>4. QED
    BY <1>1, <1>2, <1>3, StreamAssumption DEF Pkt, Packet, Slot, Stored

\* An empty window, or one that is left for good, begins anew with the packet.
LEMMA RestartStep ==
  ASSUME WindowInv, NEW k \in 1 .. MaxSent, k > last, NEW result, reset(Pkt(k), result),
         last' = IF k > last THEN k ELSE last,
         result = IF last = 0 THEN "kFirstPacket" ELSE "kOutOfOrderReset"
  PROVE  Restarted(k, Pkt(k))
  <1>0. last' = k
    OBVIOUS
  <1>1. cur' = [head |-> After(0), tail |-> After(0), count |-> 1]
    BY CapacityAssumption DEF reset, shiftBack, Cleared, isFull, isEmpty
  <1>2. After(0) \in 0 .. Capacity - 1
    BY CapacityAssumption DEF After
  <1>3. cur' \in Cursor
    BY <1>1, <1>2, CapacityAssumption DEF Cursor, Cell
  <1>4. At(cur', 0) = After(0)
    <2>1. (After(0) + 0) % Capacity = After(0)
      BY <1>2, CapacityAssumption
    <2>2. QED
      BY <1>1, <2>1 DEF At
  <1>5. Front' = k /\ Place(k)' = After(0)
    <2>1. Front' = k
      BY <1>0, <1>1 DEF Front
    <2>2. Place(k)' = At(cur', k - Front')
      BY DEF Place
    <2>3. k - Front' = 0
      BY <2>1
    <2>4. QED
      BY <1>4, <2>1, <2>2, <2>3
  <1>6. Linked(cur')
    BY <1>1, <1>4 DEF Linked
  <1>7. startSeq' = SeqOf(k) /\ state' = result
    BY DEF reset, Pkt
  <1>8. Placed(k, Pkt(k))
    <2>1. slots' = [slots EXCEPT ![cur'.tail] = Stored(Pkt(k), slots[cur'.tail])] /\ lastSlot' = cur'.tail
      BY DEF reset, emplaceSlot
    <2>2. cur'.tail = After(0)
      BY <1>1
    <2>3. QED
      BY <2>1, <2>2, <1>5, PktFits DEF Placed
  <1>9. WindowCells
    BY <1>0, <1>3, <1>5, <1>6, <1>7 DEF WindowCells
  <1>10. QED
    BY <1>0, <1>5, <1>7, <1>8, <1>9 DEF Restarted

\* A packet that is put in its place, once the window has moved.
LEMMA CheckPlaced ==
  ASSUME NEW k \in 1 .. MaxSent, NEW normal, NEW c,
         checkPlaceSlot(Pkt(k), c, normal)
  PROVE  \/ /\ slots' = [slots EXCEPT ![c] = Pkt(k)]
            /\ lastSlot' = c /\ state' = normal
         \/ /\ UNCHANGED <<slots, lastSlot>> /\ state' = "kDuplicatePacket"
            /\ Held(slots[c], k)
  <1>1. CASE valid(slots[c], Pkt(k).seq)
    BY <1>1 DEF checkPlaceSlot, valid, Held, Pkt
  <1>2. CASE ~ valid(slots[c], Pkt(k).seq)
    BY <1>2, PktFits DEF checkPlaceSlot, emplaceSlot
  <1>3. QED
    BY <1>1, <1>2

LEMMA DisorderStep ==
  ASSUME WindowInv, last > 0, NEW k \in 1 .. MaxSent, Disorder(Pkt(k)),
         last' = IF k > last THEN k ELSE last
  PROVE  Moved(k, Pkt(k))
  <1>1. Position(SeqOf(k)) = k - Front /\ Front \in 1 .. last /\ startSeq = SeqOf(Front)
    BY PositionOf DEF WindowInv
  <1>2. last \in Int /\ cur.count \in 0 .. Capacity /\ cur \in Cursor /\ Linked(cur)
    BY WindowNumbers, Ranges DEF WindowInv
  <1>3. k - Front \in 0 .. cur.count - 1
    BY <1>1 DEF Disorder, InWindow, Pkt
  <1>4. k \in Front .. last /\ last' = last
    BY <1>1, <1>2, <1>3 DEF Front
  <1>5. cur' = cur /\ startSeq' = startSeq /\ Front' = Front
    BY <1>4 DEF Disorder, Front
  <1>6. \A i \in Int : Place(i)' = Place(i)
    BY <1>5 DEF Place
  <1>7. checkPlaceSlot(Pkt(k), Place(k), "kDisorderPacket")
    BY <1>1 DEF Disorder, Place, Pkt
  <1>8. \/ Placed(k, Pkt(k)) /\ state' = "kDisorderPacket"
        \/ UNCHANGED <<slots, lastSlot>> /\ state' = "kDuplicatePacket"
    BY <1>6, <1>7, CheckPlaced DEF Placed
  <1>9. WindowCells
    BY <1>1, <1>2, <1>4, <1>5 DEF WindowCells
  <1> HIDE DEF Front
  <1>10. QED
    BY <1>4, <1>5, <1>6, <1>8, <1>9, <1>1, <1>2 DEF Moved, Success

\* A packet before the window that is taken fills it.
LEMMA PrependStep ==
  ASSUME WindowInv, last > 0, NEW k \in 1 .. MaxSent, k >= last - MaxReorder, Prepend(Pkt(k)),
         last' = IF k > last THEN k ELSE last
  PROVE  Moved(k, Pkt(k)) /\ Front' < Front
  <1>1. Position(SeqOf(k)) = k - Front /\ Front \in 1 .. last
    BY PositionOf DEF WindowInv
  <1>2. last \in Int /\ cur.count \in 0 .. Capacity /\ cur \in Cursor /\ Linked(cur)
    BY WindowNumbers, Ranges DEF WindowInv
  <1> DEFINE n == Front - k
  <1>3. /\ k - Front < 0 /\ cur.count < Capacity /\ cur.count + n >= Capacity
        /\ cur' = unshiftFrontN(cur, n) /\ startSeq' = SeqOf(k)
        /\ checkPlaceSlot(Pkt(k), cur'.head, "kPrepend")
    <2>1. /\ k - Front < 0 /\ ~ OutOfDate(k - Front)
          /\ cur' = unshiftFrontN(cur, -(k - Front)) /\ startSeq' = SeqOf(k)
          /\ checkPlaceSlot(Pkt(k), cur'.head, "kPrepend")
      BY <1>1 DEF Prepend, Pkt
    <2>2. -(k - Front) = n
      BY <1>1
    <2>3. cur.count < Capacity /\ cur.count + n >= Capacity
      BY <2>1, <2>2, <1>1, <1>2, Ranges DEF OutOfDate, isFull
    <2>4. QED
      BY <2>1, <2>2, <2>3
  <1>4. n \in Nat \ {0} /\ k < last /\ last' = last
    BY <1>1, <1>2, <1>3
  <1>5. cur.count + n = Capacity
    <2>1. MaxReorder \in 0 .. Capacity - 1
      BY StreamAssumption
    <2>2. QED
      BY <2>1, <1>2, <1>3, Ranges DEF Front
  <1>6. OverNum(cur, n) = 0
    BY <1>5, Ranges DEF OverNum, Excess
  <1> HIDE DEF n
  <1>7. cur' \in Cursor /\ Linked(cur') /\ cur'.count = Capacity
    <2>1. n \in Nat
      BY <1>4
    <2>2. /\ unshiftFrontN(cur, n) \in Cursor /\ Linked(unshiftFrontN(cur, n))
          /\ unshiftFrontN(cur, n).count = cur.count + n - OverNum(cur, n)
      BY <2>1, <1>2, UnshiftFrontN
    <2>3. cur.count + n - OverNum(cur, n) = Capacity
      BY <1>2, <1>5, <1>6, <2>1, Ranges
    <2>4. QED
      BY <1>3, <2>2, <2>3
  <1>8. Front' = k
    BY <1>2, <1>4, <1>5, <1>7 DEF Front, n
  <1>9. ASSUME NEW i \in Int PROVE Place(i)' = Place(i)
    <2>1. At(unshiftFrontN(cur, n), (i - Front) + n) = At(cur, i - Front)
      <3>1. i - Front \in Int
        BY <1>1, <1>2
      <3>2. QED
        BY <3>1, <1>2, <1>4, UnshiftFrontKeeps
    <2>2. (i - Front) + n = i - Front'
      BY <1>1, <1>2, <1>8 DEF n
    <2>3. Place(i)' = At(cur', i - Front')
      BY DEF Place
    <2>4. QED
      BY <1>3, <2>1, <2>2, <2>3 DEF Place
  <1>10. Place(k)' = cur'.head
    <2>1. Place(k)' = At(cur', 0)
      BY <1>8 DEF Place
    <2>2. cur'.head \in 0 .. Capacity - 1
      BY <1>7, CursorInts
    <2>3. (cur'.head + 0) % Capacity = cur'.head
      BY <2>2, Ranges
    <2>4. QED
      BY <2>1, <2>3 DEF At
  <1>11. \/ Placed(k, Pkt(k)) /\ state' = "kPrepend"
         \/ UNCHANGED <<slots, lastSlot>> /\ state' = "kDuplicatePacket"
    BY <1>3, <1>10, CheckPlaced DEF Placed
  <1>12. k < Front
    BY <1>1, <1>2, <1>3
  <1>13. WindowCells
    BY <1>3, <1>4, <1>7, <1>8, <1>2 DEF WindowCells
  <1> HIDE DEF Front, WindowCells
  <1>14. QED
    BY <1>1, <1>2, <1>3, <1>4, <1>7, <1>8, <1>9, <1>11, <1>12, <1>13, Ranges DEF Moved, Success

\* A packet beyond the window makes room for itself.
LEMMA SlideStep ==
  ASSUME WindowInv, SlotInv, last > 0, NEW k \in 1 .. MaxSent, k > last,
         Slide(k - last), NEW normal \in Success \ {"kOutOfOrderReset"},
         checkPlaceSlot(Pkt(k), cur'.tail, normal),
         last' = IF k > last THEN k ELSE last
  PROVE  Moved(k, Pkt(k)) /\ Placed(k, Pkt(k)) /\ Front' >= Front /\ state' = normal
  <1> DEFINE n == k - last
             over == OverNum(cur, n)
  <1>1. Front \in 1 .. last /\ startSeq = SeqOf(Front)
    BY DEF WindowInv
  <1>2. /\ last \in 0 .. MaxSent /\ cur.count \in 0 .. Capacity /\ cur.count > 0
        /\ cur \in Cursor /\ Linked(cur) /\ slots \in [Cell -> Slot]
    BY WindowNumbers, Ranges DEF WindowInv
  <1>3. n \in Nat /\ n \in Nat \ {0} /\ last' = k
    BY <1>2
  <1>4. /\ cur' \in Cursor /\ Linked(cur') /\ over \in 0 .. n
        /\ cur'.count = cur.count + n - over
    <2>1. cur' = shiftBackN(cur, n)
      BY DEF Slide
    <2> HIDE DEF n
    <2>2. QED
      BY <1>2, <1>3, <2>1, ShiftBackN
  <1>5. cur'.count \in 1 .. Capacity /\ (over > 0 => cur'.count = Capacity)
    <2>1. over = IF cur.count + n <= Capacity THEN 0 ELSE cur.count + n - Capacity
      BY <1>2, <1>3, Ranges DEF OverNum, Excess
    <2> HIDE DEF over, n
    <2>2. QED
      BY <1>2, <1>3, <1>4, <2>1, Ranges
  <1>6. Front' = Front + over
    <2>1. k = last + n
      BY <1>2
    <2> HIDE DEF over, n
    <2>2. QED
      BY <2>1, <1>2, <1>3, <1>4 DEF Front
  <1>7. startSeq' = SeqOf(Front')
    <2>1. startSeq' = Plus(SeqOf(Front), over)
      BY <1>1 DEF Slide
    <2>2. over \in Int
      BY <1>4
    <2> HIDE DEF over, Front
    <2>3. QED
      BY <1>1, <1>6, <2>1, <2>2, PlusOf
  <1>8. ASSUME NEW i \in Int PROVE Place(i)' = Place(i)
    <2>1. cur' = shiftBackN(cur, n)
      BY DEF Slide
    <2> HIDE DEF n
    <2> DEFINE p == i - Front
    <2>2. p \in Int
      BY <1>1, <1>2
    <2>3. p - over = i - Front'
      BY <1>1, <1>2, <1>4, <1>6
    <2> HIDE DEF p
    <2>4. At(shiftBackN(cur, n), p - over) = At(cur, p)
      BY <2>2, <1>2, <1>3, ShiftBackKeeps
    <2>5. Place(i)' = At(cur', i - Front')
      BY DEF Place
    <2>6. QED
      BY <2>1, <2>3, <2>4, <2>5 DEF Place, p
  <1> HIDE DEF n, over
  <1>9. k - Front' = cur'.count - 1
    BY <1>2, <1>3, <1>5 DEF Front
  <1>10. Front' \in 1 .. k
    BY <1>1, <1>2, <1>4, <1>5, <1>6, <1>9
  <1>11. Place(k)' = cur'.tail
    BY <1>4, <1>5, <1>9 DEF Place, Linked
  <1>12. ~ Held(slots[cur'.tail], k)
    <2> SUFFICES ASSUME Held(slots[cur'.tail], k) PROVE FALSE
      OBVIOUS
    <2>1. cur'.tail \in Cell
      BY <1>4, CursorInts DEF Cell
    <2>2. PICK j \in 1 .. last : Held(slots[cur'.tail], j)
      BY <2>1 DEF SlotInv, Held
    <2>3. SeqOf(j) = SeqOf(k) /\ j \in 1 .. MaxSent
      BY <2>2, <1>2, Ranges DEF Held
    <2>4. j = k
      BY <2>3, SeqOfInjective
    <2>5. QED
      BY <2>2, <2>4, <1>2
  <1>13. Placed(k, Pkt(k)) /\ state' = normal
    BY <1>11, <1>12, CheckPlaced DEF Placed
  <1>14. WindowCells
    BY <1>3, <1>4, <1>7, <1>10 DEF WindowCells
  <1>15. Front' > Front => cur'.count = Capacity
    BY <1>1, <1>4, <1>5, <1>6
  <1>16. Front' >= Front /\ k \in Front' .. last'
    BY <1>1, <1>3, <1>4, <1>6, <1>10
  <1>17. ~ (Front' < Front)
    BY <1>1, <1>4, <1>6
  <1> HIDE DEF Front, WindowCells
  <1>18. QED
    BY <1>8, <1>13, <1>14, <1>15, <1>16, <1>17 DEF Moved

\* Every arrival does one of the three.
LEMMA WindowStep ==
  ASSUME WindowInv, SlotInv, NEW k \in 1 .. MaxSent, k >= last - MaxReorder,
         insertPacket(Pkt(k)), last' = IF k > last THEN k ELSE last
  PROVE  Refused \/ Moved(k, Pkt(k)) \/ Restarted(k, Pkt(k))
  <1>1. /\ last \in 0 .. MaxSent /\ cur.count \in 0 .. Capacity /\ (last = 0 <=> cur.count = 0)
        /\ Front \in Int
    BY WindowNumbers, Ranges
  <1>2. Pkt(k).seq = SeqOf(k)
    BY DEF Pkt
  <1>3. CASE FirstPacket(Pkt(k))
    BY <1>1, <1>3, RestartStep DEF FirstPacket, isEmpty
  <1>4. CASE last = 0 /\ ~ FirstPacket(Pkt(k))
    <2>1. cur.count = 0
      BY <1>1, <1>4
    <2>2. ~ InWindow(SeqOf(k))
      BY <2>1 DEF InWindow
    <2>3. QED
      BY <2>1, <2>2, <1>2, <1>4 DEF insertPacket, OutOfOrder, OlderPacket, Prepend, Disorder, NextPacket,
           Jump, TooNew, isEmpty
  <1>5. CASE last > 0 /\ ~ FirstPacket(Pkt(k))
    <2>1. Position(SeqOf(k)) = k - Front /\ Front \in 1 .. last
      BY <1>5, PositionOf DEF WindowInv
    <2>2. Front + cur.count = last + 1
      BY <1>1 DEF Front
    <2>3. k - Front > -Capacity
      BY <1>1, <2>1, <2>2, Ranges, StreamAssumption
    <2> HIDE DEF Front
    <2>4. CASE OutOfOrder(Pkt(k))
      <3>1. k - Front > 2 * Capacity
        BY <2>1, <2>3, <2>4, <1>2, Ranges DEF OutOfOrder, FarAway
      <3>2. k > last
        BY <3>1, <2>1, <2>2, <1>1, Ranges
      <3>3. QED
        BY <3>2, <2>4, <1>5, RestartStep DEF OutOfOrder
    <2>5. CASE OlderPacket(Pkt(k))
      <3>1. k - Front < 0
        BY <2>1, <2>5, <1>2 DEF OlderPacket
      <3>2. last' = last
        BY <3>1, <2>1, <1>1
      <3>3. QED
        BY <3>2, <2>5 DEF OlderPacket, Refused, Failure
    <2>6. CASE Prepend(Pkt(k))
      BY <2>6, <1>5, PrependStep
    <2>7. CASE Disorder(Pkt(k))
      BY <2>7, <1>5, DisorderStep
    <2>8. CASE NextPacket(Pkt(k))
      <3>1. k - last = 1
        BY <2>1, <2>2, <2>8, <1>1, <1>2 DEF NextPacket
      <3>2. Slide(k - last) /\ checkPlaceSlot(Pkt(k), cur'.tail, "kNoError") /\ k > last
        BY <3>1, <2>8, <1>1 DEF NextPacket
      <3>3. "kNoError" \in Success \ {"kOutOfOrderReset"}
        BY DEF Success
      <3>4. QED
        BY <3>2, <3>3, <1>5, SlideStep
    <2>9. CASE Jump(Pkt(k))
      <3>1. k - Front > cur.count /\ k - Front - cur.count + 1 = k - last
        BY <2>1, <2>2, <2>9, <1>1, <1>2 DEF Jump
      <3>2. Slide(k - last) /\ checkPlaceSlot(Pkt(k), cur'.tail, "kDiscontinuity") /\ k > last
        <4>1. k > last
          BY <3>1, <2>1, <2>2, <1>1
        <4>2. QED
          BY <4>1, <3>1, <2>1, <2>9, <1>2 DEF Jump
      <3>3. "kDiscontinuity" \in Success \ {"kOutOfOrderReset"}
        BY DEF Success
      <3>4. QED
        BY <3>2, <3>3, <1>5, SlideStep
    <2>10. CASE TooNew(Pkt(k))
      <3>1. k - Front >= 2 * cur.count /\ cur.count > 0
        BY <2>1, <2>10, <1>1, <1>2, <1>5 DEF TooNew
      <3>2. k > last
        BY <3>1, <2>1, <2>2, <1>1
      <3>3. QED
        BY <3>2, <2>10, <1>5, RestartStep DEF TooNew
    <2>11. QED
      BY <1>5, <2>4, <2>5, <2>6, <2>7, <2>8, <2>9, <2>10 DEF insertPacket
  <1>6. QED
    BY <1>1, <1>3, <1>4, <1>5

-----------------------------------------------------------------------------
(* The list of FEC packets.                                                *)

\* What is left of the list when one more is to be put on it.
Room(list) == IF Len(list) = FecCapacity THEN Tail(list) ELSE list

LEMMA RoomLeft ==
  ASSUME NEW list \in Seq(FecData), Len(list) <= FecCapacity
  PROVE  /\ Room(list) \in Seq(FecData) /\ Len(Room(list)) < FecCapacity
         /\ Cut(Pushed(list, None)) = Room(list)
         /\ \A fecd : Pushed(list, fecd) = Append(Room(list), fecd)
         /\ \A i \in 1 .. Len(Room(list)) : \E j \in 1 .. Len(list) : Room(list)[i] = list[j]
  <1>1. Len(list) \in Nat
    BY LenProperties
  <1>2. Room(list) \in Seq(FecData) /\ Len(Room(list)) < FecCapacity
        /\ \A i \in 1 .. Len(Room(list)) : \E j \in 1 .. Len(list) : Room(list)[i] = list[j]
    <2>1. CASE Len(list) = FecCapacity
      <3>1. list # <<>>
        BY <2>1, EmptySeq, Ranges
      <3>2. /\ Tail(list) \in Seq(FecData) /\ Len(Tail(list)) = Len(list) - 1
            /\ \A i \in 1 .. Len(Tail(list)) : Tail(list)[i] = list[i + 1]
        BY <3>1, HeadTailProperties
      <3>3. \A i \in 1 .. Len(Tail(list)) : i + 1 \in 1 .. Len(list)
        BY <3>2, <1>1
      <3>4. QED
        BY <2>1, <3>2, <3>3, <1>1, Ranges DEF Room
    <2>2. CASE Len(list) # FecCapacity
      BY <2>2, <1>1, Ranges DEF Room
    <2>3. QED
      BY <2>1, <2>2
  <1>3. \A fecd : Pushed(list, fecd) = Append(Room(list), fecd)
    BY DEF Pushed, Room
  <1>4. Cut(Pushed(list, None)) = Room(list)
    <2> DEFINE L == Room(list)
               M == Append(L, None)
               S == FecData \cup {None}
    <2>1. L \in Seq(FecData)
      BY <1>2
    <2>2. L \in Seq(S)
      BY <2>1, SeqMonotonic
    <2>3. Len(L) \in Nat
      BY <2>1, LenProperties
    <2> HIDE DEF L, S
    <2>4. None \in S
      BY DEF S
    <2>5. M \in Seq(S) /\ Len(M) = Len(L) + 1 /\ \A i \in 1 .. Len(L) : M[i] = L[i]
      BY <2>2, <2>4, AppendProperties
    <2> HIDE DEF M
    <2>6. Len(M) - 1 = Len(L)
      BY <2>3, <2>5
    <2>7. \A i \in 1 .. Len(L) : M[i] \in S
      BY <2>2, <2>5, ElementOfSeq
    <2>8. /\ SubSeq(M, 1, Len(L)) \in Seq(S)
          /\ Len(SubSeq(M, 1, Len(L))) = Len(L)
          /\ \A i \in 1 .. Len(L) : SubSeq(M, 1, Len(L))[i] = M[i]
      <3>1. /\ SubSeq(M, 1, Len(L)) \in Seq(S)
            /\ Len(SubSeq(M, 1, Len(L))) = IF 1 <= Len(L) THEN Len(L) - 1 + 1 ELSE 0
            /\ \A i \in 1 .. Len(L) - 1 + 1 : SubSeq(M, 1, Len(L))[i] = M[1 + i - 1]
        BY <2>3, <2>7, SubSeqProperties
      <3>2. QED
        BY <3>1, <2>3
    <2>9. SubSeq(M, 1, Len(L)) = L
      BY <2>2, <2>5, <2>8, SeqEqual
    <2>10. QED
      BY <2>6, <2>9, <1>3 DEF Cut, M, L
  <1>5. QED
    BY <1>2, <1>3, <1>4

\* What is known of a FEC packet on the list: it covers the packets from number b
\* on, which came before it.
Fec(fecd, b) ==
  /\ fecd.base = SeqOf(b) /\ fecd.cover = 0 .. BlockLen - 1
  /\ fecd.recv \subseteq fecd.cover /\ fecd.cell \in Cell
  /\ b + BlockLen <= last /\ isFec(b + BlockLen)
  /\ slots[fecd.cell].payload # None
  /\ b < Front => cur.count = Capacity

ListInv == \A i \in 1 .. Len(feclist) : \E b \in 1 .. last : Fec(feclist[i], b)

\* What addFEC puts on the list for packet k.
NewFec(k) == [base |-> FecOf(k).base, cover |-> FecOf(k).cover,
              recv |-> MissingOf(FecOf(k)), cell |-> lastSlot']

Added(k) == isFec(k) /\ distance(startSeq', FecOf(k).base) \in 0 .. cur'.count - 1

\* What an arrival may do to the list.
Listed(k) ==
  /\ feclist' \in Seq({feclist[i] : i \in 1 .. Len(feclist)} \cup {NewFec(k)})
  /\ Len(feclist') <= FecCapacity
  /\ \A i \in 1 .. Len(feclist') :
       \/ /\ state' # "kOutOfOrderReset"
          /\ \E j \in 1 .. Len(feclist) : feclist'[i] = feclist[j]
       \/ Added(k) /\ feclist'[i] = NewFec(k)

LEMMA ListStep ==
  ASSUME TypeOK, NEW k \in 1 .. MaxSent, NEW due \in BOOLEAN, Arrive(k, due)
  PROVE  \/ state' \in Failure /\ UNCHANGED <<feclist, pc>>
         \/ state' \in Success /\ Listed(k) /\ pc' \in {"native", "ulpfec"}
  <1> DEFINE old == {feclist[i] : i \in 1 .. Len(feclist)}
             S == old \cup {NewFec(k)}
             L == ListAfterReset
  <1>1. feclist \in Seq(FecData) /\ Len(feclist) <= FecCapacity /\ Len(feclist) \in Nat
    BY LenProperties DEF TypeOK, FecTypeOK
  <1>2. L \in Seq(FecData) /\ Len(L) <= FecCapacity /\ Len(L) \in Nat
        /\ \A i \in 1 .. Len(L) : state' # "kOutOfOrderReset" /\ \E j \in 1 .. Len(feclist) : L[i] = feclist[j]
    <2>1. CASE state' = "kOutOfOrderReset"
      BY <2>1, EmptySeq, Ranges DEF ListAfterReset
    <2>2. CASE state' # "kOutOfOrderReset"
      BY <2>2, <1>1 DEF ListAfterReset
    <2>3. QED
      BY <2>1, <2>2
  <1> HIDE DEF L
  <1>3. /\ Room(L) \in Seq(FecData) /\ Len(Room(L)) < FecCapacity
        /\ Cut(Pushed(L, None)) = Room(L)
        /\ \A fecd : Pushed(L, fecd) = Append(Room(L), fecd)
        /\ \A i \in 1 .. Len(Room(L)) : \E j \in 1 .. Len(L) : Room(L)[i] = L[j]
    BY <1>2, RoomLeft
  <1>4. ASSUME NEW M \in Seq(FecData), Len(M) <= FecCapacity, feclist' = M,
               \A i \in 1 .. Len(M) : \E j \in 1 .. Len(L) : M[i] = L[j]
        PROVE  Listed(k)
    <2>1. Len(M) \in Nat /\ \A i \in 1 .. Len(M) : M[i] \in S
      <3>1. Len(M) \in Nat
        BY LenProperties
      <3>2. ASSUME NEW i \in 1 .. Len(M) PROVE M[i] \in old
        <4>1. PICK j \in 1 .. Len(L) : M[i] = L[j]
          BY <1>4
        <4>2. PICK m \in 1 .. Len(feclist) : L[j] = feclist[m]
          BY <1>2
        <4>3. QED
          BY <4>1, <4>2
      <3>3. QED
        BY <3>1, <3>2
    <2>2. M = [i \in 1 .. Len(M) |-> M[i]]
      BY LenProperties
    <2> HIDE DEF S
    <2>3. M \in [1 .. Len(M) -> S]
      BY <2>1, <2>2
    <2>4. M \in Seq(S)
      BY <2>1, <2>3, SeqDef
    <2>5. QED
      BY <2>4, <1>2, <1>4 DEF Listed, S
  <1>5. Listed(k) \/ ~ (feclist' = L)
    <2>1. \A i \in 1 .. Len(L) : \E j \in 1 .. Len(L) : L[i] = L[j]
      OBVIOUS
    <2>2. QED
      BY <2>1, <1>2, <1>4
  <1>6. Listed(k) \/ ~ (feclist' = Room(L))
    <2>1. Len(Room(L)) <= FecCapacity
      BY <1>3, Ranges, LenProperties
    <2>2. QED
      BY <2>1, <1>3, <1>4
  <1>7. ASSUME Added(k), feclist' = Append(Room(L), NewFec(k)) PROVE Listed(k)
    <2> DEFINE R == Room(L)
    <2>1. Len(R) \in Nat /\ Len(R) + 1 <= FecCapacity
      BY <1>3, Ranges, LenProperties
    <2>2. \A i \in 1 .. Len(R) : R[i] \in S
      BY <1>2, <1>3
    <2>3. R = [i \in 1 .. Len(R) |-> R[i]]
      BY <1>3, LenProperties
    <2>4. \A i \in 1 .. Len(R) : \E j \in 1 .. Len(L) : R[i] = L[j]
      BY <1>3
    <2> HIDE DEF R, S
    <2>5. R \in Seq(S)
      <3>1. R \in [1 .. Len(R) -> S]
        BY <2>2, <2>3
      <3>2. QED
        BY <3>1, <2>1, SeqDef
    <2>6. NewFec(k) \in S
      BY DEF S
    <2>7. /\ feclist' \in Seq(S) /\ Len(feclist') = Len(R) + 1
          /\ \A i \in 1 .. Len(R) : feclist'[i] = R[i]
          /\ feclist'[Len(R) + 1] = NewFec(k)
      BY <2>5, <2>6, <1>7, AppendProperties DEF R
    <2>8. ASSUME NEW i \in 1 .. Len(feclist')
          PROVE  \/ state' # "kOutOfOrderReset" /\ \E j \in 1 .. Len(feclist) : feclist'[i] = feclist[j]
                 \/ Added(k) /\ feclist'[i] = NewFec(k)
      <3>1. CASE i = Len(R) + 1
        BY <3>1, <2>7, <1>7
      <3>2. CASE i # Len(R) + 1
        <4>1. i \in 1 .. Len(R)
          BY <3>2, <2>1, <2>7
        <4>2. PICK j \in 1 .. Len(L) : R[i] = L[j]
          BY <4>1, <2>4
        <4>3. QED
          BY <4>1, <4>2, <2>7, <1>2
      <3>3. QED
        BY <3>1, <3>2
    <2>9. QED
      BY <2>1, <2>7, <2>8 DEF Listed, S
  <1>8. CASE ~ isFec(k) /\ insertNative(Pkt(k))
    BY <1>5, <1>8 DEF insertNative, L
  <1>9. CASE isFec(k) /\ insertULPFEC(Pkt(k), FecOf(k))
    <2>1. feclist' = addFEC(L, FecOf(k)) => Listed(k)
      <3>1. CASE FecOf(k) # None /\ distance(startSeq', FecOf(k).base) \in 0 .. cur'.count - 1
        <4>1. Added(k)
          BY <3>1, <1>9 DEF Added
        <4>2. addFEC(L, FecOf(k)) = Append(Room(L), NewFec(k))
          BY <3>1, <1>3 DEF addFEC, NewFec
        <4>3. QED
          BY <4>1, <4>2, <1>7
      <3>2. CASE ~ (FecOf(k) # None /\ distance(startSeq', FecOf(k).base) \in 0 .. cur'.count - 1)
        BY <3>2, <1>3, <1>6 DEF addFEC
      <3>3. QED
        BY <3>1, <3>2
    <2>2. QED
      BY <2>1, <1>9 DEF insertULPFEC, L
  <1>10. CASE isFec(k) /\ insertULPFEC(Pkt(k), None)
    <2>1. feclist' = addFEC(L, None) => Listed(k)
      BY <1>3, <1>6 DEF addFEC
    <2>2. QED
      BY <2>1, <1>10 DEF insertULPFEC, L
  <1>11. QED
    BY <1>8, <1>9, <1>10 DEF Arrive, Pkt

-----------------------------------------------------------------------------
(* Types, slots and list are kept, for packets of every kind.              *)

Base == WindowInv /\ SlotInv /\ ListInv /\ FrontStillUseful /\ NullReadOnlyAtZero

\* What the window keeps besides its slots.
LEMMA InsertTypes ==
  ASSUME TypeOK, NEW k \in 1 .. MaxSent, insertPacket(Pkt(k))
  PROVE  held' \subseteq SeqNum /\ nextSeq' \in SeqNum /\ state' \in Failure \cup Success
  <1>1. held \subseteq SeqNum /\ nextSeq \in SeqNum /\ Pkt(k).seq \in SeqNum
    BY SeqOfInt DEF TypeOK, FecTypeOK, WindowTypeOK, Pkt
  <1>2. Accepted(Pkt(k)) \subseteq SeqNum
    BY <1>1 DEF Accepted
  <1>3. ASSUME NEW i, NEW normal \in Success, checkPlaceSlot(Pkt(k), i, normal)
        PROVE  held' \subseteq SeqNum /\ state' \in Failure \cup Success
    BY <1>1, <1>2, <1>3 DEF checkPlaceSlot, StillHeld, Failure
  <1>4. ASSUME NEW result \in Success, reset(Pkt(k), result)
        PROVE  held' \subseteq SeqNum /\ nextSeq' \in SeqNum /\ state' \in Failure \cup Success
    BY <1>1, <1>2, <1>4 DEF reset
  <1>5. {"kFirstPacket", "kOutOfOrderReset", "kPrepend", "kDisorderPacket", "kNoError", "kDiscontinuity"}
          \subseteq Success
    BY DEF Success
  <1>6. CASE FirstPacket(Pkt(k))
    BY <1>4, <1>5, <1>6 DEF FirstPacket
  <1>7. CASE OutOfOrder(Pkt(k))
    BY <1>4, <1>5, <1>7 DEF OutOfOrder
  <1>8. CASE OlderPacket(Pkt(k))
    BY <1>1, <1>8 DEF OlderPacket, Failure
  <1>9. CASE Prepend(Pkt(k))
    BY <1>1, <1>3, <1>5, <1>9 DEF Prepend
  <1>10. CASE Disorder(Pkt(k))
    BY <1>1, <1>3, <1>5, <1>10 DEF Disorder
  <1>11. CASE NextPacket(Pkt(k))
    BY <1>1, <1>3, <1>5, <1>11 DEF NextPacket, Slide
  <1>12. CASE Jump(Pkt(k))
    BY <1>1, <1>3, <1>5, <1>12 DEF Jump, Slide
  <1>13. CASE TooNew(Pkt(k))
    BY <1>4, <1>5, <1>13 DEF TooNew
  <1>14. QED
    BY <1>6, <1>7, <1>8, <1>9, <1>10, <1>11, <1>12, <1>13 DEF insertPacket

\* Every cell is the place of a packet of the window.
LEMMA PlaceCell ==
  ASSUME WindowInv, NEW i \in Int
  PROVE  Place(i) \in Cell
  <1>1. cur.head \in Int /\ i - Front \in Int
    BY WindowNumbers, CursorInts, Ranges
  <1> HIDE DEF Front
  <1>2. QED
    BY <1>1, ModCell DEF Place, At

\* What an arrival leaves in the buffers.
LEMMA ByteStep ==
  ASSUME NEW k \in 1 .. MaxSent, NEW due \in BOOLEAN, Arrive(k, due)
  PROVE  \/ state' \in Failure /\ byte' = byte
         \/ state' \in Success /\ serialize(Pkt(k))
  BY DEF Arrive, insertNative, insertULPFEC, Pkt

LEMMA ByteType ==
  ASSUME byte \in [Cell -> SUBSET Source], NEW k \in 1 .. MaxSent, NEW due \in BOOLEAN, Arrive(k, due)
  PROVE  byte' \in [Cell -> SUBSET Source]
  <1>1. {Pkt(k).seq} \in SUBSET Source
    <2>1. SeqOf(k) \in 0 .. SeqRange - 1
      BY SeqOfInt DEF SeqNum
    <2>2. QED
      BY <2>1, Ranges DEF Pkt, Source
  <1>2. QED
    BY <1>1, ByteStep DEF serialize

\* What an arrival does, put together.
ArrivesAs(k) ==
  \/ Refused /\ last' = last /\ UNCHANGED <<feclist, pc>>
  \/ /\ Moved(k, Pkt(k))
     /\ \/ UNCHANGED <<slots, lastSlot, feclist, pc>> /\ Front' <= Front /\ state' \in Failure
        \/ Placed(k, Pkt(k)) /\ Listed(k) /\ pc' \in {"native", "ulpfec"} /\ state' \in Success
  \/ /\ Restarted(k, Pkt(k)) /\ Listed(k) /\ pc' \in {"native", "ulpfec"} /\ state' \in Success

LEMMA ArriveStep ==
  ASSUME WindowInv, SlotInv, NEW k \in 1 .. MaxSent, NEW due \in BOOLEAN, Arrive(k, due)
  PROVE  /\ ArrivesAs(k) /\ insertPacket(Pkt(k)) /\ pc = "idle"
         /\ last' \in 1 .. MaxSent
  <1>1. insertPacket(Pkt(k)) /\ pc = "idle" /\ last' = (IF k > last THEN k ELSE last) /\ k >= last - MaxReorder
    BY DEF Arrive, insertNative, insertULPFEC, Pkt
  <1>2. Refused \/ Moved(k, Pkt(k)) \/ Restarted(k, Pkt(k))
    BY <1>1, WindowStep
  <1>3. \/ state' \in Failure /\ UNCHANGED <<feclist, pc>>
        \/ state' \in Success /\ Listed(k) /\ pc' \in {"native", "ulpfec"}
    BY ListStep DEF WindowInv
  <1>4. Failure \cap Success = {}
    BY DEF Failure, Success
  <1>5. "kDuplicatePacket" \in Failure /\ "kFirstPacket" \in Success /\ "kOutOfOrderReset" \in Success
    BY DEF Failure, Success
  <1>6. last' \in 1 .. MaxSent
    BY <1>1, WindowNumbers, Ranges
  <1>7. CASE Refused
    BY <1>1, <1>6, <1>3, <1>4, <1>7 DEF Refused, ArrivesAs
  <1>8. CASE Moved(k, Pkt(k))
    <2>1. CASE Placed(k, Pkt(k)) /\ state' \in Success \ {"kOutOfOrderReset"}
      BY <2>1, <1>1, <1>6, <1>3, <1>4, <1>8 DEF ArrivesAs
    <2>2. CASE UNCHANGED <<slots, lastSlot>> /\ Front' <= Front /\ state' = "kDuplicatePacket"
      BY <2>2, <1>1, <1>6, <1>3, <1>4, <1>5, <1>8 DEF ArrivesAs
    <2>3. QED
      BY <2>1, <2>2, <1>8 DEF Moved
  <1>9. CASE Restarted(k, Pkt(k))
    <2>1. state' \in Success
      BY <1>5, <1>9 DEF Restarted
    <2>2. QED
      BY <2>1, <1>1, <1>6, <1>3, <1>4, <1>9 DEF ArrivesAs
  <1>10. QED
    BY <1>1, <1>2, <1>6, <1>7, <1>8, <1>9

\* An arrival leaves the window ending with the latest packet.
LEMMA ArriveWindow ==
  ASSUME WindowInv, SlotInv, NEW k \in 1 .. MaxSent, NEW due \in BOOLEAN, Arrive(k, due)
  PROVE  WindowInv'
  <1>1. ArrivesAs(k) /\ insertPacket(Pkt(k)) /\ last' \in 1 .. MaxSent
    BY ArriveStep
  <1>2. TypeOK /\ last \in 0 .. MaxSent
    BY DEF WindowInv, TypeOK
  <1>3. held' \subseteq SeqNum /\ nextSeq' \in SeqNum /\ state' \in Failure \cup Success
    BY <1>1, <1>2, InsertTypes
  <1>4. arrived' \subseteq 1 .. MaxSent /\ pulling' \in BOOLEAN /\ calm' \in BOOLEAN
    BY <1>2 DEF Arrive, TypeOK, Received, isFull
  <1>5. stale' \in {"none", "older", "within"}
    BY <1>2 DEF Arrive, NowStale, TypeOK
  <1>6. /\ Linked(cur') /\ (last' > 0 => Front' \in 1 .. last' /\ startSeq' = SeqOf(Front'))
        /\ cur' \in Cursor
    <2>1. CASE Refused
      <3>1. cur' = cur /\ startSeq' = startSeq /\ last' = last /\ Front' = Front
        BY <2>1 DEF Refused, Front
      <3>2. QED
        BY <3>1, WindowNumbers DEF WindowInv
    <2>2. CASE WindowCells
      BY <2>2 DEF WindowCells
    <2>3. QED
      BY <2>1, <2>2, <1>1 DEF ArrivesAs, Moved, Restarted
  <1>7. slots' \in [Cell -> Slot] /\ lastSlot' \in Cell
    <2>1. slots \in [Cell -> Slot] /\ lastSlot \in Cell
      BY WindowNumbers
    <2>2. CASE UNCHANGED <<slots, lastSlot>>
      BY <2>1, <2>2
    <2>3. CASE Placed(k, Pkt(k))
      <3>1. Place(k)' \in Cell
        <4>1. cur'.head \in Int
          BY <1>6, CursorInts, Ranges
        <4>2. k - Front' \in Int
          BY <1>1, <1>6
        <4> HIDE DEF Front
        <4>3. (cur'.head + (k - Front')) % Capacity \in Cell
          BY <4>1, <4>2, ModCell
        <4>4. QED
          BY <4>3 DEF Place, At
      <3>2. QED
        BY <2>1, <2>3, <3>1, PktFits DEF Placed
    <2>4. QED
      BY <2>2, <2>3, <1>1 DEF ArrivesAs, Refused, Restarted
  <1>8. startSeq' \in SeqNum
    BY <1>1, <1>6, SeqOfInt
  <1>9. /\ feclist' \in Seq(FecData) /\ Len(feclist') <= FecCapacity
        /\ pc' \in {"idle", "native", "ulpfec", "null"}
    <2>1. /\ feclist \in Seq(FecData) /\ Len(feclist) <= FecCapacity
          /\ pc \in {"idle", "native", "ulpfec", "null"}
      BY <1>2 DEF TypeOK, FecTypeOK
    <2>2. CASE UNCHANGED <<feclist, pc>>
      BY <2>1, <2>2
    <2>3. CASE Listed(k) /\ pc' \in {"native", "ulpfec"}
      <3>1. Len(feclist') <= FecCapacity
        BY <2>3 DEF Listed
      <3>2. ASSUME NEW i \in 1 .. Len(feclist') PROVE feclist'[i] \in FecData
        <4>1. CASE \E j \in 1 .. Len(feclist) : feclist'[i] = feclist[j]
          BY <4>1, <2>1, ElementOfSeq
        <4>2. CASE feclist'[i] = NewFec(k)
          <5>1. FecOf(k).base \in SeqNum /\ FecOf(k).cover \subseteq 0 .. MaskBits - 1
            <6>1. k - BlockLen \in Int
              BY Ranges
            <6>2. SeqOf(k - BlockLen) \in SeqNum
              BY <6>1, SeqOfInt
            <6>3. 0 .. BlockLen - 1 \subseteq 0 .. MaskBits - 1
              BY Ranges
            <6>4. QED
              BY <6>2, <6>3 DEF FecOf
          <5>2. MissingOf(FecOf(k)) \subseteq FecOf(k).cover
            BY DEF MissingOf
          <5>3. QED
            BY <4>2, <5>1, <5>2, <1>7 DEF NewFec, FecData
        <4>3. QED
          BY <2>3, <4>1, <4>2 DEF Listed
      <3>3. feclist' \in Seq(FecData)
        <4>1. PICK S : feclist' \in Seq(S)
          BY <2>3 DEF Listed
        <4>2. Len(feclist') \in Nat /\ feclist' \in [1 .. Len(feclist') -> S]
          BY <4>1, LenProperties
        <4>3. feclist' \in [1 .. Len(feclist') -> FecData]
          BY <3>2, <4>2
        <4>4. QED
          BY <4>2, <4>3, SeqDef
      <3>4. QED
        BY <3>1, <3>3, <2>3
    <2>4. QED
      BY <2>2, <2>3, <1>1 DEF ArrivesAs
  <1>10. byte' \in [Cell -> SUBSET Source]
    BY <1>2, ByteType DEF TypeOK, FecTypeOK
  <1>11. TypeOK'
    BY <1>1, <1>3, <1>4, <1>5, <1>6, <1>7, <1>8, <1>9, <1>10 DEF TypeOK, FecTypeOK, WindowTypeOK
  <1>12. QED
    BY <1>1, <1>6, <1>11 DEF WindowInv

LEMMA ArriveSlots ==
  ASSUME WindowInv, SlotInv, NEW k \in 1 .. MaxSent, NEW due \in BOOLEAN, Arrive(k, due)
  PROVE  SlotInv' /\ last' >= last /\ \A c \in Cell : slots[c].payload # None => slots'[c].payload # None
  <1>1. ArrivesAs(k) /\ last' \in 1 .. MaxSent
    BY ArriveStep
  <1>2. last \in 0 .. MaxSent /\ slots \in [Cell -> Slot]
    BY WindowNumbers
  <1>3. last' >= last
    BY <1>1, <1>2, Ranges DEF ArrivesAs, Moved, Restarted
  <1>4. CASE UNCHANGED slots
    <2>1. SlotInv'
      BY <1>1, <1>2, <1>3, <1>4 DEF SlotInv, Held
    <2>2. QED
      BY <2>1, <1>3, <1>4
  <1>5. CASE Placed(k, Pkt(k)) /\ k \in 1 .. last'
    <2>1. \A c \in Cell : slots'[c] = IF c = Place(k)' THEN Pkt(k) ELSE slots[c]
      BY <1>2, <1>5 DEF Placed
    <2>2. Pkt(k).payload # None /\ Pkt(k).payload \subseteq Sent /\ Held(Pkt(k), k)
      BY PktFits DEF Held, Pkt
    <2>3. ASSUME NEW c \in Cell
          PROVE  /\ \/ slots'[c].seq = 0 /\ slots'[c].payload = None
                    \/ /\ slots'[c].payload \subseteq Sent
                       /\ \E j \in 1 .. last' : Held(slots'[c], j)
                 /\ slots[c].payload # None => slots'[c].payload # None
      <3>1. CASE c = Place(k)'
        <4>1. slots'[c] = Pkt(k)
          BY <2>1, <3>1
        <4>2. QED
          BY <4>1, <2>2, <1>5
      <3>2. CASE c # Place(k)'
        <4>1. slots'[c] = slots[c]
          BY <2>1, <3>2
        <4>2. CASE slots[c].seq = 0 /\ slots[c].payload = None
          BY <4>1, <4>2
        <4>3. CASE ~ (slots[c].seq = 0 /\ slots[c].payload = None)
          <5>1. slots[c].payload \subseteq Sent
            BY <4>3 DEF SlotInv
          <5>2. PICK j \in 1 .. last : Held(slots[c], j)
            BY <4>3 DEF SlotInv
          <5>3. j \in 1 .. last'
            BY <1>1, <1>2, <1>3
          <5>4. QED
            BY <4>1, <5>1, <5>2, <5>3
        <4>4. QED
          BY <4>2, <4>3
      <3>3. QED
        BY <3>1, <3>2
    <2>4. SlotInv'
      BY <2>3 DEF SlotInv, Held
    <2>5. QED
      BY <2>3, <2>4, <1>3
  <1>6. Restarted(k, Pkt(k)) => k \in 1 .. last'
    BY DEF Restarted
  <1>7. Moved(k, Pkt(k)) => k \in 1 .. last'
    BY DEF Moved, WindowCells
  <1>8. QED
    BY <1>1, <1>4, <1>5, <1>6, <1>7 DEF ArrivesAs, Refused, Restarted

\* The new window's numbers.
LEMMA NewPosition ==
  ASSUME WindowInv', last' \in 1 .. MaxSent, NEW i \in 1 .. MaxSent
  PROVE  distance(startSeq', SeqOf(i)) = i - Front'
  <1>1. Front' \in 1 .. MaxSent /\ startSeq' = SeqOf(Front')
    BY Ranges DEF WindowInv
  <1> HIDE DEF Front
  <1>2. QED
    BY <1>1, DistanceOf

\* A FEC packet that is put on the list.
LEMMA AddedFec ==
  ASSUME WindowInv', NEW k \in 1 .. MaxSent, last' \in 1 .. MaxSent, k \in 1 .. last',
         Placed(k, Pkt(k)), slots \in [Cell -> Slot], Added(k),
         NEW fecd, fecd = NewFec(k)
  PROVE  /\ k - BlockLen \in 1 .. last' /\ k - BlockLen >= Front'
         /\ Fec(fecd, k - BlockLen)'
         /\ slots'[lastSlot'] = Pkt(k) /\ fecd.base = SeqOf(k - BlockLen)
  <1>1. k - BlockLen \in 1 .. MaxSent /\ k - BlockLen \in 1 .. last'
    BY FecLate, Ranges DEF Added
  <1>2. distance(startSeq', SeqOf(k - BlockLen)) = (k - BlockLen) - Front'
    BY <1>1, NewPosition
  <1>3. FecOf(k).base = SeqOf(k - BlockLen) /\ FecOf(k).cover = 0 .. BlockLen - 1
    BY DEF FecOf
  <1>4. (k - BlockLen) - Front' >= 0 /\ isFec(k)
    BY <1>2, <1>3 DEF Added
  <1>5. Front' \in Int
    BY DEF WindowInv
  <1>6. lastSlot' \in Cell /\ lastSlot' = Place(k)'
    BY DEF WindowInv, TypeOK, FecTypeOK, WindowTypeOK, Placed
  <1>7. slots'[lastSlot'] = Pkt(k)
    BY <1>6 DEF Placed
  <1>8. fecd.base = SeqOf(k - BlockLen) /\ fecd.cover = 0 .. BlockLen - 1 /\ fecd.cell = lastSlot'
        /\ fecd.recv \subseteq fecd.cover
    BY <1>3 DEF NewFec, MissingOf
  <1>9. k - BlockLen + BlockLen = k /\ k - BlockLen >= Front' /\ ~ (k - BlockLen < Front')
    <2> DEFINE b == k - BlockLen
    <2>1. b \in Int /\ b + BlockLen = k
      BY Ranges
    <2>2. PICK f \in Int : f = Front'
      BY <1>5
    <2>3. b - f >= 0
      BY <1>4, <2>2
    <2> HIDE DEF b
    <2>4. b >= f /\ ~ (b < f)
      BY <2>1, <2>3
    <2>5. QED
      BY <2>1, <2>2, <2>4 DEF b
  <1>10. Fec(fecd, k - BlockLen)'
    <2>1. fecd.cell \in Cell /\ slots'[fecd.cell].payload # None
      BY <1>6, <1>7, <1>8, PktFits
    <2> HIDE DEF Front
    <2> SUFFICES /\ fecd.base = SeqOf(k - BlockLen) /\ fecd.cover = 0 .. BlockLen - 1
                 /\ fecd.recv \subseteq fecd.cover /\ fecd.cell \in Cell
                 /\ k - BlockLen + BlockLen <= last' /\ isFec(k - BlockLen + BlockLen)
                 /\ slots'[fecd.cell].payload # None
                 /\ k - BlockLen < Front' => cur'.count = Capacity
      BY DEF Fec
    <2>2. QED
      BY <2>1, <1>1, <1>4, <1>8, <1>9
  <1>11. QED
    BY <1>1, <1>7, <1>8, <1>9, <1>10

\* The window never gets shorter without a reset, so a full one stays full.
LEMMA StaysFull ==
  ASSUME WindowInv, NEW k, Moved(k, Pkt(k)), WindowInv', cur.count = Capacity
  PROVE  cur'.count = Capacity
  <1>1. ~ (Front' < Front)
    <2>1. ~ (cur.count < Capacity)
      BY Ranges
    <2>2. QED
      BY <2>1 DEF Moved
  <1>2. last \in Int /\ last' \in Int /\ last' >= last /\ cur'.count \in 0 .. Capacity
    <2>1. last \in 0 .. MaxSent /\ last' \in 0 .. MaxSent /\ cur' \in Cursor
      BY DEF WindowInv, TypeOK, FecTypeOK, WindowTypeOK
    <2>2. last' >= last
      <3>1. k \in Int
        BY <2>1, Ranges DEF Moved, WindowCells
      <3>2. last' = IF k > last THEN k ELSE last
        BY DEF Moved
      <3>3. QED
        BY <3>1, <3>2, <2>1, Ranges
    <2>3. QED
      BY <2>1, <2>2, CursorInts, Ranges
  <1>3. CASE Front' > Front
    BY <1>3 DEF Moved
  <1>4. CASE ~ (Front' > Front)
    <2>1. Front' = last' - cur'.count + 1 /\ Front = last - cur.count + 1
      BY DEF Front
    <2>2. Front' \in Int /\ Front \in Int
      BY <2>1, <1>2, Ranges
    <2>3. Front' = Front
      BY <1>1, <1>4, <2>2
    <2>4. last' - cur'.count + 1 = last - Capacity + 1
      BY <2>1, <2>3
    <2>5. QED
      BY <2>4, <1>2, Ranges
  <1>5. QED
    BY <1>3, <1>4

LEMMA ArriveList ==
  ASSUME WindowInv, SlotInv, ListInv, NEW k \in 1 .. MaxSent, NEW due \in BOOLEAN, Arrive(k, due)
  PROVE  ListInv'
  <1>1. ArrivesAs(k) /\ last' \in 1 .. MaxSent /\ WindowInv' /\ SlotInv'
    BY ArriveStep, ArriveWindow, ArriveSlots
  <1>2. last \in 0 .. MaxSent /\ last' >= last /\ slots \in [Cell -> Slot]
    BY WindowNumbers, ArriveSlots
  <1>3. \A c \in Cell : slots[c].payload # None => slots'[c].payload # None
    BY ArriveSlots
  <1>4. ASSUME NEW fecd, NEW b \in 1 .. last, Fec(fecd, b), ~ Restarted(k, Pkt(k))
        PROVE  b \in 1 .. last' /\ Fec(fecd, b)'
    <2>1. b \in 1 .. last' /\ b + BlockLen <= last'
      BY <1>1, <1>2, <1>4, Ranges DEF Fec
    <2>2. slots'[fecd.cell].payload # None
      BY <1>3, <1>4 DEF Fec
    <2>3. b < Front' => cur'.count = Capacity
      <3>1. CASE Refused
        <4>1. cur' = cur /\ Front' = Front
          BY <3>1 DEF Refused, Front
        <4>2. QED
          BY <4>1, <1>4 DEF Fec
      <3>2. CASE Moved(k, Pkt(k))
        <4>1. CASE cur.count = Capacity
          BY <4>1, <3>2, <1>1, StaysFull
        <4>2. CASE cur.count # Capacity
          <5>1. b >= Front
            <6>1. b \in Int /\ Front \in Int
              BY WindowNumbers
            <6>2. ~ (b < Front)
              BY <4>2, <1>4 DEF Fec
            <6> HIDE DEF Front
            <6>3. QED
              BY <6>1, <6>2
          <5>2. SUFFICES ASSUME b < Front' PROVE Front' > Front
            BY <3>2 DEF Moved
          <5>3. PICK f \in Int : f = Front'
            BY <3>2 DEF Moved, WindowCells
          <5>4. PICK g \in Int : g = Front
            BY WindowNumbers
          <5>5. b < f /\ b >= g
            BY <5>1, <5>2, <5>3, <5>4
          <5>6. f > g
            BY <5>5, <5>3, <5>4
          <5>7. QED
            BY <5>3, <5>4, <5>6
        <4>3. QED
          BY <4>1, <4>2
      <3>3. QED
        BY <3>1, <3>2, <1>1, <1>4 DEF ArrivesAs
    <2>4. QED
      BY <2>1, <2>2, <2>3, <1>4 DEF Fec
  <1>5. CASE UNCHANGED feclist /\ ~ Restarted(k, Pkt(k))
    <2>1. ASSUME NEW i \in 1 .. Len(feclist') PROVE (\E b \in 1 .. last : Fec(feclist[i], b))'
      <3>1. i \in 1 .. Len(feclist)
        BY <1>5
      <3>2. PICK f : f = feclist[i]
        OBVIOUS
      <3>3. PICK b \in 1 .. last' : Fec(f, b)'
        BY <1>4, <1>5, <3>1, <3>2 DEF ListInv
      <3>4. f = feclist'[i]
        BY <3>2, <1>5
      <3>5. QED
        BY <3>3, <3>4 DEF Fec
    <2>2. QED
      BY <2>1 DEF ListInv
  <1>6. CASE Listed(k) /\ Placed(k, Pkt(k)) /\ k \in 1 .. last'
    <2>1. ASSUME NEW i \in 1 .. Len(feclist') PROVE (\E b \in 1 .. last : Fec(feclist[i], b))'
      <3>1. PICK f : f = feclist'[i]
        OBVIOUS
      <3>2. \E b \in 1 .. last' : Fec(f, b)'
        <4>1. CASE Added(k) /\ f = NewFec(k)
          BY <4>1, <1>1, <1>2, <1>6, AddedFec
        <4>2. CASE state' # "kOutOfOrderReset" /\ \E j \in 1 .. Len(feclist) : f = feclist[j]
          <5>1. PICK j \in 1 .. Len(feclist) : f = feclist[j]
            BY <4>2
          <5>2. PICK b \in 1 .. last : Fec(f, b)
            BY <5>1 DEF ListInv
          <5>3. last # 0
            BY <5>2, <1>2
          <5>4. ~ Restarted(k, Pkt(k))
            BY <5>3, <4>2 DEF Restarted
          <5>5. QED
            BY <5>2, <5>4, <1>4
        <4>3. QED
          BY <4>1, <4>2, <3>1, <1>6 DEF Listed
      <3>3. QED
        BY <3>1, <3>2 DEF Fec
    <2>2. QED
      BY <2>1 DEF ListInv
  <1>7. Restarted(k, Pkt(k)) => Placed(k, Pkt(k)) /\ k \in 1 .. last'
    BY DEF Restarted
  <1>8. Moved(k, Pkt(k)) => k \in 1 .. last' /\ ~ Restarted(k, Pkt(k))
    <2>1. Moved(k, Pkt(k)) => k \in 1 .. last'
      BY DEF Moved, WindowCells
    <2>2. Moved(k, Pkt(k)) => last > 0 /\ state' # "kOutOfOrderReset"
      BY DEF Moved
    <2>3. QED
      BY <2>1, <2>2, <1>2 DEF Restarted
  <1>9. Refused => ~ Restarted(k, Pkt(k))
    BY <1>2 DEF Refused, Restarted
  <1>10. QED
    BY <1>1, <1>5, <1>6, <1>7, <1>8, <1>9 DEF ArrivesAs

\* The front of the list.
LEMMA HeadFec ==
  ASSUME WindowInv, ListInv, feclist # <<>>
  PROVE  /\ 1 \in 1 .. Len(feclist) /\ Head(feclist) = feclist[1] /\ Head(feclist) \in FecData
         /\ last > 0
         /\ \E b \in 1 .. last : Fec(Head(feclist), b) /\ Position(Head(feclist).base) = b - Front
  <1>1. feclist \in Seq(FecData)
    BY DEF WindowInv, TypeOK, FecTypeOK
  <1>2. 1 \in 1 .. Len(feclist) /\ Head(feclist) = feclist[1] /\ Head(feclist) \in FecData
    <2>1. Len(feclist) \in Nat \ {0}
      BY <1>1, EmptySeq
    <2>2. Head(feclist) \in FecData
      BY <1>1, HeadTailProperties
    <2>3. QED
      BY <2>1, <2>2, <1>1
  <1>3. PICK b \in 1 .. last : Fec(Head(feclist), b)
    BY <1>2 DEF ListInv
  <1>4. last \in 0 .. MaxSent
    BY WindowNumbers
  <1>5. last > 0 /\ b \in 1 .. MaxSent
    BY <1>3, <1>4, Ranges
  <1>6. Position(SeqOf(b)) = b - Front
    BY <1>5, PositionOf
  <1>7. QED
    BY <1>2, <1>3, <1>5, <1>6 DEF Fec

LEMMA ArriveBase ==
  ASSUME Base, NEW k \in 1 .. MaxSent, NEW due \in BOOLEAN, Arrive(k, due)
  PROVE  Base'
  <1>1. WindowInv /\ SlotInv /\ ListInv /\ FrontStillUseful
    BY DEF Base
  <1>2. ArrivesAs(k) /\ last' \in 1 .. MaxSent /\ WindowInv' /\ SlotInv' /\ ListInv' /\ pc = "idle"
    BY <1>1, ArriveStep, ArriveWindow, ArriveSlots, ArriveList
  <1>3. NullReadOnlyAtZero'
    <2>1. pc' # "null"
      BY <1>2 DEF ArrivesAs
    <2>2. QED
      BY <2>1 DEF NullReadOnlyAtZero
  <1>4. ASSUME pc' = "idle", feclist' # <<>> PROVE distance(startSeq', Head(feclist').base) >= 0
    <2>1. feclist' = feclist
      BY <1>2, <1>4 DEF ArrivesAs
    <2>2. PICK f : f = Head(feclist)
      OBVIOUS
    <2>3. PICK b \in 1 .. last : f.base = SeqOf(b) /\ Position(f.base) = b - Front
      BY <2>1, <2>2, <1>1, <1>4, HeadFec DEF Fec
    <2>4. b - Front >= 0
      BY <2>1, <2>2, <2>3, <1>1, <1>2, <1>4 DEF FrontStillUseful
    <2>5. b \in 1 .. MaxSent
      BY <1>1, <2>3, WindowNumbers, Ranges
    <2>6. distance(startSeq', SeqOf(b)) = b - Front'
      BY <2>5, <1>2, NewPosition
    <2>7. PICK g \in Int : g = Front
      BY <1>1, WindowNumbers
    <2>8. PICK h \in Int : h = Front'
      BY <1>2 DEF WindowInv
    <2>9. h <= g
      <3>1. CASE Refused
        <4>1. Front' = Front
          BY <3>1 DEF Refused, Front
        <4>2. QED
          BY <4>1, <2>7, <2>8
      <3>2. CASE ~ Refused
        BY <3>2, <2>7, <2>8, <1>2, <1>4 DEF ArrivesAs
      <3>3. QED
        BY <3>1, <3>2
    <2>10. b - h >= 0
      BY <2>4, <2>7, <2>9
    <2>11. Head(feclist').base = SeqOf(b)
      BY <2>1, <2>2, <2>3
    <2>12. QED
      BY <2>6, <2>8, <2>10, <2>11
  <1>5. FrontStillUseful'
    BY <1>4 DEF FrontStillUseful, Position
  <1>6. QED
    BY <1>2, <1>3, <1>5 DEF Base

-----------------------------------------------------------------------------
(* processFEC.                                                             *)

\* An exclusive or is made of what goes into it.
LEMMA XorWithin ==
  ASSUME NEW contents, NEW cells, NEW more, NEW T, more \subseteq T,
         \A c \in cells : contents[c] \subseteq T
  PROVE  XorAll(contents, cells, more) \subseteq T
  <1> SUFFICES ASSUME NEW x \in XorAll(contents, cells, more), x \notin T PROVE FALSE
    OBVIOUS
  <1>1. x \notin more
    OBVIOUS
  <1>2. {c \in cells : x \in contents[c]} = {}
    OBVIOUS
  <1>3. Cardinality({c \in cells : x \in contents[c]}) = 0
    BY <1>2, FS_EmptySet
  <1>4. 0 % 2 = 0
    OBVIOUS
  <1>5. QED
    BY <1>1, <1>3, <1>4 DEF XorAll

\* The cells that recovery adds up.
AddedCells(fecd, offset) == {At(cur, j) : j \in Addends(fecd, offset)}

\* The packet a FEC packet makes good, and what recovery leaves in the buffers.
Recovered(fecd, offset, b) ==
  [seq |-> SeqOf(b + offset),
   payload |-> XorAll(payloads, AddedCells(fecd, offset), slots[fecd.cell].payload)]

LeftBytes(fecd, offset, b) ==
  IF Reaches(fecd)
  THEN [byte EXCEPT ![Place(b + offset)] = XorAll(byte, AddedCells(fecd, offset), levelByte(fecd))]
  ELSE byte

\* What one iteration of processFEC may do.
FecStep(fecd, b) ==
  \/ \E offset \in fecd.recv :
       /\ fecd.recv = {offset} /\ Front <= b /\ b + BlockLen <= last
       /\ b + offset \in Front .. last
       /\ slots[Place(b + offset)].seq # SeqOf(b + offset)
       /\ \/ ReadsNull(fecd, offset) /\ pc' = "null" /\ UNCHANGED <<slots, byte, feclist>>
          \/ /\ ~ ReadsNull(fecd, offset)
             /\ slots' = [slots EXCEPT ![Place(b + offset)] = Recovered(fecd, offset, b)]
             /\ byte' = LeftBytes(fecd, offset, b)
             /\ feclist' = Tail(feclist) /\ UNCHANGED pc
  \/ UNCHANGED <<slots, byte>> /\ feclist' = Tail(feclist) /\ UNCHANGED pc
  \/ UNCHANGED <<slots, byte, feclist>> /\ pc' = "idle" /\ b >= Front

LEMMA ProcessStep ==
  ASSUME WindowInv, ListInv, processFEC, feclist # <<>>,
         NEW b \in 1 .. last, Fec(Head(feclist), b), Position(Head(feclist).base) = b - Front
  PROVE  FecStep(Head(feclist), b)
  <1> DEFINE f == Head(feclist)
  <1>1. f.base = SeqOf(b) /\ f.cover = 0 .. BlockLen - 1 /\ f.recv \subseteq f.cover /\ b + BlockLen <= last
    BY DEF Fec
  <1>2. last \in 0 .. MaxSent /\ last > 0 /\ cur.count \in 0 .. Capacity /\ Front \in Int
    BY WindowNumbers, Ranges
  <1>3. ASSUME NEW offset \in f.recv, Recoverable(f, offset)
        PROVE  /\ f.recv = {offset} /\ Front <= b /\ b + BlockLen <= last
               /\ b + offset \in Front .. last
               /\ slots[Place(b + offset)].seq # SeqOf(b + offset)
               /\ Plus(f.base, offset) = SeqOf(b + offset)
               /\ At(cur, Position(Plus(f.base, offset))) = Place(b + offset)
    <2>1. offset \in 0 .. BlockLen - 1 /\ b + offset \in 1 .. MaxSent
      BY <1>1, <1>2, Ranges
    <2>2. Plus(f.base, offset) = SeqOf(b + offset)
      BY <2>1, <1>1, PlusOf
    <2>3. Position(SeqOf(b + offset)) = (b + offset) - Front
      BY <2>1, <1>2, PositionOf
    <2>4. /\ f.recv = {offset} /\ InWindow(SeqOf(b + offset)) /\ InWindow(f.base)
          /\ SlotOf(SeqOf(b + offset)).seq # SeqOf(b + offset)
      BY <2>2, <1>3 DEF Recoverable
    <2>5. (b + offset) - Front \in 0 .. cur.count - 1 /\ b - Front \in 0 .. cur.count - 1
      BY <2>3, <2>4 DEF InWindow
    <2>6. b + offset \in Front .. last /\ Front <= b
      <3>1. Front + cur.count = last + 1
        BY <1>2 DEF Front
      <3> HIDE DEF Front
      <3>2. QED
        BY <3>1, <2>1, <2>5, <1>2, Ranges
    <2>7. At(cur, Position(Plus(f.base, offset))) = Place(b + offset)
      BY <2>2, <2>3 DEF Place
    <2>8. slots[Place(b + offset)].seq # SeqOf(b + offset)
      BY <2>3, <2>4 DEF SlotOf, Place
    <2>9. QED
      BY <2>2, <2>4, <2>6, <2>7, <2>8, <1>1
  <1>4. CASE \E offset \in f.recv : Recoverable(f, offset) /\
                \/ ReadsNull(f, offset) /\ pc' = "null" /\ UNCHANGED <<slots, byte, feclist>>
                \/ ~ ReadsNull(f, offset) /\ recoverULPFEC(f, offset) /\ feclist' = Tail(feclist) /\ UNCHANGED pc
    <2>1. PICK offset \in f.recv : Recoverable(f, offset) /\
                \/ ReadsNull(f, offset) /\ pc' = "null" /\ UNCHANGED <<slots, byte, feclist>>
                \/ ~ ReadsNull(f, offset) /\ recoverULPFEC(f, offset) /\ feclist' = Tail(feclist) /\ UNCHANGED pc
      BY <1>4
    <2>2. recoverULPFEC(f, offset) => /\ slots' = [slots EXCEPT ![Place(b + offset)] = Recovered(f, offset, b)]
                                      /\ byte' = LeftBytes(f, offset, b)
      BY <2>1, <1>3 DEF recoverULPFEC, Recovered, LeftBytes, AddedCells
    <2>3. QED
      BY <2>1, <2>2, <1>3 DEF FecStep
  <1>5. CASE UNCHANGED <<slots, byte>> /\ feclist' = Tail(feclist) /\ UNCHANGED pc
    BY <1>5 DEF FecStep
  <1>6. CASE UNCHANGED <<slots, byte, feclist>> /\ ~ Done(f) /\ pc' = "idle"
    <2>1. ~ (b - Front < 0)
      BY <1>6 DEF Done
    <2>2. b >= Front
      BY <2>1, <1>2
    <2>3. QED
      BY <2>2, <1>6 DEF FecStep
  <1>7. QED
    BY <1>4, <1>5, <1>6 DEF processFEC

\* What is recovered is a packet like one that was sent.
LEMMA RecoveredFits ==
  ASSUME WindowInv, SlotInv, NEW b \in 1 .. last, NEW fecd, Fec(fecd, b), NEW offset \in fecd.recv,
         b + offset \in Front .. last, ~ ReadsNull(fecd, offset)
  PROVE  /\ Recovered(fecd, offset, b) \in Slot
         /\ Recovered(fecd, offset, b).payload \subseteq Sent
         /\ Held(Recovered(fecd, offset, b), b + offset)
         /\ b + offset \in 1 .. last /\ Place(b + offset) \in Cell
  <1> DEFINE cells == AddedCells(fecd, offset)
             more == slots[fecd.cell].payload
             x == XorAll(payloads, cells, more)
  <1>1. \A c \in Cell : slots[c].payload # None => slots[c].payload \subseteq Sent
    BY DEF SlotInv
  <1>2. more \subseteq Sent
    BY <1>1 DEF Fec
  <1>3. ASSUME NEW c \in cells PROVE payloads[c] \subseteq Sent
    <2>1. PICK j \in Addends(fecd, offset) : c = At(cur, j)
      BY DEF AddedCells
    <2>2. j \in Int /\ cur.head \in Int
      BY WindowNumbers, CursorInts, Ranges DEF Addends
    <2>3. At(cur, j) \in Cell
      BY <2>2, ModCell DEF At
    <2>4. slots[c].payload # None
      BY <2>1 DEF ReadsNull
    <2>5. QED
      BY <2>1, <2>3, <2>4, <1>1 DEF payloads
  <1> HIDE DEF cells, more
  <1>4. x \subseteq Sent
    BY <1>2, <1>3, XorWithin
  <1>5. x \in Payload /\ x # None
    BY <1>4, StreamAssumption, PayloadAssumption
  <1>6. b + offset \in 1 .. last
    <2>1. last \in 0 .. MaxSent
      BY WindowNumbers
    <2>2. last > 0
      BY <2>1, Ranges
    <2>3. Front \in 1 .. last
      BY <2>2 DEF WindowInv
    <2> HIDE DEF Front
    <2>4. QED
      BY <2>1, <2>3, Ranges
  <1>7. b + offset \in Int
    BY <1>6
  <1>8. SeqOf(b + offset) \in SeqNum /\ Place(b + offset) \in Cell
    BY <1>7, SeqOfInt, PlaceCell
  <1>9. Recovered(fecd, offset, b) = [seq |-> SeqOf(b + offset), payload |-> x]
    BY DEF Recovered, cells, more
  <1> HIDE DEF x
  <1>10. QED
    BY <1>4, <1>5, <1>6, <1>8, <1>9 DEF Slot, Held

LEMMA ProcessBase ==
  ASSUME Base, processFEC, UNCHANGED <<arrived, last, pulling, calm, stale>>
  PROVE  Base'
  <1>1. /\ WindowInv /\ SlotInv /\ ListInv /\ FrontStillUseful /\ TypeOK
        /\ cur' = cur /\ startSeq' = startSeq /\ nextSeq' = nextSeq /\ lastSlot' = lastSlot
        /\ state' = state /\ held' = held /\ last' = last /\ arrived' = arrived
        /\ pulling' = pulling /\ calm' = calm /\ stale' = stale
        /\ pc \in {"native", "ulpfec"}
    BY DEF Base, WindowInv, processFEC
  <1>2. Front' = Front
    BY <1>1 DEF Front
  <1>3. slots \in [Cell -> Slot] /\ feclist \in Seq(FecData) /\ Len(feclist) <= FecCapacity
        /\ byte \in [Cell -> SUBSET Source]
    BY <1>1 DEF TypeOK, FecTypeOK, WindowTypeOK
  <1>4. ASSUME slots' \in [Cell -> Slot], byte' \in [Cell -> SUBSET Source],
               feclist' \in Seq(FecData), Len(feclist') <= FecCapacity,
               pc' \in {"idle", "native", "ulpfec", "null"}
        PROVE  WindowInv'
    <2>1. TypeOK'
      BY <1>1, <1>4 DEF TypeOK, FecTypeOK, WindowTypeOK
    <2>2. QED
      BY <2>1, <1>1, <1>2 DEF WindowInv
  <1>5. CASE feclist = <<>>
    <2>1. slots' = slots /\ byte' = byte /\ feclist' = feclist /\ pc' = "idle"
      BY <1>5 DEF processFEC
    <2>2. WindowInv'
      BY <2>1, <1>3, <1>4
    <2>3. SlotInv'
      BY <2>1, <1>1 DEF SlotInv, Held
    <2>4. ListInv'
      BY <2>1, <1>1, <1>2 DEF ListInv, Fec
    <2>5. FrontStillUseful' /\ NullReadOnlyAtZero'
      BY <2>1, <1>5 DEF FrontStillUseful, NullReadOnlyAtZero
    <2>6. QED
      BY <2>2, <2>3, <2>4, <2>5 DEF Base
  <1>6. CASE feclist # <<>>
    <2> DEFINE f == Head(feclist)
    <2>1. /\ 1 \in 1 .. Len(feclist) /\ f = feclist[1] /\ last > 0
          /\ \E b \in 1 .. last : Fec(f, b) /\ Position(f.base) = b - Front
      BY <1>1, <1>6, HeadFec
    <2>2. PICK b \in 1 .. last : Fec(f, b) /\ Position(f.base) = b - Front
      BY <2>1
    <2>3. FecStep(f, b)
      BY <2>2, <1>1, <1>6, ProcessStep
    <2>4. /\ Tail(feclist) \in Seq(FecData) /\ Len(Tail(feclist)) = Len(feclist) - 1
          /\ \A i \in 1 .. Len(Tail(feclist)) : Tail(feclist)[i] = feclist[i + 1]
          /\ Len(feclist) \in Nat
      BY <1>3, <1>6, HeadTailProperties, LenProperties
    <2>5. Len(Tail(feclist)) <= FecCapacity /\ \A i \in 1 .. Len(Tail(feclist)) : i + 1 \in 1 .. Len(feclist)
      BY <2>4, <1>3, Ranges
    <2>6. /\ slots' \in [Cell -> Slot] /\ SlotInv'
          /\ \A c \in Cell : slots[c].payload # None => slots'[c].payload # None
      <3>1. CASE slots' = slots
        BY <3>1, <1>1, <1>3 DEF SlotInv, Held
      <3>2. CASE \E offset \in f.recv : /\ b + offset \in Front .. last /\ ~ ReadsNull(f, offset)
                                        /\ slots' = [slots EXCEPT ![Place(b + offset)] = Recovered(f, offset, b)]
        <4>1. PICK offset \in f.recv : /\ b + offset \in Front .. last /\ ~ ReadsNull(f, offset)
                                       /\ slots' = [slots EXCEPT ![Place(b + offset)] = Recovered(f, offset, b)]
          BY <3>2
        <4> DEFINE r == Recovered(f, offset, b)
                   p == Place(b + offset)
        <4>2. r \in Slot /\ r.payload \subseteq Sent /\ Held(r, b + offset) /\ b + offset \in 1 .. last /\ p \in Cell
          BY <4>1, <2>2, <1>1, RecoveredFits
        <4> HIDE DEF r, p
        <4>3. slots' = [slots EXCEPT ![p] = r]
          BY <4>1 DEF r, p
        <4>4. \A c \in Cell : slots'[c] = IF c = p THEN r ELSE slots[c]
          BY <4>3, <1>3
        <4>5. slots' \in [Cell -> Slot]
          BY <4>2, <4>3, <1>3
        <4>6. ASSUME NEW c \in Cell
              PROVE  /\ \/ slots'[c].seq = 0 /\ slots'[c].payload = None
                        \/ slots'[c].payload \subseteq Sent /\ \E j \in 1 .. last : Held(slots'[c], j)
                     /\ slots[c].payload # None => slots'[c].payload # None
          <5>1. CASE c = p
            BY <5>1, <4>2, <4>4 DEF Held
          <5>2. CASE c # p
            BY <5>2, <4>4, <1>1 DEF SlotInv
          <5>3. QED
            BY <5>1, <5>2
        <4>7. SlotInv'
          BY <4>6, <1>1 DEF SlotInv, Held
        <4>8. QED
          BY <4>5, <4>6, <4>7
      <3>3. QED
        BY <3>1, <3>2, <2>3 DEF FecStep
    <2>7. feclist' = feclist \/ feclist' = Tail(feclist)
      BY <2>3 DEF FecStep
    <2>8. pc' \in {"idle", "native", "ulpfec", "null"}
      BY <2>3, <1>1 DEF FecStep
    <2>9. WindowInv'
      <3>1. \A o \in f.recv : LeftBytes(f, o, b) \in [Cell -> SUBSET Source]
        <4>1. \A cells : XorAll(byte, cells, levelByte(f)) \in SUBSET Source
          BY DEF XorAll
        <4>2. QED
          BY <4>1, <1>3 DEF LeftBytes
      <3>2. byte' \in [Cell -> SUBSET Source]
        BY <3>1, <2>3, <1>3 DEF FecStep
      <3>3. QED
        BY <3>2, <2>4, <2>5, <2>6, <2>7, <2>8, <1>3, <1>4
    <2>10. ListInv'
      <3>1. ASSUME NEW g, NEW e \in 1 .. last, Fec(g, e) PROVE e \in 1 .. last' /\ Fec(g, e)'
        <4>1. slots'[g.cell].payload # None
          BY <3>1, <2>6 DEF Fec
        <4>2. QED
          BY <4>1, <3>1, <1>1, <1>2 DEF Fec
      <3>2. ASSUME NEW i \in 1 .. Len(feclist') PROVE (\E e \in 1 .. last : Fec(feclist[i], e))'
        <4>1. PICK g : g = feclist'[i]
          OBVIOUS
        <4>2. PICK m \in 1 .. Len(feclist) : g = feclist[m]
          BY <4>1, <2>4, <2>5, <2>7
        <4>3. PICK e \in 1 .. last : Fec(g, e)
          BY <4>2, <1>1 DEF ListInv
        <4>4. e \in 1 .. last' /\ Fec(g, e)'
          BY <4>3, <3>1
        <4>5. QED
          BY <4>1, <4>4 DEF Fec
      <3>3. QED
        BY <3>2 DEF ListInv
    <2>11. FrontStillUseful'
      <3>1. ASSUME pc' = "idle", feclist' # <<>> PROVE distance(startSeq', Head(feclist').base) >= 0
        <4>1. feclist' = feclist /\ b >= Front
          BY <3>1, <2>3, <1>1 DEF FecStep
        <4>2. b - Front >= 0
          <5>1. Front \in Int /\ b \in Int
            BY <1>1, WindowNumbers
          <5>2. QED
            BY <5>1, <4>1
        <4>3. QED
          BY <4>1, <4>2, <2>2, <1>1 DEF Position
      <3>2. QED
        BY <3>1 DEF FrontStillUseful, Position
    <2>12. NullReadOnlyAtZero'
      <3>1. ASSUME pc' = "null" PROVE 0 \in {Plus(f.base, o) : o \in f.cover} /\ feclist' = feclist
        <4>1. PICK offset \in f.recv : ReadsNull(f, offset) /\ feclist' = feclist
          BY <3>1, <2>3, <1>1 DEF FecStep
        <4>2. PICK j \in Addends(f, offset) : slots[At(cur, j)].payload = None
          BY <4>1 DEF ReadsNull
        <4>3. j \in Int /\ cur.head \in Int
          BY <1>1, WindowNumbers, CursorInts, Ranges DEF Addends
        <4>4. At(cur, j) \in Cell
          BY <4>3, ModCell DEF At
        <4>5. slots[At(cur, j)].seq = 0
          BY <4>2, <4>4, <1>1 DEF SlotInv, Held
        <4>6. distance(f.base, 0) \in f.cover
          BY <4>2, <4>5 DEF Addends, Covers
        <4>7. f.base \in SeqNum /\ 0 \in SeqNum
          <5>1. f \in FecData
            BY <1>3, <2>1, ElementOfSeq
          <5>2. 0 \in SeqNum
            BY Ranges DEF SeqNum
          <5>3. QED
            BY <5>1, <5>2 DEF FecData
        <4>8. Plus(f.base, distance(f.base, 0)) = 0
          BY <4>7, PlusDistance
        <4>9. QED
          BY <4>1, <4>6, <4>8
      <3>2. QED
        BY <3>1 DEF NullReadOnlyAtZero
    <2>13. QED
      BY <2>6, <2>9, <2>10, <2>11, <2>12 DEF Base
  <1>7. QED
    BY <1>5, <1>6

-----------------------------------------------------------------------------
(* The reader and the invariants of every step.                            *)

\* A step that leaves the window, the slots and the list.
LEMMA ReadBase ==
  ASSUME Base, UNCHANGED <<cur, slots, startSeq, lastSlot, held, byte, feclist, pc, arrived, last, calm, stale>>,
         nextSeq' \in SeqNum, state' \in Failure \cup Success, pulling' \in BOOLEAN
  PROVE  Base'
  <1>1. Front' = Front
    BY DEF Front
  <1>2. TypeOK'
    BY DEF Base, WindowInv, TypeOK, FecTypeOK, WindowTypeOK
  <1>3. WindowInv'
    BY <1>1, <1>2 DEF Base, WindowInv
  <1>4. SlotInv'
    BY DEF Base, SlotInv, Held
  <1>5. ListInv'
    BY <1>1 DEF Base, ListInv, Fec
  <1>6. FrontStillUseful' /\ NullReadOnlyAtZero'
    BY DEF Base, FrontStillUseful, NullReadOnlyAtZero, Position
  <1>7. QED
    BY <1>3, <1>4, <1>5, <1>6 DEF Base

LEMMA FlowBase ==
  ASSUME Base, processFlow
  PROVE  Base'
  <1>1. UNCHANGED <<cur, slots, startSeq, lastSlot, held, byte, feclist, pc, arrived, last, calm, stale>>
    BY DEF processFlow, nextSlotInOrder
  <1>2. startSeq \in SeqNum /\ nextSeq \in SeqNum
    BY DEF Base, WindowInv, TypeOK, FecTypeOK, WindowTypeOK
  <1>3. Expected \in SeqNum
    BY <1>2 DEF Expected
  <1>4. Plus(Expected, 1) \in SeqNum
    <2>1. Expected + 1 \in Int
      BY <1>3, Ranges DEF SeqNum
    <2>2. (Expected + 1) % SeqRange \in 0 .. SeqRange - 1
      BY <2>1, DivMod, Ranges
    <2>3. QED
      BY <2>2 DEF Plus, SeqNum
  <1>5. nextSeq' \in SeqNum /\ state' \in Failure \cup Success
    BY <1>2, <1>3, <1>4 DEF processFlow, nextSlotInOrder, PullNext, PullNothing, PullEmpty, Failure, Success
  <1>6. pulling' \in BOOLEAN
    BY DEF processFlow
  <1>7. QED
    BY <1>1, <1>5, <1>6, ReadBase

LEMMA InitBase == Init => Base
  <1> SUFFICES ASSUME Init PROVE Base
    OBVIOUS
  <1>1. /\ cur = Cleared /\ slots = [i \in Cell |-> [seq |-> 0, payload |-> None]]
        /\ startSeq = 0 /\ nextSeq = 0 /\ lastSlot = 0 /\ state = "kNoError" /\ held = {}
        /\ feclist = <<>> /\ pc = "idle" /\ arrived = {} /\ last = 0 /\ pulling = FALSE /\ calm = TRUE
        /\ stale = "none"
    BY DEF Init, FecInit, WindowInit
  <1>2. 0 \in SeqNum /\ 0 \in Cell /\ Cleared \in Cursor
    BY Ranges, CapacityAssumption DEF SeqNum, Cell, Cleared, Cursor
  <1>3. slots \in [Cell -> Slot]
    BY <1>1, <1>2 DEF Slot
  <1>4. feclist \in Seq(FecData) /\ Len(feclist) <= FecCapacity /\ byte \in [Cell -> SUBSET Source]
    <2>1. \A c \in Cell : Memory(c) \in Source
      BY Ranges DEF Memory, Source, Cell
    <2>2. QED
      BY <2>1, <1>1, EmptySeq, Ranges DEF Init, FecInit
  <1>5. TypeOK
    <2>1. FecTypeOK
      BY <1>1, <1>2, <1>3, <1>4 DEF FecTypeOK, WindowTypeOK, Success
    <2>2. pulling \in BOOLEAN /\ calm \in BOOLEAN
      BY <1>1
    <2>3. QED
      BY <2>1, <2>2, <1>1, Ranges DEF TypeOK
  <1>6. WindowInv
    BY <1>1, <1>5 DEF WindowInv, Linked, Cleared
  <1>7. SlotInv
    BY <1>1 DEF SlotInv
  <1>8. ListInv
    BY <1>4, <1>1, EmptySeq DEF ListInv
  <1>9. FrontStillUseful /\ NullReadOnlyAtZero
    BY <1>1 DEF FrontStillUseful, NullReadOnlyAtZero
  <1>10. QED
    BY <1>6, <1>7, <1>8, <1>9 DEF Base

LEMMA NextBase == Base /\ [Next]_vars => Base'
  <1> SUFFICES ASSUME Base, [Next]_vars PROVE Base'
    OBVIOUS
  <1>1. ASSUME NEW k \in 1 .. MaxSent, NEW due \in BOOLEAN, Arrive(k, due) PROVE Base'
    BY <1>1, ArriveBase
  <1>2. CASE processFEC /\ UNCHANGED <<arrived, last, pulling, calm, stale>>
    BY <1>2, ProcessBase
  <1>3. CASE processFlow
    BY <1>3, FlowBase
  <1>4. CASE UNCHANGED vars
    <2>1. UNCHANGED <<cur, slots, startSeq, lastSlot, held, byte, feclist, pc, arrived, last, calm, stale>>
          /\ nextSeq' = nextSeq /\ state' = state /\ pulling' = pulling
      BY <1>4 DEF vars, fecVars, windowVars
    <2>2. nextSeq \in SeqNum /\ state \in Failure \cup Success /\ pulling \in BOOLEAN
      BY DEF Base, WindowInv, TypeOK, FecTypeOK, WindowTypeOK
    <2>3. QED
      BY <2>1, <2>2, ReadBase
  <1>5. QED
    BY <1>1, <1>2, <1>3, <1>4 DEF Next

LEMMA AlwaysBase == Spec => []Base
  BY InitBase, NextBase, PTL DEF Spec

\* The window, its slots and buffers and the list, which never exceeds its
\* capacity, keep their types, whatever is lost, late, short or malformed.  Whether
\* recovered contents are right is the matter of AlwaysRecoveredRight.
THEOREM FecTypeCorrect == Spec => []TypeOK
  <1>1. Base => TypeOK
    BY DEF Base, WindowInv
  <1>2. QED
    BY <1>1, AlwaysBase, PTL

\* Between two packets the FEC packet processFEC waits for still covers nothing
\* that has left the window.
THEOREM FrontAlwaysUseful == Spec => []FrontStillUseful
  <1>1. Base => FrontStillUseful
    BY DEF Base
  <1>2. QED
    BY <1>1, AlwaysBase, PTL

\* recoveryAdd reads the null pointer of an unused slot only for a FEC packet that
\* covers sequence number 0.
THEOREM NullAlwaysAtZero == Spec => []NullReadOnlyAtZero
  <1>1. Base => NullReadOnlyAtZero
    BY DEF Base
  <1>2. QED
    BY <1>1, AlwaysBase, PTL

-----------------------------------------------------------------------------
(* Recovery.                                                               *)

\* The media packets of the block that begins with packet b.
Run(b) == {SeqOf(j) : j \in b .. b + BlockLen - 1}

\* The window has no packets from before its last reset at the place of packet j.
Relevant(j) == stale = "none" \/ j >= Front

\* A packet beside number 0.
AtZero(j) == ~ isFec(j) /\ 0 \in Block(j)

\* A packet is in its place, as it was sent.
SlotsRight ==
  \A c \in Cell, j \in 1 .. last :
    Held(slots[c], j) /\ Relevant(j)
      => c = Place(j) /\ (slots[c].payload = PayloadOf(j) \/ AtZero(j))

\* What the mask of a FEC packet does not miss is there, and so is the packet.
FecRight(fecd, b) ==
  /\ \A o \in fecd.cover \ fecd.recv : Held(slots[Place(b + o)], b + o)
  /\ fecd.cell = Place(b + BlockLen) /\ slots[fecd.cell] = Pkt(b + BlockLen)

FecsRight ==
  \A i \in 1 .. Len(feclist) : \A b \in 1 .. last :
    feclist[i].base = SeqOf(b) /\ b >= Front /\ 0 \notin Run(b) => FecRight(feclist[i], b)

Right == stale # "within" => SlotsRight /\ FecsRight

\* Of a packet of a block that all reach the byte, so does what its slot holds.
BytesRight ==
  \A c \in Cell, j \in 1 .. last :
    Held(slots[c], j) /\ Relevant(j) /\ ~ isFec(j) /\ 0 \notin Block(j) /\ Block(j) \cap Short = {}
      => byte[c] = {SeqOf(j)}

Whole == stale # "within" => BytesRight

\* A block, by its first packet.
LEMMA BlockRun ==
  ASSUME NEW b \in 1 .. MaxSent, b + BlockLen <= MaxSent, isFec(b + BlockLen),
         NEW o \in 0 .. BlockLen - 1
  PROVE  ~ isFec(b + o) /\ Block(b + o) = Run(b) /\ PayloadOf(b + BlockLen) = Run(b)
  <1> DEFINE N == BlockLen + 1
             q == (b + BlockLen) \div N
             base == N * (q - 1)
  <1>1. N \in Nat \ {0} /\ b \in Int /\ o \in Int /\ BlockLen \in Nat \ {0}
    BY Ranges
  <1>2. (b + BlockLen) % N = 0
    BY DEF isFec
  <1>3. q \in Int /\ b + BlockLen = N * q
    <2>1. b + BlockLen \in Int
      BY <1>1
    <2>2. PICK x \in Int : x = b + BlockLen
      BY <2>1
    <2>3. q = x \div N /\ x % N = 0
      BY <2>2, <1>2
    <2> HIDE DEF N, q
    <2>4. x \div N \in Int /\ x = N * (x \div N) + (x % N)
      BY <1>1, DivMod
    <2>5. q \in Int /\ x = N * q + 0
      BY <2>3, <2>4
    <2>6. N * q + 0 = N * q
      BY <2>5, <1>1
    <2>7. QED
      BY <2>2, <2>5, <2>6
  <1>4. base = b - 1 /\ base \in Int /\ q - 1 \in Int
    <2> HIDE DEF q
    <2>1. N * (q - 1) = N * q - N
      BY <1>1, <1>3
    <2>2. N * q = b + BlockLen
      BY <1>3
    <2> DEFINE p == N * q
    <2>3. p = b + BlockLen /\ base = p - N /\ N = BlockLen + 1
      BY <2>1, <2>2
    <2> HIDE DEF p, base, N
    <2>4. QED
      BY <2>3, <1>1, <1>3
  <1> HIDE DEF q
  <1>5. ASSUME NEW r \in 0 .. N - 1
        PROVE  ((b + r) - 1) \div N = q - 1 /\ (isFec(b + r) <=> r = N - 1)
    <2> DEFINE a == (b + r) - 1
    <2>1. a \in Int /\ a = base + r /\ N - 1 \in 0 .. N - 1
      BY <1>1, <1>4
    <2>2. a % N = r
      <3> HIDE DEF a, N
      <3>1. a = N * (q - 1) + r
        BY <2>1
      <3>2. QED
        BY <3>1, <2>1, <1>1, <1>4, ModUnique
    <2>3. a \div N \in Int /\ a = N * (a \div N) + r
      <3> HIDE DEF a, N
      <3>1. QED
        BY <2>1, <2>2, <1>1, DivMod
    <2>4. a \div N = q - 1
      <3> DEFINE d == a \div N
      <3>1. d \in Int /\ N * d = N * (q - 1)
        <4>1. d \in Int /\ a = N * d + r /\ a = N * (q - 1) + r /\ r \in Int
          BY <2>1, <2>3, <1>1
        <4> HIDE DEF d, N, a
        <4> DEFINE x == N * d
                   y == N * (q - 1)
        <4>2. x \in Int /\ y \in Int /\ a = x + r /\ a = y + r
          BY <4>1, <1>1, <1>4
        <4> HIDE DEF x, y
        <4>3. x = y
          BY <4>1, <4>2
        <4>4. QED
          BY <4>1, <4>3 DEF x, y
      <3> HIDE DEF d, N
      <3>2. N * (d - (q - 1)) = 0
        BY <3>1, <1>1, <1>4
      <3>3. d - (q - 1) = 0
        BY <3>1, <3>2, <1>1, <1>4
      <3>4. QED
        BY <3>1, <3>3, <1>4 DEF d
    <2>5. isFec(b + r) <=> r = N - 1
      <3>1. CASE r = N - 1
        <4>1. b + r = b + BlockLen
          BY <3>1, <1>1
        <4>2. QED
          BY <4>1, <3>1
      <3>2. CASE r # N - 1
        <4>1. r + 1 \in 0 .. N - 1
          BY <3>2, <1>1
        <4>2. b + r = base + (r + 1) /\ b + r \in Int
          BY <1>1, <1>4
        <4>3. (b + r) % N = r + 1
          <5> HIDE DEF N
          <5>1. b + r = N * (q - 1) + (r + 1)
            BY <4>2
          <5>2. QED
            BY <5>1, <4>1, <4>2, <1>1, <1>4, ModUnique
        <4>4. r + 1 # 0
          BY <1>1
        <4>5. QED
          BY <4>3, <4>4, <3>2 DEF isFec
      <3>3. QED
        BY <3>1, <3>2
    <2>6. QED
      BY <2>4, <2>5
  <1>6. o \in 0 .. N - 1 /\ o # N - 1
    BY <1>1
  <1>7. ~ isFec(b + o) /\ ((b + o) - 1) \div N = q - 1
    BY <1>5, <1>6
  <1>8. ASSUME NEW m \in 1 .. MaxSent
        PROVE  (~ isFec(m) /\ (m - 1) \div N = q - 1) <=> m \in b .. b + BlockLen - 1
    <2>1. CASE m \in b .. b + BlockLen - 1
      <3>1. m - b \in 0 .. N - 1 /\ m - b # N - 1 /\ b + (m - b) = m
        BY <2>1, <1>1
      <3>2. QED
        BY <3>1, <2>1, <1>5
    <2>2. CASE ~ isFec(m) /\ (m - 1) \div N = q - 1
      <3> DEFINE r == (m - 1) % N
      <3>1. r \in 0 .. N - 1 /\ m - 1 = base + r
        <4>1. m - 1 \in Int
          OBVIOUS
        <4>2. r \in 0 .. N - 1 /\ m - 1 = N * ((m - 1) \div N) + r
          BY <4>1, <1>1, DivMod
        <4>3. QED
          BY <4>2, <2>2
      <3> HIDE DEF r, base
      <3>2. m = b + r /\ r \in Int
        BY <3>1, <1>1, <1>4
      <3>3. r # N - 1
        BY <3>1, <3>2, <2>2, <1>5
      <3>4. r \in 0 .. BlockLen - 1
        BY <3>1, <3>3, <1>1
      <3>5. QED
        BY <2>2, <3>2, <3>4, <1>1
    <2>3. QED
      BY <2>1, <2>2
  <1>9. {m \in 1 .. MaxSent : ~ isFec(m) /\ (m - 1) \div N = ((b + o) - 1) \div N} = b .. b + BlockLen - 1
    <2>1. b .. b + BlockLen - 1 \subseteq 1 .. MaxSent
      BY <1>1, Ranges
    <2> HIDE DEF N
    <2>2. QED
      BY <2>1, <1>7, <1>8
  <1>10. Block(b + o) = Run(b)
    BY <1>9 DEF Block, Run
  <1>11. PayloadOf(b + BlockLen) = Run(b)
    <2>1. (b + BlockLen) - BlockLen .. (b + BlockLen) - 1 = b .. b + BlockLen - 1
      BY <1>1
    <2>2. PayloadOf(b + BlockLen) = {SeqOf(j) : j \in (b + BlockLen) - BlockLen .. (b + BlockLen) - 1}
      BY DEF PayloadOf
    <2> DEFINE Seqs(I) == {SeqOf(j) : j \in I}
    <2>3. PayloadOf(b + BlockLen) = Seqs((b + BlockLen) - BlockLen .. (b + BlockLen) - 1)
      BY <2>2
    <2>4. Run(b) = Seqs(b .. b + BlockLen - 1)
      BY DEF Run
    <2> HIDE DEF Seqs
    <2>5. QED
      BY <2>1, <2>3, <2>4
  <1>12. QED
    BY <1>7, <1>10, <1>11

\* Packets of a window have different places.
LEMMA PlaceInjective ==
  ASSUME NEW c \in Cursor, NEW l \in Int, NEW f \in Int, f = l - c.count + 1,
         NEW i \in f .. l, NEW j \in f .. l, At(c, i - f) = At(c, j - f)
  PROVE  i = j
  <1>1. c.count \in 0 .. Capacity
    BY CursorInts
  <1>2. i - f \in 0 .. Capacity - 1 /\ j - f \in 0 .. Capacity - 1
    BY <1>1, Ranges
  <1>3. i - f = j - f
    BY <1>2, AtInjective
  <1>4. QED
    BY <1>3

\* What the window may take for received after a move it could before.
LEMMA StaleStep ==
  ASSUME WindowInv, WindowInv', last' \in 1 .. MaxSent, NEW k, Moved(k, Pkt(k)),
         stale' = NowStale, stale' # "within", state' # "kOutOfOrderReset"
  PROVE  /\ stale # "within"
         /\ \A j \in Int : (stale' = "none" \/ j >= Front') => Relevant(j)
  <1>1. last \in 0 .. MaxSent /\ last > 0
    BY WindowNumbers DEF Moved
  <1>2. Front \in 1 .. MaxSent /\ startSeq = SeqOf(Front) /\ Front' \in 1 .. MaxSent /\ startSeq' = SeqOf(Front')
    BY <1>1, Ranges DEF WindowInv
  <1>3. PICK g \in 1 .. MaxSent : g = Front
    BY <1>2
  <1>4. PICK h \in 1 .. MaxSent : h = Front'
    BY <1>2
  <1>5. distance(startSeq, startSeq') = h - g
    <2>1. startSeq = SeqOf(g) /\ startSeq' = SeqOf(h)
      BY <1>2, <1>3, <1>4
    <2>2. QED
      BY <2>1, DistanceOf
  <1>6. stale' = stale /\ (stale = "older" => ~ (h - g < 0))
    BY <1>5 DEF NowStale
  <1>7. stale \in {"none", "older", "within"}
    BY DEF WindowInv, TypeOK
  <1>8. ASSUME NEW j \in Int, stale' = "none" \/ j >= Front' PROVE Relevant(j)
    <2>1. CASE stale = "none"
      BY <2>1 DEF Relevant
    <2>2. CASE stale = "older"
      <3>1. j >= h
        BY <2>2, <1>4, <1>6, <1>8
      <3>2. ~ (h - g < 0) /\ h \in Int /\ g \in Int
        BY <2>2, <1>6, Ranges
      <3>3. j >= g
        BY <3>1, <3>2
      <3>4. QED
        BY <3>3, <1>3 DEF Relevant
    <2>3. QED
      BY <2>1, <2>2, <1>6, <1>7
  <1>9. QED
    BY <1>6, <1>8

\* A slot of before a step holds a packet of before the step.
LEMMA HeldBefore ==
  ASSUME WindowInv, SlotInv, NEW c \in Cell, NEW j \in 1 .. MaxSent, Held(slots[c], j)
  PROVE  j \in 1 .. last
  <1>1. PICK i \in 1 .. last : Held(slots[c], i)
    BY DEF SlotInv, Held
  <1>2. last \in 0 .. MaxSent
    BY WindowNumbers
  <1>3. i \in 1 .. MaxSent /\ SeqOf(i) = SeqOf(j)
    BY <1>1, <1>2, Ranges DEF Held
  <1>4. i = j
    BY <1>3, SeqOfInjective
  <1>5. QED
    BY <1>1, <1>4

\* The slots after a move.
LEMMA MovedSlots ==
  ASSUME WindowInv, SlotInv, SlotsRight, WindowInv', last' \in 1 .. MaxSent,
         NEW k \in 1 .. MaxSent, Moved(k, Pkt(k)), UNCHANGED slots \/ Placed(k, Pkt(k)),
         stale' = NowStale, stale' # "within", state' # "kOutOfOrderReset"
  PROVE  SlotsRight'
  <1>1. \A j \in Int : (stale' = "none" \/ j >= Front') => Relevant(j)
    BY StaleStep
  <1>2. slots \in [Cell -> Slot]
    BY WindowNumbers
  <1>3. \A i \in Int : Place(i)' = Place(i)
    BY DEF Moved
  <1>4. ASSUME NEW c \in Cell, NEW j \in 1 .. last', Held(slots'[c], j), stale' = "none" \/ j >= Front'
        PROVE  c = Place(j)' /\ (slots'[c].payload = PayloadOf(j) \/ AtZero(j))
    <2>1. j \in 1 .. MaxSent /\ j \in Int
      BY Ranges
    <2>2. CASE slots'[c] = slots[c]
      <3>1. Held(slots[c], j)
        BY <2>2, <1>4
      <3>2. j \in 1 .. last /\ Relevant(j)
        BY <3>1, <2>1, <1>1, <1>4, HeldBefore
      <3>3. c = Place(j) /\ (slots[c].payload = PayloadOf(j) \/ AtZero(j))
        BY <3>1, <3>2 DEF SlotsRight
      <3>4. QED
        BY <3>3, <2>1, <2>2, <1>3
    <2>3. CASE Placed(k, Pkt(k)) /\ c = Place(k)'
      <3>1. slots'[c] = Pkt(k)
        BY <2>3, <1>2 DEF Placed
      <3>2. SeqOf(j) = SeqOf(k)
        BY <3>1, <1>4 DEF Held, Pkt
      <3>3. j = k
        BY <3>2, <2>1, SeqOfInjective
      <3>4. QED
        BY <3>1, <3>3, <2>3 DEF Pkt
    <2>4. CASE Placed(k, Pkt(k)) /\ c # Place(k)'
      BY <2>2, <2>4, <1>2 DEF Placed
    <2>5. QED
      BY <2>2, <2>3, <2>4
  <1>5. QED
    BY <1>4 DEF SlotsRight, Held, Relevant

\* A FEC packet on the list, after a move.
LEMMA MovedFec ==
  ASSUME WindowInv, WindowInv', last' \in 1 .. MaxSent,
         NEW k \in 1 .. MaxSent, Moved(k, Pkt(k)), UNCHANGED slots \/ Placed(k, Pkt(k)),
         NEW fecd, NEW b \in 1 .. last, Fec(fecd, b), b >= Front',
         b >= Front => FecRight(fecd, b)
  PROVE  /\ \A o \in fecd.cover \ fecd.recv : Held(slots'[Place(b + o)'], b + o)
         /\ fecd.cell = Place(b + BlockLen)' /\ slots'[fecd.cell] = Pkt(b + BlockLen)
  <1>1. last \in 0 .. MaxSent /\ Front \in Int /\ slots \in [Cell -> Slot]
    BY WindowNumbers
  <1>2. b >= Front
    <2>1. CASE Front' < Front
      <3>1. cur.count < Capacity
        BY <2>1 DEF Moved
      <3>2. ~ (b < Front)
        BY <3>1, Ranges DEF Fec
      <3> HIDE DEF Front
      <3>3. QED
        BY <3>2, <1>1
    <2>2. CASE ~ (Front' < Front)
      <3>1. PICK g \in Int : g = Front
        BY <1>1
      <3>2. PICK h \in Int : h = Front'
        BY DEF WindowInv
      <3>3. QED
        BY <3>1, <3>2, <2>2
    <2>3. QED
      BY <2>1, <2>2
  <1>3. FecRight(fecd, b) /\ fecd.cover = 0 .. BlockLen - 1 /\ b + BlockLen <= last
    BY <1>2 DEF Fec
  <1>4. last' \in Int /\ last' >= last /\ k \in Front' .. last' /\ Front' \in Int
    <2>1. last' = IF k > last THEN k ELSE last
      BY DEF Moved
    <2>2. last' >= last
      BY <2>1, <1>1
    <2>3. QED
      BY <2>2 DEF Moved, WindowCells
  <1>5. ASSUME NEW i \in b .. b + BlockLen
        PROVE  i \in Int /\ i \in Front' .. last' /\ Place(i)' = Place(i) /\ Place(i) \in Cell
               /\ (slots'[Place(i)'] = slots[Place(i)] \/ slots'[Place(i)'] = Pkt(i))
    <2>1. i \in Int /\ i \in Front' .. last'
      <3>1. PICK h \in Int : h = Front'
        BY <1>4
      <3>2. i \in h .. last'
        BY <3>1, <1>1, <1>3, <1>4, Ranges
      <3>3. QED
        BY <3>1, <3>2
    <2>2. Place(i)' = Place(i) /\ Place(i) \in Cell
      BY <2>1, PlaceCell DEF Moved
    <2>3. CASE UNCHANGED slots
      BY <2>1, <2>2, <2>3
    <2>4. CASE Placed(k, Pkt(k)) /\ Place(i)' # Place(k)'
      BY <2>1, <2>2, <2>4, <1>1 DEF Placed
    <2>5. CASE Placed(k, Pkt(k)) /\ Place(i)' = Place(k)'
      <3>1. At(cur', i - Front') = At(cur', k - Front')
        BY <2>5 DEF Place
      <3>2. cur' \in Cursor /\ Front' = last' - cur'.count + 1
        BY DEF Moved, WindowCells, Front
      <3>3. PICK h \in Int : h = Front'
        BY <1>4
      <3>4. i \in h .. last' /\ k \in h .. last' /\ At(cur', i - h) = At(cur', k - h)
            /\ h = last' - cur'.count + 1
        BY <3>1, <3>2, <3>3, <2>1, <1>4
      <3>5. i = k
        BY <3>2, <3>4, <1>4, PlaceInjective
      <3>6. QED
        BY <3>5, <2>1, <2>2, <2>5, <1>1 DEF Placed
    <2>6. QED
      BY <2>3, <2>4, <2>5
  <1>6. ASSUME NEW o \in fecd.cover \ fecd.recv PROVE Held(slots'[Place(b + o)'], b + o)
    <2>1. b + o \in b .. b + BlockLen /\ b + o \in 1 .. MaxSent
      BY <1>1, <1>3, Ranges
    <2>2. Held(slots[Place(b + o)], b + o)
      BY <1>3 DEF FecRight
    <2>3. Held(Pkt(b + o), b + o)
      BY <2>1, PktFits DEF Held, Pkt
    <2>4. QED
      BY <2>1, <2>2, <2>3, <1>5
  <1>7. b + BlockLen \in b .. b + BlockLen
    BY <1>1, Ranges
  <1>8. fecd.cell = Place(b + BlockLen) /\ slots[fecd.cell] = Pkt(b + BlockLen)
    BY <1>3 DEF FecRight
  <1>9. QED
    BY <1>5, <1>6, <1>7, <1>8

\* A FEC packet that was put on the list finds what its mask does not miss.
LEMMA AddedRight ==
  ASSUME WindowInv', SlotInv', SlotsRight', last' \in 1 .. MaxSent,
         NEW k \in 1 .. MaxSent, k \in 1 .. last', Placed(k, Pkt(k)), slots \in [Cell -> Slot], Added(k),
         NEW fecd, fecd = NewFec(k), NEW b \in 1 .. MaxSent, fecd.base = SeqOf(b), 0 \notin Run(b)
  PROVE  /\ \A o \in fecd.cover \ fecd.recv : Held(slots'[Place(b + o)'], b + o)
         /\ fecd.cell = Place(b + BlockLen)' /\ slots'[fecd.cell] = Pkt(b + BlockLen)
  <1>1. /\ k - BlockLen \in 1 .. last' /\ k - BlockLen >= Front'
        /\ Fec(fecd, k - BlockLen)' /\ slots'[lastSlot'] = Pkt(k) /\ fecd.base = SeqOf(k - BlockLen)
    BY AddedFec
  <1>2. k - BlockLen \in 1 .. MaxSent
    BY <1>1, Ranges
  <1>3. b = k - BlockLen
    BY <1>1, <1>2, SeqOfInjective
  <1>4. b + BlockLen = k
    BY <1>3, Ranges
  <1>5. fecd.cell = lastSlot' /\ lastSlot' = Place(k)'
    BY DEF NewFec, Placed
  <1>6. fecd.base = SeqOf(b) /\ fecd.cover = 0 .. BlockLen - 1 /\ fecd.recv = MissingOf(FecOf(k))
        /\ FecOf(k).base = SeqOf(b) /\ FecOf(k).cover = fecd.cover /\ b >= Front'
    BY <1>1, <1>3 DEF Fec, NewFec
  <1>7. ASSUME NEW o \in fecd.cover \ fecd.recv PROVE Held(slots'[Place(b + o)'], b + o)
    <2>1. o \in 0 .. BlockLen - 1 /\ b + o \in 1 .. last' /\ b + o \in Int
      BY <1>1, <1>3, <1>4, <1>6, Ranges
    <2> DEFINE d == distance(startSeq', SeqOf(b))
    <2>2. o \in Seen(SeqOf(b), SlotsFrom(cur', slots', d, d + MaskBits - 1))
      BY <1>6 DEF MissingOf
    <2> HIDE DEF d
    <2>3. PICK slot \in SlotsFrom(cur', slots', d, d + MaskBits - 1) : o = distance(SeqOf(b), slot.seq)
      BY <2>2 DEF Seen
    <2>4. PICK j \in d .. d + MaskBits - 1 : slot = slots'[At(cur', j)]
      BY <2>3 DEF SlotsFrom
    <2> DEFINE c == At(cur', j)
    <2>5. c \in Cell
      <3>1. cur'.head \in Int /\ j \in Int
        <4>1. cur' \in Cursor
          BY DEF WindowInv, TypeOK, FecTypeOK, WindowTypeOK
        <4>2. QED
          BY <4>1, CursorInts, Ranges
      <3>2. QED
        BY <3>1, ModCell DEF At
    <2>6. slot = slots'[c]
      BY <2>4
    <2> HIDE DEF c
    <2>7. slot.seq \in SeqNum
      BY <2>5, <2>6 DEF WindowInv, TypeOK, FecTypeOK, WindowTypeOK, Slot
    <2>8. slot.seq = SeqOf(b + o)
      <3>1. SeqOf(b) \in SeqNum
        BY SeqOfInt
      <3>2. Plus(SeqOf(b), o) = slot.seq
        BY <3>1, <2>3, <2>7, PlusDistance
      <3>3. Plus(SeqOf(b), o) = SeqOf(b + o)
        BY <2>1, PlusOf
      <3>4. QED
        BY <3>2, <3>3
    <2>9. b + o \in b .. b + BlockLen - 1
      BY <2>1, Ranges
    <2>10. slot.seq # 0
      BY <2>8, <2>9 DEF Run
    <2>11. slot.payload # None
      BY <2>5, <2>6, <2>10 DEF SlotInv, Held
    <2>12. Held(slots'[c], b + o)
      BY <2>6, <2>8, <2>11 DEF Held
    <2>13. b + o >= Front'
      <3>1. PICK h \in Int : h = Front'
        BY DEF WindowInv
      <3>2. b >= h
        BY <3>1, <1>6
      <3>3. b + o >= h
        BY <3>1, <3>2, <2>1, Ranges
      <3>4. QED
        BY <3>1, <3>3
    <2>14. c = Place(b + o)'
      BY <2>1, <2>5, <2>12, <2>13 DEF SlotsRight, Held, Relevant
    <2>15. QED
      BY <2>12, <2>14
  <1>8. QED
    BY <1>1, <1>4, <1>5, <1>7

\* A packet that arrives leaves the others where they are, and as they are.
LEMMA ArriveRight ==
  ASSUME Base, Right, NEW k \in 1 .. MaxSent, NEW due \in BOOLEAN, Arrive(k, due)
  PROVE  Right'
  <1> SUFFICES ASSUME stale' # "within" PROVE SlotsRight' /\ FecsRight'
    BY DEF Right
  <1>1. WindowInv /\ SlotInv /\ ListInv /\ ArrivesAs(k) /\ last' \in 1 .. MaxSent
    BY ArriveStep DEF Base
  <1>2. WindowInv' /\ SlotInv' /\ stale' = NowStale
    BY <1>1, ArriveWindow, ArriveSlots DEF Arrive
  <1>3. slots \in [Cell -> Slot] /\ last \in 0 .. MaxSent
    BY <1>1, WindowNumbers
  <1>4. "kOutOfOrderReset" \notin Failure
    BY DEF Failure
  <1>5. CASE Refused /\ last' = last /\ UNCHANGED <<feclist, pc>>
    <2>1. /\ cur' = cur /\ slots' = slots /\ startSeq' = startSeq /\ last' = last /\ feclist' = feclist
          /\ state' # "kOutOfOrderReset"
      BY <1>4, <1>5 DEF Refused
    <2>2. stale' = stale
      BY <2>1, <1>2 DEF NowStale
    <2>3. SlotsRight /\ FecsRight
      BY <2>2 DEF Right
    <2>4. Front' = Front /\ \A i : Place(i)' = Place(i)
      BY <2>1 DEF Front, Place
    <2>5. SlotsRight'
      BY <2>1, <2>2, <2>3, <2>4 DEF SlotsRight, Held, Relevant
    <2>6. FecsRight'
      BY <2>1, <2>3, <2>4 DEF FecsRight, FecRight, Held
    <2>7. QED
      BY <2>5, <2>6
  <1>6. ASSUME Moved(k, Pkt(k)), UNCHANGED slots \/ Placed(k, Pkt(k)), state' # "kOutOfOrderReset"
        PROVE  /\ SlotsRight'
               /\ \A j \in 1 .. Len(feclist) : \A b \in 1 .. MaxSent :
                    feclist[j].base = SeqOf(b) /\ b >= Front' /\ 0 \notin Run(b) =>
                      /\ \A o \in feclist[j].cover \ feclist[j].recv : Held(slots'[Place(b + o)'], b + o)
                      /\ feclist[j].cell = Place(b + BlockLen)'
                      /\ slots'[feclist[j].cell] = Pkt(b + BlockLen)
    <2>1. stale # "within"
      BY <1>1, <1>2, <1>6, StaleStep
    <2>2. SlotsRight /\ FecsRight
      BY <2>1 DEF Right
    <2>3. SlotsRight'
      BY <2>2, <1>1, <1>2, <1>6, MovedSlots
    <2>4. ASSUME NEW j \in 1 .. Len(feclist), NEW b \in 1 .. MaxSent,
                 feclist[j].base = SeqOf(b), b >= Front', 0 \notin Run(b)
          PROVE  /\ \A o \in feclist[j].cover \ feclist[j].recv : Held(slots'[Place(b + o)'], b + o)
                 /\ feclist[j].cell = Place(b + BlockLen)'
                 /\ slots'[feclist[j].cell] = Pkt(b + BlockLen)
      <3>1. PICK f : f = feclist[j]
        OBVIOUS
      <3>2. PICK a \in 1 .. last : Fec(f, a)
        BY <3>1, <1>1 DEF ListInv
      <3>3. a = b
        <4>1. a \in 1 .. MaxSent /\ SeqOf(a) = SeqOf(b)
          BY <3>1, <3>2, <2>4, <1>3, Ranges DEF Fec
        <4>2. QED
          BY <4>1, SeqOfInjective
      <3>4. b >= Front => FecRight(f, b)
        BY <2>2, <2>4, <3>1, <3>2, <3>3 DEF FecsRight
      <3>5. /\ \A o \in f.cover \ f.recv : Held(slots'[Place(b + o)'], b + o)
            /\ f.cell = Place(b + BlockLen)' /\ slots'[f.cell] = Pkt(b + BlockLen)
        BY <3>2, <3>3, <3>4, <2>4, <1>1, <1>2, <1>6, MovedFec
      <3>6. QED
        BY <3>1, <3>5
    <2>5. QED
      BY <2>3, <2>4
  <1>7. CASE Moved(k, Pkt(k)) /\ UNCHANGED <<slots, lastSlot, feclist, pc>> /\ state' \in Failure
    <2>1. SlotsRight'
      BY <1>4, <1>6, <1>7
    <2>2. last' \in 0 .. MaxSent /\ feclist' = feclist
      BY <1>1, <1>7, Ranges
    <2>3. \A b \in 1 .. last' : b \in 1 .. MaxSent
      BY <2>2, Ranges
    <2>4. FecsRight'
      BY <2>2, <2>3, <1>4, <1>6, <1>7 DEF FecsRight, FecRight, Held
    <2>5. QED
      BY <2>1, <2>4
  <1>8. ASSUME SlotsRight', Placed(k, Pkt(k)), Listed(k), k \in 1 .. last',
               NEW b \in 1 .. last', NEW i \in 1 .. Len(feclist'),
               NEW f, f = feclist'[i],
               f.base = SeqOf(b), 0 \notin Run(b), b >= Front',
               state' = "kOutOfOrderReset" \/ last = 0 \/ Moved(k, Pkt(k))
        PROVE  /\ \A o \in f.cover \ f.recv : Held(slots'[Place(b + o)'], b + o)
               /\ f.cell = Place(b + BlockLen)' /\ slots'[f.cell] = Pkt(b + BlockLen)
    <2>1. b \in 1 .. MaxSent
      BY <1>1, Ranges
    <2>2. CASE Added(k) /\ f = NewFec(k)
      BY <2>1, <2>2, <1>1, <1>2, <1>3, <1>8, AddedRight
    <2>3. CASE state' # "kOutOfOrderReset" /\ \E j \in 1 .. Len(feclist) : f = feclist[j]
      <3>1. PICK j \in 1 .. Len(feclist) : f = feclist[j]
        BY <2>3
      <3>2. last # 0
        BY <3>1, <1>1, <1>3 DEF ListInv
      <3>3. Moved(k, Pkt(k))
        BY <3>2, <2>3, <1>8
      <3>4. QED
        BY <3>1, <3>3, <2>1, <2>3, <1>6, <1>8
    <2>4. QED
      BY <2>2, <2>3, <1>8 DEF Listed
  <1>9. CASE Moved(k, Pkt(k)) /\ Placed(k, Pkt(k)) /\ Listed(k)
    <2>1. state' # "kOutOfOrderReset" /\ k \in 1 .. last'
      BY <1>4, <1>9 DEF Moved, WindowCells
    <2>2. SlotsRight'
      BY <2>1, <1>6, <1>9
    <2>3. FecsRight'
      BY <2>1, <2>2, <1>8, <1>9 DEF FecsRight, FecRight, Held
    <2>4. QED
      BY <2>2, <2>3
  <1>10. CASE Restarted(k, Pkt(k)) /\ Listed(k)
    <2>1. k > last /\ last' = k /\ Front' = k /\ Placed(k, Pkt(k)) /\ k \in 1 .. last'
          /\ (state' = "kOutOfOrderReset" \/ last = 0)
      BY <1>10 DEF Restarted
    <2>2. ASSUME NEW c \in Cell, NEW j \in 1 .. last', Held(slots'[c], j), stale' = "none" \/ j >= Front'
          PROVE  c = Place(j)' /\ (slots'[c].payload = PayloadOf(j) \/ AtZero(j))
      <3>1. j \in 1 .. MaxSent
        BY <1>1, Ranges
      <3>2. CASE c = Place(k)'
        <4>1. slots'[c] = Pkt(k)
          BY <3>2, <2>1, <1>3 DEF Placed
        <4>2. SeqOf(j) = SeqOf(k)
          BY <4>1, <2>2 DEF Held, Pkt
        <4>3. j = k
          BY <4>2, <3>1, SeqOfInjective
        <4>4. QED
          BY <4>1, <4>3, <3>2 DEF Pkt
      <3>3. CASE c # Place(k)'
        <4>1. slots'[c] = slots[c]
          BY <3>3, <2>1, <1>3 DEF Placed
        <4>2. Held(slots[c], j)
          BY <4>1, <2>2
        <4>3. j \in 1 .. last
          BY <4>2, <3>1, <1>1, HeldBefore
        <4>4. last # 0
          BY <4>3, <1>3
        <4>5. stale' = "older"
          BY <4>4, <2>1, <1>2 DEF NowStale
        <4>6. j >= k
          BY <4>5, <2>1, <2>2
        <4>7. QED
          BY <4>3, <4>6, <2>1, <1>3, Ranges
      <3>4. QED
        BY <3>2, <3>3
    <2>3. SlotsRight'
      BY <2>2 DEF SlotsRight, Held, Relevant
    <2>4. FecsRight'
      BY <2>1, <2>3, <1>8, <1>10 DEF FecsRight, FecRight, Held
    <2>5. QED
      BY <2>3, <2>4
  <1>11. QED
    BY <1>1, <1>5, <1>7, <1>9, <1>10 DEF ArrivesAs

\* Each packet of a block but one, and the exclusive or of them all, make up the
\* one that is missing.
LEMMA XorMissing ==
  ASSUME NEW b \in 1 .. MaxSent, b + BlockLen <= MaxSent, NEW offset \in 0 .. BlockLen - 1,
         NEW contents, NEW cells, NEW more, more = Run(b),
         \A o \in (0 .. BlockLen - 1) \ {offset} :
           Place(b + o) \in cells /\ contents[Place(b + o)] = {SeqOf(b + o)},
         \A c \in cells : \E o \in (0 .. BlockLen - 1) \ {offset} : c = Place(b + o)
  PROVE  XorAll(contents, cells, more) = {SeqOf(b + offset)}
  <1> DEFINE S(x) == {c \in cells : x \in contents[c]}
  <1>1. \A o \in 0 .. BlockLen - 1 : b + o \in 1 .. MaxSent /\ SeqOf(b + o) \in Source /\ SeqOf(b + o) \in more
    <2>1. ASSUME NEW o \in 0 .. BlockLen - 1
          PROVE  b + o \in 1 .. MaxSent /\ SeqOf(b + o) \in Source /\ SeqOf(b + o) \in more
      <3>1. b + o \in 1 .. MaxSent /\ b + o \in b .. b + BlockLen - 1 /\ b + o \in Int
        BY Ranges
      <3>2. SeqOf(b + o) \in 0 .. SeqRange - 1
        BY <3>1, SeqOfInt DEF SeqNum
      <3>3. SeqOf(b + o) \in Source
        BY <3>2, Ranges DEF Source
      <3>4. QED
        BY <3>1, <3>3 DEF Run
    <2>2. QED
      BY <2>1
  <1>2. \A c \in cells : \E o \in (0 .. BlockLen - 1) \ {offset} : c = Place(b + o) /\ contents[c] = {SeqOf(b + o)}
    OBVIOUS
  <1>3. ASSUME NEW x \in Source, x \notin more PROVE x \notin XorAll(contents, cells, more)
    <2>1. S(x) = {}
      BY <1>1, <1>2, <1>3
    <2>2. Cardinality(S(x)) = 0
      BY <2>1, FS_EmptySet
    <2>3. 0 % 2 = 0
      OBVIOUS
    <2>4. QED
      BY <2>2, <2>3, <1>3 DEF XorAll
  <1>4. SeqOf(b + offset) \in XorAll(contents, cells, more)
    <2> DEFINE x == SeqOf(b + offset)
    <2>1. x \in Source /\ x \in more /\ b + offset \in 1 .. MaxSent
      BY <1>1
    <2>2. ASSUME NEW c \in cells, x \in contents[c] PROVE FALSE
      <3>1. PICK o \in (0 .. BlockLen - 1) \ {offset} : contents[c] = {SeqOf(b + o)}
        BY <1>2
      <3>2. SeqOf(b + o) = SeqOf(b + offset) /\ b + o \in 1 .. MaxSent
        BY <3>1, <2>2, <1>1
      <3>3. b + o = b + offset
        BY <3>2, <2>1, SeqOfInjective
      <3>4. QED
        BY <3>3, Ranges
    <2>3. S(x) = {}
      BY <2>2
    <2>4. Cardinality(S(x)) = 0
      BY <2>3, FS_EmptySet
    <2>5. 0 % 2 = 0
      OBVIOUS
    <2> HIDE DEF x
    <2>6. x \in XorAll(contents, cells, more)
      BY <2>1, <2>4, <2>5 DEF XorAll
    <2>7. QED
      BY <2>6 DEF x
  <1>5. ASSUME NEW o \in (0 .. BlockLen - 1) \ {offset} PROVE SeqOf(b + o) \notin XorAll(contents, cells, more)
    <2> DEFINE x == SeqOf(b + o)
    <2>1. x \in Source /\ x \in more /\ b + o \in 1 .. MaxSent
      BY <1>1
    <2>2. Place(b + o) \in S(x)
      OBVIOUS
    <2>3. ASSUME NEW c \in S(x) PROVE c = Place(b + o)
      <3>1. PICK p \in (0 .. BlockLen - 1) \ {offset} : c = Place(b + p) /\ contents[c] = {SeqOf(b + p)}
        BY <1>2
      <3>2. SeqOf(b + p) = SeqOf(b + o) /\ b + p \in 1 .. MaxSent
        BY <3>1, <2>3, <1>1
      <3>3. b + p = b + o
        BY <3>2, <2>1, SeqOfInjective
      <3>4. QED
        BY <3>1, <3>3
    <2>4. S(x) = {Place(b + o)}
      BY <2>2, <2>3
    <2>5. Cardinality(S(x)) = 1
      BY <2>4, FS_Singleton
    <2>6. 1 % 2 = 1
      OBVIOUS
    <2>7. QED
      BY <2>1, <2>5, <2>6 DEF XorAll
  <1>6. \A x \in more : \E o \in 0 .. BlockLen - 1 : x = SeqOf(b + o)
    <2>1. ASSUME NEW j \in b .. b + BlockLen - 1 PROVE \E o \in 0 .. BlockLen - 1 : SeqOf(j) = SeqOf(b + o)
      <3>1. j - b \in 0 .. BlockLen - 1 /\ b + (j - b) = j
        BY Ranges
      <3>2. QED
        BY <3>1
    <2>2. QED
      BY <2>1 DEF Run
  <1>7. XorAll(contents, cells, more) \subseteq Source
    BY DEF XorAll
  <1>8. QED
    BY <1>3, <1>4, <1>5, <1>6, <1>7

\* What recovery adds up, away from number 0 and from slots of before a reset: the
\* packets that the FEC packet covers, but one, and the FEC packet.
LEMMA RecoveryAdds ==
  ASSUME WindowInv, SlotInv, SlotsRight, NEW b \in 1 .. last, NEW fecd, Fec(fecd, b), FecRight(fecd, b),
         Position(fecd.base) = b - Front, b >= Front,
         NEW offset \in fecd.recv, fecd.recv = {offset}, ~ ReadsNull(fecd, offset), 0 \notin Run(b)
  PROVE  /\ b + BlockLen <= MaxSent /\ offset \in 0 .. BlockLen - 1 /\ fecd.cover = 0 .. BlockLen - 1
         /\ \A o \in 0 .. BlockLen - 1 :
              b + o \in 1 .. last /\ ~ isFec(b + o) /\ Block(b + o) = Run(b) /\ Relevant(b + o)
         /\ \A o \in (0 .. BlockLen - 1) \ {offset} :
              /\ Place(b + o) \in AddedCells(fecd, offset) \cap Cell
              /\ Held(slots[Place(b + o)], b + o) /\ slots[Place(b + o)].payload = {SeqOf(b + o)}
         /\ \A c \in AddedCells(fecd, offset) :
              \E o \in (0 .. BlockLen - 1) \ {offset} : c = Place(b + o)
         /\ slots[fecd.cell].payload = Run(b)
  <1> DEFINE cells == {At(cur, j) : j \in Addends(fecd, offset)}
             others == (0 .. BlockLen - 1) \ {offset}
  <1>1. last \in 0 .. MaxSent /\ cur.count \in 0 .. Capacity /\ cur \in Cursor /\ slots \in [Cell -> Slot]
    BY WindowNumbers
  <1>2. PICK g \in Int : g = Front
    BY WindowNumbers
  <1>3. /\ fecd.base = SeqOf(b) /\ fecd.cover = 0 .. BlockLen - 1 /\ b + BlockLen <= last
        /\ isFec(b + BlockLen) /\ fecd.cover \ fecd.recv = others
        /\ offset \in 0 .. BlockLen - 1
    BY DEF Fec
  <1>4. b + BlockLen <= MaxSent /\ b \in 1 .. MaxSent /\ g = last - cur.count + 1 /\ b >= g
    BY <1>1, <1>2, <1>3, Ranges DEF Front
  <1>5. ASSUME NEW o \in 0 .. BlockLen - 1
        PROVE  /\ b + o \in 1 .. last /\ b + o \in 1 .. MaxSent /\ b + o \in g .. last
               /\ ~ isFec(b + o) /\ ~ AtZero(b + o) /\ Relevant(b + o) /\ Block(b + o) = Run(b)
               /\ PayloadOf(b + o) = {SeqOf(b + o)}
    <2>1. b + o \in 1 .. last /\ b + o \in 1 .. MaxSent /\ b + o \in g .. last
      BY <1>1, <1>3, <1>4, Ranges
    <2>2. ~ isFec(b + o) /\ Block(b + o) = Run(b)
      BY <1>3, <1>4, BlockRun
    <2>3. b + o >= g
      BY <2>1
    <2>4. QED
      BY <2>1, <2>2, <2>3, <1>2 DEF AtZero, Relevant, PayloadOf
  <1>6. ASSUME NEW o \in 0 .. BlockLen - 1, NEW c \in Cell, Held(slots[c], b + o)
        PROVE  c = Place(b + o) /\ slots[c].payload = {SeqOf(b + o)}
    BY <1>5, <1>6 DEF SlotsRight
  <1>7. ASSUME NEW o \in others
        PROVE  /\ Place(b + o) \in cells \cap Cell
               /\ Held(slots[Place(b + o)], b + o) /\ slots[Place(b + o)].payload = {SeqOf(b + o)}
    <2>1. Held(slots[Place(b + o)], b + o)
      BY <1>3 DEF FecRight
    <2>2. Place(b + o) \in Cell
      <3>1. b + o \in Int
        BY <1>5
      <3>2. QED
        BY <3>1, PlaceCell
    <2>3. slots[Place(b + o)].payload = {SeqOf(b + o)}
      BY <2>1, <2>2, <1>6
    <2> DEFINE j == (b + o) - g
    <2>4. j \in b - g .. cur.count - 1 /\ j - (b - g) = o
      <3>1. b \in Int /\ o \in Int /\ o >= 0 /\ last \in Int /\ cur.count \in Int
        BY <1>1, <1>4, Ranges
      <3>2. b + o <= last
        BY <1>5
      <3>3. last = g + cur.count - 1
        BY <3>1, <1>4
      <3>4. QED
        BY <3>1, <3>2, <3>3, <1>2
    <2>5. distance(SeqOf(b), SeqOf(b + o)) = o
      <3>1. distance(SeqOf(b), SeqOf(b + o)) = (b + o) - b
        BY <1>4, <1>5, DistanceOf
      <3>2. QED
        BY <3>1, <1>4, Ranges
    <2>6. At(cur, j) = Place(b + o)
      BY <1>2 DEF Place
    <2>7. Covers(fecd, slots[At(cur, j)])
      BY <2>1, <2>5, <2>6, <1>3 DEF Covers, Held
    <2> HIDE DEF j
    <2>8. j \in Addends(fecd, offset)
      BY <2>4, <2>7, <1>2 DEF Addends
    <2>9. QED
      BY <2>1, <2>2, <2>3, <2>6, <2>8
  <1>8. ASSUME NEW c \in cells PROVE \E o \in others : c = Place(b + o)
    <2>1. PICK j \in Addends(fecd, offset) : c = At(cur, j)
      OBVIOUS
    <2>2. j \in b - g .. cur.count - 1 /\ j - (b - g) # offset /\ Covers(fecd, slots[c])
      BY <2>1, <1>2 DEF Addends
    <2>3. c \in Cell
      <3>1. j \in Int /\ cur.head \in Int
        BY <2>2, <1>1, <1>4, CursorInts, Ranges
      <3>2. QED
        BY <3>1, <2>1, ModCell DEF At
    <2> DEFINE o == distance(SeqOf(b), slots[c].seq)
    <2>4. o \in 0 .. BlockLen - 1
      BY <2>2, <1>3 DEF Covers
    <2>5. slots[c].seq = SeqOf(b + o)
      <3>1. SeqOf(b) \in SeqNum /\ slots[c].seq \in SeqNum
        BY <2>3, <1>1, SeqOfInt DEF Slot
      <3>2. Plus(SeqOf(b), o) = slots[c].seq
        BY <3>1, PlusDistance
      <3> HIDE DEF o
      <3>3. Plus(SeqOf(b), o) = SeqOf(b + o)
        BY <2>4, PlusOf
      <3>4. QED
        BY <3>2, <3>3
    <2> HIDE DEF o
    <2>6. slots[c].payload # None
      BY <2>1 DEF ReadsNull
    <2>7. Held(slots[c], b + o)
      BY <2>5, <2>6 DEF Held
    <2>8. c = Place(b + o)
      BY <2>3, <2>4, <2>7, <1>6
    <2>9. o # offset
      <3>1. At(cur, j) = At(cur, (b + o) - g)
        BY <2>1, <2>8, <1>2 DEF Place
      <3>2. j + g \in g .. last /\ b + o \in g .. last /\ (j + g) - g = j
        <4>1. b \in Int /\ j \in Int /\ last \in Int /\ cur.count \in Int
          BY <2>2, <1>1, <1>2, <1>4, Ranges
        <4>2. last = g + cur.count - 1
          BY <4>1, <1>2, <1>4
        <4>3. j + g \in g .. last /\ (j + g) - g = j
          BY <4>1, <4>2, <2>2, <1>2, <1>4
        <4>4. QED
          BY <4>3, <2>4, <1>5
      <3>3. last \in Int
        BY <1>1
      <3>4. j + g = b + o
        BY <3>1, <3>2, <3>3, <1>1, <1>4, PlaceInjective
      <3>5. b \in Int /\ o \in Int /\ j \in Int
        BY <2>2, <2>4, <1>2, <1>4, Ranges
      <3>6. j - (b - g) = o
        BY <3>4, <3>5, <1>2
      <3>7. QED
        BY <3>6, <2>2
    <2>10. QED
      BY <2>4, <2>8, <2>9
  <1> HIDE DEF cells
  <1>9. slots[fecd.cell].payload = Run(b)
    <2>1. slots[fecd.cell] = Pkt(b + BlockLen)
      BY DEF FecRight
    <2>2. PayloadOf(b + BlockLen) = Run(b)
      BY <1>3, <1>4, BlockRun
    <2>3. QED
      BY <2>1, <2>2 DEF Pkt
  <1>10. cells = AddedCells(fecd, offset)
    BY DEF cells, AddedCells
  <1>11. QED
    BY <1>3, <1>4, <1>5, <1>7, <1>8, <1>9, <1>10

\* What all packets have is recovered, ...
LEMMA RecoveryRight ==
  ASSUME WindowInv, SlotInv, SlotsRight, NEW b \in 1 .. last, NEW fecd, Fec(fecd, b), FecRight(fecd, b),
         Position(fecd.base) = b - Front, b >= Front,
         NEW offset \in fecd.recv, fecd.recv = {offset}, ~ ReadsNull(fecd, offset), 0 \notin Run(b)
  PROVE  Recovered(fecd, offset, b).payload = {SeqOf(b + offset)}
  <1> DEFINE cells == AddedCells(fecd, offset)
             others == (0 .. BlockLen - 1) \ {offset}
  <1>1. /\ b + BlockLen <= MaxSent /\ offset \in 0 .. BlockLen - 1
        /\ \A o \in others : /\ Place(b + o) \in cells \cap Cell
                            /\ slots[Place(b + o)].payload = {SeqOf(b + o)}
        /\ \A c \in cells : \E o \in others : c = Place(b + o)
        /\ slots[fecd.cell].payload = Run(b)
    BY RecoveryAdds
  <1>2. b \in 1 .. MaxSent
    BY WindowNumbers, Ranges
  <1>3. \A o \in others : Place(b + o) \in cells /\ payloads[Place(b + o)] = {SeqOf(b + o)}
    BY <1>1 DEF payloads
  <1> HIDE DEF cells
  <1>4. XorAll(payloads, cells, slots[fecd.cell].payload) = {SeqOf(b + offset)}
    BY <1>1, <1>2, <1>3, XorMissing
  <1>5. QED
    BY <1>4 DEF Recovered, cells

\* ... and so is the byte of the buffers, when all packets of the block reach it.
LEMMA RecoveryByte ==
  ASSUME WindowInv, SlotInv, SlotsRight, BytesRight, byte \in [Cell -> SUBSET Source],
         NEW b \in 1 .. last, NEW fecd, Fec(fecd, b), FecRight(fecd, b),
         Position(fecd.base) = b - Front, b >= Front,
         NEW offset \in fecd.recv, fecd.recv = {offset}, ~ ReadsNull(fecd, offset), 0 \notin Run(b),
         Run(b) \cap Short = {}
  PROVE  LeftBytes(fecd, offset, b) =
           [byte EXCEPT ![Place(b + offset)] = {SeqOf(b + offset)}]
  <1> DEFINE cells == AddedCells(fecd, offset)
             others == (0 .. BlockLen - 1) \ {offset}
  <1>1. /\ b + BlockLen <= MaxSent /\ offset \in 0 .. BlockLen - 1 /\ fecd.cover = 0 .. BlockLen - 1
        /\ \A o \in 0 .. BlockLen - 1 :
             b + o \in 1 .. last /\ ~ isFec(b + o) /\ Block(b + o) = Run(b) /\ Relevant(b + o)
        /\ \A o \in others : Place(b + o) \in cells \cap Cell /\ Held(slots[Place(b + o)], b + o)
        /\ \A c \in cells : \E o \in others : c = Place(b + o)
        /\ slots[fecd.cell].payload = Run(b)
    BY RecoveryAdds
  <1>2. b \in 1 .. MaxSent /\ b \in Int
    BY WindowNumbers, Ranges
  <1> HIDE DEF cells
  <1>3. ASSUME NEW o \in others
        PROVE  Place(b + o) \in cells /\ byte[Place(b + o)] = {SeqOf(b + o)}
    <2>1. PICK j : j = b + o
      OBVIOUS
    <2>2. PICK c : c = Place(j)
      OBVIOUS
    <2>3. j \in 1 .. last /\ ~ isFec(j) /\ Block(j) = Run(b) /\ Relevant(j)
      BY <1>1, <2>1
    <2>4. c \in cells /\ c \in Cell /\ Held(slots[c], j)
      BY <1>1, <2>1, <2>2
    <2>5. byte[c] = {SeqOf(j)}
      BY <2>3, <2>4 DEF BytesRight
    <2>6. QED
      BY <2>1, <2>2, <2>4, <2>5
  <1>4. levelByte(fecd) = Run(b)
    BY <1>1 DEF levelByte
  <1>5. Reaches(fecd)
    <2>1. SeqOf(b + offset) \in Run(b)
      <3>1. b + offset \in b .. b + BlockLen - 1
        BY <1>1, <1>2, Ranges
      <3>2. QED
        BY <3>1 DEF Run
    <2>2. Plus(fecd.base, offset) = SeqOf(b + offset)
      BY <1>1, PlusOf DEF Fec
    <2>3. QED
      BY <1>1, <2>1, <2>2 DEF Reaches
  <1>6. XorAll(byte, cells, levelByte(fecd)) = {SeqOf(b + offset)}
    BY <1>1, <1>2, <1>3, <1>4, XorMissing
  <1>7. QED
    BY <1>5, <1>6 DEF LeftBytes, cells

\* A step that leaves the window.
LEMMA SameWindow ==
  ASSUME Right, UNCHANGED <<cur, startSeq, last, stale, slots>>,
         \A i \in 1 .. Len(feclist') : \E m \in 1 .. Len(feclist) : feclist'[i] = feclist[m]
  PROVE  Right'
  <1> SUFFICES ASSUME stale # "within" PROVE SlotsRight' /\ FecsRight'
    BY DEF Right
  <1>1. Front' = Front /\ \A i : Place(i)' = Place(i)
    BY DEF Front, Place
  <1>2. SlotsRight /\ FecsRight
    BY DEF Right
  <1>3. SlotsRight'
    BY <1>1, <1>2 DEF SlotsRight, Held, Relevant
  <1>4. ASSUME NEW i \in 1 .. Len(feclist'), NEW b \in 1 .. last,
               feclist'[i].base = SeqOf(b), b >= Front, 0 \notin Run(b)
        PROVE  FecRight(feclist'[i], b)
    <2>1. PICK m \in 1 .. Len(feclist) : feclist'[i] = feclist[m]
      OBVIOUS
    <2>2. QED
      BY <2>1, <1>2, <1>4 DEF FecsRight
  <1>5. FecsRight'
    BY <1>1, <1>4 DEF FecsRight, FecRight, Held
  <1>6. QED
    BY <1>3, <1>5

\* The packet that recovery puts in the window.
LEMMA RecoveryStep ==
  ASSUME WindowInv, SlotInv, ListInv, SlotsRight, FecsRight, NEW b \in 1 .. last, NEW fecd, Fec(fecd, b),
         Position(fecd.base) = b - Front, b >= Front, fecd = feclist[1], 1 \in 1 .. Len(feclist),
         NEW offset \in fecd.recv, fecd.recv = {offset}, ~ ReadsNull(fecd, offset), b + offset \in Front .. last,
         slots' = [slots EXCEPT ![Place(b + offset)] = Recovered(fecd, offset, b)],
         UNCHANGED <<cur, startSeq, last, stale>>,
         \A i \in 1 .. Len(feclist') : \E m \in 1 .. Len(feclist) : feclist'[i] = feclist[m]
  PROVE  SlotsRight' /\ FecsRight'
  <1> DEFINE r == Recovered(fecd, offset, b)
             n == b + offset
  <1>1. /\ r \in Slot /\ Held(r, n) /\ n \in 1 .. last /\ Place(n) \in Cell
    BY RecoveredFits
  <1>2. last \in 0 .. MaxSent /\ slots \in [Cell -> Slot] /\ cur \in Cursor
    BY WindowNumbers
  <1>3. PICK g \in Int : g = Front
    BY WindowNumbers
  <1>4. Front' = Front /\ \A i : Place(i)' = Place(i)
    BY DEF Front, Place
  <1>5. b + BlockLen <= last /\ isFec(b + BlockLen) /\ offset \in 0 .. BlockLen - 1
        /\ b \in 1 .. MaxSent /\ b + BlockLen <= MaxSent /\ n \in 1 .. MaxSent
    <2>1. b + BlockLen <= last /\ isFec(b + BlockLen) /\ offset \in 0 .. BlockLen - 1
      BY DEF Fec
    <2> HIDE DEF n, r
    <2>2. QED
      BY <2>1, <1>1, <1>2, Ranges
  <1>6. ~ isFec(n) /\ Block(n) = Run(b)
    BY <1>5, BlockRun
  <1>7. r.payload = PayloadOf(n) \/ AtZero(n)
    <2>1. CASE 0 \in Run(b)
      BY <2>1, <1>6 DEF AtZero
    <2>2. CASE 0 \notin Run(b)
      <3>1. FecRight(fecd, b)
        BY <2>2 DEF FecsRight, Fec
      <3>2. r.payload = {SeqOf(n)}
        BY <2>2, <3>1, RecoveryRight
      <3>3. QED
        BY <3>2, <1>6 DEF PayloadOf
    <2>3. QED
      BY <2>1, <2>2
  <1>8. slots' = [slots EXCEPT ![Place(n)] = r]
    OBVIOUS
  <1> HIDE DEF r, n
  <1>9. \A c \in Cell : slots'[c] = IF c = Place(n) THEN r ELSE slots[c]
    BY <1>2, <1>8
  <1>10. ASSUME NEW c \in Cell, NEW j \in 1 .. last, Held(slots'[c], j), Relevant(j)
         PROVE  c = Place(j) /\ (slots'[c].payload = PayloadOf(j) \/ AtZero(j))
    <2>1. CASE c = Place(n)
      <3>1. slots'[c] = r
        BY <2>1, <1>9
      <3>2. SeqOf(j) = SeqOf(n)
        BY <3>1, <1>1, <1>10 DEF Held
      <3>3. j = n
        BY <3>2, <1>2, <1>5, SeqOfInjective, Ranges
      <3>4. QED
        BY <3>1, <3>3, <2>1, <1>7
    <2>2. CASE c # Place(n)
      <3>1. slots'[c] = slots[c]
        BY <2>2, <1>9
      <3>2. QED
        BY <3>1, <1>10 DEF SlotsRight
    <2>3. QED
      BY <2>1, <2>2
  <1>11. SlotsRight'
    BY <1>4, <1>10 DEF SlotsRight, Held, Relevant
  <1>12. ASSUME NEW i \in 1 .. Len(feclist'), NEW e \in 1 .. last, NEW f, f = feclist'[i],
                f.base = SeqOf(e), e >= Front, 0 \notin Run(e)
         PROVE  /\ \A o \in f.cover \ f.recv : Held(slots'[Place(e + o)], e + o)
                /\ f.cell = Place(e + BlockLen) /\ slots'[f.cell] = Pkt(e + BlockLen)
    <2>1. PICK m \in 1 .. Len(feclist) : f = feclist[m]
      BY <1>12
    <2>2. PICK a \in 1 .. last : Fec(f, a)
      BY <2>1 DEF ListInv
    <2>3. a = e
      <3>1. a \in 1 .. MaxSent /\ e \in 1 .. MaxSent /\ SeqOf(a) = SeqOf(e)
        BY <2>2, <1>2, <1>12, Ranges DEF Fec
      <3>2. QED
        BY <3>1, SeqOfInjective
    <2>4. FecRight(f, e)
      BY <2>1, <1>12 DEF FecsRight
    <2>5. f.cover = 0 .. BlockLen - 1 /\ e + BlockLen <= last /\ isFec(e + BlockLen)
      BY <2>2, <2>3 DEF Fec
    <2>6. ASSUME NEW j \in e .. e + BlockLen, Place(j) = Place(n) PROVE j = n
      <3>1. e >= g /\ last \in Int /\ e \in Int /\ BlockLen \in Int
        BY <1>2, <1>3, <1>12, Ranges
      <3>2. j \in g .. last /\ n \in g .. last
        <4>1. j \in g .. last
          BY <3>1, <2>5
        <4>2. QED
          BY <4>1, <1>3 DEF n
      <3>3. At(cur, j - g) = At(cur, n - g)
        BY <2>6, <1>3 DEF Place
      <3>4. g = last - cur.count + 1
        BY <1>3 DEF Front
      <3>5. QED
        BY <3>1, <3>2, <3>3, <3>4, <1>2, PlaceInjective
    <2>7. ASSUME NEW j \in e .. e + BlockLen
          PROVE  Place(j) \in Cell
      <3>1. j \in Int
        BY <1>2, Ranges
      <3>2. QED
        BY <3>1, PlaceCell
    <2>8. ASSUME NEW o \in f.cover \ f.recv PROVE Held(slots'[Place(e + o)], e + o)
      <3>1. e + o \in e .. e + BlockLen
        BY <2>5, <1>2, Ranges
      <3>2. Held(slots[Place(e + o)], e + o)
        BY <2>4 DEF FecRight
      <3>3. CASE Place(e + o) = Place(n)
        <4>1. e + o = n /\ slots'[Place(e + o)] = r
          BY <3>1, <3>3, <2>6, <2>7, <1>9
        <4>2. QED
          BY <4>1, <1>1
      <3>4. CASE Place(e + o) # Place(n)
        <4>1. slots'[Place(e + o)] = slots[Place(e + o)]
          BY <3>1, <3>4, <2>7, <1>9
        <4>2. QED
          BY <4>1, <3>2
      <3>5. QED
        BY <3>3, <3>4
    <2>9. f.cell = Place(e + BlockLen) /\ slots[f.cell] = Pkt(e + BlockLen)
      BY <2>4 DEF FecRight
    <2>10. slots'[f.cell] = slots[f.cell]
      <3>1. e + BlockLen \in e .. e + BlockLen
        <4>1. e \in Int /\ BlockLen \in Nat
          BY Ranges
        <4>2. QED
          BY <4>1
      <3>2. e + BlockLen # n
        <4>1. isFec(e + BlockLen) /\ ~ isFec(n)
          BY <2>5, <1>6
        <4>2. QED
          BY <4>1, Zenon
      <3>3. Place(e + BlockLen) # Place(n)
        BY <3>1, <3>2, <2>6
      <3>4. QED
        BY <3>1, <3>3, <2>7, <2>9, <1>9
    <2>11. QED
      BY <2>8, <2>9, <2>10
  <1>13. FecsRight'
    BY <1>4, <1>12 DEF FecsRight, FecRight, Held
  <1>14. QED
    BY <1>11, <1>13

LEMMA ProcessRight ==
  ASSUME Base, Right, processFEC, UNCHANGED <<arrived, last, pulling, calm, stale>>
  PROVE  Right'
  <1>1. /\ WindowInv /\ SlotInv /\ ListInv /\ feclist \in Seq(FecData)
        /\ cur' = cur /\ startSeq' = startSeq /\ last' = last /\ stale' = stale
    BY DEF Base, WindowInv, TypeOK, FecTypeOK, processFEC
  <1>2. CASE feclist = <<>>
    <2>1. slots' = slots /\ feclist' = feclist
      BY <1>2 DEF processFEC
    <2>2. QED
      BY <2>1, <1>1, SameWindow
  <1>3. CASE feclist # <<>>
    <2> DEFINE f == Head(feclist)
    <2>1. 1 \in 1 .. Len(feclist) /\ f = feclist[1]
      BY <1>1, <1>3, HeadFec
    <2>2. PICK b \in 1 .. last : Fec(f, b) /\ Position(f.base) = b - Front
      BY <1>1, <1>3, HeadFec
    <2>3. FecStep(f, b)
      BY <2>2, <1>1, <1>3, ProcessStep
    <2>4. feclist' = feclist \/ feclist' = Tail(feclist)
      BY <2>3 DEF FecStep
    <2>5. \A i \in 1 .. Len(feclist') : \E m \in 1 .. Len(feclist) : feclist'[i] = feclist[m]
      <3>1. CASE feclist' = feclist
        BY <3>1
      <3>2. CASE feclist' = Tail(feclist)
        <4>1. /\ Len(Tail(feclist)) = Len(feclist) - 1 /\ Len(feclist) \in Nat
              /\ \A i \in 1 .. Len(Tail(feclist)) : Tail(feclist)[i] = feclist[i + 1]
          BY <1>1, <1>3, HeadTailProperties, LenProperties
        <4>2. \A i \in 1 .. Len(Tail(feclist)) : i + 1 \in 1 .. Len(feclist)
          BY <4>1
        <4>3. QED
          BY <4>1, <4>2, <3>2
      <3>3. QED
        BY <3>1, <3>2, <2>4
    <2>6. CASE slots' = slots
      BY <2>5, <2>6, <1>1, SameWindow
    <2>7. CASE slots' # slots
      <3>1. PICK offset \in f.recv :
              /\ f.recv = {offset} /\ Front <= b /\ b + offset \in Front .. last /\ ~ ReadsNull(f, offset)
              /\ slots' = [slots EXCEPT ![Place(b + offset)] = Recovered(f, offset, b)]
        BY <2>3, <2>7 DEF FecStep
      <3>2. b >= Front
        <4>1. Front \in Int /\ b \in Int
          BY <1>1, WindowNumbers
        <4>2. QED
          BY <4>1, <3>1
      <3>3. SlotsRight /\ FecsRight => SlotsRight' /\ FecsRight'
        BY <2>1, <2>2, <2>5, <3>1, <3>2, <1>1, RecoveryStep
      <3>4. QED
        BY <3>3, <1>1 DEF Right
    <2>8. QED
      BY <2>6, <2>7
  <1>4. QED
    BY <1>2, <1>3

LEMMA InitRight == Init => Right
  <1> SUFFICES ASSUME Init PROVE Right
    OBVIOUS
  <1>1. last = 0
    BY DEF Init
  <1>2. 1 .. last = {}
    BY <1>1
  <1>3. QED
    BY <1>2 DEF Right, SlotsRight, FecsRight

LEMMA NextRight == Base /\ Right /\ [Next]_vars => Right'
  <1> SUFFICES ASSUME Base, Right, [Next]_vars PROVE Right'
    OBVIOUS
  <1>1. ASSUME NEW k \in 1 .. MaxSent, NEW due \in BOOLEAN, Arrive(k, due) PROVE Right'
    BY <1>1, ArriveRight
  <1>2. CASE processFEC /\ UNCHANGED <<arrived, last, pulling, calm, stale>>
    BY <1>2, ProcessRight
  <1>3. CASE UNCHANGED <<cur, slots, startSeq, feclist, last, stale>>
    BY <1>3, SameWindow
  <1>4. processFlow => UNCHANGED <<cur, slots, startSeq, feclist, last, stale>>
    BY DEF processFlow, nextSlotInOrder
  <1>5. UNCHANGED vars => UNCHANGED <<cur, slots, startSeq, feclist, last, stale>>
    BY DEF vars, fecVars, windowVars
  <1>6. QED
    BY <1>1, <1>2, <1>3, <1>4, <1>5 DEF Next

\* An arrival fills the slot of its own packet; the others are as they were.
LEMMA ArriveWhole ==
  ASSUME Base, Right, Whole, NEW k \in 1 .. MaxSent, NEW due \in BOOLEAN, Arrive(k, due)
  PROVE  Whole'
  <1> SUFFICES ASSUME stale' # "within" PROVE BytesRight'
    BY DEF Whole
  <1> SUFFICES ASSUME NEW c \in Cell, NEW j \in 1 .. last',
                      Held(slots'[c], j), stale' = "none" \/ j >= Front',
                      ~ isFec(j), 0 \notin Block(j), Block(j) \cap Short = {}
               PROVE  byte'[c] = {SeqOf(j)}
    BY DEF BytesRight, Held, Relevant
  <1>1. WindowInv /\ SlotInv /\ ArrivesAs(k) /\ last' \in 1 .. MaxSent
    BY ArriveStep DEF Base
  <1>2. WindowInv' /\ stale' = NowStale
    BY <1>1, ArriveWindow DEF Arrive
  <1>3. slots \in [Cell -> Slot] /\ byte \in [Cell -> SUBSET Source] /\ last \in 0 .. MaxSent
    BY <1>1, WindowNumbers DEF WindowInv, TypeOK, FecTypeOK
  <1>4. j \in 1 .. MaxSent /\ j \in Int
    BY <1>1, Ranges
  <1>5. "kOutOfOrderReset" \notin Failure /\ Failure \cap Success = {}
    BY DEF Failure, Success
  <1>6. state' \in Failure => byte' = byte
    BY <1>5, ByteStep
  <1>7. ASSUME slots'[c] = slots[c], byte'[c] = byte[c],
               stale # "within", j \in 1 .. last => Relevant(j)
        PROVE  byte'[c] = {SeqOf(j)}
    <2>1. Held(slots[c], j)
      BY <1>7
    <2>2. j \in 1 .. last
      BY <2>1, <1>1, <1>4, HeldBefore
    <2>3. QED
      BY <2>1, <2>2, <1>7 DEF Whole, BytesRight
  <1>8. ASSUME Placed(k, Pkt(k)), state' \in Success
        PROVE  byte'[c] = IF c # Place(k)' THEN byte[c] ELSE {SeqOf(j)}
    <2>1. serialize(Pkt(k)) /\ lastSlot' = Place(k)'
      BY <1>5, <1>8, ByteStep DEF Placed
    <2>2. CASE c # Place(k)'
      BY <2>1, <2>2, <1>3 DEF serialize
    <2>3. CASE c = Place(k)'
      <3>1. slots'[c] = Pkt(k)
        BY <2>3, <1>3, <1>8 DEF Placed
      <3>2. SeqOf(j) = SeqOf(k)
        BY <3>1 DEF Held, Pkt
      <3>3. j = k
        BY <3>2, <1>4, SeqOfInjective
      <3>4. SeqOf(k) \in Block(k)
        BY <3>3 DEF Block
      <3>5. Pkt(k).seq = SeqOf(k) /\ Pkt(k).seq \notin Short /\ Pkt(k).payload \notin Oversize
        BY <3>3, <3>4, StreamAssumption DEF Pkt
      <3>6. QED
        BY <2>1, <2>3, <3>3, <3>5, <1>3 DEF serialize
    <2>4. QED
      BY <2>2, <2>3
  <1>9. CASE Refused /\ last' = last
    <2>1. /\ cur' = cur /\ slots' = slots /\ startSeq' = startSeq /\ byte' = byte
          /\ state' # "kOutOfOrderReset"
      BY <1>5, <1>6, <1>9 DEF Refused
    <2>2. stale' = stale
      BY <2>1, <1>2 DEF NowStale
    <2>3. Front' = Front
      BY <2>1, <1>9 DEF Front
    <2>4. QED
      BY <2>1, <2>2, <2>3, <1>7 DEF Relevant
  <1>10. ASSUME Moved(k, Pkt(k)), state' # "kOutOfOrderReset"
         PROVE  stale # "within" /\ Relevant(j)
    BY <1>1, <1>2, <1>4, <1>10, StaleStep
  <1>11. CASE Moved(k, Pkt(k)) /\ UNCHANGED slots /\ state' \in Failure
    BY <1>5, <1>6, <1>7, <1>10, <1>11
  <1>12. CASE Moved(k, Pkt(k)) /\ Placed(k, Pkt(k)) /\ state' \in Success
    <2>1. CASE c = Place(k)'
      BY <2>1, <1>8, <1>12
    <2>2. CASE c # Place(k)'
      <3>1. slots'[c] = slots[c] /\ byte'[c] = byte[c]
        BY <2>2, <1>3, <1>8, <1>12 DEF Placed
      <3>2. state' # "kOutOfOrderReset"
        BY <1>5, <1>12 DEF Moved, Placed
      <3>3. QED
        BY <3>1, <3>2, <1>7, <1>10, <1>12
    <2>3. QED
      BY <2>1, <2>2
  <1>13. CASE Restarted(k, Pkt(k)) /\ state' \in Success
    <2>1. k > last /\ last' = k /\ Front' = k /\ Placed(k, Pkt(k))
      BY <1>13 DEF Restarted
    <2>2. CASE c = Place(k)'
      BY <2>1, <2>2, <1>8, <1>13
    <2>3. CASE c # Place(k)'
      <3>1. Held(slots[c], j)
        BY <2>1, <2>3, <1>3 DEF Placed
      <3>2. j \in 1 .. last
        BY <3>1, <1>1, <1>4, HeldBefore
      <3>3. last # 0
        BY <3>2, <1>3
      <3>4. stale' = "older"
        BY <3>3, <1>2, <1>13 DEF NowStale, Restarted
      <3>5. j >= k
        BY <3>4, <2>1
      <3>6. QED
        BY <3>2, <3>5, <2>1, <1>3, Ranges
    <2>4. QED
      BY <2>2, <2>3
  <1>14. QED
    BY <1>1, <1>9, <1>11, <1>12, <1>13 DEF ArrivesAs

\* Recovery fills the slot of the missing packet.
LEMMA ProcessWhole ==
  ASSUME Base, Right, Whole, processFEC, UNCHANGED <<arrived, last, pulling, calm, stale>>
  PROVE  Whole'
  <1>1. /\ WindowInv /\ SlotInv /\ ListInv /\ feclist \in Seq(FecData)
        /\ cur' = cur /\ startSeq' = startSeq /\ last' = last /\ stale' = stale
        /\ slots \in [Cell -> Slot] /\ byte \in [Cell -> SUBSET Source]
    BY WindowNumbers DEF Base, WindowInv, TypeOK, FecTypeOK, processFEC
  <1>2. Front' = Front /\ \A i : Place(i)' = Place(i)
    BY <1>1 DEF Front, Place
  <1>3. CASE UNCHANGED <<slots, byte>>
    BY <1>1, <1>2, <1>3 DEF Whole, BytesRight, Held, Relevant
  <1>4. CASE feclist # <<>> /\ ~ UNCHANGED <<slots, byte>>
    <2> SUFFICES ASSUME stale # "within" PROVE BytesRight'
      BY <1>1 DEF Whole
    <2> SUFFICES ASSUME NEW c \in Cell, NEW j \in 1 .. last,
                        Held(slots'[c], j), Relevant(j),
                        ~ isFec(j), 0 \notin Block(j), Block(j) \cap Short = {}
                 PROVE  byte'[c] = {SeqOf(j)}
      BY <1>1, <1>2 DEF BytesRight, Held, Relevant
    <2> DEFINE f == Head(feclist)
    <2>1. 1 \in 1 .. Len(feclist) /\ f = feclist[1]
      BY <1>1, <1>4, HeadFec
    <2>2. PICK b \in 1 .. last : Fec(f, b) /\ Position(f.base) = b - Front
      BY <1>1, <1>4, HeadFec
    <2>3. FecStep(f, b)
      BY <2>2, <1>1, <1>4, ProcessStep
    <2>4. PICK offset \in f.recv :
            /\ f.recv = {offset} /\ Front <= b /\ b + offset \in Front .. last /\ ~ ReadsNull(f, offset)
            /\ slots' = [slots EXCEPT ![Place(b + offset)] = Recovered(f, offset, b)]
            /\ byte' = LeftBytes(f, offset, b)
      BY <2>3, <1>4 DEF FecStep
    <2>5. Front \in Int /\ b \in Int /\ last \in 0 .. MaxSent
      BY <1>1, WindowNumbers
    <2>6. b >= Front
      BY <2>4, <2>5
    <2>7. SlotsRight /\ FecsRight /\ BytesRight
      BY DEF Right, Whole
    <2> HIDE DEF f
    <2>8. CASE c # Place(b + offset)
      <3>1. slots'[c] = slots[c] /\ byte'[c] = byte[c]
        BY <2>4, <2>8, <1>1 DEF LeftBytes
      <3>2. QED
        BY <3>1, <2>7 DEF BytesRight
    <2>9. CASE c = Place(b + offset)
      <3>1. Recovered(f, offset, b).seq = SeqOf(b + offset) /\ slots'[c] = Recovered(f, offset, b)
        BY <2>4, <2>9, <1>1 DEF Recovered
      <3>2. /\ offset \in 0 .. BlockLen - 1 /\ b + BlockLen <= last /\ isFec(b + BlockLen)
        BY <2>2 DEF Fec
      <3>3. b \in 1 .. MaxSent /\ b + BlockLen <= MaxSent /\ b + offset \in 1 .. MaxSent /\ j \in 1 .. MaxSent
        BY <3>2, <2>5, Ranges
      <3>4. j = b + offset
        BY <3>1, <3>3, SeqOfInjective DEF Held
      <3>5. Block(j) = Run(b)
        BY <3>2, <3>3, <3>4, BlockRun
      <3>6. FecRight(f, b)
        BY <2>1, <2>2, <2>6, <2>7, <3>5 DEF FecsRight, Fec
      <3>7. byte' = [byte EXCEPT ![Place(b + offset)] = {SeqOf(b + offset)}]
        BY <2>2, <2>4, <2>6, <2>7, <3>5, <3>6, <1>1, RecoveryByte
      <3>8. QED
        BY <3>4, <3>7, <2>9, <1>1
    <2>10. QED
      BY <2>8, <2>9
  <1>5. feclist = <<>> => UNCHANGED <<slots, byte>>
    BY DEF processFEC
  <1>6. QED
    BY <1>3, <1>4, <1>5

LEMMA InitWhole == Init => Whole
  <1> SUFFICES ASSUME Init PROVE Whole
    OBVIOUS
  <1>1. last = 0
    BY DEF Init
  <1>2. 1 .. last = {}
    BY <1>1
  <1>3. QED
    BY <1>2 DEF Whole, BytesRight

LEMMA NextWhole == Base /\ Right /\ Whole /\ [Next]_vars => Whole'
  <1> SUFFICES ASSUME Base, Right, Whole, [Next]_vars PROVE Whole'
    OBVIOUS
  <1>1. ASSUME NEW k \in 1 .. MaxSent, NEW due \in BOOLEAN, Arrive(k, due) PROVE Whole'
    BY <1>1, ArriveWhole
  <1>2. CASE processFEC /\ UNCHANGED <<arrived, last, pulling, calm, stale>>
    BY <1>2, ProcessWhole
  <1>3. CASE UNCHANGED <<cur, slots, byte, last, stale>>
    <2>1. Front' = Front
      BY <1>3 DEF Front
    <2>2. QED
      BY <2>1, <1>3 DEF Whole, BytesRight, Held, Relevant
  <1>4. processFlow => UNCHANGED <<cur, slots, byte, last, stale>>
    BY DEF processFlow, nextSlotInOrder
  <1>5. UNCHANGED vars => UNCHANGED <<cur, slots, byte, last, stale>>
    BY DEF vars, fecVars, windowVars
  <1>6. QED
    BY <1>1, <1>2, <1>3, <1>4, <1>5 DEF Next

\* A packet of the window that is valid is the one that was sent.
LEMMA RightInPlace == Base /\ Right /\ Whole => RecoveredRight
  <1> SUFFICES ASSUME Base, Right, Whole, stale # "within", NEW k \in 1 .. MaxSent,
                      ~ isFec(k), InPlace(SeqOf(k)), 0 \notin Block(k)
               PROVE  /\ SlotOf(SeqOf(k)).payload = {SeqOf(k)}
                      /\ Block(k) \cap Short = {} => byte[At(cur, Position(SeqOf(k)))] = {SeqOf(k)}
    BY DEF RecoveredRight
  <1>1. WindowInv /\ SlotsRight
    BY DEF Base, Right
  <1>2. Position(SeqOf(k)) \in 0 .. cur.count - 1 /\ Held(SlotOf(SeqOf(k)), k)
    BY DEF InPlace, InWindow, valid, Held
  <1>3. last \in 0 .. MaxSent /\ cur.count \in 0 .. Capacity /\ cur \in Cursor /\ cur.head \in Int
    BY <1>1, WindowNumbers, CursorInts, Ranges
  <1>4. last > 0
    <2>1. cur.count # 0
      BY <1>2
    <2>2. QED
      BY <2>1, <1>1, <1>3, WindowNumbers, Ranges
  <1>5. Position(SeqOf(k)) = k - Front /\ Front \in 1 .. MaxSent
    BY <1>1, <1>4, PositionOf
  <1>6. PICK g \in 1 .. MaxSent : g = Front
    BY <1>5
  <1>7. k - g \in 0 .. cur.count - 1 /\ g = last - cur.count + 1
    BY <1>2, <1>5, <1>6 DEF Front
  <1>8. k \in 1 .. last /\ k >= g
    BY <1>3, <1>6, <1>7, Ranges
  <1>9. Place(k) \in Cell /\ SlotOf(SeqOf(k)) = slots[Place(k)]
    <2>1. Place(k) \in Cell
      BY <1>1, PlaceCell
    <2>2. QED
      BY <2>1, <1>5 DEF SlotOf, Place
  <1>10. slots[Place(k)].payload = PayloadOf(k)
    BY <1>1, <1>2, <1>6, <1>8, <1>9 DEF SlotsRight, Relevant, AtZero
  <1>11. Block(k) \cap Short = {} => byte[Place(k)] = {SeqOf(k)}
    <2>1. Held(slots[Place(k)], k) /\ Relevant(k)
      BY <1>2, <1>6, <1>8, <1>9 DEF Relevant
    <2>2. QED
      BY <2>1, <1>8, <1>9 DEF Whole, BytesRight
  <1>12. At(cur, Position(SeqOf(k))) = Place(k)
    BY <1>5 DEF Place
  <1>13. QED
    BY <1>9, <1>10, <1>11, <1>12 DEF PayloadOf

\* What the reader finds in the window has the length and the header that were sent,
\* but for the ssrc, and, when no packet of its block is shorter, the bytes as well,
\* however it came there and whatever the slots and their buffers held before.
THEOREM AlwaysRecoveredRight == Spec => []RecoveredRight
  <1>1. Spec => []Right
    BY AlwaysBase, InitRight, NextRight, PTL DEF Spec
  <1>2. Spec => []Whole
    BY <1>1, AlwaysBase, InitWhole, NextWhole, PTL DEF Spec
  <1>3. QED
    BY <1>1, <1>2, AlwaysBase, RightInPlace, PTL

-----------------------------------------------------------------------------
(* Hidden losses.                                                          *)

\* Among BlockLen + 1 packets in a row one is a FEC packet.
LEMMA NextFec ==
  ASSUME NEW i \in Int
  PROVE  \E f \in i .. i + BlockLen : isFec(f)
  <1> DEFINE N == BlockLen + 1
             m == (-i) % N
             d == (-i) \div N
  <1>1. N \in Nat \ {0} /\ BlockLen \in Nat /\ -i \in Int
    BY Ranges
  <1>2. m \in 0 .. N - 1 /\ d \in Int /\ -i = N * d + m
    <2> HIDE DEF N
    <2>1. QED
      BY <1>1, DivMod
  <1>3. i + m \in Int /\ -d \in Int /\ i + m \in i .. i + BlockLen
    <2> HIDE DEF m, d
    <2>1. QED
      BY <1>1, <1>2
  <1>4. i + m = N * (-d) + 0
    <2> DEFINE p == N * d
    <2>1. N * (-d) = -p /\ p \in Int
      <3> HIDE DEF N, d
      <3>1. QED
        BY <1>1, <1>2
    <2>2. -i = p + m
      BY <1>2
    <2> HIDE DEF p, m, d, N
    <2>3. QED
      BY <2>1, <2>2, <1>1, <1>2
  <1>5. (i + m) % N = 0
    <2> HIDE DEF N, m, d
    <2>1. 0 \in 0 .. N - 1
      BY <1>1
    <2>2. QED
      BY <2>1, <1>1, <1>3, <1>4, ModUnique
  <1>6. isFec(i + m)
    BY <1>5 DEF isFec
  <1> HIDE DEF m
  <1>7. QED
    BY <1>3, <1>6

\* FEC packets are at least a block apart.
LEMMA FecApart ==
  ASSUME NEW f \in Int, NEW g \in Int, isFec(f), isFec(g), f < g
  PROVE  f + BlockLen < g
  <1> DEFINE N == BlockLen + 1
             p == f \div N
             q == g \div N
  <1>1. N \in Nat \ {0} /\ f % N = 0 /\ g % N = 0
    BY Ranges DEF isFec
  <1>2. p \in Int /\ q \in Int /\ f = N * p /\ g = N * q
    <2> HIDE DEF N
    <2>1. p \in Int /\ q \in Int /\ f = N * p + 0 /\ g = N * q + 0
      BY <1>1, DivMod
    <2> HIDE DEF p, q
    <2>2. N * p + 0 = N * p /\ N * q + 0 = N * q
      BY <2>1, <1>1
    <2>3. QED
      BY <2>1, <2>2
  <1> HIDE DEF N, p, q
  <1>3. N * (q - p) = g - f
    BY <1>1, <1>2
  <1>4. q - p >= 1
    <2>1. CASE q - p <= 0
      <3>1. N * (q - p) <= 0
        BY <2>1, <1>1, <1>2
      <3>2. QED
        BY <3>1, <1>3
    <2>2. QED
      BY <2>1, <1>2
  <1>5. N * (q - p) >= N
    BY <1>1, <1>2, <1>4
  <1>6. QED
    BY <1>3, <1>5, Ranges DEF N

\* Media packets with no FEC packet between them are of one block.
LEMMA SameBlock ==
  ASSUME NEW i \in 1 .. MaxSent, NEW j \in i .. MaxSent, \A m \in i .. j : ~ isFec(m)
  PROVE  SeqOf(j) \in Block(i)
  <1> DEFINE N == BlockLen + 1
             q == (i - 1) \div N
             s == (i - 1) % N
  <1>1. N \in Nat \ {0} /\ i - 1 \in Int /\ j - 1 \in Int /\ i \in Int /\ j \in Int
    BY Ranges
  <1>2. s \in 0 .. N - 1 /\ q \in Int /\ i - 1 = N * q + s
    <2> HIDE DEF N
    <2>1. QED
      BY <1>1, DivMod
  <1> HIDE DEF q, s
  <1>3. s + (j - i) <= N - 2
    <2> SUFFICES ASSUME s + (j - i) >= N - 1 PROVE FALSE
      BY <1>1, <1>2
    <2> DEFINE p == N * q
               f == p + N
    <2>1. p \in Int /\ N * (q + 1) = f /\ f = N * (q + 1) + 0 /\ q + 1 \in Int
      <3> HIDE DEF N
      <3>1. QED
        BY <1>1, <1>2
    <2>2. i = p + s + 1
      BY <1>1, <1>2
    <2> HIDE DEF p
    <2>3. f \in i .. j
      BY <2>1, <2>2, <1>1, <1>2
    <2>4. f % N = 0
      <3>1. f \in Int /\ 0 \in 0 .. N - 1
        BY <2>1, <1>1
      <3> HIDE DEF N, f
      <3>2. QED
        BY <3>1, <2>1, <1>1, ModUnique
    <2>5. isFec(f)
      BY <2>4 DEF isFec
    <2> HIDE DEF f
    <2>6. QED
      BY <2>3, <2>5
  <1>4. (j - 1) \div N = q
    <2> DEFINE r == s + (j - i)
    <2>1. r \in 0 .. N - 1
      BY <1>1, <1>2, <1>3
    <2>2. j - 1 = N * q + r
      <3> DEFINE p == N * q
      <3>1. p \in Int /\ i - 1 = p + s
        <4> HIDE DEF N
        <4>1. QED
          BY <1>1, <1>2
      <3> HIDE DEF p, N
      <3>2. j - 1 = p + r
        BY <3>1, <1>1, <1>2
      <3>3. QED
        BY <3>2 DEF p
    <2> HIDE DEF r, N
    <2>3. (j - 1) % N = r
      BY <2>1, <2>2, <1>1, <1>2, ModUnique
    <2> DEFINE e == (j - 1) \div N
    <2>4. e \in Int /\ j - 1 = N * e + r
      BY <2>3, <1>1, DivMod
    <2> HIDE DEF e
    <2>5. N * (e - q) = 0 /\ e - q \in Int
      <3> DEFINE x == N * e
                 y == N * q
      <3>1. x \in Int /\ y \in Int /\ j - 1 = x + r /\ j - 1 = y + r
        BY <2>2, <2>4, <1>1, <1>2
      <3>2. N * (e - q) = x - y
        BY <2>4, <1>1, <1>2
      <3> HIDE DEF x, y
      <3>3. x - y = 0
        BY <3>1, <2>1, <1>1
      <3>4. QED
        BY <3>2, <3>3, <2>4, <1>2
    <2>6. e - q = 0
      BY <2>5, <1>1
    <2>7. QED
      BY <2>4, <2>6, <1>2 DEF e
  <1>5. ~ isFec(j) /\ j \in 1 .. MaxSent
    BY Ranges
  <1>6. QED
    BY <1>4, <1>5 DEF Block, q

\* The packets that arrived or were made good: those before a FEC packet that
\* came, but for the ones that the front of the list is about to recover.
Ended(j) == \E f \in j .. last : isFec(f)

Pending(j) == feclist # <<>> /\ j \in last - BlockLen .. last - 1 /\ j \notin arrived

Here(j) == j \in arrived \/ (Ended(j) /\ ~ Pending(j))

Arrivals ==
  /\ arrived \subseteq 1 .. last
  /\ last > 0 => last \in arrived
  /\ pulling => last > 0
  /\ cur.count = last \/ cur.count = Capacity

There == \A j \in 1 .. last : j >= Front /\ Here(j) => Held(slots[Place(j)], j)

Missing == \A j \in 1 .. last : ~ Here(j) => \A c \in Cell : ~ Held(slots[c], j)

\* The list holds the FEC packet that came last while it is processed.
OneFec ==
  /\ pc # "null"
  /\ feclist # <<>> =>
       /\ pc = "ulpfec" /\ Len(feclist) = 1
       /\ isFec(last) /\ last - BlockLen >= Front
       /\ feclist[1].base = SeqOf(last - BlockLen)
       /\ feclist[1].recv = {o \in 0 .. BlockLen - 1 : (last - BlockLen) + o \notin arrived}

\* The reader is in the window; behind a full one it has read everything or
\* waits for a packet that is still to be recovered.
Reads ==
  last > 0 =>
    \E r \in Front .. last + 1 :
      /\ nextSeq = SeqOf(r)
      /\ isFull(cur) /\ ~ pulling => r = last + 1 \/ (r \notin arrived /\ ~ Ended(r))

Hidden == Arrivals /\ There /\ Missing /\ OneFec /\ Reads

HiddenInv == Recoverables => Hidden

LEMMA BlockRanges == BlockLen \in Nat \ {0} /\ BlockLen + 1 <= Capacity /\ Capacity >= 2
  BY Ranges, BlockAssumption

\* A packet is of its own block.
LEMMA OwnBlock ==
  ASSUME NEW k \in 1 .. MaxSent, ~ isFec(k)
  PROVE  SeqOf(k) \in Block(k)
  <1>1. \A m \in k .. k : m = k
    BY Ranges
  <1>2. k \in k .. MaxSent /\ \A m \in k .. k : ~ isFec(m)
    BY <1>1, Ranges
  <1>3. QED
    BY <1>2, SameBlock

\* Of packets that are lost there are no two without a FEC packet between them.
LEMMA LostApart ==
  ASSUME Recoverables, last \in 0 .. MaxSent, NEW i \in 1 .. MaxSent, NEW j \in i .. MaxSent,
         Lost(i), Lost(j), \A m \in i .. j : ~ isFec(m)
  PROVE  i = j
  <1>1. SeqOf(j) \in Block(i) /\ j \in 1 .. MaxSent
    BY SameBlock, Ranges
  <1>2. QED
    BY <1>1 DEF Recoverables

\* Packets that came in order, with what can be recovered missing, come one by one
\* but for at most one that is missing, once the window is full.
LEMMA InOrder ==
  ASSUME WindowInv, HiddenInv, NEW k \in 1 .. MaxSent, NEW due \in BOOLEAN, Arrive(k, due), Recoverables'
  PROVE  /\ Recoverables /\ Hidden /\ k > last /\ last' = k /\ arrived' = arrived \cup {k}
         /\ feclist = <<>> /\ pc = "idle"
         /\ last = 0 => k = 1
         /\ k = last + 1 \/ (k = last + 2 /\ cur.count = Capacity /\ ~ isFec(last + 1))
         /\ \A j \in last + 1 .. k - 1 : j \in 1 .. MaxSent /\ Lost(j)'
  <1>1. calm' = TRUE /\ calm \in BOOLEAN /\ last \in 0 .. MaxSent /\ cur.count \in 0 .. Capacity
    BY WindowNumbers DEF Recoverables, WindowInv, TypeOK, Arrive
  <1>2. calm = TRUE /\ k > last /\ arrived' = arrived \cup {k} /\ last' = k /\ pc = "idle"
    BY <1>1 DEF Arrive, insertNative, insertULPFEC
  <1>3. ASSUME NEW j \in 1 .. MaxSent, Lost(j) PROVE Lost(j)'
    BY <1>1, <1>2, <1>3 DEF Lost
  <1>4. Recoverables
    BY <1>2, <1>3 DEF Recoverables
  <1>5. Hidden
    BY <1>4 DEF HiddenInv
  <1>6. feclist = <<>>
    BY <1>2, <1>5 DEF Hidden, OneFec
  <1>7. ASSUME NEW j \in last + 1 .. k - 1 PROVE j \in 1 .. MaxSent /\ Lost(j)' /\ j > Capacity /\ ~ isFec(j)
    <2>1. j \in 1 .. MaxSent /\ j < k /\ j \notin 1 .. last /\ j # k
      BY <1>1, Ranges
    <2>2. Lost(j)'
      BY <2>1, <1>2, <1>5 DEF Lost, Hidden, Arrivals
    <2>3. QED
      BY <2>1, <2>2 DEF Recoverables
  <1>8. k <= last + 2
    <2> SUFFICES ASSUME k > last + 2 PROVE FALSE
      BY <1>1
    <2>1. last + 1 \in last + 1 .. k - 1 /\ last + 2 \in last + 1 .. k - 1
      BY <1>1
    <2>2. last + 1 \in 1 .. MaxSent /\ last + 2 \in last + 1 .. MaxSent
      BY <2>1, <1>1, <1>7, Ranges
    <2>3. \A m \in last + 1 .. last + 2 : m = last + 1 \/ m = last + 2
      BY <1>1
    <2>4. \A m \in last + 1 .. last + 2 : ~ isFec(m)
      BY <2>1, <2>3, <1>7
    <2>5. SeqOf(last + 2) \in Block(last + 1)
      BY <2>2, <2>4, SameBlock
    <2>6. last + 2 = last + 1
      BY <2>1, <2>2, <2>5, <1>7 DEF Recoverables
    <2>7. QED
      BY <2>6, <1>1
  <1>9. k > last + 1 => last + 1 > Capacity /\ ~ isFec(last + 1)
    <2> SUFFICES ASSUME k > last + 1 PROVE last + 1 > Capacity /\ ~ isFec(last + 1)
      OBVIOUS
    <2>1. last + 1 \in last + 1 .. k - 1
      BY <1>1
    <2>2. QED
      BY <2>1, <1>7
  <1>10. k = last + 1 \/ k = last + 2
    BY <1>1, <1>2, <1>8
  <1>11. k = last + 2 => cur.count = Capacity /\ ~ isFec(last + 1) /\ last > 0
    <2>1. cur.count = last \/ cur.count = Capacity
      BY <1>5 DEF Hidden, Arrivals
    <2>2. QED
      BY <2>1, <1>1, <1>9, Ranges
  <1>12. last = 0 => k = 1
    BY <1>10, <1>11
  <1>13. \A j \in last + 1 .. k - 1 : j \in 1 .. MaxSent /\ Lost(j)'
    BY <1>7
  <1>14. k = last + 1 \/ (k = last + 2 /\ cur.count = Capacity /\ ~ isFec(last + 1))
    BY <1>10, <1>11
  <1>15. QED
    BY <1>2, <1>4, <1>5, <1>6, <1>12, <1>13, <1>14

\* The first packet begins the window.
LEMMA FirstArrives ==
  ASSUME Base, NEW k \in 1 .. MaxSent, NEW due \in BOOLEAN, Arrive(k, due), last = 0
  PROVE  /\ Placed(k, Pkt(k)) /\ WindowInv' /\ Front' = k /\ last' = k
         /\ nextSeq' = SeqOf(k) /\ state' \in Success
  <1>1. WindowInv /\ SlotInv
    BY DEF Base
  <1>2. ArrivesAs(k) /\ insertPacket(Pkt(k)) /\ WindowInv'
    BY <1>1, ArriveStep, ArriveWindow
  <1>3. last' = k /\ k # last
    BY DEF Arrive
  <1>4. Restarted(k, Pkt(k)) /\ state' \in Success
    BY <1>2, <1>3 DEF ArrivesAs, Moved
  <1>5. cur.count = 0
    BY <1>1 DEF WindowInv
  <1>6. ~ InWindow(Pkt(k).seq)
    BY <1>5 DEF InWindow
  <1>7. FirstPacket(Pkt(k))
    BY <1>2, <1>5, <1>6 DEF insertPacket, OutOfOrder, OlderPacket, Prepend, Disorder, NextPacket, Jump,
         TooNew, isEmpty
  <1>8. nextSeq' = SeqOf(k)
    BY <1>7 DEF FirstPacket, reset, Pkt
  <1>9. QED
    BY <1>2, <1>3, <1>4, <1>8 DEF Restarted

\* A packet that comes in order is put at the end of the window.
LEMMA NextArrives ==
  ASSUME Base, NEW k \in 1 .. MaxSent, NEW due \in BOOLEAN, Arrive(k, due), last > 0,
         k = last + 1 \/ (k = last + 2 /\ cur.count = Capacity)
  PROVE  /\ Placed(k, Pkt(k)) /\ WindowInv' /\ Moved(k, Pkt(k)) /\ Front' >= Front
         /\ nextSeq' = nextSeq /\ state' \in Success
  <1>1. WindowInv /\ SlotInv
    BY DEF Base
  <1>2. insertPacket(Pkt(k)) /\ WindowInv' /\ last' = IF k > last THEN k ELSE last
    BY <1>1, ArriveStep, ArriveWindow DEF Arrive
  <1>3. Pkt(k).seq = SeqOf(k)
    BY DEF Pkt
  <1>4. /\ last \in 0 .. MaxSent /\ cur.count \in 0 .. Capacity /\ cur.count > 0
        /\ Position(SeqOf(k)) = k - Front /\ Front \in 1 .. MaxSent
    BY <1>1, WindowNumbers, PositionOf, Ranges
  <1>5. k > last /\ k - Front = cur.count + (k - last) - 1
    BY <1>4 DEF Front
  <1> DEFINE d == k - Front
  <1>6. d \in Int /\ (d = cur.count \/ (d = Capacity + 1 /\ cur.count = Capacity)) /\ d = cur.count + (k - last) - 1
    BY <1>4, <1>5, Ranges
  <1>7. Position(Pkt(k).seq) = d
    BY <1>3, <1>4
  <1> HIDE DEF d
  <1>8. ~ FarAway(d) /\ ~ (d < 0) /\ ~ (d >= 2 * cur.count) /\ ~ (d \in 0 .. cur.count - 1)
    BY <1>4, <1>6, BlockRanges, Ranges DEF FarAway
  <1>9. ~ isEmpty(cur)
    BY <1>4 DEF isEmpty
  <1>10. NextPacket(Pkt(k)) \/ Jump(Pkt(k))
    BY <1>2, <1>7, <1>8, <1>9 DEF insertPacket, FirstPacket, OutOfOrder, OlderPacket, Prepend, Disorder,
         InWindow, TooNew
  <1>11. CASE NextPacket(Pkt(k))
    <2>1. d = cur.count
      BY <1>11, <1>7 DEF NextPacket
    <2>2. k - last = 1
      BY <2>1, <1>4, <1>6
    <2>3. Slide(k - last) /\ checkPlaceSlot(Pkt(k), cur'.tail, "kNoError")
      BY <2>2, <1>11 DEF NextPacket
    <2>4. "kNoError" \in Success \ {"kOutOfOrderReset"}
      BY DEF Success
    <2>5. Moved(k, Pkt(k)) /\ Placed(k, Pkt(k)) /\ Front' >= Front /\ state' \in Success
      BY <2>3, <2>4, <1>1, <1>2, <1>5, SlideStep
    <2>6. nextSeq' = nextSeq
      BY <2>3 DEF Slide
    <2>7. QED
      BY <2>5, <2>6, <1>2
  <1>12. CASE Jump(Pkt(k))
    <2>1. d - cur.count + 1 = k - last
      BY <1>4, <1>6
    <2>2. Slide(k - last) /\ checkPlaceSlot(Pkt(k), cur'.tail, "kDiscontinuity")
      BY <2>1, <1>7, <1>12 DEF Jump
    <2>3. "kDiscontinuity" \in Success \ {"kOutOfOrderReset"}
      BY DEF Success
    <2>4. Moved(k, Pkt(k)) /\ Placed(k, Pkt(k)) /\ Front' >= Front /\ state' \in Success
      BY <2>2, <2>3, <1>1, <1>2, <1>5, SlideStep
    <2>5. nextSeq' = nextSeq
      BY <2>2 DEF Slide
    <2>6. QED
      BY <2>4, <2>5, <1>2
  <1>13. QED
    BY <1>10, <1>11, <1>12

\* What such an arrival does to the window, and that the reader does not fall behind.
LEMMA OrderlyWindow ==
  ASSUME Base, HiddenInv, NEW k \in 1 .. MaxSent, NEW due \in BOOLEAN, Arrive(k, due), Recoverables'
  PROVE  /\ Placed(k, Pkt(k)) /\ WindowInv' /\ state' \in Success
         /\ Front' = (k - cur'.count) + 1 /\ Front' \in 1 .. k
         /\ cur'.count = k \/ cur'.count = Capacity
         /\ \A j \in 1 .. last : j >= Front' => j >= Front /\ Place(j)' = Place(j)
         /\ \E r \in Front' .. k + 1 : nextSeq' = SeqOf(r)
  <1>1. WindowInv
    BY DEF Base
  <1>2. /\ Recoverables /\ Hidden /\ k > last /\ last' = k /\ arrived' = arrived \cup {k}
        /\ last = 0 => k = 1
        /\ k = last + 1 \/ (k = last + 2 /\ cur.count = Capacity /\ ~ isFec(last + 1))
        /\ \A j \in last + 1 .. k - 1 : j \in 1 .. MaxSent /\ Lost(j)'
    BY <1>1, InOrder
  <1>3. last \in 0 .. MaxSent /\ cur.count \in 0 .. Capacity
    BY <1>1, WindowNumbers
  <1>4. CASE last = 0
    <2>1. Placed(k, Pkt(k)) /\ WindowInv' /\ Front' = k /\ nextSeq' = SeqOf(k) /\ state' \in Success
      BY <1>4, FirstArrives
    <2>2. cur'.count \in Int /\ Front' = (last' - cur'.count) + 1
      BY <2>1, CursorInts, Ranges DEF Front, WindowInv, TypeOK, FecTypeOK, WindowTypeOK
    <2>3. Front' = (k - cur'.count) + 1
      BY <2>2, <1>2
    <2>4. cur'.count = k
      BY <2>1, <2>2, <2>3, <1>2, <1>4
    <2>5. Front' \in 1 .. k /\ Front' \in Front' .. k + 1
      BY <2>1
    <2>6. \A j \in 1 .. last : FALSE
      BY <1>4
    <2>7. QED
      BY <2>1, <2>3, <2>4, <2>5, <2>6
  <1>5. CASE last > 0
    <2>1. /\ Placed(k, Pkt(k)) /\ WindowInv' /\ Moved(k, Pkt(k)) /\ Front' >= Front
          /\ nextSeq' = nextSeq /\ state' \in Success
      BY <1>2, <1>5, NextArrives
    <2>2. /\ cur'.count \in 0 .. Capacity /\ Front' = (last' - cur'.count) + 1
          /\ Front = (last - cur.count) + 1 /\ Front \in 1 .. last
      <3>1. cur'.count \in 0 .. Capacity
        BY <2>1, CursorInts DEF WindowInv, TypeOK, FecTypeOK, WindowTypeOK
      <3>2. QED
        BY <3>1, <1>1, <1>5 DEF Front, WindowInv
    <2>3. PICK g \in Int : g = Front
      BY <2>2
    <2>4. PICK h \in Int : h = Front'
      BY <2>2, <1>2
    <2>5. /\ h >= g /\ (h > g => cur'.count = Capacity) /\ h = (k - cur'.count) + 1 /\ g = (last - cur.count) + 1
          /\ g \in 1 .. last
      BY <2>1, <2>2, <2>3, <2>4, <1>2 DEF Moved
    <2>6. cur.count = last \/ cur.count = Capacity
      BY <1>2 DEF Hidden, Arrivals
    <2>7. cur'.count = k \/ cur'.count = Capacity
      <3>1. CASE h > g
        BY <3>1, <2>5
      <3>2. CASE h = g
        <4>1. cur'.count = cur.count + (k - last)
          <5>1. g = (last - cur.count) + 1 /\ g = (k - cur'.count) + 1
            BY <3>2, <2>5
          <5>2. k \in Int /\ last \in Int /\ cur.count \in Int /\ cur'.count \in Int
            BY <2>2, <1>3, Ranges
          <5>3. QED
            BY <5>1, <5>2
        <4>2. cur.count # Capacity
          BY <4>1, <2>2, <1>2, <1>3, Ranges
        <4>3. QED
          BY <4>1, <4>2, <2>6, <1>3
      <3>3. QED
        BY <3>1, <3>2, <2>5
    <2>8. h \in 1 .. k
      BY <2>2, <2>5, <2>7, <1>2, <1>3, Ranges
    <2>9. \A j \in 1 .. last : j >= Front' => j >= Front /\ Place(j)' = Place(j)
      <3>1. \A j \in Int : Place(j)' = Place(j)
        BY <2>1 DEF Moved
      <3>2. \A j \in 1 .. last : j >= h => j >= g
        BY <2>5, <1>3
      <3>3. QED
        BY <3>1, <3>2, <2>3, <2>4
    <2>10. \E r \in h .. k + 1 : nextSeq' = SeqOf(r)
      <3>1. PICK r \in Front .. last + 1 :
              /\ nextSeq = SeqOf(r)
              /\ isFull(cur) /\ ~ pulling => r = last + 1 \/ (r \notin arrived /\ ~ Ended(r))
        BY <1>2, <1>5 DEF Hidden, Reads
      <3>2. r \in Int /\ r \in g .. last + 1
        BY <3>1, <2>3, <2>5, <1>3
      <3>3. r >= h
        <4>1. CASE cur.count # Capacity
          <5>1. cur.count = last /\ k = last + 1 /\ g = 1 /\ cur.count < Capacity
            BY <4>1, <2>5, <2>6, <1>2, <1>3, Ranges
          <5>2. h = g
            BY <5>1, <2>2, <2>5, <2>7, <1>3, Ranges
          <5>3. QED
            BY <5>2, <3>2
        <4>2. CASE cur.count = Capacity
          <5>1. ~ pulling /\ isFull(cur)
            BY <4>2 DEF Arrive, isFull
          <5>2. cur'.count = Capacity
            <6>1. h > g
              BY <4>2, <2>2, <2>5, <1>2, <1>3, Ranges
            <6>2. QED
              BY <6>1, <2>5
          <5>3. h = (k - Capacity) + 1 /\ k <= last + 2
            BY <5>2, <2>5, <1>2, <1>3
          <5>4. CASE r = last + 1
            BY <5>3, <5>4, <1>3, BlockRanges, Ranges
          <5>5. CASE r # last + 1
            <6>1. r \notin arrived /\ ~ Ended(r)
              BY <5>1, <5>5, <3>1
            <6>2. r \in 1 .. last /\ r \in 1 .. MaxSent /\ r # last
              <7>1. last \in arrived
                BY <1>2, <1>5 DEF Hidden, Arrivals
              <7>2. QED
                BY <7>1, <6>1, <5>5, <3>2, <2>5, <1>3, Ranges
            <6>3. PICK f \in r .. r + BlockLen : isFec(f)
              BY <3>2, NextFec
            <6>4. f > last
              <7>1. f \notin r .. last
                BY <6>1, <6>3 DEF Ended
              <7>2. QED
                BY <7>1, <6>3, <3>2, <1>3, BlockRanges
            <6>5. r + BlockLen > last
              BY <6>3, <6>4, <3>2, <1>3, BlockRanges
            <6>6. k = last + 1
              <7> SUFFICES ASSUME k # last + 1 PROVE FALSE
                OBVIOUS
              <7>1. PICK n \in Int : n = last + 1
                BY <1>3
              <7>2. k = last + 2 /\ ~ isFec(n) /\ n \in last + 1 .. k - 1
                BY <7>1, <1>2, <1>3
              <7>3. Lost(n)' /\ n \in 1 .. MaxSent
                BY <7>2, <1>2
              <7>4. Lost(r)'
                BY <6>1, <6>2, <1>2, <1>3 DEF Lost
              <7>5. \A m \in r .. n : ~ isFec(m)
                <8>1. \A m \in r .. n : m \in r .. last \/ m = n
                  BY <7>1, <3>2, <1>3
                <8>2. QED
                  BY <8>1, <7>2, <6>1 DEF Ended
              <7>6. n \in r .. MaxSent
                BY <7>1, <7>3, <6>2, <1>3, Ranges
              <7>7. SeqOf(n) \in Block(r)
                BY <7>5, <7>6, <6>2, SameBlock
              <7>8. n = r
                BY <7>3, <7>4, <7>7, <6>2 DEF Recoverables
              <7>9. QED
                BY <7>1, <7>8, <6>2, <1>3
            <6>7. QED
              BY <6>5, <6>6, <5>3, <3>2, <1>3, BlockRanges, Ranges
          <5>6. QED
            BY <5>4, <5>5
        <4>3. QED
          BY <4>1, <4>2
      <3>4. r \in h .. k + 1
        BY <3>2, <3>3, <1>2, <1>3
      <3>5. QED
        BY <3>1, <3>4, <2>1
    <2>11. QED
      BY <2>1, <2>4, <2>5, <2>7, <2>8, <2>9, <2>10
  <1>6. QED
    BY <1>3, <1>4, <1>5

\* The list then holds the FEC packet that came, or nothing.
LEMMA OrderlyList ==
  ASSUME Base, HiddenInv, NEW k \in 1 .. MaxSent, NEW due \in BOOLEAN, Arrive(k, due), Recoverables'
  PROVE  \/ ~ isFec(k) /\ feclist' = <<>> /\ pc' = "native"
         \/ isFec(k) /\ feclist' = <<NewFec(k)>> /\ pc' = "ulpfec" /\ k - BlockLen >= Front'
  <1>1. WindowInv
    BY DEF Base
  <1>2. last' = k /\ feclist = <<>>
    BY <1>1, InOrder
  <1>3. /\ WindowInv' /\ state' \in Success
        /\ Front' = (k - cur'.count) + 1 /\ Front' \in 1 .. k
        /\ cur'.count = k \/ cur'.count = Capacity
    BY OrderlyWindow
  <1>4. state' \notin Failure /\ calm' = TRUE
    BY <1>3 DEF Failure, Success, Recoverables, Arrive
  <1>5. ListAfterReset = <<>>
    BY <1>2 DEF ListAfterReset
  <1>6. CASE ~ isFec(k)
    BY <1>4, <1>5, <1>6 DEF Arrive, insertNative
  <1>7. CASE isFec(k)
    <2>1. feclist' = addFEC(<<>>, FecOf(k)) /\ pc' = "ulpfec"
      BY <1>4, <1>5, <1>7 DEF Arrive, insertULPFEC
    <2>2. k - BlockLen >= 1
      BY <1>7, FecLate, Ranges
    <2>3. PICK h \in Int : h = Front'
      BY <1>3
    <2>4. k - BlockLen >= h /\ h = (k - cur'.count) + 1
      <3>1. h = (k - cur'.count) + 1 /\ k \in Int /\ h \in Int
        BY <2>3, <1>3
      <3>2. CASE cur'.count = k
        BY <3>1, <3>2, <2>2
      <3>3. CASE cur'.count = Capacity
        BY <3>1, <3>3, BlockRanges, Ranges
      <3>4. QED
        BY <3>1, <3>2, <3>3, <1>3
    <2>5. cur'.count \in 0 .. Capacity
      BY <1>3, CursorInts DEF WindowInv, TypeOK, FecTypeOK, WindowTypeOK
    <2>6. FecOf(k).base = SeqOf(k - BlockLen) /\ FecOf(k).cover = 0 .. BlockLen - 1
      BY DEF FecOf
    <2>7. PICK b \in 1 .. MaxSent : b = k - BlockLen
      BY <2>2, BlockRanges, Ranges
    <2>8. distance(startSeq', SeqOf(b)) = b - h
      <3>1. last' \in 1 .. MaxSent
        BY <1>2
      <3>2. QED
        BY <3>1, <1>3, <2>3, NewPosition
    <2>9. b - h \in 0 .. cur'.count - 1
      BY <2>3, <2>4, <2>5, <2>7, BlockRanges, Ranges
    <2>10. FecOf(k) # None
      <3>1. SeqOf(k - BlockLen) \in SeqNum
        BY <2>7, SeqOfInt
      <3>2. 0 .. BlockLen - 1 \subseteq 0 .. MaskBits - 1
        BY Ranges
      <3>3. FecOf(k) \in [base : SeqNum, cover : SUBSET (0 .. MaskBits - 1)]
        BY <3>1, <3>2 DEF FecOf
      <3>4. QED
        BY <3>3, FecAssumption
    <2>11. feclist' = Pushed(<<>>, NewFec(k))
      BY <2>1, <2>6, <2>7, <2>8, <2>9, <2>10 DEF addFEC, NewFec
    <2>12. Pushed(<<>>, NewFec(k)) = <<NewFec(k)>>
      <3>1. Len(<<>>) # FecCapacity
        BY EmptySeq, Ranges
      <3>2. \A x : Append(<<>>, x) = <<x>>
        OBVIOUS
      <3>3. QED
        BY <3>1, <3>2 DEF Pushed
    <2>13. QED
      BY <1>7, <2>1, <2>3, <2>4, <2>11, <2>12
  <1>8. QED
    BY <1>6, <1>7

\* After it the packets that are there are the ones that were, and the new one.
LEMMA OrderlyHere ==
  ASSUME Base, HiddenInv, NEW k \in 1 .. MaxSent, NEW due \in BOOLEAN, Arrive(k, due), Recoverables',
         NEW j \in 1 .. k
  PROVE  Here(j)' <=> j = k \/ (j \in 1 .. last /\ Here(j))
  <1>1. WindowInv
    BY DEF Base
  <1>2. /\ Recoverables /\ Hidden /\ k > last /\ last' = k /\ arrived' = arrived \cup {k}
        /\ feclist = <<>>
        /\ k = last + 1 \/ (k = last + 2 /\ cur.count = Capacity /\ ~ isFec(last + 1))
    BY <1>1, InOrder
  <1>3. last \in 0 .. MaxSent /\ arrived \subseteq 1 .. last
    BY <1>1, <1>2, WindowNumbers DEF Hidden, Arrivals
  <1>4. isFec(k) <=> feclist' # <<>>
    BY OrderlyList
  <1>5. /\ Ended(j)' <=> \E f \in j .. k : isFec(f)
        /\ Pending(j)' <=> isFec(k) /\ j \in k - BlockLen .. k - 1 /\ j \notin arrived \cup {k}
        /\ Here(j) <=> j \in arrived \/ Ended(j)
        /\ Here(j)' <=> j \in arrived \cup {k} \/ (Ended(j)' /\ ~ Pending(j)')
    BY <1>2, <1>4 DEF Ended, Pending, Here
  <1>6. CASE j = k
    BY <1>5, <1>6
  <1>7. CASE j \in 1 .. last
    <2>1. j # k /\ j \in Int /\ k \in Int /\ last \in Int /\ j < k
      BY <1>2, <1>3, <1>7, Ranges
    <2>2. ASSUME j \notin arrived, Ended(j) PROVE Ended(j)' /\ ~ Pending(j)'
      <3>1. PICK f \in j .. last : isFec(f)
        BY <2>2 DEF Ended
      <3>2. f \in j .. k /\ f \in Int /\ f < k /\ f >= j
        BY <3>1, <2>1, <1>2
      <3>3. isFec(k) => f + BlockLen < k
        BY <3>1, <3>2, <2>1, FecApart
      <3>4. isFec(k) => ~ (j \in k - BlockLen .. k - 1)
        BY <3>2, <3>3, <2>1, BlockRanges
      <3>5. QED
        BY <3>1, <3>2, <3>4, <1>5
    <2>3. ASSUME j \notin arrived, Ended(j)', ~ Pending(j)' PROVE Ended(j)
      <3>1. PICK f \in j .. k : isFec(f)
        BY <2>3, <1>5
      <3>2. CASE f \in j .. last
        BY <3>1, <3>2 DEF Ended
      <3>3. CASE f \notin j .. last
        <4>1. f = k
          <5>1. f > last /\ f \in Int
            BY <3>1, <3>3, <2>1
          <5>2. f = last + 1 \/ f = last + 2
            BY <5>1, <3>1, <2>1, <1>2
          <5>3. QED
            BY <5>2, <3>1, <2>1, <1>2
        <4>2. isFec(k) /\ ~ (j \in k - BlockLen .. k - 1)
          BY <4>1, <3>1, <2>3, <1>5, <2>1
        <4>3. j + BlockLen < k
          BY <4>2, <2>1, BlockRanges
        <4>4. PICK g \in j .. j + BlockLen : isFec(g)
          BY <2>1, NextFec
        <4>5. g \in Int /\ g < k /\ g >= j
          BY <4>3, <4>4, <2>1, BlockRanges
        <4>6. g \in j .. last
          <5>1. g # last + 1 \/ k = last + 1
            BY <4>4, <1>2
          <5>2. QED
            BY <5>1, <4>5, <2>1, <1>2
        <4>7. QED
          BY <4>4, <4>6 DEF Ended
      <3>4. QED
        BY <3>2, <3>3
    <2>4. QED
      BY <1>5, <1>7, <2>1, <2>2, <2>3
  <1>8. CASE j \notin 1 .. last /\ j # k
    <2>1. k = last + 2 /\ j = last + 1 /\ ~ isFec(j) /\ j \in Int /\ last \in Int
      BY <1>2, <1>3, <1>8
    <2>2. j \notin arrived \cup {k}
      BY <1>3, <1>8
    <2>3. Ended(j)' => isFec(k)
      <3>1. \A f \in j .. k : f = j \/ f = k
        BY <2>1
      <3>2. QED
        BY <3>1, <2>1, <1>5
    <2>4. j \in k - BlockLen .. k - 1
      BY <2>1, BlockRanges
    <2>5. ~ Here(j)'
      BY <2>2, <2>3, <2>4, <1>5
    <2>6. QED
      BY <2>5, <1>8
  <1>9. QED
    BY <1>6, <1>7, <1>8

\* They are in their places, and no slot holds another.
LEMMA OrderlySlots ==
  ASSUME Base, HiddenInv, NEW k \in 1 .. MaxSent, NEW due \in BOOLEAN, Arrive(k, due), Recoverables',
         NEW j \in 1 .. k
  PROVE  /\ j >= Front' /\ Here(j)' => Held(slots'[Place(j)'], j)
         /\ ~ Here(j)' => \A c \in Cell : ~ Held(slots'[c], j)
  <1>1. WindowInv /\ SlotInv
    BY DEF Base
  <1>2. Hidden /\ k > last /\ last' = k
    BY <1>1, InOrder
  <1>3. /\ Placed(k, Pkt(k)) /\ WindowInv' /\ Front' = (k - cur'.count) + 1 /\ Front' \in 1 .. k
        /\ \A i \in 1 .. last : i >= Front' => i >= Front /\ Place(i)' = Place(i)
    BY OrderlyWindow
  <1>4. last \in 0 .. MaxSent /\ slots \in [Cell -> Slot] /\ j \in Int /\ k \in Int /\ j \in 1 .. MaxSent
    BY <1>1, WindowNumbers, Ranges
  <1>5. Here(j)' <=> j = k \/ (j \in 1 .. last /\ Here(j))
    BY OrderlyHere
  <1>6. ASSUME NEW i \in Int PROVE Place(i)' \in Cell
    <2>1. PICK p \in Int : p = i - Front'
      BY <1>3
    <2>2. cur'.head \in Int
      BY <1>3, CursorInts DEF WindowInv, TypeOK, FecTypeOK, WindowTypeOK
    <2>3. cur'.head + p \in Int /\ Place(i)' = (cur'.head + p) % Capacity
      BY <2>1, <2>2 DEF Place, At
    <2>4. QED
      BY <2>3, ModCell
  <1>7. \A c \in Cell : slots'[c] = IF c = Place(k)' THEN Pkt(k) ELSE slots[c]
    BY <1>3, <1>4 DEF Placed
  <1>8. Held(Pkt(k), k)
    BY PktFits DEF Held, Pkt
  <1>9. ASSUME j >= Front', Here(j)' PROVE Held(slots'[Place(j)'], j)
    <2>1. CASE j = k
      BY <2>1, <1>4, <1>6, <1>7, <1>8
    <2>2. CASE j # k
      <3>1. j \in 1 .. last /\ Here(j)
        BY <2>2, <1>5, <1>9
      <3>2. j >= Front /\ Place(j)' = Place(j)
        BY <3>1, <1>3, <1>9
      <3>3. Held(slots[Place(j)'], j)
        BY <3>1, <3>2, <1>2 DEF Hidden, There
      <3>4. Place(j)' # Place(k)'
        <4>1. PICK h \in Int : h = Front'
          BY <1>3
        <4>2. h = (k - cur'.count) + 1 /\ j \in h .. k /\ k \in h .. k /\ cur' \in Cursor
          BY <4>1, <1>3, <1>4, <1>9 DEF WindowInv, TypeOK, FecTypeOK, WindowTypeOK
        <4>3. h = k - cur'.count + 1
          BY <4>2
        <4>4. Place(j)' = At(cur', j - h) /\ Place(k)' = At(cur', k - h)
          BY <4>1 DEF Place
        <4>5. QED
          BY <4>2, <4>3, <4>4, <2>2, <1>4, PlaceInjective
      <3>5. QED
        BY <3>3, <3>4, <1>4, <1>6, <1>7
    <2>3. QED
      BY <2>1, <2>2
  <1>10. ASSUME ~ Here(j)', NEW c \in Cell, Held(slots'[c], j) PROVE FALSE
    <2>1. j # k
      BY <1>5, <1>10
    <2>2. ~ Held(Pkt(k), j)
      <3> SUFFICES ASSUME Held(Pkt(k), j) PROVE FALSE
        OBVIOUS
      <3>1. SeqOf(k) = SeqOf(j)
        BY DEF Held, Pkt
      <3>2. QED
        BY <3>1, <2>1, <1>4, SeqOfInjective
    <2>3. Held(slots[c], j)
      BY <2>2, <1>7, <1>10
    <2>4. j \in 1 .. last
      BY <2>3, <1>1, <1>4, HeldBefore
    <2>5. ~ Here(j)
      BY <2>4, <1>5, <1>10
    <2>6. QED
      BY <2>3, <2>4, <2>5, <1>2 DEF Hidden, Missing
  <1>11. QED
    BY <1>9, <1>10

\* A number that no slot holds is not stored in one, away from number 0.
LEMMA NotStored ==
  ASSUME SlotInv, NEW j \in 1 .. MaxSent, ~ isFec(j), 0 \notin Block(j), NEW c \in Cell, ~ Held(slots[c], j)
  PROVE  slots[c].seq # SeqOf(j)
  <1> SUFFICES ASSUME slots[c].seq = SeqOf(j) PROVE FALSE
    OBVIOUS
  <1>1. slots[c].payload = None
    BY DEF Held
  <1>2. SeqOf(j) = 0
    BY <1>1 DEF SlotInv, Held
  <1>3. QED
    BY <1>2, OwnBlock

\* The mask of the FEC packet is what is missing of its block.
LEMMA OrderlyMask ==
  ASSUME Base, HiddenInv, NEW k \in 1 .. MaxSent, NEW due \in BOOLEAN, Arrive(k, due), Recoverables',
         isFec(k)
  PROVE  NewFec(k).recv = {o \in 0 .. BlockLen - 1 : (k - BlockLen) + o \notin arrived'}
  <1>1. WindowInv /\ SlotInv
    BY DEF Base
  <1>2. last' = k /\ k > last /\ arrived' = arrived \cup {k}
    BY <1>1, InOrder
  <1>3. /\ WindowInv' /\ Front' = (k - cur'.count) + 1 /\ Front' \in 1 .. k
    BY OrderlyWindow
  <1>4. SlotInv'
    BY <1>1, ArriveSlots
  <1>5. feclist' # <<>> /\ k - BlockLen >= Front'
    BY OrderlyList
  <1>6. PICK h \in Int : h = Front'
    BY <1>3
  <1>7. PICK b \in 1 .. MaxSent : b = k - BlockLen
    BY FecLate, Ranges
  <1>8. /\ b + BlockLen = k /\ b >= h /\ h = (k - cur'.count) + 1 /\ k \in Int /\ b \in Int
        /\ cur'.count \in Int /\ BlockLen \in Nat \ {0} /\ BlockLen <= MaskBits /\ MaskBits \in Nat
    BY <1>3, <1>5, <1>6, <1>7, Ranges, CursorInts DEF WindowInv, TypeOK, FecTypeOK, WindowTypeOK
  <1>9. FecOf(k).base = SeqOf(b) /\ FecOf(k).cover = 0 .. BlockLen - 1
    BY <1>7 DEF FecOf
  <1>10. distance(startSeq', SeqOf(b)) = b - h
    <2>1. last' \in 1 .. MaxSent
      BY <1>2
    <2>2. QED
      BY <2>1, <1>3, <1>6, NewPosition
  <1> DEFINE seen == Seen(SeqOf(b), SlotsFrom(cur', slots', b - h, (b - h) + MaskBits - 1))
  <1>11. NewFec(k).recv = (0 .. BlockLen - 1) \ seen
    BY <1>9, <1>10 DEF NewFec, MissingOf
  <1>12. ASSUME NEW o \in 0 .. BlockLen - 1
         PROVE  /\ o \in Int /\ b + o \in 1 .. k /\ b + o \in 1 .. MaxSent /\ b + o >= h /\ b + o < k
                /\ distance(SeqOf(b), SeqOf(b + o)) = o
    <2>1. o \in Int /\ b + o \in 1 .. k /\ b + o \in 1 .. MaxSent /\ b + o >= h /\ b + o < k
      BY <1>8, Ranges
    <2>2. PICK n \in 1 .. MaxSent : n = b + o
      BY <2>1
    <2>3. distance(SeqOf(b), SeqOf(n)) = n - b
      BY DistanceOf
    <2>4. QED
      BY <2>1, <2>2, <2>3, <1>8
  <1>13. ASSUME NEW o \in 0 .. BlockLen - 1, b + o \in arrived' PROVE o \in seen
    <2>1. PICK n \in 1 .. k : n = b + o
      BY <1>12
    <2>2. n >= Front' /\ n \in arrived'
      BY <2>1, <1>6, <1>12, <1>13
    <2>3. Here(n)'
      BY <2>2 DEF Here
    <2>4. Held(slots'[Place(n)'], n)
      BY <2>2, <2>3, OrderlySlots
    <2>5. Place(n)' = At(cur', n - h)
      BY <1>6 DEF Place
    <2>6. n - h \in b - h .. (b - h) + MaskBits - 1 /\ n - h < cur'.count
      BY <2>1, <1>8, <1>12
    <2>7. slots'[Place(n)'] \in SlotsFrom(cur', slots', b - h, (b - h) + MaskBits - 1)
      BY <2>5, <2>6 DEF SlotsFrom
    <2>8. distance(SeqOf(b), slots'[Place(n)'].seq) = o
      BY <2>1, <2>4, <1>12 DEF Held
    <2>9. QED
      BY <2>7, <2>8 DEF Seen
  <1>14. ASSUME NEW o \in 0 .. BlockLen - 1, b + o \notin arrived', o \in seen PROVE FALSE
    <2>1. PICK n \in 1 .. k : n = b + o
      BY <1>12
    <2>2. n \in 1 .. MaxSent /\ n < k /\ n \notin arrived' /\ n \in Int
      BY <2>1, <1>12, <1>14
    <2>3. Lost(n)'
      BY <2>2, <1>2 DEF Lost
    <2>4. ~ isFec(n) /\ 0 \notin Block(n)
      BY <2>2, <2>3 DEF Recoverables
    <2>5. ~ Here(n)'
      <3>1. n \in k - BlockLen .. k - 1
        BY <2>1, <2>2, <1>7, <1>8
      <3>2. Pending(n)'
        BY <3>1, <2>2, <1>2, <1>5 DEF Pending
      <3>3. QED
        BY <3>2, <2>2 DEF Here
    <2>6. \A c \in Cell : ~ Held(slots'[c], n)
      BY <2>5, OrderlySlots
    <2>7. PICK p \in b - h .. (b - h) + MaskBits - 1 :
            p < cur'.count /\ distance(SeqOf(b), slots'[At(cur', p)].seq) = o
      BY <1>14 DEF Seen, SlotsFrom
    <2>8. At(cur', p) \in Cell
      <3>1. cur' \in Cursor
        BY <1>3 DEF WindowInv, TypeOK, FecTypeOK, WindowTypeOK
      <3>2. cur'.head \in Int /\ p \in Int
        BY <3>1, <1>8, CursorInts
      <3>3. cur'.head + p \in Int
        BY <3>2
      <3>4. QED
        BY <3>3, ModCell DEF At
    <2>9. PICK c \in Cell : c = At(cur', p)
      BY <2>8
    <2>10. slots'[c].seq = SeqOf(n)
      <3>1. slots'[c].seq \in SeqNum
        BY <1>3 DEF WindowInv, TypeOK, FecTypeOK, WindowTypeOK, Slot
      <3>2. Plus(SeqOf(b), o) = slots'[c].seq
        BY <3>1, <2>7, <2>9, <1>8, SeqOfInt, PlusDistance
      <3>3. Plus(SeqOf(b), o) = SeqOf(b + o)
        BY <1>8, <1>12, PlusOf
      <3>4. QED
        BY <3>2, <3>3, <2>1
    <2>11. \/ slots'[c].seq = 0 /\ slots'[c].payload = None
           \/ slots'[c].payload # None
      BY <1>4 DEF SlotInv, Held
    <2>12. SeqOf(n) = 0
      BY <2>6, <2>10, <2>11 DEF Held
    <2>13. QED
      BY <2>2, <2>4, <2>12, OwnBlock
  <1> HIDE DEF seen
  <1>15. \A o \in 0 .. BlockLen - 1 : o \in seen <=> b + o \in arrived'
    BY <1>13, <1>14
  <1>16. (0 .. BlockLen - 1) \ seen = {o \in 0 .. BlockLen - 1 : b + o \notin arrived'}
    BY <1>15
  <1>17. QED
    BY <1>7, <1>11, <1>16

LEMMA ArriveHidden ==
  ASSUME Base, HiddenInv, NEW k \in 1 .. MaxSent, NEW due \in BOOLEAN, Arrive(k, due)
  PROVE  HiddenInv'
  <1> SUFFICES ASSUME Recoverables' PROVE Hidden'
    BY DEF HiddenInv
  <1>1. WindowInv
    BY DEF Base
  <1>2. Hidden /\ k > last /\ last' = k /\ arrived' = arrived \cup {k}
    BY <1>1, InOrder
  <1>3. /\ cur'.count = k \/ cur'.count = Capacity
        /\ \E r \in Front' .. k + 1 : nextSeq' = SeqOf(r)
    BY OrderlyWindow
  <1>4. last \in 0 .. MaxSent
    BY <1>1, WindowNumbers
  <1>5. Arrivals'
    <2>1. arrived' \subseteq 1 .. k
      BY <1>2, <1>4 DEF Hidden, Arrivals
    <2>2. QED
      BY <2>1, <1>2, <1>3 DEF Arrivals
  <1>6. There'
    <2>1. \A j \in 1 .. last' : j >= Front' /\ Here(j)' => Held(slots'[Place(j)'], j)
      BY <1>2, OrderlySlots
    <2>2. QED
      BY <2>1 DEF There, Held
  <1>7. Missing'
    <2>1. \A j \in 1 .. last' : ~ Here(j)' => \A c \in Cell : ~ Held(slots'[c], j)
      BY <1>2, OrderlySlots
    <2>2. QED
      BY <2>1 DEF Missing, Held
  <1>8. OneFec'
    <2>1. CASE ~ isFec(k) /\ feclist' = <<>> /\ pc' = "native"
      BY <2>1 DEF OneFec
    <2>2. CASE isFec(k) /\ feclist' = <<NewFec(k)>> /\ pc' = "ulpfec" /\ k - BlockLen >= Front'
      <3>1. Len(feclist') = 1 /\ feclist'[1] = NewFec(k)
        BY <2>2
      <3>2. NewFec(k).base = SeqOf(k - BlockLen)
        BY DEF NewFec, FecOf
      <3>3. NewFec(k).recv = {o \in 0 .. BlockLen - 1 : (k - BlockLen) + o \notin arrived'}
        BY <2>2, OrderlyMask
      <3> HIDE DEF NewFec
      <3>4. QED
        BY <3>1, <3>2, <3>3, <2>2, <1>2 DEF OneFec
    <2>3. QED
      BY <2>1, <2>2, OrderlyList
  <1>9. Reads'
    <2>1. isFull(cur') => pulling'
      BY DEF Arrive, Received
    <2>2. PICK r \in Front' .. k + 1 : nextSeq' = SeqOf(r)
      BY <1>3
    <2>3. QED
      BY <2>1, <2>2, <1>2 DEF Reads
  <1>10. QED
    BY <1>5, <1>6, <1>7, <1>8, <1>9 DEF Hidden

\* The front of the list recovers what is missing, if anything is, and is dropped.
LEMMA ProcessOne ==
  ASSUME Base, Recoverables, Hidden, processFEC, UNCHANGED <<arrived, last, pulling, calm, stale>>,
         feclist # <<>>, NEW b \in 1 .. last, b = last - BlockLen
  PROVE  /\ feclist' = <<>> /\ pc' = pc
         /\ \/ UNCHANGED slots /\ \A j \in 1 .. last : ~ Pending(j)
            \/ \E n \in Front .. last, r \in Slot :
                 /\ \A j \in 1 .. last : Pending(j) => j = n
                 /\ n \in 1 .. last /\ isFec(last) /\ n \notin arrived /\ Held(r, n) /\ Place(n) \in Cell
                 /\ slots' = [slots EXCEPT ![Place(n)] = r]
  <1> DEFINE f == Head(feclist)
  <1>1. WindowInv /\ SlotInv /\ ListInv
    BY DEF Base
  <1>2. /\ last \in 0 .. MaxSent /\ cur.count \in 0 .. Capacity /\ slots \in [Cell -> Slot]
        /\ Front \in Int /\ feclist \in Seq(FecData)
    BY <1>1, WindowNumbers DEF WindowInv, TypeOK, FecTypeOK
  <1>3. /\ Len(feclist) = 1 /\ isFec(last) /\ b >= Front
        /\ feclist[1].base = SeqOf(b)
        /\ feclist[1].recv = {o \in 0 .. BlockLen - 1 : b + o \notin arrived}
    BY DEF Hidden, OneFec
  <1>4. f = feclist[1] /\ Tail(feclist) = <<>>
    <2>1. f = feclist[1]
      BY <1>1, HeadFec
    <2>2. Len(Tail(feclist)) = 0 /\ Tail(feclist) \in Seq(FecData)
      BY <1>2, <1>3, HeadTailProperties
    <2>3. QED
      BY <2>1, <2>2, EmptySeq
  <1>5. PICK a \in 1 .. last : Fec(f, a) /\ Position(f.base) = a - Front
    BY <1>1, HeadFec
  <1>6. a = b /\ b \in 1 .. MaxSent /\ b \in Int /\ BlockLen \in Nat /\ b + BlockLen = last
    <2>1. a \in 1 .. MaxSent /\ b \in 1 .. MaxSent
      BY <1>2, Ranges
    <2>2. SeqOf(a) = SeqOf(b)
      BY <1>3, <1>4, <1>5 DEF Fec
    <2>3. QED
      BY <2>1, <2>2, <1>2, SeqOfInjective, BlockRanges
  <1>7. Fec(f, b) /\ Position(f.base) = b - Front
    BY <1>5, <1>6
  <1> HIDE DEF f
  <1>8. f.base = SeqOf(b) /\ f.cover = 0 .. BlockLen - 1
        /\ f.recv = {o \in 0 .. BlockLen - 1 : b + o \notin arrived}
    BY <1>3, <1>4, <1>7 DEF Fec
  <1>9. ASSUME NEW j \in 1 .. last, Pending(j) PROVE j - b \in f.recv /\ j = b + (j - b)
    <2>1. j \in b .. last - 1 /\ j \notin arrived /\ j \in Int /\ last \in Int
      BY <1>2, <1>9 DEF Pending
    <2>2. j - b \in 0 .. BlockLen - 1 /\ j = b + (j - b)
      BY <2>1, <1>6
    <2>3. QED
      BY <2>1, <2>2, <1>8
  <1>10. processFEC /\ feclist # <<>>
           => \/ \E offset \in f.recv :
                   /\ Recoverable(f, offset)
                   /\ \/ ReadsNull(f, offset) /\ pc' = "null" /\ UNCHANGED <<slots, feclist>>
                      \/ ~ ReadsNull(f, offset) /\ recoverULPFEC(f, offset) /\ feclist' = Tail(feclist) /\ UNCHANGED pc
              \/ /\ \A offset \in f.recv : ~ Recoverable(f, offset)
                 /\ UNCHANGED slots
                 /\ \/ Done(f) /\ feclist' = Tail(feclist) /\ UNCHANGED pc
                    \/ ~ Done(f) /\ pc' = "idle" /\ UNCHANGED feclist
    BY DEF processFEC, f
  <1>11. CASE f.recv = {}
    <2>1. Done(f)
      BY <1>11 DEF Done
    <2>2. UNCHANGED slots /\ feclist' = <<>> /\ pc' = pc
      BY <2>1, <1>4, <1>10, <1>11
    <2>3. \A j \in 1 .. last : ~ Pending(j)
      BY <1>9, <1>11
    <2>4. QED
      BY <2>2, <2>3
  <1>12. CASE f.recv # {}
    <2>1. PICK o \in f.recv : TRUE
      BY <1>12
    <2>2. o \in 0 .. BlockLen - 1 /\ b + o \notin arrived /\ o \in Int
      BY <2>1, <1>8, BlockRanges
    <2>3. PICK n \in 1 .. last : n = b + o /\ n < last /\ n \in 1 .. MaxSent
      <3>1. last \in Int /\ last <= MaxSent /\ MaxSent \in Int /\ b + BlockLen = last
            /\ b \in Int /\ b >= 1 /\ BlockLen \in Int
        BY <1>2, <1>6, Ranges
      <3>2. o >= 0 /\ o < BlockLen /\ o \in Int
        BY <3>1, <2>2
      <3>3. b + o \in Int /\ b + o >= 1 /\ b + o < last
        BY <3>1, <3>2
      <3>4. b + o \in 1 .. last /\ b + o \in 1 .. MaxSent
        BY <3>1, <3>3
      <3>5. QED
        BY <3>3, <3>4
    <2>4. n \notin arrived /\ n \in Int /\ Lost(n)
      BY <2>2, <2>3, <1>2 DEF Lost
    <2>5. ~ isFec(n) /\ 0 \notin Block(n) /\ Block(n) = Run(b)
      <3>1. ~ isFec(n) /\ 0 \notin Block(n)
        BY <2>3, <2>4 DEF Recoverables
      <3>2. b + BlockLen <= MaxSent /\ isFec(b + BlockLen)
        BY <1>2, <1>3, <1>6
      <3>3. QED
        BY <3>1, <3>2, <2>2, <2>3, <1>6, BlockRun
    <2>6. f.recv = {o}
      <3> SUFFICES ASSUME NEW p \in f.recv PROVE p = o
        BY <2>1
      <3>1. p \in 0 .. BlockLen - 1 /\ b + p \notin arrived /\ p \in Int
        BY <1>8, BlockRanges
      <3>2. PICK m \in 1 .. MaxSent : m = b + p /\ m < last
        BY <3>1, <1>2, <1>6, Ranges
      <3>3. Lost(m)
        BY <3>1, <3>2 DEF Lost
      <3>4. SeqOf(m) \in Run(b)
        BY <3>1, <3>2, <1>6 DEF Run
      <3>5. m = n
        BY <3>2, <3>3, <3>4, <2>3, <2>4, <2>5 DEF Recoverables
      <3>6. QED
        BY <3>1, <3>2, <3>5, <2>2, <2>3, <1>6
    <2>7. Plus(f.base, o) = SeqOf(n)
      BY <2>2, <2>3, <1>6, <1>8, PlusOf
    <2>8. Position(SeqOf(n)) = n - Front /\ n - Front \in 0 .. cur.count - 1 /\ n \in Front .. last
      <3>1. last > 0
        BY <2>3, <1>2
      <3>2. Position(SeqOf(n)) = n - Front
        BY <3>1, <2>3, <1>1, PositionOf
      <3>3. PICK g \in Int : g = Front
        BY <1>2
      <3>4. g = last - cur.count + 1 /\ n >= g
        BY <3>3, <2>2, <2>3, <1>3, <1>6 DEF Front
      <3>5. last \in Int /\ cur.count \in Int /\ n <= last /\ n \in Int
        BY <2>3, <1>2, Ranges
      <3>6. n - g \in 0 .. cur.count - 1 /\ n \in g .. last
        BY <3>3, <3>4, <3>5
      <3>7. QED
        BY <3>2, <3>3, <3>6
    <2>9. Place(n) \in Cell /\ SlotOf(SeqOf(n)) = slots[Place(n)]
      BY <2>4, <2>8, <1>1, PlaceCell DEF SlotOf, Place
    <2>10. slots[Place(n)].seq # SeqOf(n)
      <3>1. ~ Here(n)
        <4>1. n \in last - BlockLen .. last - 1
          BY <2>2, <2>3, <2>4, <1>2, <1>6
        <4>2. QED
          BY <4>1, <2>4 DEF Here, Pending
      <3>2. ~ Held(slots[Place(n)], n)
        BY <3>1, <2>3, <2>9 DEF Hidden, Missing
      <3>3. QED
        BY <3>2, <2>3, <2>5, <2>9, <1>1, NotStored
    <2>11. b - Front \in 0 .. cur.count - 1
      <3>1. PICK g \in Int : g = Front
        BY <1>2
      <3>2. g = last - cur.count + 1 /\ b >= g
        BY <3>1, <1>3 DEF Front
      <3>3. b - g \in 0 .. cur.count - 1
        <4>1. last \in Int /\ cur.count \in Int /\ BlockLen >= 1
          BY <1>2, BlockRanges, Ranges
        <4>2. b - g = (cur.count - 1) - BlockLen /\ b - g >= 0 /\ b - g \in Int
          BY <4>1, <3>1, <3>2, <1>6
        <4>3. QED
          BY <4>1, <4>2, <1>6
      <3>4. QED
        BY <3>1, <3>3
    <2>12. Recoverable(f, o)
      BY <2>6, <2>7, <2>8, <2>9, <2>10, <2>11, <1>7 DEF Recoverable, InWindow
    <2>13. \/ ReadsNull(f, o) /\ pc' = "null" /\ UNCHANGED <<slots, feclist>>
           \/ ~ ReadsNull(f, o) /\ recoverULPFEC(f, o) /\ feclist' = Tail(feclist) /\ UNCHANGED pc
      BY <2>6, <2>12, <1>10
    <2>14. ~ (ReadsNull(f, o) /\ pc' = "null" /\ UNCHANGED <<slots, feclist>>)
      <3> SUFFICES ASSUME pc' = "null", feclist' = feclist PROVE FALSE
        OBVIOUS
      <3>1. Base'
        BY ProcessBase
      <3>2. 0 \in {Plus(f.base, p) : p \in f.cover}
        BY <3>1 DEF Base, NullReadOnlyAtZero, f
      <3>3. PICK p \in 0 .. BlockLen - 1 : 0 = Plus(SeqOf(b), p)
        BY <3>2, <1>8
      <3>4. p \in Int
        BY <3>3, BlockRanges
      <3>5. 0 = SeqOf(b + p)
        BY <3>3, <3>4, <1>6, PlusOf
      <3>6. b + p \in b .. b + BlockLen - 1
        BY <3>3, <3>4, <1>6
      <3>7. 0 \in Run(b)
        BY <3>5, <3>6 DEF Run
      <3>8. QED
        BY <3>7, <2>5
    <2>15. ~ ReadsNull(f, o) /\ recoverULPFEC(f, o) /\ feclist' = <<>> /\ pc' = pc
      BY <2>13, <2>14, <1>4
    <2>16. slots' = [slots EXCEPT ![Place(n)] = Recovered(f, o, b)]
      <3>1. At(cur, Position(Plus(f.base, o))) = Place(n)
        BY <2>7, <2>8 DEF Place
      <3>2. QED
        BY <3>1, <2>3, <2>7, <2>15 DEF recoverULPFEC, Recovered, AddedCells
    <2>17. Recovered(f, o, b) \in Slot /\ Held(Recovered(f, o, b), n)
      BY <2>1, <2>3, <2>8, <2>15, <1>1, <1>7, RecoveredFits
    <2>18. \A j \in 1 .. last : Pending(j) => j = n
      <3> SUFFICES ASSUME NEW j \in 1 .. last, Pending(j) PROVE j = n
        OBVIOUS
      <3>1. j - b \in {o} /\ j = b + (j - b)
        BY <1>9, <2>6
      <3>2. QED
        BY <3>1, <2>3
    <2>19. QED
      BY <2>3, <2>4, <2>8, <2>9, <2>15, <2>16, <2>17, <2>18, <1>3
  <1>13. QED
    BY <1>11, <1>12

LEMMA ProcessHidden ==
  ASSUME Base, HiddenInv, processFEC, UNCHANGED <<arrived, last, pulling, calm, stale>>
  PROVE  HiddenInv'
  <1> SUFFICES ASSUME Recoverables' PROVE Hidden'
    BY DEF HiddenInv
  <1>1. Recoverables
    BY DEF Recoverables, Lost
  <1>2. Hidden
    BY <1>1 DEF HiddenInv
  <1>3. /\ cur' = cur /\ nextSeq' = nextSeq /\ arrived' = arrived /\ last' = last /\ pulling' = pulling
        /\ pc \in {"native", "ulpfec"}
    BY DEF processFEC
  <1>4. WindowInv /\ Front' = Front /\ \A j \in Int : Place(j)' = Place(j)
    BY <1>3 DEF Base, Front, Place
  <1>5. last \in 0 .. MaxSent /\ slots \in [Cell -> Slot] /\ cur \in Cursor
    BY <1>4, WindowNumbers
  <1>6. Arrivals'
    BY <1>2, <1>3 DEF Hidden, Arrivals
  <1>7. Reads'
    <2>1. \A j : Ended(j)' <=> Ended(j)
      BY <1>3 DEF Ended
    <2>2. last > 0 =>
            \E r \in Front .. last + 1 :
              nextSeq = SeqOf(r) /\ (isFull(cur) /\ ~ pulling => r = last + 1 \/ (r \notin arrived /\ ~ Ended(r)))
      BY <1>2 DEF Hidden, Reads
    <2> HIDE DEF Ended, Front
    <2>3. QED
      BY <2>1, <2>2, <1>3, <1>4 DEF Reads
  <1>8. CASE feclist = <<>>
    <2>1. slots' = slots /\ feclist' = feclist /\ pc' = "idle"
      BY <1>8 DEF processFEC
    <2>2. \A j : Here(j)' <=> Here(j)
      BY <2>1, <1>3 DEF Here, Ended, Pending
    <2>3. There'
      <3>1. \A j \in 1 .. last : j \in Int
        BY <1>5
      <3>2. QED
        BY <2>1, <2>2, <3>1, <1>2, <1>3, <1>4 DEF Hidden, There, Held
    <2>4. Missing'
      BY <2>1, <2>2, <1>2, <1>3 DEF Hidden, Missing, Held
    <2>5. OneFec'
      BY <2>1, <1>8 DEF OneFec
    <2>6. QED
      BY <2>3, <2>4, <2>5, <1>6, <1>7 DEF Hidden
  <1>9. CASE feclist # <<>>
    <2>1. PICK b \in 1 .. last : b = last - BlockLen
      <3>1. last - BlockLen >= Front /\ last > 0
        BY <1>2, <1>4, <1>9, HeadFec DEF Hidden, OneFec, Base
      <3>2. Front \in 1 .. last
        BY <3>1, <1>4 DEF WindowInv
      <3>3. PICK g \in 1 .. last : g = Front
        BY <3>2
      <3>4. QED
        BY <3>1, <3>3, <1>5, BlockRanges
    <2>2. feclist' = <<>> /\ pc' = pc
      BY <2>1, <1>1, <1>2, <1>9, ProcessOne
    <2>3. OneFec'
      BY <2>2, <1>2 DEF Hidden, OneFec
    <2>4. \A j : Here(j)' <=> j \in arrived \/ Ended(j)
      BY <2>2, <1>3 DEF Here, Ended, Pending
    <2>5. CASE UNCHANGED slots /\ \A j \in 1 .. last : ~ Pending(j)
      <3>1. \A j \in 1 .. last : j \in Int /\ (Here(j)' <=> Here(j))
        BY <2>4, <2>5, <1>5 DEF Here
      <3>2. There'
        BY <3>1, <2>5, <1>2, <1>3, <1>4 DEF Hidden, There, Held
      <3>3. Missing'
        BY <3>1, <2>5, <1>2, <1>3 DEF Hidden, Missing, Held
      <3>4. QED
        BY <3>2, <3>3, <2>3, <1>6, <1>7 DEF Hidden
    <2>6. CASE \E n \in Front .. last, r \in Slot :
                 /\ \A j \in 1 .. last : Pending(j) => j = n
                 /\ n \in 1 .. last /\ isFec(last) /\ n \notin arrived /\ Held(r, n) /\ Place(n) \in Cell
                 /\ slots' = [slots EXCEPT ![Place(n)] = r]
      <3>1. PICK n \in Front .. last, r \in Slot :
                 /\ \A j \in 1 .. last : Pending(j) => j = n
                 /\ n \in 1 .. last /\ isFec(last) /\ n \notin arrived /\ Held(r, n) /\ Place(n) \in Cell
                 /\ slots' = [slots EXCEPT ![Place(n)] = r]
        BY <2>6
      <3>2. \A c \in Cell : slots'[c] = IF c = Place(n) THEN r ELSE slots[c]
        BY <3>1, <1>5
      <3>3. ASSUME NEW j \in 1 .. last, j >= Front, Here(j)' PROVE Held(slots'[Place(j)], j)
        <4>1. j \in Int /\ Place(j) \in Cell
          BY <1>4, <1>5, PlaceCell
        <4>2. CASE j = n
          BY <4>1, <4>2, <3>1, <3>2
        <4>3. CASE j # n
          <5>1. Here(j)
            BY <4>3, <3>1, <3>3, <2>4 DEF Here
          <5>2. Held(slots[Place(j)], j)
            BY <5>1, <3>3, <1>2 DEF Hidden, There
          <5>3. Place(j) # Place(n)
            <6>1. PICK g \in Int : g = Front
              BY <1>4, WindowNumbers
            <6>2. g = last - cur.count + 1 /\ j \in g .. last /\ n \in g .. last /\ last \in Int
              BY <6>1, <3>1, <3>3, <4>1, <1>5 DEF Front
            <6>3. Place(j) = At(cur, j - g) /\ Place(n) = At(cur, n - g)
              BY <6>1 DEF Place
            <6>4. QED
              BY <6>1, <6>2, <6>3, <4>3, <1>5, PlaceInjective
          <5>4. QED
            BY <5>2, <5>3, <4>1, <3>2
        <4>4. QED
          BY <4>2, <4>3
      <3>4. There'
        <4>1. \A j \in 1 .. last : j \in Int
          BY <1>5
        <4>2. QED
          BY <3>3, <4>1, <1>3, <1>4 DEF There, Held
      <3>5. ASSUME NEW j \in 1 .. last, ~ Here(j)', NEW c \in Cell, Held(slots'[c], j) PROVE FALSE
        <4>1. j \notin arrived /\ ~ Ended(j)
          BY <3>5, <2>4
        <4>2. j # n
          <5>1. Ended(n)
            <6>1. last \in n .. last
              BY <3>1, <1>5
            <6>2. QED
              BY <6>1, <3>1 DEF Ended
          <5>2. QED
            BY <5>1, <4>1
        <4>3. ~ Held(slots[c], j)
          BY <4>1, <3>5, <1>2 DEF Hidden, Missing, Here
        <4>4. Held(r, j)
          BY <4>3, <3>2, <3>5
        <4>5. SeqOf(j) = SeqOf(n)
          BY <4>4, <3>1 DEF Held
        <4>6. j \in 1 .. MaxSent /\ n \in 1 .. MaxSent
          BY <3>1, <1>5, Ranges
        <4>7. QED
          BY <4>2, <4>5, <4>6, SeqOfInjective
      <3>6. Missing'
        BY <3>5, <1>3 DEF Missing, Held
      <3>7. QED
        BY <3>4, <3>6, <2>3, <1>6, <1>7 DEF Hidden
    <2>7. QED
      BY <2>1, <2>5, <2>6, <1>1, <1>2, <1>9, ProcessOne
  <1>10. QED
    BY <1>8, <1>9

\* The reader goes on by one packet, or waits.
LEMMA FlowHidden ==
  ASSUME Base, Recoverables, Hidden, processFlow
  PROVE  Reads' /\ nextSeq' \in {nextSeq, Plus(nextSeq, 1)}
  <1>1. WindowInv
    BY DEF Base
  <1>2. /\ UNCHANGED <<cur, slots, startSeq, lastSlot, held, feclist, pc, arrived, last>>
        /\ pulling /\ pc = "idle" /\ pulling' = (state' \in Success)
        /\ PullNext \/ PullNothing \/ PullEmpty
    BY DEF processFlow, nextSlotInOrder
  <1>3. /\ last \in 0 .. MaxSent /\ cur.count \in 0 .. Capacity /\ last > 0
        /\ Front \in 1 .. last /\ startSeq = SeqOf(Front) /\ feclist = <<>>
    BY <1>1, <1>2, WindowNumbers DEF WindowInv, Hidden, Arrivals, OneFec
  <1>4. PICK r \in Front .. last + 1 : nextSeq = SeqOf(r)
    BY <1>3 DEF Hidden, Reads
  <1>5. PICK g \in Int : g = Front
    BY <1>3
  <1>6. /\ g = last - cur.count + 1 /\ g \in 1 .. last /\ r \in Int /\ r \in g .. last + 1
        /\ startSeq = SeqOf(g) /\ Front' = g
    BY <1>2, <1>3, <1>4, <1>5 DEF Front
  <1>7. Position(nextSeq) = r - g
    <2>1. r - g \in -HalfRange .. HalfRange - 1
      BY <1>3, <1>6, Ranges
    <2>2. QED
      BY <2>1, <1>4, <1>6, DistanceNear DEF Position
  <1>8. Expected = nextSeq
    <2>1. ~ (r - g < 0)
      BY <1>6
    <2>2. QED
      BY <2>1, <1>7 DEF Expected
  <1>9. InWindow(nextSeq) <=> r <= last
    <2>1. r - g \in 0 .. cur.count - 1 <=> r <= last
      BY <1>3, <1>6, Ranges
    <2>2. QED
      BY <2>1, <1>7 DEF InWindow
  <1>10. SlotOf(nextSeq) = slots[Place(r)]
    BY <1>5, <1>7 DEF SlotOf, Place
  <1>11. \A j : Ended(j)' <=> Ended(j)
    BY <1>2 DEF Ended
  <1>12. CASE PullNext
    <2>1. r <= last /\ nextSeq' = Plus(nextSeq, 1) /\ pulling'
      BY <1>2, <1>8, <1>9, <1>12 DEF PullNext, Success
    <2>2. nextSeq' = SeqOf(r + 1)
      BY <2>1, <1>4, <1>6, PlusOf
    <2>3. PICK q \in Int : q = r + 1
      BY <1>6
    <2>4. q \in g .. last + 1 /\ nextSeq' = SeqOf(q)
      BY <2>1, <2>2, <2>3, <1>3, <1>6
    <2>5. Reads'
      BY <2>1, <2>4, <1>2, <1>6 DEF Reads
    <2>6. QED
      BY <2>1, <2>5
  <1>13. CASE PullEmpty
    <2>1. r <= last /\ nextSeq' = nextSeq
      BY <1>8, <1>9, <1>13 DEF PullEmpty
    <2>2. ~ valid(slots[Place(r)], SeqOf(r))
      BY <1>4, <1>8, <1>10, <1>13 DEF PullEmpty
    <2>3. ~ Held(slots[Place(r)], r)
      BY <2>2 DEF valid, Held
    <2>4. ~ Here(r)
      <3>1. r \in 1 .. last /\ r >= Front
        BY <2>1, <1>3, <1>5, <1>6
      <3>2. QED
        BY <2>3, <3>1 DEF Hidden, There
    <2>5. r \notin arrived /\ ~ Ended(r)
      BY <2>4, <1>3 DEF Here, Pending
    <2>6. Reads'
      BY <2>1, <2>5, <1>2, <1>4, <1>6, <1>11 DEF Reads
    <2>7. QED
      BY <2>1, <2>6
  <1>14. CASE PullNothing
    <2>1. nextSeq' = nextSeq /\ ~ (r <= last)
      BY <1>8, <1>9, <1>14 DEF PullNothing
    <2>2. r = last + 1
      BY <2>1, <1>3, <1>6
    <2>3. Reads'
      BY <2>1, <2>2, <1>2, <1>4, <1>6 DEF Reads
    <2>4. QED
      BY <2>1, <2>3
  <1>15. QED
    BY <1>2, <1>12, <1>13, <1>14

LEMMA ReadHidden ==
  ASSUME Base, HiddenInv, UNCHANGED <<cur, slots, feclist, pc, arrived, last, calm>>,
         Recoverables /\ Hidden => Reads', pulling' => last > 0
  PROVE  HiddenInv'
  <1> SUFFICES ASSUME Recoverables' PROVE Hidden'
    BY DEF HiddenInv
  <1>1. Recoverables
    BY DEF Recoverables, Lost
  <1>2. Hidden
    BY <1>1 DEF HiddenInv
  <1>3. Front' = Front /\ \A j : Place(j)' = Place(j)
    BY DEF Front, Place
  <1>4. \A j : Here(j)' <=> Here(j)
    BY DEF Here, Ended, Pending
  <1>5. There' /\ Missing'
    BY <1>2, <1>3, <1>4 DEF Hidden, There, Missing, Held
  <1>6. OneFec'
    BY <1>2, <1>3 DEF Hidden, OneFec
  <1>7. Arrivals'
    BY <1>2 DEF Hidden, Arrivals
  <1>8. QED
    BY <1>1, <1>2, <1>5, <1>6, <1>7 DEF Hidden

LEMMA InitHidden == Init => HiddenInv
  <1> SUFFICES ASSUME Init PROVE Hidden
    BY DEF HiddenInv
  <1>1. last = 0 /\ arrived = {} /\ pulling = FALSE /\ feclist = <<>> /\ pc = "idle" /\ cur.count = 0
    BY DEF Init, FecInit, WindowInit, Cleared
  <1>2. 1 .. last = {} /\ ~ (last > 0)
    BY <1>1
  <1>3. QED
    BY <1>1, <1>2 DEF Hidden, Arrivals, There, Missing, OneFec, Reads

LEMMA NextHidden == Base /\ HiddenInv /\ [Next]_vars => HiddenInv'
  <1> SUFFICES ASSUME Base, HiddenInv, [Next]_vars PROVE HiddenInv'
    OBVIOUS
  <1>1. ASSUME NEW k \in 1 .. MaxSent, NEW due \in BOOLEAN, Arrive(k, due) PROVE HiddenInv'
    BY <1>1, ArriveHidden
  <1>2. CASE processFEC /\ UNCHANGED <<arrived, last, pulling, calm, stale>>
    BY <1>2, ProcessHidden
  <1>3. CASE processFlow
    <2>1. UNCHANGED <<cur, slots, feclist, pc, arrived, last, calm>> /\ pulling
      BY <1>3 DEF processFlow, nextSlotInOrder
    <2>2. Recoverables /\ Hidden => Reads'
      BY <1>3, FlowHidden
    <2>3. Recoverables /\ Hidden => last > 0
      BY <2>1 DEF Hidden, Arrivals
    <2>4. SUFFICES ASSUME Recoverables PROVE HiddenInv'
      <3>1. Recoverables' => Recoverables
        BY <2>1 DEF Recoverables, Lost
      <3>2. QED
        BY <3>1 DEF HiddenInv
    <2>5. Hidden
      BY <2>4 DEF HiddenInv
    <2>6. QED
      BY <2>1, <2>2, <2>3, <2>4, <2>5, ReadHidden
  <1>4. CASE UNCHANGED vars
    <2>1. UNCHANGED <<cur, slots, feclist, pc, arrived, last, calm, pulling, nextSeq>>
      BY <1>4 DEF vars, fecVars, windowVars
    <2>2. Front' = Front /\ \A j : Ended(j)' <=> Ended(j)
      BY <2>1 DEF Front, Ended
    <2>3. HiddenInv'
      <3> SUFFICES ASSUME Recoverables' PROVE Hidden'
        BY DEF HiddenInv
      <3>1. Recoverables
        BY <2>1 DEF Recoverables, Lost
      <3>2. Hidden
        BY <3>1 DEF HiddenInv
      <3>3. Reads'
        BY <3>2, <2>1, <2>2 DEF Hidden, Reads
      <3>4. pulling' => last > 0
        BY <3>2, <2>1 DEF Hidden, Arrivals
      <3>5. HiddenInv'
        BY <3>3, <3>4, <2>1, ReadHidden
      <3>6. QED
        BY <3>5 DEF HiddenInv
    <2>4. QED
      BY <2>3
  <1>5. QED
    BY <1>1, <1>2, <1>3, <1>4 DEF Next

\* While packets come in order and of each block at most one is lost, after the
\* window was filled, the reader takes every packet in turn.
THEOREM LossesAlwaysHidden == Spec => LossesHidden
  <1>1. Spec => []HiddenInv
    BY AlwaysBase, InitHidden, NextHidden, PTL DEF Spec
  <1>2. Base /\ HiddenInv /\ [Next]_vars
          => [Recoverables /\ pulling => nextSeq' \in {nextSeq, Plus(nextSeq, 1)}]_vars
    <2> SUFFICES ASSUME Base, HiddenInv, Next, Recoverables, pulling
                 PROVE  nextSeq' \in {nextSeq, Plus(nextSeq, 1)}
      BY DEF vars
    <2>1. ASSUME NEW k \in 1 .. MaxSent, NEW due \in BOOLEAN, Arrive(k, due) PROVE FALSE
      BY <2>1 DEF Arrive
    <2>2. CASE processFEC
      BY <2>2 DEF processFEC
    <2>3. CASE processFlow
      BY <2>3, FlowHidden DEF HiddenInv
    <2>4. QED
      BY <2>1, <2>2, <2>3 DEF Next
  <1>3. QED
    BY <1>1, <1>2, AlwaysBase, PTL DEF Spec, LossesHidden
=============================================================================
