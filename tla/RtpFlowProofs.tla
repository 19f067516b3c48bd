---------------------------- MODULE RtpFlowProofs ---------------------------
(***************************************************************************)
(* Proofs about RtpFlow for every window size and every range of sequence  *)
(* numbers that is large enough for it (RangeAssumption), and, in the last *)
(* part, about RtpStream, the same flow behind a network without loss.     *)
(***************************************************************************)
EXTENDS RtpStream, CursorLemmas

-----------------------------------------------------------------------------
(* The arithmetic of sequence numbers, for every range: the sum and the    *)
(* signed distance agree as long as nothing is half the range away.        *)

\* A number within one turn of the ring, reduced.
Wrapped(a) == IF a < 0 THEN a + SeqRange ELSE IF a < SeqRange THEN a ELSE a - SeqRange

LEMMA WrappedMod ==
  ASSUME NEW a \in Int, -SeqRange <= a, a < 2 * SeqRange
  PROVE  a % SeqRange = Wrapped(a) /\ Wrapped(a) \in SeqNum
  <1>1. SeqRange \in Nat \ {0}
    BY HalfRangeAssumption DEF SeqRange
  <1>2. CASE a < 0
    BY <1>1, <1>2 DEF Wrapped, SeqNum
  <1>3. CASE 0 <= a /\ a < SeqRange
    BY <1>1, <1>3 DEF Wrapped, SeqNum
  <1>4. CASE SeqRange <= a
    BY <1>1, <1>4 DEF Wrapped, SeqNum
  <1>5. QED
    BY <1>1, <1>2, <1>3, <1>4

\* The sum without %.
LEMMA PlusWrapped ==
  ASSUME NEW s \in SeqNum, NEW d \in -SeqRange .. SeqRange
  PROVE  Plus(s, d) = Wrapped(s + d) /\ Plus(s, d) \in SeqNum
  <1> DEFINE a == s + d
  <1>1. a \in Int /\ -SeqRange <= a /\ a < 2 * SeqRange
    BY HalfRangeAssumption DEF SeqRange, SeqNum
  <1> HIDE DEF a
  <1>2. a % SeqRange = Wrapped(a) /\ Wrapped(a) \in SeqNum
    BY <1>1, WrappedMod
  <1>3. QED
    BY <1>2 DEF Plus, a

\* The distance without %: the difference, corrected by one turn.
LEMMA DistanceWrapped ==
  ASSUME NEW f \in SeqNum, NEW t \in SeqNum
  PROVE  /\ distance(f, t) \in -HalfRange .. HalfRange - 1
         /\ \/ distance(f, t) = t - f
            \/ distance(f, t) = t - f - SeqRange
            \/ distance(f, t) = t - f + SeqRange
  <1> DEFINE a == t - f
  <1>1. a \in Int /\ -SeqRange <= a /\ a < 2 * SeqRange
    BY HalfRangeAssumption DEF SeqRange, SeqNum
  <1> HIDE DEF a
  <1>2. a % SeqRange = Wrapped(a) /\ Wrapped(a) \in SeqNum
    BY <1>1, WrappedMod
  <1>3. distance(f, t) = IF Wrapped(a) < HalfRange THEN Wrapped(a) ELSE Wrapped(a) - SeqRange
    BY <1>2 DEF distance, a
  <1>4. QED
    BY <1>1, <1>2, <1>3, HalfRangeAssumption DEF Wrapped, SeqRange, SeqNum, a

\* A distance is the only small number that leads from one to the other.
LEMMA DistanceUnique ==
  ASSUME NEW f \in SeqNum, NEW d \in -HalfRange .. HalfRange - 1
  PROVE  Plus(f, d) \in SeqNum /\ distance(f, Plus(f, d)) = d
  <1>1. d \in -SeqRange .. SeqRange
    BY HalfRangeAssumption DEF SeqRange
  <1>2. Plus(f, d) = Wrapped(f + d) /\ Plus(f, d) \in SeqNum
    BY <1>1, PlusWrapped
  <1> DEFINE p == Plus(f, d)
             x == distance(f, p)
  <1>3. x \in -HalfRange .. HalfRange - 1 /\ (x = p - f \/ x = p - f - SeqRange \/ x = p - f + SeqRange)
    BY <1>2, DistanceWrapped
  <1> HIDE DEF p, x
  <1>4. p = Wrapped(f + d) /\ p \in SeqNum
    BY <1>2 DEF p
  <1>5. x = d
    BY <1>3, <1>4, HalfRangeAssumption DEF Wrapped, SeqRange, SeqNum
  <1>6. QED
    BY <1>2, <1>5 DEF x, p

\* Distances from the same place tell sequence numbers apart.
LEMMA DistanceInjective ==
  ASSUME NEW f \in SeqNum, NEW s \in SeqNum, NEW t \in SeqNum, distance(f, s) = distance(f, t)
  PROVE  s = t
  <1> DEFINE x == distance(f, s)
  <1>1. x = s - f \/ x = s - f - SeqRange \/ x = s - f + SeqRange
    BY DistanceWrapped
  <1>2. x = t - f \/ x = t - f - SeqRange \/ x = t - f + SeqRange
    BY DistanceWrapped
  <1>3. x \in Int
    BY DistanceWrapped, HalfRangeAssumption
  <1> HIDE DEF x
  <1>4. QED
    BY <1>1, <1>2, <1>3, HalfRangeAssumption DEF SeqRange, SeqNum

LEMMA DistanceZero ==
  ASSUME NEW f \in SeqNum
  PROVE  distance(f, f) = 0
  <1> DEFINE x == distance(f, f)
  <1>1. x \in -HalfRange .. HalfRange - 1 /\ (x = f - f \/ x = f - f - SeqRange \/ x = f - f + SeqRange)
    BY DistanceWrapped
  <1> HIDE DEF x
  <1>2. x = 0
    BY <1>1, HalfRangeAssumption DEF SeqRange, SeqNum
  <1>3. QED
    BY <1>2 DEF x

\* Distances add up while the sum stays on one side of the ring.
LEMMA DistanceAdds ==
  ASSUME NEW f \in SeqNum, NEW g \in SeqNum, NEW t \in SeqNum,
         distance(f, t) - distance(f, g) \in -HalfRange .. HalfRange - 1
  PROVE  distance(g, t) = distance(f, t) - distance(f, g)
  <1> DEFINE x == distance(f, t)
             y == distance(f, g)
             z == distance(g, t)
  <1>1. x \in -HalfRange .. HalfRange - 1 /\ (x = t - f \/ x = t - f - SeqRange \/ x = t - f + SeqRange)
    BY DistanceWrapped
  <1>2. y \in -HalfRange .. HalfRange - 1 /\ (y = g - f \/ y = g - f - SeqRange \/ y = g - f + SeqRange)
    BY DistanceWrapped
  <1>3. z \in -HalfRange .. HalfRange - 1 /\ (z = t - g \/ z = t - g - SeqRange \/ z = t - g + SeqRange)
    BY DistanceWrapped
  <1>4. x - y \in -HalfRange .. HalfRange - 1
    OBVIOUS
  <1> HIDE DEF x, y, z
  <1>5. z = x - y
    BY <1>1, <1>2, <1>3, <1>4, HalfRangeAssumption DEF SeqRange, SeqNum
  <1>6. QED
    BY <1>5 DEF x, y, z

\* Moving the place distances are counted from.
LEMMA DistanceFrom ==
  ASSUME NEW f \in SeqNum, NEW t \in SeqNum, NEW d \in -HalfRange .. HalfRange - 1,
         distance(f, t) - d \in -HalfRange .. HalfRange - 1
  PROVE  Plus(f, d) \in SeqNum /\ distance(Plus(f, d), t) = distance(f, t) - d
  <1>1. Plus(f, d) \in SeqNum /\ distance(f, Plus(f, d)) = d
    BY DistanceUnique
  <1>2. QED
    BY <1>1, DistanceAdds

\* One forward, one back.
LEMMA PlusBack ==
  ASSUME NEW s \in SeqNum
  PROVE  Plus(s, 1) \in SeqNum /\ Plus(Plus(s, 1), -1) = s
  <1> DEFINE p == Plus(s, 1)
  <1>1. 1 \in -SeqRange .. SeqRange /\ -1 \in -SeqRange .. SeqRange
    BY HalfRangeAssumption DEF SeqRange
  <1>2. p = Wrapped(s + 1) /\ p \in SeqNum
    BY <1>1, PlusWrapped
  <1> HIDE DEF p
  <1>3. Plus(p, -1) = Wrapped(p + (-1))
    BY <1>1, <1>2, PlusWrapped
  <1>4. Wrapped(p + (-1)) = s
    BY <1>2, HalfRangeAssumption DEF Wrapped, SeqRange, SeqNum
  <1>5. QED
    BY <1>2, <1>3, <1>4 DEF p

-----------------------------------------------------------------------------
(* The inductive invariant.                                                *)

\* Only while it pulls from a full window may the reader find that the window
\* slid past it; it is ahead of the window only after packets were put in
\* front of it, which fills the window.
ReaderBounds ==
  /\ Position(nextSeq) >= IF isFull(cur) /\ pc = "pull" THEN -Capacity ELSE 0
  /\ Position(nextSeq) <= IF isFull(cur) THEN 3 * Capacity ELSE cur.count

\* What the depacker has seen is behind the reader.
Behind == \A s \in held : s \notin pending => Position(s) < Position(nextSeq)

IInv ==
  /\ TypeOK
  /\ Linked(cur)
  /\ WindowHolds
  /\ ReaderBounds
  /\ Behind
  /\ PulledDry

-----------------------------------------------------------------------------
(* Inserting a packet.                                                     *)

LEMMA Ranges ==
  /\ Capacity \in Nat \ {0}
  /\ HalfRange \in Nat
  /\ 3 * Capacity < HalfRange
  BY CapacityAssumption, HalfRangeAssumption, RangeAssumption

\* From the start to a sequence number and back.
LEMMA PlusPosition ==
  ASSUME NEW f \in SeqNum, NEW t \in SeqNum
  PROVE  Plus(f, distance(f, t)) = t
  <1>1. distance(f, t) \in -HalfRange .. HalfRange - 1
    BY DistanceWrapped
  <1>2. Plus(f, distance(f, t)) \in SeqNum /\ distance(f, Plus(f, distance(f, t))) = distance(f, t)
    BY <1>1, DistanceUnique
  <1>3. QED
    BY <1>2, DistanceInjective

\* The window after its start has moved by d and a packet was placed: whatever
\* was accepted and is still inside is where its sequence number says.
LEMMA PlaceHolds ==
  ASSUME WindowTypeOK, WindowHolds,
         NEW pkt \in Packet, NEW normal, NEW d \in -(2 * Capacity) .. Capacity,
         cur' \in Cursor,
         startSeq' = Plus(startSeq, d),
         \A i \in Int : At(cur', i - d) = At(cur, i),
         Position(pkt.seq) - d \in 0 .. cur'.count - 1,
         checkPlaceSlot(pkt, At(cur', Position(pkt.seq) - d), normal)
  PROVE  /\ startSeq' \in SeqNum
         /\ slots' \in [Cell -> Slot]
         /\ lastSlot' \in Cell
         /\ held' \subseteq held \cup {pkt.seq}
         /\ \A s \in held' : distance(startSeq', s) = Position(s) - d
         /\ WindowHolds'
  <1> DEFINE p == Position(pkt.seq) - d
             c == At(cur', p)
  <1>1. /\ startSeq \in SeqNum /\ cur \in Cursor /\ held \subseteq SeqNum
        /\ slots \in [Cell -> Slot] /\ lastSlot \in Cell /\ pkt.seq \in SeqNum
        /\ pkt.payload \in Payload /\ pkt \in Slot
    BY DEF WindowTypeOK, Packet, Slot
  <1>2. cur.count \in 0 .. Capacity /\ cur'.count \in 0 .. Capacity
    BY <1>1, CursorInts
  <1>3. d \in -HalfRange .. HalfRange - 1
    BY Ranges
  <1>4. \A s \in held : Position(s) \in 0 .. Capacity - 1
    BY <1>2, Ranges DEF WindowHolds, InWindow
  <1>5. ASSUME NEW s \in SeqNum, Position(s) - d \in -HalfRange .. HalfRange - 1
        PROVE  startSeq' \in SeqNum /\ distance(startSeq', s) = Position(s) - d
    <2>1. distance(startSeq, s) - d \in -HalfRange .. HalfRange - 1
      BY <1>5 DEF Position
    <2>2. QED
      BY <1>1, <1>3, <2>1, DistanceFrom DEF Position
  <1>6. p \in 0 .. Capacity - 1 /\ p \in -HalfRange .. HalfRange - 1 /\ p \in 0 .. cur'.count - 1
    BY <1>2, Ranges
  <1>7. startSeq' \in SeqNum /\ distance(startSeq', pkt.seq) = p
    BY <1>1, <1>5, <1>6
  <1>8. \A s \in held : distance(startSeq', s) = Position(s) - d
    <2>1. \A s \in held : Position(s) - d \in -HalfRange .. HalfRange - 1
      BY <1>4, Ranges
    <2>2. QED
      BY <1>1, <1>5, <2>1
  <1>9. c \in Cell
    BY <1>6, AtCell DEF Cell
  <1> HIDE DEF p
  <1>10. checkPlaceSlot(pkt, c, normal)
    BY DEF p
  <1> HIDE DEF c
  <1>11. held' \subseteq held \cup {pkt.seq}
    BY <1>10 DEF checkPlaceSlot, StillHeld, Accepted
  <1>12. \A s \in held' : distance(startSeq', s) \in 0 .. cur'.count - 1
    BY <1>10 DEF checkPlaceSlot, StillHeld
  <1>13. \A s \in held' : distance(startSeq', s) = Position(s) - d
    BY <1>7, <1>8, <1>11 DEF p
  <1>14. slots' \in [Cell -> Slot] /\ lastSlot' \in Cell
    BY <1>1, <1>9, <1>10 DEF checkPlaceSlot, emplaceSlot, Stored
  <1>15. ASSUME NEW s \in held'
         PROVE  valid(slots'[At(cur', distance(startSeq', s))], s)
    <2> DEFINE q == distance(startSeq', s)
    <2>1. q \in 0 .. Capacity - 1 /\ q = Position(s) - d
      BY <1>2, <1>12, <1>13, <1>15, Ranges
    <2>2. CASE s = pkt.seq
      <3>1. At(cur', q) = c
        BY <2>2, <1>7 DEF c
      <3>2. CASE valid(slots[c], pkt.seq)
        BY <3>1, <3>2, <2>2, <1>10 DEF checkPlaceSlot
      <3>3. CASE ~valid(slots[c], pkt.seq)
        <4>1. slots' = [slots EXCEPT ![c] = Stored(pkt, slots[c])]
          BY <3>3, <1>10 DEF checkPlaceSlot, emplaceSlot
        <4>2. s \notin held
          <5>1. ASSUME s \in held PROVE FALSE
            <6>1. valid(slots[At(cur, Position(s))], s) /\ Position(s) \in Int
              BY <5>1, <1>4 DEF WindowHolds, SlotOf
            <6>2. At(cur, Position(s)) = At(cur', Position(s) - d)
              BY <6>1
            <6>3. QED
              BY <6>1, <6>2, <3>1, <3>3, <2>1, <2>2
          <5>2. QED
            BY <5>1
        <4>3. s \in Accepted(pkt)
          BY <3>3, <4>2, <1>10, <1>15 DEF checkPlaceSlot, StillHeld
        <4>4. slots'[c] = pkt
          BY <4>1, <4>3, <1>1, <1>9 DEF Stored, Accepted
        <4>5. pkt.payload # None
          BY <1>1, PayloadAssumption
        <4>6. QED
          BY <4>4, <4>5, <3>1, <2>2 DEF valid
      <3>4. QED
        BY <3>2, <3>3
    <2>3. CASE s # pkt.seq
      <3>1. s \in held /\ Position(s) \in Int
        BY <2>3, <1>4, <1>11, <1>15
      <3>2. At(cur', q) = At(cur, Position(s))
        BY <3>1, <2>1
      <3>3. valid(slots[At(cur', q)], s)
        BY <3>1, <3>2 DEF WindowHolds, SlotOf
      <3>4. q # p
        BY <2>3, <3>1, <1>1, <1>7, DistanceInjective
      <3>5. At(cur', q) # c
        BY <3>4, <2>1, <1>6, AtInjective DEF c
      <3>6. At(cur', q) \in Cell
        BY <2>1, AtCell DEF Cell
      <3>7. slots'[At(cur', q)] = slots[At(cur', q)]
        BY <3>5, <3>6, <1>1, <1>10 DEF checkPlaceSlot, emplaceSlot
      <3>8. QED
        BY <3>3, <3>7
    <2>4. QED
      BY <2>2, <2>3
  <1>16. WindowHolds'
    BY <1>12, <1>15 DEF WindowHolds, InWindow, SlotOf, Position
  <1>17. QED
    BY <1>7, <1>11, <1>13, <1>14, <1>16

\* processRTP when the window moved by d and the packet was placed.
LEMMA PlaceStep ==
  ASSUME IInv, cur.count > 0,
         NEW pkt \in Packet, NEW due \in BOOLEAN,
         NEW normal \in Success, NEW d \in -(2 * Capacity) .. Capacity,
         cur' \in Cursor, Linked(cur'), cur'.count >= cur.count,
         d # 0 => isFull(cur'),
         isFull(cur) => d >= 0,
         startSeq' = Plus(startSeq, d),
         nextSeq' = nextSeq,
         \A i \in Int : At(cur', i - d) = At(cur, i),
         Position(pkt.seq) - d \in 0 .. cur'.count - 1,
         checkPlaceSlot(pkt, At(cur', Position(pkt.seq) - d), normal),
         Received(due),
         pending' = {s \in held' : s \in held => s \in pending}
  PROVE  IInv'
  <1>1. /\ WindowTypeOK /\ WindowHolds /\ ReaderBounds /\ Behind
        /\ startSeq \in SeqNum /\ nextSeq \in SeqNum /\ held \subseteq SeqNum /\ pkt.seq \in SeqNum
        /\ cur \in Cursor
        /\ pc = "read" /\ pc' = IF isFull(cur') \/ due THEN "pull" ELSE "read"
        /\ depacked' = None /\ opened' = TRUE
    BY DEF IInv, TypeOK, WindowTypeOK, Packet, Received
  <1>2. /\ startSeq' \in SeqNum
        /\ slots' \in [Cell -> Slot]
        /\ lastSlot' \in Cell
        /\ held' \subseteq held \cup {pkt.seq}
        /\ \A s \in held' : distance(startSeq', s) = Position(s) - d
        /\ WindowHolds'
    BY <1>1, PlaceHolds
  <1>3. cur.count \in 1 .. Capacity /\ cur'.count \in 1 .. Capacity
    BY <1>1, CursorInts, Ranges
  <1>4. Position(nextSeq) \in Int
    BY <1>1, DistanceWrapped, Ranges DEF Position
  <1>5. Position(nextSeq) >= 0 /\ Position(nextSeq) <= IF isFull(cur) THEN 3 * Capacity ELSE cur.count
    BY <1>1 DEF ReaderBounds
  <1>6. Position(nextSeq) - d \in -Capacity .. 3 * Capacity
    BY <1>3, <1>4, <1>5, Ranges DEF isFull
  <1>7. Position(nextSeq)' = Position(nextSeq) - d
    <2>1. distance(startSeq, nextSeq) - d \in -HalfRange .. HalfRange - 1 /\ d \in -HalfRange .. HalfRange - 1
      BY <1>6, Ranges DEF Position
    <2>2. QED
      BY <2>1, <1>1, DistanceFrom DEF Position
  <1>8. TypeOK'
    <2>1. state' \in Failure \cup Success
      BY DEF checkPlaceSlot, Failure, Success
    <2>2. pending' \subseteq SeqNum /\ held' \subseteq SeqNum
      BY <1>1, <1>2
    <2>3. QED
      BY <2>1, <2>2, <1>1, <1>2 DEF TypeOK, WindowTypeOK
  <1>9. Linked(cur')
    OBVIOUS
  <1>11. ReaderBounds'
    <2>1. pc' = "pull" \/ ~isFull(cur')
      BY <1>1
    <2>2. CASE isFull(cur')
      BY <2>1, <2>2, <1>3, <1>6, <1>7, Ranges DEF ReaderBounds, isFull
    <2>3. CASE ~isFull(cur')
      <3>1. d = 0 /\ ~isFull(cur)
        BY <2>3, <1>3, <1>1 DEF isFull
      <3>2. QED
        BY <2>3, <3>1, <1>3, <1>4, <1>5, <1>7, Ranges DEF ReaderBounds, isFull
    <2>4. QED
      BY <2>2, <2>3
  <1>12. Behind'
    <2> SUFFICES ASSUME NEW s \in held', s \notin pending'
                 PROVE  Position(s)' < Position(nextSeq)'
      BY DEF Behind, Position
    <2>1. s \in held /\ s \notin pending
      OBVIOUS
    <2>2. Position(s) < Position(nextSeq) /\ Position(s) \in Int
      BY <2>1, <1>1, DistanceWrapped, Ranges DEF Behind, Position
    <2>3. Position(s)' = Position(s) - d
      BY <1>2 DEF Position
    <2>4. QED
      BY <2>2, <2>3, <1>4, <1>7
  <1>13. PulledDry'
    BY <1>1 DEF PulledDry
  <1>14. QED
    BY <1>2, <1>8, <1>9, <1>11, <1>12, <1>13 DEF IInv

\* processRTP when the window was reset.
LEMMA ResetStep ==
  ASSUME IInv,
         NEW pkt \in Packet, NEW due \in BOOLEAN, NEW result \in Success,
         pkt.seq \notin held,
         reset(pkt, result),
         Received(due),
         pending' = {s \in held' : s \in held => s \in pending}
  PROVE  IInv'
  <1>1. /\ slots \in [Cell -> Slot] /\ lastSlot \in Cell
        /\ pkt.seq \in SeqNum /\ pkt.payload \in Payload /\ pkt \in Slot
        /\ pc' = IF isFull(cur') \/ due THEN "pull" ELSE "read"
        /\ depacked' = None /\ opened' = TRUE
    BY DEF IInv, TypeOK, WindowTypeOK, Packet, Slot, Received
  <1> DEFINE t == After(0)
  <1>2. t \in Cell
    BY Ranges DEF After, Cell
  <1>3. cur' = [head |-> t, tail |-> t, count |-> 1]
    BY Ranges DEF reset, shiftBack, Cleared, isFull, isEmpty
  <1> HIDE DEF t
  <1>4. cur' \in Cursor
    BY <1>2, <1>3, Ranges DEF Cursor
  <1>5. At(cur', 0) = t
    BY <1>2, <1>3, Ranges DEF At, Cell
  <1>6. Linked(cur')
    BY <1>3, <1>5 DEF Linked
  <1>7. /\ slots' = [slots EXCEPT ![t] = Stored(pkt, slots[t])]
        /\ lastSlot' = t
        /\ startSeq' = pkt.seq /\ nextSeq' = pkt.seq /\ state' = result
        /\ held' = Accepted(pkt)
    BY <1>3 DEF reset, emplaceSlot
  <1>8. distance(startSeq', pkt.seq) = 0 /\ Position(nextSeq)' = 0
    BY <1>1, <1>7, DistanceZero DEF Position
  <1>9. held' \subseteq {pkt.seq} /\ pending' = held'
    BY <1>7 DEF Accepted
  <1>10. TypeOK'
    <2>1. slots' \in [Cell -> Slot]
      BY <1>1, <1>2, <1>7 DEF Stored
    <2>2. QED
      BY <2>1, <1>1, <1>2, <1>4, <1>7, <1>9 DEF TypeOK, WindowTypeOK
  <1>11. WindowHolds'
    <2> SUFFICES ASSUME NEW s \in held'
                 PROVE  /\ distance(startSeq', s) \in 0 .. cur'.count - 1
                        /\ valid(slots'[At(cur', distance(startSeq', s))], s)
      BY DEF WindowHolds, InWindow, SlotOf, Position
    <2>1. s = pkt.seq /\ pkt.payload \notin Oversize
      BY <1>7 DEF Accepted
    <2>2. slots'[t] = pkt
      BY <2>1, <1>1, <1>2, <1>7 DEF Stored
    <2>3. QED
      BY <2>1, <2>2, <1>1, <1>3, <1>5, <1>8, PayloadAssumption DEF valid
  <1>12. ReaderBounds'
    BY <1>3, <1>8, Ranges DEF ReaderBounds
  <1>13. Behind'
    BY <1>9 DEF Behind
  <1>14. PulledDry'
    BY <1>1 DEF PulledDry
  <1>15. QED
    BY <1>6, <1>10, <1>11, <1>12, <1>13, <1>14 DEF IInv

\* shiftBack(n) makes room for the packet at position count + n - 1.
LEMMA SlideStep ==
  ASSUME IInv, cur.count > 0,
         NEW pkt \in Packet, NEW due \in BOOLEAN, NEW normal \in Success,
         NEW n \in 1 .. cur.count, Position(pkt.seq) = cur.count + n - 1,
         Slide(n),
         checkPlaceSlot(pkt, cur'.tail, normal),
         Received(due),
         pending' = {s \in held' : s \in held => s \in pending}
  PROVE  IInv'
  <1> DEFINE d == OverNum(cur, n)
  <1>1. cur \in Cursor /\ Linked(cur) /\ cur.count \in 1 .. Capacity
    BY CursorInts, Ranges DEF IInv, TypeOK, WindowTypeOK
  <1>2. n \in Nat \ {0}
    BY <1>1
  <1>3. /\ cur' \in Cursor
        /\ Linked(cur')
        /\ cur'.count = cur.count + n - d
        /\ d \in 0 .. n
    BY <1>1, <1>2, ShiftBackN DEF Slide
  <1>4. d = IF cur.count + n <= Capacity THEN 0 ELSE cur.count + n - Capacity
    BY <1>1, <1>2, Ranges DEF OverNum, Excess
  <1>5. startSeq' = Plus(startSeq, d) /\ nextSeq' = nextSeq
    BY DEF Slide
  <1>6. \A i \in Int : At(cur', i - d) = At(cur, i)
    BY <1>1, <1>2, ShiftBackKeeps DEF Slide
  <1> HIDE DEF d
  <1>7. /\ d \in -(2 * Capacity) .. Capacity
        /\ d # 0 => isFull(cur')
        /\ isFull(cur) => d >= 0
        /\ cur'.count >= cur.count
    BY <1>1, <1>2, <1>3, <1>4, Ranges DEF isFull
  <1>8. Position(pkt.seq) - d = cur'.count - 1 /\ Position(pkt.seq) - d \in 0 .. cur'.count - 1
    BY <1>1, <1>2, <1>3, <1>7
  <1>9. cur'.tail = At(cur', Position(pkt.seq) - d)
    BY <1>1, <1>3, <1>7, <1>8 DEF Linked
  <1>10. QED
    BY <1>3, <1>5, <1>6, <1>7, <1>8, <1>9, PlaceStep

\* A packet that leaves the window alone: an older one, or one of another
\* codec.
LEMMA TurnedDownStep ==
  ASSUME IInv, NEW due \in BOOLEAN, Received(due),
         UNCHANGED <<cur, slots, startSeq, nextSeq, lastSlot, held>>,
         state' \in Failure,
         pending' \subseteq SeqNum,
         \A s \in held : s \in pending => s \in pending'
  PROVE  IInv'
  <1>1. /\ pc = "read" /\ pc' = IF isFull(cur') \/ due THEN "pull" ELSE "read"
        /\ depacked' = None /\ opened' = TRUE
    BY DEF Received
  <1>2. TypeOK'
    BY <1>1 DEF IInv, TypeOK, WindowTypeOK
  <1>3. WindowHolds' /\ Linked(cur')
    BY DEF IInv, WindowHolds, InWindow, SlotOf, Position
  <1>4. ReaderBounds'
    <2>1. Position(nextSeq) \in Int /\ Position(nextSeq)' = Position(nextSeq)
      BY DistanceWrapped, Ranges DEF Position, IInv, TypeOK, WindowTypeOK
    <2>2. Position(nextSeq) >= 0 /\ Position(nextSeq) <= IF isFull(cur) THEN 3 * Capacity ELSE cur.count
      BY <1>1 DEF IInv, ReaderBounds
    <2>3. QED
      BY <2>1, <2>2, Ranges DEF ReaderBounds
  <1>5. Behind'
    BY DEF IInv, Behind, Position
  <1>6. PulledDry'
    BY <1>1 DEF PulledDry
  <1>7. QED
    BY <1>2, <1>3, <1>4, <1>5, <1>6 DEF IInv

LEMMA ProcessRTPStep ==
  ASSUME IInv, NEW pkt \in Packet, NEW due \in BOOLEAN, processRTP(pkt, due)
  PROVE  IInv'
  <1>1. /\ Received(due)
        /\ pending' = {s \in held' : s \in held => s \in pending}
    BY DEF processRTP
  <1>2. /\ cur \in Cursor /\ Linked(cur) /\ cur.count \in 0 .. Capacity
        /\ startSeq \in SeqNum /\ pkt.seq \in SeqNum
        /\ TypeOK /\ WindowTypeOK /\ held \subseteq SeqNum
    BY CursorInts DEF IInv, TypeOK, WindowTypeOK, Packet
  <1>3. Position(pkt.seq) \in Int
    BY <1>2, DistanceWrapped, Ranges DEF Position
  <1>4. pkt.seq \in held => Position(pkt.seq) \in 0 .. cur.count - 1
    BY DEF IInv, WindowHolds, InWindow
  <1>5. CASE FirstPacket(pkt)
    <2>1. pkt.seq \notin held
      BY <1>5, <1>4 DEF FirstPacket, isEmpty
    <2>2. QED
      BY <2>1, <1>1, <1>5, ResetStep DEF FirstPacket, Success
  <1>6. CASE OutOfOrder(pkt)
    <2>1. pkt.seq \notin held
      BY <1>2, <1>3, <1>4, <1>6, Ranges DEF OutOfOrder, FarAway
    <2>2. QED
      BY <2>1, <1>1, <1>6, ResetStep DEF OutOfOrder, Success
  <1>7. CASE TooNew(pkt)
    <2>1. pkt.seq \notin held
      BY <1>2, <1>3, <1>4, <1>7, Ranges DEF TooNew, isEmpty
    <2>2. QED
      BY <2>1, <1>1, <1>7, ResetStep DEF TooNew, Success
  <1>8. CASE OlderPacket(pkt)
    <2>1. UNCHANGED <<cur, slots, startSeq, nextSeq, lastSlot, held>> /\ state' \in Failure
      BY <1>8 DEF OlderPacket, Failure
    <2>2. pending' \subseteq SeqNum /\ \A s \in held : s \in pending => s \in pending'
      BY <2>1, <1>1, <1>2
    <2>3. QED
      BY <2>1, <2>2, <1>1, TurnedDownStep
  <1>9. CASE Prepend(pkt)
    <2> DEFINE d == Position(pkt.seq)
               n == -d
    <2>1. /\ cur.count > 0 /\ d < 0 /\ d >= -(2 * Capacity)
          /\ ~isFull(cur) /\ cur.count + n >= Capacity
          /\ cur' = unshiftFrontN(cur, n)
          /\ startSeq' = pkt.seq /\ nextSeq' = nextSeq
          /\ checkPlaceSlot(pkt, cur'.head, "kPrepend")
      BY <1>2, <1>3, <1>9, Ranges DEF Prepend, isEmpty, FarAway, OutOfDate
    <2>2. n \in Nat \ {0} /\ n \in Nat
      BY <2>1, <1>3
    <2> HIDE DEF n
    <2>3. /\ cur' \in Cursor
          /\ Linked(cur')
          /\ cur'.count = cur.count + n - OverNum(cur, n)
      BY <1>2, <2>1, <2>2, UnshiftFrontN
    <2>4. cur'.count = Capacity
      BY <2>1, <2>2, <2>3, <1>2, Ranges DEF OverNum, Excess
    <2>5. \A i \in Int : At(cur', i + n) = At(cur, i)
      BY <2>1, <2>2, <1>2, UnshiftFrontKeeps
    <2>6. \A i \in Int : At(cur', i - d) = At(cur, i)
      BY <2>5, <1>3 DEF n
    <2>7. startSeq' = Plus(startSeq, d)
      BY <2>1, <1>2, PlusPosition DEF Position
    <2> HIDE DEF d
    <2>8. Position(pkt.seq) - d = 0
      BY <1>3 DEF d
    <2>9. cur'.head = At(cur', Position(pkt.seq) - d)
      BY <2>3, <2>8, CursorInts, Ranges DEF At
    <2>10. /\ d \in -(2 * Capacity) .. Capacity
           /\ isFull(cur')
           /\ cur'.count >= cur.count
           /\ Position(pkt.seq) - d \in 0 .. cur'.count - 1
           /\ "kPrepend" \in Success
      BY <2>1, <2>4, <2>8, <1>2, <1>3, Ranges DEF isFull, d, Success
    <2>11. QED
      BY <2>1, <2>3, <2>6, <2>7, <2>9, <2>10, <1>1, PlaceStep
  <1>10. CASE Disorder(pkt)
    <2>1. /\ Position(pkt.seq) \in 0 .. cur.count - 1
          /\ cur' = cur /\ startSeq' = startSeq /\ nextSeq' = nextSeq
          /\ checkPlaceSlot(pkt, At(cur, Position(pkt.seq)), "kDisorderPacket")
      BY <1>10 DEF Disorder, InWindow
    <2>2. startSeq' = Plus(startSeq, 0)
      BY <2>1, <1>2, HalfRangeAssumption DEF Plus, SeqNum, SeqRange
    <2>3. /\ \A i \in Int : i - 0 = i
          /\ 0 \in -(2 * Capacity) .. Capacity
          /\ cur.count > 0 /\ cur'.count >= cur.count
          /\ Position(pkt.seq) - 0 = Position(pkt.seq)
          /\ "kDisorderPacket" \in Success
      BY <2>1, <1>2, <1>3, Ranges DEF Success
    <2>4. /\ \A i \in Int : At(cur', i - 0) = At(cur, i)
          /\ checkPlaceSlot(pkt, At(cur', Position(pkt.seq) - 0), "kDisorderPacket")
          /\ Position(pkt.seq) - 0 \in 0 .. cur'.count - 1
          /\ isFull(cur) => 0 >= 0
      BY <2>1, <2>3
    <2>5. cur' \in Cursor /\ Linked(cur')
      BY <2>1, <1>2
    <2>6. QED
      BY <2>1, <2>2, <2>3, <2>4, <2>5, <1>1, PlaceStep
  <1>11. CASE NextPacket(pkt)
    <2>1. cur.count > 0 /\ 1 \in 1 .. cur.count /\ Position(pkt.seq) = cur.count + 1 - 1
      BY <1>2, <1>11 DEF NextPacket, isEmpty
    <2>2. QED
      BY <2>1, <1>1, <1>11, SlideStep DEF NextPacket, Success
  <1>12. CASE Jump(pkt)
    <2> DEFINE n == Position(pkt.seq) - cur.count + 1
    <2>1. cur.count > 0 /\ n \in 1 .. cur.count /\ Position(pkt.seq) = cur.count + n - 1
      BY <1>2, <1>3, <1>12 DEF Jump, isEmpty
    <2>2. Slide(n) /\ checkPlaceSlot(pkt, cur'.tail, "kDiscontinuity") /\ "kDiscontinuity" \in Success
      BY <1>12 DEF Jump, Success
    <2> HIDE DEF n
    <2>3. QED
      BY <2>1, <2>2, <1>1, SlideStep
  <1>13. QED
    BY <1>5, <1>6, <1>7, <1>8, <1>9, <1>10, <1>11, <1>12 DEF processRTP, insertPacket

-----------------------------------------------------------------------------
(* Pulling.                                                                *)

\* What one call of nextSlotInOrder does to the reader.
LEMMA PullMoves ==
  ASSUME IInv, NEW skip \in BOOLEAN, nextSlotInOrder(skip)
  PROVE  /\ nextSeq' \in SeqNum
         /\ Position(nextSeq) \in Int
         /\ distance(startSeq, nextSeq') >= Position(nextSeq)
         /\ distance(startSeq, nextSeq') >= 0
         /\ distance(startSeq, nextSeq') <= IF isFull(cur) THEN 3 * Capacity ELSE cur.count
         /\ Position(nextSeq) < 0 => distance(startSeq, nextSeq') <= cur.count
         /\ state' \in Success =>
              /\ Plus(nextSeq', -1) = Expected
              /\ Expected \in SeqNum
              /\ Position(Expected) >= Position(nextSeq)
              /\ distance(startSeq, nextSeq') = Position(Expected) + 1
         /\ ~skip /\ state' \in Failure => nextSeq' \notin held
         /\ state' \in Success \cup Failure
  <1>1. /\ startSeq \in SeqNum /\ nextSeq \in SeqNum /\ cur \in Cursor /\ cur.count \in 0 .. Capacity
        /\ WindowHolds
    BY CursorInts, Ranges DEF IInv, TypeOK, WindowTypeOK
  <1>2. Position(nextSeq) \in Int
    BY <1>1, DistanceWrapped, Ranges DEF Position
  <1>3. Position(startSeq) = 0
    BY <1>1, DistanceZero DEF Position
  <1>4. /\ Expected \in SeqNum
        /\ Position(Expected) = IF Position(nextSeq) < 0 THEN 0 ELSE Position(nextSeq)
    BY <1>1, <1>3 DEF Expected
  <1>5. /\ Position(nextSeq) <= IF isFull(cur) THEN 3 * Capacity ELSE cur.count
        /\ Position(nextSeq) < 0 => cur.count = Capacity
    BY <1>2 DEF IInv, ReaderBounds, isFull
  <1>6. \A i \in 0 .. Capacity : Plus(startSeq, i) \in SeqNum /\ distance(startSeq, Plus(startSeq, i)) = i
    <2>1. 0 .. Capacity \subseteq -HalfRange .. HalfRange - 1
      BY Ranges
    <2>2. QED
      BY <2>1, <1>1, DistanceUnique
  <1>7. ASSUME InWindow(Expected)
        PROVE  /\ Position(Expected) \in 0 .. cur.count - 1
               /\ distance(startSeq, Plus(Expected, 1)) = Position(Expected) + 1
               /\ Plus(Expected, 1) \in SeqNum
    <2>1. Position(Expected) \in 0 .. cur.count - 1
      BY <1>7 DEF InWindow
    <2>2. 1 \in -HalfRange .. HalfRange - 1 /\ Position(Expected) + 1 \in -HalfRange .. HalfRange - 1
      BY <2>1, <1>1, Ranges
    <2>3. Plus(Expected, 1) \in SeqNum /\ distance(Expected, Plus(Expected, 1)) = 1
      BY <2>2, <1>4, DistanceUnique
    <2>4. distance(startSeq, Plus(Expected, 1)) = distance(startSeq, Expected) + 1
      <3> DEFINE e == Expected
                 q == Plus(e, 1)
                 x == distance(startSeq, q)
                 y == distance(startSeq, e)
                 z == distance(e, q)
      <3>1. e \in SeqNum /\ q \in SeqNum /\ z = 1
        BY <2>3, <1>4
      <3> HIDE DEF e, q
      <3>2. x \in -HalfRange .. HalfRange - 1 /\ (x = q - startSeq \/ x = q - startSeq - SeqRange \/ x = q - startSeq + SeqRange)
        BY <3>1, <1>1, DistanceWrapped
      <3>3. y \in -HalfRange .. HalfRange - 1 /\ (y = e - startSeq \/ y = e - startSeq - SeqRange \/ y = e - startSeq + SeqRange)
        BY <3>1, <1>1, DistanceWrapped
      <3>4. z = q - e \/ z = q - e - SeqRange \/ z = q - e + SeqRange
        BY <3>1, <1>1, DistanceWrapped
      <3>5. y \in 0 .. Capacity
        BY <2>1, <1>1, Ranges DEF Position, e
      <3> HIDE DEF x, y, z
      <3>6. x = y + 1
        BY <3>1, <3>2, <3>3, <3>4, <3>5, <1>1, Ranges DEF SeqRange, SeqNum
      <3>7. QED
        BY <3>6 DEF x, y, q, e
    <2>5. QED
      BY <2>1, <2>3, <2>4 DEF Position
  <1>8. CASE PullNext
    <2>1. InWindow(Expected) /\ nextSeq' = Plus(Expected, 1) /\ state' \in {"kNoError", "kDiscontinuity"}
      BY <1>8 DEF PullNext
    <2>2. Plus(nextSeq', -1) = Expected
      BY <2>1, <1>4, PlusBack
    <2>3. QED
      BY <2>1, <2>2, <1>1, <1>2, <1>4, <1>7, Ranges DEF Success, Failure
  <1>9. CASE PullNothing
    <2>1. ~InWindow(Expected) /\ nextSeq' = nextSeq /\ state' = "kOutOfRange"
      BY <1>9 DEF PullNothing
    <2>2. Position(nextSeq) >= 0 /\ Expected = nextSeq
      BY <2>1, <1>1, <1>2, <1>3, <1>5, Ranges DEF Expected, InWindow
    <2>3. nextSeq' \notin held
      BY <2>1, <2>2, <1>1 DEF WindowHolds
    <2>4. QED
      BY <2>1, <2>2, <2>3, <1>1, <1>2, <1>5 DEF Success, Failure, Position
  <1>10. CASE ~skip /\ PullEmpty
    <2>1. InWindow(Expected) /\ ~valid(SlotOf(Expected), Expected) /\ nextSeq' = Expected /\ state' = "kReachEmptySlot"
      BY <1>10 DEF PullEmpty
    <2>2. nextSeq' \notin held
      BY <2>1, <1>1 DEF WindowHolds
    <2>3. QED
      BY <2>1, <2>2, <1>1, <1>2, <1>4, <1>7, Ranges DEF Success, Failure, Position
  <1>11. CASE skip /\ SkipToNext
    <2>1. PICK i \in Occupied : nextSeq' = Plus(startSeq, i + 1)
      BY <1>11 DEF SkipToNext
    <2>2. i \in 0 .. cur.count - 1 /\ i >= Position(Expected) /\ i + 1 \in 0 .. Capacity
      BY <2>1, <1>1, Ranges DEF Occupied
    <2>3. nextSeq' \in SeqNum /\ distance(startSeq, nextSeq') = i + 1
      BY <2>1, <2>2, <1>6
    <2>4. state' = "kReachEmptySlot" /\ InWindow(Expected)
      BY <1>11 DEF SkipToNext
    <2>5. QED
      BY <2>2, <2>3, <2>4, <1>1, <1>2, <1>4, <1>7, <1>11, Ranges DEF Success, Failure
  <1>12. CASE skip /\ SkipAll
    <2>1. nextSeq' = Plus(startSeq, cur.count) /\ state' = "kOutOfRange" /\ InWindow(Expected)
      BY <1>12 DEF SkipAll
    <2>2. nextSeq' \in SeqNum /\ distance(startSeq, nextSeq') = cur.count
      BY <2>1, <1>1, <1>6
    <2>3. QED
      BY <2>1, <2>2, <1>1, <1>2, <1>4, <1>7, <1>12, Ranges DEF Success, Failure
  <1>13. QED
    BY <1>8, <1>9, <1>10, <1>11, <1>12 DEF nextSlotInOrder

LEMMA ProcessFlowStep ==
  ASSUME IInv, processFlow
  PROVE  IInv'
  <1>1. /\ pc \in {"pull", "flush", "drain"}
        /\ nextSlotInOrder(pc = "flush")
        /\ UNCHANGED <<cur, slots, startSeq, lastSlot, held, opened>>
    BY DEF processFlow, nextSlotInOrder
  <1> DEFINE q == distance(startSeq, nextSeq')
  <1>2. /\ nextSeq' \in SeqNum
        /\ Position(nextSeq) \in Int
        /\ q >= Position(nextSeq)
        /\ q >= 0
        /\ q <= IF isFull(cur) THEN 3 * Capacity ELSE cur.count
        /\ state' \in Success =>
             /\ Plus(nextSeq', -1) = Expected
             /\ Expected \in SeqNum
             /\ Position(Expected) >= Position(nextSeq)
             /\ q = Position(Expected) + 1
        /\ pc # "flush" /\ state' \in Failure => nextSeq' \notin held
        /\ state' \in Success \cup Failure
    BY <1>1, PullMoves
  <1>3. /\ cur \in Cursor /\ startSeq \in SeqNum /\ held \subseteq SeqNum /\ pending \subseteq SeqNum
        /\ TypeOK /\ WindowTypeOK /\ cur.count \in 0 .. Capacity
    BY <1>1, CursorInts, Ranges DEF IInv, TypeOK, WindowTypeOK
  <1>4. Position(nextSeq)' = q /\ q \in Int
    BY <1>1, <1>2, <1>3, DistanceWrapped, Ranges DEF Position
  <1> HIDE DEF q
  <1>5. \/ /\ state' \in Success
           /\ depacked' = Expected
           /\ pc' = (IF pc = "flush" THEN "drain" ELSE pc)
           /\ pending' = pending \ {Expected}
        \/ /\ state' \in Failure
           /\ depacked' = None
           /\ pc' = (IF pc = "pull" THEN "read" ELSE "done")
           /\ pending' = pending
    BY <1>2 DEF processFlow
  <1>6. TypeOK'
    BY <1>1, <1>2, <1>3, <1>5 DEF TypeOK, WindowTypeOK
  <1>7. Linked(cur')
    BY <1>1 DEF IInv
  <1>8. WindowHolds'
    BY <1>1 DEF IInv, WindowHolds, InWindow, SlotOf, Position
  <1>9. ReaderBounds'
    BY <1>1, <1>2, <1>3, <1>4, Ranges DEF ReaderBounds
  <1>10. Behind'
    <2> SUFFICES ASSUME NEW s \in held, s \notin pending'
                 PROVE  Position(s) < q
      BY <1>1, <1>4 DEF Behind, Position
    <2>1. Position(s) \in Int
      BY <1>3, DistanceWrapped, Ranges DEF Position
    <2>2. CASE s \notin pending
      BY <2>1, <2>2, <1>2, <1>4 DEF IInv, Behind
    <2>3. CASE s \in pending
      <3>1. s = Expected /\ state' \in Success
        BY <2>3, <1>5
      <3>2. QED
        BY <3>1, <2>1, <1>2, <1>4
    <2>4. QED
      BY <2>2, <2>3
  <1>11. PulledDry'
    <2> SUFFICES ASSUME pc' = "read"
                 PROVE  q >= 0 /\ nextSeq' \notin held'
      BY <1>4 DEF PulledDry
    <2>1. pc # "flush" /\ state' \in Failure
      BY <1>1, <1>5
    <2>2. QED
      BY <2>1, <1>1, <1>2
  <1>12. QED
    BY <1>6, <1>7, <1>8, <1>9, <1>10, <1>11 DEF IInv

-----------------------------------------------------------------------------
(* The theorems.                                                           *)

LEMMA InitIInv == Init => IInv
  <1> SUFFICES ASSUME Init PROVE IInv
    OBVIOUS
  <1>1. 0 \in SeqNum /\ 0 \in Cell /\ Cleared \in Cursor
    BY Ranges DEF SeqNum, SeqRange, Cell, Cursor, Cleared
  <1>2. TypeOK
    BY <1>1 DEF Init, WindowInit, TypeOK, WindowTypeOK, Slot, Success
  <1>3. Linked(cur) /\ ReaderBounds /\ PulledDry
    <2>1. Position(nextSeq) = 0
      BY <1>1, DistanceZero DEF Init, WindowInit, Position
    <2>2. QED
      BY <2>1, Ranges DEF Init, WindowInit, Cleared, Linked, ReaderBounds, PulledDry, isFull
  <1>4. WindowHolds /\ Behind
    BY DEF Init, WindowInit, WindowHolds, Behind
  <1>5. QED
    BY <1>2, <1>3, <1>4 DEF IInv

LEMMA NextIInv == IInv /\ [Next]_vars => IInv'
  <1> SUFFICES ASSUME IInv, [Next]_vars PROVE IInv'
    OBVIOUS
  <1>1. ASSUME NEW pkt \in Packet, NEW due \in BOOLEAN, processRTP(pkt, due)
        PROVE  IInv'
    BY <1>1, ProcessRTPStep
  <1>2. CASE EndOfFile
    <2>1. /\ UNCHANGED <<cur, slots, startSeq, nextSeq, lastSlot, state, held, opened, pending>>
          /\ pc = "read" /\ pc' = "flush" /\ depacked' = None
      BY <1>2 DEF EndOfFile, windowVars
    <2>2. TypeOK'
      BY <2>1 DEF IInv, TypeOK, WindowTypeOK
    <2>3. Linked(cur') /\ PulledDry'
      BY <2>1 DEF IInv, PulledDry
    <2>4. WindowHolds' /\ Behind'
      BY <2>1 DEF IInv, WindowHolds, InWindow, SlotOf, Position, Behind
    <2>5. ReaderBounds'
      BY <2>1 DEF IInv, ReaderBounds, Position
    <2>6. QED
      BY <2>2, <2>3, <2>4, <2>5 DEF IInv
  <1>3. CASE processFlow
    BY <1>3, ProcessFlowStep
  <1>4. CASE UNCHANGED vars
    <2>1. TypeOK' /\ Linked(cur')
      BY <1>4 DEF vars, IInv, TypeOK, WindowTypeOK
    <2>2. WindowHolds' /\ Behind' /\ ReaderBounds' /\ PulledDry'
      BY <1>4 DEF vars, IInv, WindowHolds, InWindow, SlotOf, Position, Behind, ReaderBounds, PulledDry
    <2>3. QED
      BY <2>1, <2>2 DEF IInv
  <1>5. ASSUME NEW due \in BOOLEAN, processForeign(due)
        PROVE  IInv'
    <2>1. /\ UNCHANGED <<cur, slots, startSeq, nextSeq, lastSlot, held, pending>>
          /\ state' \in Failure /\ Received(due)
      BY <1>5 DEF processForeign, Failure
    <2>2. pending' \subseteq SeqNum
      BY <2>1 DEF IInv, TypeOK
    <2>3. QED
      BY <2>1, <2>2, TurnedDownStep
  <1>6. QED
    BY <1>1, <1>2, <1>3, <1>4, <1>5 DEF Next

\* The strengthened invariant holds in every reachable state.
THEOREM Invariance == Spec => []IInv
  BY InitIInv, NextIInv, PTL DEF Spec

\* Type correctness of the window and the demuxer around it.
THEOREM TypeCorrect == Spec => []TypeOK
  <1>1. IInv => TypeOK
    BY DEF IInv
  <1>2. QED
    BY <1>1, Invariance, PTL

\* insertPacket never places a packet over one that is still in the window,
\* and the slots and the sequence numbers never come apart, for every window
\* size and every sequence of arrivals, losses, duplicates and resets.
THEOREM WindowAlwaysHolds == Spec => []WindowHolds
  <1>1. IInv => WindowHolds
    BY DEF IInv
  <1>2. QED
    BY <1>1, Invariance, PTL

\* nextSeq_ stays within three windows of startSeq_, so the 16-bit distance
\* between the two never changes its sign by overflow.
THEOREM ReaderAlwaysNear == Spec => []ReaderNear
  <1>1. IInv => ReaderNear
    <2> SUFFICES ASSUME IInv, cur.count # 0 PROVE Position(nextSeq) \in -Capacity .. 3 * Capacity
      BY DEF ReaderNear, isEmpty
    <2>1. cur.count \in 1 .. Capacity /\ Position(nextSeq) \in Int
      BY CursorInts, DistanceWrapped, Ranges DEF IInv, TypeOK, WindowTypeOK, Position
    <2>2. QED
      BY <2>1, Ranges DEF IInv, ReaderBounds, isFull
  <1>2. QED
    BY <1>1, Invariance, PTL

\* processFlow leaves nothing behind that it could have pulled from a full
\* window.
THEOREM AlwaysPulledDry == Spec => []PulledDry
  <1>1. IInv => PulledDry
    BY DEF IInv
  <1>2. QED
    BY <1>1, Invariance, PTL

\* Between resets nextSlotInOrder hands out packets in sequence order.
THEOREM ReaderNeverBackward == Spec => NeverBackward
  <1>1. IInv /\ [Next]_vars
          => [state' \notin {"kFirstPacket", "kOutOfOrderReset"} => distance(nextSeq, nextSeq') >= 0]_vars
    <2> SUFFICES ASSUME IInv, Next, state' \notin {"kFirstPacket", "kOutOfOrderReset"}
                 PROVE  distance(nextSeq, nextSeq') >= 0
      OBVIOUS
    <2>1. nextSeq \in SeqNum /\ startSeq \in SeqNum /\ cur.count \in 0 .. Capacity
      BY CursorInts DEF IInv, TypeOK, WindowTypeOK
    <2>2. CASE nextSeq' = nextSeq
      BY <2>1, <2>2, DistanceZero
    <2>3. CASE processFlow
      <3>1. nextSlotInOrder(pc = "flush")
        BY <2>3 DEF processFlow
      <3>2. /\ nextSeq' \in SeqNum
            /\ Position(nextSeq) \in Int
            /\ distance(startSeq, nextSeq') >= Position(nextSeq)
            /\ distance(startSeq, nextSeq') >= 0
            /\ distance(startSeq, nextSeq') <= IF isFull(cur) THEN 3 * Capacity ELSE cur.count
        BY <3>1, PullMoves
      <3>3. distance(startSeq, nextSeq') \in Int
        BY <3>2, <2>1, DistanceWrapped, Ranges
      <3>4. CASE Position(nextSeq) >= 0
        <4>1. distance(startSeq, nextSeq') - distance(startSeq, nextSeq) \in -HalfRange .. HalfRange - 1
          BY <3>2, <3>3, <3>4, <2>1, Ranges DEF Position
        <4>2. QED
          BY <4>1, <3>2, <3>3, <2>1, DistanceAdds DEF Position
      <3>5. CASE Position(nextSeq) < 0
        <4>1. Position(nextSeq) >= -Capacity
          BY <3>1, <3>2, Ranges DEF IInv, ReaderBounds
        <4>2. distance(startSeq, nextSeq') <= cur.count
          BY <3>1, <3>5, PullMoves
        <4>3. distance(startSeq, nextSeq') - distance(startSeq, nextSeq) \in -HalfRange .. HalfRange - 1
          BY <4>1, <4>2, <3>2, <3>3, <3>5, <2>1, Ranges DEF Position
        <4>4. QED
          BY <4>3, <3>2, <3>3, <2>1, DistanceAdds DEF Position
      <3>6. QED
        BY <3>2, <3>4, <3>5
    <2>4. CASE EndOfFile
      BY <2>2, <2>4 DEF EndOfFile, windowVars
    <2>5. ASSUME NEW pkt \in Packet, NEW due \in BOOLEAN, processRTP(pkt, due)
          PROVE  nextSeq' = nextSeq
      BY <2>5 DEF processRTP, insertPacket, FirstPacket, OutOfOrder, OlderPacket, Prepend,
                  Disorder, NextPacket, Jump, TooNew, Slide, reset
    <2>6. ASSUME NEW due \in BOOLEAN, processForeign(due)
          PROVE  nextSeq' = nextSeq
      BY <2>6 DEF processForeign
    <2>7. QED
      BY <2>2, <2>3, <2>4, <2>5, <2>6 DEF Next
  <1>2. QED
    BY <1>1, Invariance, PTL DEF Spec, NeverBackward

\* processFlow hands an accepted packet to the depacker at most once.
THEOREM DepackedAtMostOnce == Spec => AtMostOnce
  <1>1. IInv /\ [Next]_vars
          => [depacked' # None /\ depacked' \in held => depacked' \in pending]_vars
    <2> SUFFICES ASSUME IInv, Next, depacked' # None, depacked' \in held
                 PROVE  depacked' \in pending
      OBVIOUS
    <2>1. processFlow
      BY DEF Next, EndOfFile, processRTP, processForeign, Received
    <2>2. nextSlotInOrder(pc = "flush")
      BY <2>1 DEF processFlow
    <2>3. state' \in Success /\ depacked' = Plus(nextSeq', -1)
      BY <2>1 DEF processFlow
    <2>4. depacked' = Expected /\ Position(Expected) >= Position(nextSeq) /\ Position(nextSeq) \in Int
          /\ Expected \in SeqNum
      BY <2>2, <2>3, PullMoves
    <2>5. startSeq \in SeqNum
      BY DEF IInv, TypeOK, WindowTypeOK
    <2>6. Position(Expected) \in Int
      BY <2>4, <2>5, DistanceWrapped, Ranges DEF Position
    <2>7. QED
      BY <2>4, <2>6 DEF IInv, Behind
  <1>2. QED
    BY <1>1, Invariance, PTL DEF Spec, AtMostOnce

-----------------------------------------------------------------------------
(* The stream without loss.                                                *)

\* The network: what it holds was sent recently, and every packet it owes it
\* holds.
NetInv ==
  /\ sendSeq \in SeqNum
  /\ flight \subseteq SeqNum
  /\ owed \subseteq flight
  /\ pc \in {"read", "pull"}
  /\ \A s \in flight : distance(s, sendSeq) \in 1 .. MaxReorder + 1

\* Before the first packet arrives: the network holds the last m that were
\* sent.
Waiting ==
  /\ pc = "read"
  /\ held = {}
  /\ owed = flight
  /\ \A i \in Cell : slots[i].payload = None
  /\ \E m \in 0 .. MaxReorder + 1 : flight = {x \in SeqNum : distance(x, sendSeq) \in 1 .. m}

\* Afterwards: what lies behind the window is owed, what is owed lies ahead of
\* the reader, and what the window has room for is held or owed, the latter
\* with another packet in its slot.
Flowing ==
  /\ Position(sendSeq) >= cur.count
  /\ \A x \in SeqNum : Position(x) \in cur.count .. Position(sendSeq) - 1 => x \in owed
  /\ \A x \in owed : x \notin held
  /\ \A x \in owed : Position(x) \in Position(nextSeq) .. Position(sendSeq) - 1
  /\ Position(nextSeq) \in 0 .. cur.count
  /\ \A x \in SeqNum : InWindow(x) => x \in held \/ (x \in owed /\ ~valid(SlotOf(x), x))

\* Until the window is full nothing is twice, nothing is missing in it, and
\* the slots it has not reached are as they were made.
Filling ==
  /\ flight = owed
  /\ \A x \in owed : Position(x) >= cur.count
  /\ \A i \in cur.count .. Capacity - 1 : slots[At(cur, i)].payload = None

StreamInv ==
  /\ NetInv
  /\ isEmpty(cur) => Waiting
  /\ ~isEmpty(cur) => Flowing
  /\ ~isEmpty(cur) /\ Young => Filling

\* The way back.
LEMMA DistanceBack ==
  ASSUME NEW s \in SeqNum, NEW t \in SeqNum, distance(s, t) \in -Capacity .. 3 * Capacity
  PROVE  distance(t, s) = -distance(s, t)
  <1> DEFINE x == distance(s, t)
             z == distance(s, s)
  <1>1. z = 0
    BY DistanceZero
  <1>2. x \in -Capacity .. 3 * Capacity
    OBVIOUS
  <1> HIDE DEF x, z
  <1>3. z - x \in -HalfRange .. HalfRange - 1 /\ z - x = -x
    BY <1>1, <1>2, Ranges
  <1>4. distance(t, s) = z - x
    BY <1>3, DistanceAdds DEF x, z
  <1>5. QED
    BY <1>3, <1>4 DEF x

\* The next number is one further.
LEMMA DistanceNext ==
  ASSUME NEW s \in SeqNum, NEW t \in SeqNum, distance(s, t) \in -Capacity .. 2 * Capacity
  PROVE  Plus(t, 1) \in SeqNum /\ distance(s, Plus(t, 1)) = distance(s, t) + 1
  <1> DEFINE x == distance(s, t)
             y == distance(t, s)
             n == Plus(t, 1)
  <1>1. x \in -Capacity .. 2 * Capacity /\ y = -x
    BY DistanceBack, Ranges
  <1>2. n \in SeqNum /\ distance(t, n) = 1
    BY DistanceUnique, Ranges
  <1> HIDE DEF x, y, n
  <1>3. 1 - y \in -HalfRange .. HalfRange - 1 /\ 1 - y = x + 1
    BY <1>1, Ranges
  <1>4. distance(s, n) = 1 - y
    BY <1>2, <1>3, DistanceAdds DEF y
  <1>5. QED
    BY <1>2, <1>3, <1>4 DEF x, n

\* What the network holds, seen from the window.
LEMMA FlightPlace ==
  ASSUME IInv, NetInv, ~isEmpty(cur), Flowing
  PROVE  /\ Capacity \in Nat \ {0} /\ cur.count \in 1 .. Capacity
         /\ startSeq \in SeqNum /\ nextSeq \in SeqNum
         /\ MaxReorder \in 0 .. Capacity - 1
         /\ Position(sendSeq) \in cur.count .. cur.count + MaxReorder + 1
         /\ \A s \in flight : Position(s) = Position(sendSeq) - distance(s, sendSeq)
  <1>1. /\ startSeq \in SeqNum /\ nextSeq \in SeqNum /\ cur \in Cursor /\ cur.count \in 1 .. Capacity
        /\ Capacity \in Nat \ {0} /\ MaxReorder \in 0 .. Capacity - 1 /\ HalfRange \in Nat
    BY CursorInts, Ranges, StreamAssumption DEF IInv, TypeOK, WindowTypeOK, isEmpty
  <1> DEFINE a == Position(sendSeq)
  <1>2. a \in Int /\ a >= cur.count /\ sendSeq \in SeqNum /\ a < HalfRange
    BY <1>1, DistanceWrapped DEF Position, NetInv, Flowing
  <1>3. a <= cur.count + MaxReorder + 1
    <2> SUFFICES ASSUME a > cur.count PROVE a <= cur.count + MaxReorder + 1
      BY <1>1, <1>2
    <2> DEFINE x == Plus(startSeq, cur.count)
    <2>1. x \in SeqNum /\ Position(x) = cur.count
      BY <1>1, DistanceUnique, Ranges DEF Position
    <2>2. x \in owed
      <3>1. Position(x) \in cur.count .. a - 1
        BY <2>1, <1>1, <1>2
      <3>2. QED
        BY <3>1, <2>1 DEF Flowing
    <2>3. distance(x, sendSeq) \in 1 .. MaxReorder + 1
      BY <2>2 DEF NetInv
    <2> HIDE DEF x
    <2>4. a - Position(x) \in -HalfRange .. HalfRange - 1
      BY <2>1, <1>1, <1>2, Ranges
    <2>5. distance(x, sendSeq) = a - Position(x)
      BY <2>1, <2>4, <1>1, <1>2, DistanceAdds DEF Position
    <2>6. QED
      BY <2>1, <2>3, <2>5, <1>1, <1>2
  <1>4. ASSUME NEW s \in flight
        PROVE  Position(s) = a - distance(s, sendSeq)
    <2> DEFINE b == distance(s, sendSeq)
               y == distance(sendSeq, s)
               e == distance(sendSeq, startSeq)
    <2>1. s \in SeqNum /\ b \in 1 .. MaxReorder + 1
      BY <1>4 DEF NetInv
    <2>2. y = -b
      <3>1. b \in -Capacity .. 3 * Capacity
        BY <2>1, <1>1
      <3>2. QED
        BY <3>1, <2>1, <1>2, DistanceBack
    <2>3. e = -a
      <3>1. a \in -Capacity .. 3 * Capacity
        BY <1>1, <1>2, <1>3
      <3>2. QED
        BY <3>1, <1>1, <1>2, DistanceBack DEF Position
    <2> HIDE DEF b, y, e, a
    <2>4. y - e \in -HalfRange .. HalfRange - 1 /\ y - e = a - b
      BY <2>1, <2>2, <2>3, <1>1, <1>2, <1>3, Ranges
    <2>5. distance(startSeq, s) = y - e
      BY <2>1, <2>4, <1>1, <1>2, DistanceAdds DEF y, e
    <2>6. QED
      BY <2>4, <2>5 DEF Position, a, b
  <1>5. QED
    BY <1>1, <1>2, <1>3, <1>4

\* A packet is sent.
LEMMA SendStep ==
  ASSUME IInv, StreamInv, Send
  PROVE  StreamInv'
  <1> DEFINE t == Plus(sendSeq, 1)
  <1>1. /\ UNCHANGED vars
        /\ \A s \in flight : distance(s, sendSeq) <= MaxReorder
        /\ flight' = flight \cup {sendSeq}
        /\ owed' = owed \cup {sendSeq}
        /\ sendSeq' = t
    BY DEF Send
  <1>2. /\ cur' = cur /\ slots' = slots /\ startSeq' = startSeq /\ nextSeq' = nextSeq
        /\ held' = held /\ pc' = pc
    BY <1>1 DEF vars
  <1>3. NetInv /\ sendSeq \in SeqNum /\ flight \subseteq SeqNum /\ owed \subseteq flight
    BY DEF StreamInv, NetInv
  <1>4. Capacity \in Nat \ {0} /\ MaxReorder \in 0 .. Capacity - 1
    BY StreamAssumption, Ranges
  <1>5. t \in SeqNum /\ distance(sendSeq, t) = 1
    <2>1. 1 \in -HalfRange .. HalfRange - 1
      BY Ranges
    <2>2. QED
      BY <2>1, <1>3, DistanceUnique
  <1>6. \A s \in flight : distance(s, t) = distance(s, sendSeq) + 1
    <2> SUFFICES ASSUME NEW s \in flight PROVE distance(s, t) = distance(s, sendSeq) + 1
      OBVIOUS
    <2>1. s \in SeqNum /\ distance(s, sendSeq) \in -Capacity .. 2 * Capacity
      BY <1>3, <1>4 DEF NetInv
    <2>2. QED
      BY <2>1, <1>3, DistanceNext
  <1> HIDE DEF t
  <1>7. NetInv'
    <2>1. \A s \in flight' : distance(s, sendSeq') \in 1 .. MaxReorder + 1
      <3> SUFFICES ASSUME NEW s \in flight' PROVE distance(s, t) \in 1 .. MaxReorder + 1
        BY <1>1
      <3>1. CASE s = sendSeq
        BY <3>1, <1>4, <1>5
      <3>2. CASE s \in flight
        <4>1. distance(s, sendSeq) \in 1 .. MaxReorder
          BY <3>2, <1>1, <1>3, <1>4 DEF NetInv
        <4>2. QED
          BY <4>1, <3>2, <1>4, <1>6
      <3>3. QED
        BY <3>1, <3>2, <1>1
    <2>2. QED
      BY <2>1, <1>1, <1>2, <1>3, <1>5 DEF NetInv
  <1>8. isEmpty(cur)' => Waiting'
    <2> SUFFICES ASSUME isEmpty(cur) PROVE Waiting'
      BY <1>2
    <2>1. Waiting
      BY DEF StreamInv
    <2>2. PICK m \in 0 .. MaxReorder + 1 : flight = {x \in SeqNum : distance(x, sendSeq) \in 1 .. m}
      BY <2>1 DEF Waiting
    <2>3. m <= MaxReorder
      <3> SUFFICES ASSUME m = MaxReorder + 1 PROVE FALSE
        BY <2>2, <1>4
      <3> DEFINE x == Plus(sendSeq, -m)
      <3>1. -m \in -HalfRange .. HalfRange - 1 /\ -m \in -Capacity .. 3 * Capacity /\ m \in 1 .. m
        BY <1>4, Ranges
      <3>2. x \in SeqNum /\ distance(sendSeq, x) = -m
        BY <3>1, <1>3, DistanceUnique
      <3>3. distance(x, sendSeq) = -(-m)
        BY <3>1, <3>2, <1>3, DistanceBack
      <3> HIDE DEF x
      <3>4. distance(x, sendSeq) = m
        BY <3>3, <1>4
      <3>5. x \in flight
        BY <3>1, <3>2, <3>4, <2>2
      <3>6. QED
        BY <3>4, <3>5, <1>1, <1>4
    <2>4. flight' = {x \in SeqNum : distance(x, sendSeq') \in 1 .. m + 1}
      <3>1. ASSUME NEW x \in SeqNum, distance(x, t) \in 1 .. m + 1 PROVE x \in flight'
        <4> DEFINE y == distance(x, t)
        <4>1. y \in 1 .. m + 1 /\ m \in Nat /\ m <= Capacity
          BY <3>1, <2>3, <1>4
        <4>2. distance(t, sendSeq) = -1
          <5>1. distance(sendSeq, t) \in -Capacity .. 3 * Capacity
            BY <1>4, <1>5
          <5>2. QED
            BY <5>1, <1>3, <1>5, DistanceBack
        <4>3. distance(t, x) = -y
          <5>1. y \in -Capacity .. 3 * Capacity
            BY <4>1, <1>4
          <5>2. QED
            BY <5>1, <3>1, <1>5, DistanceBack
        <4> HIDE DEF y
        <4>4. (-1) - (-y) \in -HalfRange .. HalfRange - 1 /\ (-1) - (-y) = y - 1
          BY <4>1, <1>4, Ranges
        <4>5. distance(x, sendSeq) = y - 1
          BY <4>2, <4>3, <4>4, <3>1, <1>3, <1>5, DistanceAdds
        <4>6. CASE y = 1
          <5>1. distance(x, sendSeq) = 0 /\ distance(x, x) = 0
            BY <4>5, <4>6, <3>1, DistanceZero
          <5>2. x = sendSeq
            BY <5>1, <3>1, <1>3, DistanceInjective
          <5>3. QED
            BY <5>2, <1>1
        <4>7. CASE y # 1
          <5>1. distance(x, sendSeq) \in 1 .. m
            BY <4>1, <4>5, <4>7
          <5>2. QED
            BY <5>1, <3>1, <2>2, <1>1
        <4>8. QED
          BY <4>6, <4>7
      <3>2. ASSUME NEW x \in flight' PROVE x \in SeqNum /\ distance(x, t) \in 1 .. m + 1
        <4>1. m \in Nat
          BY <2>2, <1>4
        <4>2. CASE x = sendSeq
          BY <4>1, <4>2, <1>3, <1>5
        <4>3. CASE x \in flight
          <5>1. x \in SeqNum /\ distance(x, sendSeq) \in 1 .. m
            BY <4>3, <2>2
          <5>2. QED
            BY <5>1, <4>1, <4>3, <1>6
        <4>4. QED
          BY <4>2, <4>3, <1>1, <3>2
      <3>3. QED
        BY <3>1, <3>2, <1>1
    <2>5. m + 1 \in 0 .. MaxReorder + 1
      BY <2>3, <1>4
    <2>6. \E k \in 0 .. MaxReorder + 1 : flight' = {x \in SeqNum : distance(x, sendSeq') \in 1 .. k}
      BY <2>4, <2>5
    <2>7. owed' = flight' /\ pc' = "read" /\ held' = {} /\ \A i \in Cell : slots'[i].payload = None
      BY <2>1, <1>1, <1>2 DEF Waiting
    <2>8. QED
      BY <2>6, <2>7 DEF Waiting
  <1>9. ASSUME ~isEmpty(cur)
        PROVE  Flowing' /\ (Young' => Filling')
    <2>1. Flowing
      BY <1>9 DEF StreamInv
    <2> DEFINE a == Position(sendSeq)
    <2>2. /\ cur.count \in 1 .. Capacity /\ startSeq \in SeqNum /\ nextSeq \in SeqNum
          /\ a \in cur.count .. cur.count + MaxReorder + 1
      BY <2>1, <1>3, <1>9, FlightPlace
    <2>3. Position(sendSeq)' = a + 1
      <3>1. a \in -Capacity .. 2 * Capacity
        BY <2>2, <1>4
      <3>2. QED
        BY <3>1, <2>2, <1>1, <1>2, <1>3, DistanceNext DEF Position, t
    <2>4. \A x : Position(x)' = Position(x)
      BY <1>2 DEF Position
    <2>5. \A x \in SeqNum : Position(x) \in Int
      BY <2>2, DistanceWrapped, Ranges DEF Position
    <2>6. Position(nextSeq)' = Position(nextSeq) /\ Position(nextSeq) \in 0 .. cur.count
      BY <2>1, <1>2 DEF Flowing, Position
    <2>7. ASSUME NEW x \in SeqNum, Position(x) \in cur.count .. a + 1 - 1 PROVE x \in owed'
      <3>1. CASE Position(x) = a
        <4>1. x = sendSeq
          BY <3>1, <2>2, <2>7, <1>3, DistanceInjective DEF Position
        <4>2. QED
          BY <4>1, <1>1
      <3>2. CASE Position(x) # a
        <4>1. Position(x) \in cur.count .. a - 1
          BY <3>2, <2>2, <2>5, <2>7, <1>4
        <4>2. QED
          BY <4>1, <2>1, <2>7, <1>1 DEF Flowing
      <3>3. QED
        BY <3>1, <3>2
    <2>8. ASSUME NEW x \in owed' PROVE x \notin held /\ Position(x) \in Position(nextSeq) .. a + 1 - 1
      <3>1. CASE x = sendSeq
        <4>1. sendSeq \notin held
          <5>1. \A s \in held : Position(s) \in 0 .. cur.count - 1
            BY DEF IInv, WindowHolds, InWindow
          <5>2. QED
            BY <5>1, <2>2, <1>4
        <4>2. QED
          BY <4>1, <3>1, <2>2, <2>6, <1>4
      <3>2. CASE x \in owed
        BY <3>2, <2>1, <2>2, <2>6, <1>4 DEF Flowing
      <3>3. QED
        BY <3>1, <3>2, <2>8, <1>1
    <2>9. \A x : InWindow(x)' = InWindow(x) /\ SlotOf(x)' = SlotOf(x)
      BY <2>4, <1>2 DEF InWindow, SlotOf
    <2>10. \A x \in SeqNum : InWindow(x) => x \in held' \/ (x \in owed' /\ ~valid(SlotOf(x), x))
      BY <2>1, <1>1, <1>2 DEF Flowing
    <2> HIDE DEF a
    <2>11. Flowing'
      <3>1. Position(sendSeq)' >= cur'.count /\ Position(nextSeq)' \in 0 .. cur'.count
        BY <2>2, <2>3, <2>6, <1>2, <1>4
      <3>2. \A x \in SeqNum : Position(x)' \in cur'.count .. Position(sendSeq)' - 1 => x \in owed'
        <4> SUFFICES ASSUME NEW x \in SeqNum, Position(x)' \in cur'.count .. Position(sendSeq)' - 1
                     PROVE  x \in owed'
          OBVIOUS
        <4>1. Position(x)' = Position(x)
          BY <1>2 DEF Position
        <4>2. Position(x) \in cur.count .. a + 1 - 1
          BY <4>1, <2>2, <2>3, <1>2, <1>4
        <4>3. QED
          BY <4>2, <2>7
      <3>3. \A x \in owed' : x \notin held'
        BY <2>8, <1>2
      <3>4. \A x \in owed' : Position(x)' \in Position(nextSeq)' .. Position(sendSeq)' - 1
        <4> SUFFICES ASSUME NEW x \in owed'
                     PROVE  Position(x)' \in Position(nextSeq)' .. Position(sendSeq)' - 1
          OBVIOUS
        <4>1. Position(x)' = Position(x)
          BY <1>2 DEF Position
        <4>2. QED
          BY <4>1, <2>2, <2>3, <2>6, <2>8, <1>4
      <3>5. \A x \in SeqNum : InWindow(x)' => x \in held' \/ (x \in owed' /\ ~valid(SlotOf(x)', x))
        BY <2>9, <2>10
      <3>6. QED
        BY <3>1, <3>2, <3>3, <3>4, <3>5 DEF Flowing, valid
    <2>12. ASSUME Young' PROVE Filling'
      <3>1. Filling
        BY <2>12, <1>2, <1>9 DEF StreamInv, Young
      <3>2. \A x \in owed' : Position(x)' >= cur'.count
        <4>1. \A x \in owed : Position(x) >= cur.count
          BY <3>1 DEF Filling
        <4>2. Position(sendSeq) >= cur.count
          BY <2>1 DEF Flowing
        <4>3. QED
          BY <4>1, <4>2, <2>4, <1>1, <1>2
      <3>3. QED
        BY <3>1, <3>2, <1>1, <1>2 DEF Filling
    <2>13. QED
      BY <2>11, <2>12
  <1>10. QED
    BY <1>2, <1>7, <1>8, <1>9 DEF StreamInv

\* The first packet of the stream arrives.
LEMMA FirstArrives ==
  ASSUME IInv, StreamInv, isEmpty(cur),
         NEW s \in SeqNum, NEW p \in Payload, NEW due \in BOOLEAN,
         s \in flight, Oldest(s),
         processRTP([seq |-> s, payload |-> p], due),
         flight' = flight \ {s}, owed' = owed \ {s}, sendSeq' = sendSeq
  PROVE  StreamInv'
  <1> DEFINE pkt == [seq |-> s, payload |-> p]
             c == After(0)
  <1>1. /\ NetInv /\ Waiting /\ sendSeq \in SeqNum /\ flight \subseteq SeqNum /\ owed \subseteq flight
        /\ slots \in [Cell -> Slot] /\ cur \in Cursor /\ cur.count = 0
        /\ \A i \in Cell : slots[i].payload = None
        /\ owed = flight
    BY DEF StreamInv, NetInv, IInv, TypeOK, WindowTypeOK, Waiting, isEmpty
  <1>2. Capacity \in Nat \ {0} /\ MaxReorder \in 0 .. Capacity - 1 /\ HalfRange \in Nat /\ 3 * Capacity < HalfRange
    BY StreamAssumption, Ranges
  <1>3. FirstPacket(pkt)
    BY <1>1, <1>2 DEF processRTP, insertPacket, FirstPacket, OutOfOrder, OlderPacket, Prepend, Disorder,
       NextPacket, Jump, TooNew, InWindow, isEmpty
  <1>4. c \in Cell
    BY <1>2 DEF After, Cell
  <1>5. cur' = [head |-> c, tail |-> c, count |-> 1]
    BY <1>2, <1>3 DEF FirstPacket, reset, shiftBack, Cleared, isFull, isEmpty
  <1> HIDE DEF c
  <1>6. /\ slots' = [slots EXCEPT ![c] = pkt]
        /\ startSeq' = s /\ nextSeq' = s
        /\ held' = {s}
    BY <1>3, <1>5, StreamAssumption DEF FirstPacket, reset, emplaceSlot, Stored, Accepted
  <1>7. pc' = IF isFull(cur') \/ due THEN "pull" ELSE "read"
    BY DEF processRTP, Received
  <1>8. cur' \in Cursor /\ At(cur', 0) = c /\ cur'.count = 1
    BY <1>2, <1>4, <1>5 DEF Cursor, At, Cell
  <1>9. NetInv'
    BY <1>1, <1>7 DEF NetInv
  <1>10. PICK m \in 0 .. MaxReorder + 1 : flight = {x \in SeqNum : distance(x, sendSeq) \in 1 .. m}
    BY <1>1 DEF Waiting
  <1>11. distance(s, sendSeq) = m /\ m \in 1 .. MaxReorder + 1
    <2> DEFINE o == Plus(sendSeq, -m)
               b == distance(s, sendSeq)
               e == distance(s, o)
    <2>1. b \in 1 .. m
      BY <1>10
    <2>2. -m \in -HalfRange .. HalfRange - 1 /\ -m \in -Capacity .. 3 * Capacity /\ m \in 1 .. m
      BY <2>1, <1>2
    <2>3. o \in SeqNum /\ distance(sendSeq, o) = -m
      BY <2>2, <1>1, DistanceUnique
    <2>4. distance(o, sendSeq) = m
      BY <2>2, <2>3, <1>1, <1>2, DistanceBack
    <2>5. o \in flight
      BY <2>2, <2>3, <2>4, <1>10
    <2>6. e >= 0
      BY <2>5 DEF Oldest
    <2>7. distance(sendSeq, s) = -b
      <3>1. b \in -Capacity .. 3 * Capacity
        BY <2>1, <1>2
      <3>2. QED
        BY <3>1, <1>1, DistanceBack
    <2> HIDE DEF o, b, e
    <2>8. (-m) - (-b) \in -HalfRange .. HalfRange - 1 /\ (-m) - (-b) = b - m
      BY <2>1, <1>2
    <2>9. e = b - m
      BY <2>3, <2>7, <2>8, <1>1, DistanceAdds DEF e
    <2>10. b = m /\ m >= 1
      BY <2>1, <2>6, <2>9, <1>2
    <2>11. QED
      BY <2>10, <1>2 DEF b
  <1>12. ASSUME NEW x \in SeqNum, distance(s, x) \in 0 .. m
         PROVE  distance(x, sendSeq) = m - distance(s, x)
    <2> DEFINE y == distance(s, x)
    <2>1. m - y \in -HalfRange .. HalfRange - 1
      BY <1>2, <1>12
    <2>2. distance(x, sendSeq) = m - y
      BY <2>1, <1>1, <1>11, DistanceAdds
    <2>3. QED
      BY <2>2
  <1>13. ASSUME NEW x \in flight, x # s
         PROVE  distance(s, x) \in 1 .. m - 1
    <2> DEFINE y == distance(x, sendSeq)
    <2>1. x \in SeqNum /\ y \in 1 .. m
      BY <1>10, <1>13
    <2>2. distance(sendSeq, x) = -y
      <3>1. y \in -Capacity .. 3 * Capacity
        BY <2>1, <1>2
      <3>2. QED
        BY <2>1, <3>1, <1>1, DistanceBack
    <2>3. distance(sendSeq, s) = -m
      <3>1. m \in -Capacity .. 3 * Capacity
        BY <1>2
      <3>2. QED
        BY <3>1, <1>1, <1>11, DistanceBack
    <2> HIDE DEF y
    <2>4. (-y) - (-m) \in -HalfRange .. HalfRange - 1 /\ (-y) - (-m) = m - y
      BY <2>1, <1>2
    <2>5. distance(s, x) = m - y
      BY <2>1, <2>2, <2>3, <2>4, <1>1, DistanceAdds
    <2>6. y # m
      <3>1. ASSUME y = m PROVE FALSE
        <4>1. distance(s, x) = 0 /\ distance(s, s) = 0
          BY <3>1, <2>5, <1>2, DistanceZero
        <4>2. QED
          BY <4>1, <2>1, <1>13, DistanceInjective
      <3>2. QED
        BY <3>1
    <2>7. QED
      BY <2>1, <2>5, <2>6, <1>2
  <1>14. Flowing'
    <2>1. Position(sendSeq)' = m /\ Position(nextSeq)' = 0
      BY <1>6, <1>11, DistanceZero DEF Position
    <2>2. Position(sendSeq)' >= cur'.count /\ Position(nextSeq)' \in 0 .. cur'.count
      BY <2>1, <1>8, <1>11
    <2>3. ASSUME NEW x \in SeqNum, Position(x)' \in cur'.count .. Position(sendSeq)' - 1
          PROVE  x \in owed'
      <3>1. distance(s, x) \in 1 .. m - 1
        BY <2>1, <2>3, <1>6, <1>8 DEF Position
      <3>2. distance(x, sendSeq) = m - distance(s, x)
        BY <3>1, <1>2, <1>12
      <3>3. distance(x, sendSeq) \in 1 .. m
        BY <3>1, <3>2, <1>2
      <3>4. x \in flight
        BY <3>3, <1>10
      <3>5. x # s
        BY <3>1, DistanceZero
      <3>6. QED
        BY <3>4, <3>5, <1>1
    <2>4. \A x \in owed' : x \notin held'
      BY <1>6
    <2>5. ASSUME NEW x \in owed'
          PROVE  Position(x)' \in Position(nextSeq)' .. Position(sendSeq)' - 1
      <3>1. distance(s, x) \in 1 .. m - 1
        BY <2>5, <1>1, <1>13
      <3>2. Position(x)' \in 1 .. m - 1
        BY <3>1, <1>6 DEF Position
      <3>3. QED
        BY <3>2, <2>1, <1>2
    <2>6. ASSUME NEW x \in SeqNum, InWindow(x)'
          PROVE  x \in held'
      <3>1. distance(s, x) = 0 /\ distance(s, s) = 0
        BY <2>6, <1>6, <1>8, DistanceZero DEF InWindow, Position
      <3>2. QED
        BY <3>1, <1>6, DistanceInjective
    <2>7. QED
      BY <2>2, <2>3, <2>4, <2>5, <2>6 DEF Flowing
  <1>15. Young' => Filling'
    <2>1. \A x \in owed' : Position(x)' >= cur'.count
      <3> SUFFICES ASSUME NEW x \in owed' PROVE Position(x)' >= cur'.count
        OBVIOUS
      <3>1. distance(s, x) \in 1 .. m - 1
        BY <1>1, <1>13
      <3>2. QED
        BY <3>1, <1>6, <1>8 DEF Position
    <2>2. ASSUME NEW i \in 1 .. Capacity - 1
          PROVE  slots'[At(cur', i)].payload = None
      <3>1. 0 \in 0 .. Capacity - 1 /\ i \in 0 .. Capacity - 1 /\ i # 0
        BY <1>2
      <3>2. At(cur', i) # c
        BY <3>1, <1>8, AtInjective
      <3>3. At(cur', i) \in Cell
        BY <3>1, <1>8, AtCell DEF Cell
      <3>4. QED
        BY <3>2, <3>3, <1>1, <1>6
    <2>3. flight' = owed'
      BY <1>1
    <2>4. QED
      BY <2>1, <2>2, <2>3, <1>8 DEF Filling
  <1>16. QED
    BY <1>8, <1>9, <1>14, <1>15 DEF StreamInv, isEmpty

\* A window that has moved by d, and where sequence numbers are then.
LEMMA MovedPlaces ==
  ASSUME startSeq \in SeqNum, NEW d \in 0 .. Capacity, startSeq' = Plus(startSeq, d),
         NEW x \in SeqNum,
         \/ Position(x) \in -Capacity .. 3 * Capacity
         \/ distance(startSeq', x) \in -Capacity .. Capacity
  PROVE  startSeq' \in SeqNum /\ distance(startSeq', x) = Position(x) - d
  <1>1. d \in -HalfRange .. HalfRange - 1 /\ Capacity \in Nat \ {0} /\ 3 * Capacity < HalfRange /\ HalfRange \in Nat
    BY Ranges
  <1>2. startSeq' \in SeqNum /\ distance(startSeq, startSeq') = d
    BY <1>1, DistanceUnique
  <1>3. CASE Position(x) \in -Capacity .. 3 * Capacity
    <2> DEFINE y == Position(x)
    <2>1. y - d \in -HalfRange .. HalfRange - 1
      BY <1>1, <1>3
    <2>2. distance(startSeq', x) = y - d
      BY <2>1, <1>2, DistanceAdds DEF Position
    <2>3. QED
      BY <2>2, <1>2
  <1>4. CASE distance(startSeq', x) \in -Capacity .. Capacity
    <2> DEFINE y == distance(startSeq', x)
               z == distance(startSeq', startSeq)
    <2>1. z = -d
      <3>1. d \in -Capacity .. 3 * Capacity
        BY <1>1
      <3>2. QED
        BY <3>1, <1>2, DistanceBack
    <2>2. y \in -Capacity .. Capacity
      BY <1>4
    <2> HIDE DEF y, z
    <2>3. y - z \in -HalfRange .. HalfRange - 1 /\ y - z = y + d
      BY <1>1, <2>1, <2>2
    <2>4. distance(startSeq, x) = y - z
      BY <2>3, <1>2, DistanceAdds DEF y, z
    <2>5. Position(x) = y + d
      BY <2>3, <2>4 DEF Position
    <2>6. y = Position(x) - d
      BY <2>2, <2>5, <1>1
    <2>7. QED
      BY <2>6, <1>2 DEF y
  <1>5. QED
    BY <1>3, <1>4

\* A packet arrives while the window is filling: it is the next one.
LEMMA YoungArrives ==
  ASSUME IInv, StreamInv, ~isEmpty(cur), Young,
         NEW s \in SeqNum, NEW p \in Payload, NEW due \in BOOLEAN,
         s \in flight, Oldest(s),
         processRTP([seq |-> s, payload |-> p], due),
         flight' = flight \ {s}, owed' = owed \ {s}, sendSeq' = sendSeq
  PROVE  StreamInv' /\ nextSeq' = nextSeq
  <1> DEFINE pkt == [seq |-> s, payload |-> p]
             a == Position(sendSeq)
             n == cur.count
             c == At(cur, n)
  <1>1. /\ NetInv /\ Flowing /\ Filling /\ sendSeq \in SeqNum /\ flight \subseteq SeqNum
        /\ owed = flight
        /\ slots \in [Cell -> Slot] /\ cur \in Cursor /\ Linked(cur)
        /\ WindowHolds
    BY DEF StreamInv, NetInv, IInv, TypeOK, WindowTypeOK, Filling
  <1>2. /\ Capacity \in Nat \ {0} /\ n \in 1 .. Capacity
        /\ startSeq \in SeqNum /\ nextSeq \in SeqNum
        /\ MaxReorder \in 0 .. Capacity - 1
        /\ a \in n .. n + MaxReorder + 1
    BY <1>1, FlightPlace
  <1>3. n \in 1 .. Capacity - 1 /\ HalfRange \in Nat /\ 3 * Capacity < HalfRange
    BY <1>2, Ranges DEF Young, isFull
  <1>4. Position(s) = n
    <2>1. Position(s) \in n .. a - 1
      BY <1>1, <1>2 DEF Flowing, Filling
    <2> DEFINE x == Plus(startSeq, n)
               y == Position(s)
    <2>2. x \in SeqNum /\ Position(x) = n
      <3>1. n \in -HalfRange .. HalfRange - 1
        BY <1>2, <1>3
      <3>2. QED
        BY <3>1, <1>2, DistanceUnique DEF Position
    <2>3. Position(x) \in n .. a - 1
      BY <2>1, <2>2, <1>2
    <2>4. x \in flight
      BY <2>2, <2>3, <1>1 DEF Flowing
    <2>5. distance(s, x) >= 0
      BY <2>4 DEF Oldest
    <2> HIDE DEF x
    <2>6. n - y \in -HalfRange .. HalfRange - 1
      BY <2>1, <1>2, <1>3
    <2>7. distance(s, x) = n - y
      BY <2>2, <2>6, <1>2, DistanceAdds DEF Position
    <2>8. QED
      BY <2>1, <2>5, <2>7, <1>2
  <1>5. NextPacket(pkt)
    BY <1>2, <1>3, <1>4 DEF processRTP, insertPacket, FirstPacket, OutOfOrder, FarAway, OlderPacket, Prepend, Disorder,
       Jump, TooNew, InWindow, isEmpty
  <1>6. OverNum(cur, 1) = 0
    BY <1>2, <1>3 DEF OverNum, Excess
  <1>7. cur' = shiftBackN(cur, 1) /\ startSeq' = startSeq /\ nextSeq' = nextSeq
    <2>1. Plus(startSeq, 0) = startSeq
      BY <1>2, DistanceZero, PlusPosition
    <2>2. QED
      BY <2>1, <1>5, <1>6 DEF NextPacket, Slide
  <1>8. cur' \in Cursor /\ Linked(cur') /\ cur'.count = n + 1
    <2>1. shiftBackN(cur, 1).count = n + 1 - 0
      BY <1>1, <1>6, ShiftBackN
    <2>2. QED
      BY <2>1, <1>1, <1>2, <1>7, ShiftBackN
  <1>9. \A i \in Int : At(cur', i) = At(cur, i)
    <2> SUFFICES ASSUME NEW i \in Int PROVE At(cur', i) = At(cur, i)
      OBVIOUS
    <2>1. At(shiftBackN(cur, 1), i - 0) = At(cur, i)
      BY <1>1, <1>2, <1>6, ShiftBackKeeps
    <2>2. QED
      BY <2>1, <1>7
  <1>10. cur'.tail = c /\ c \in Cell
    <2>1. cur'.tail = At(cur', n)
      BY <1>2, <1>8 DEF Linked
    <2>2. QED
      BY <2>1, <1>1, <1>3, <1>9, AtCell DEF Cell
  <1>11. slots[c].payload = None
    BY <1>1, <1>2, <1>3 DEF Filling
  <1>12. checkPlaceSlot(pkt, c, "kNoError")
    BY <1>5, <1>10 DEF NextPacket
  <1> HIDE DEF c, n, a
  <1>13. /\ slots' = [slots EXCEPT ![c] = pkt]
         /\ held' = StillHeld(held \cup {s})
    BY <1>11, <1>12, StreamAssumption DEF checkPlaceSlot, valid, emplaceSlot, Stored, Accepted
  <1>14. held' = held \cup {s}
    <2>1. ASSUME NEW x \in held \cup {s} PROVE distance(startSeq', x) \in 0 .. cur'.count - 1
      <3>1. CASE x = s
        <4>1. distance(startSeq', x) = n
          BY <3>1, <1>4, <1>7 DEF Position
        <4>2. QED
          BY <4>1, <1>2, <1>8
      <3>2. CASE x \in held
        <4>1. distance(startSeq', x) \in 0 .. n - 1
          BY <3>2, <1>1, <1>7 DEF WindowHolds, InWindow, Position, n
        <4>2. QED
          BY <4>1, <1>2, <1>8
      <3>3. QED
        BY <3>1, <3>2, <2>1
    <2>2. QED
      BY <2>1, <1>13 DEF StillHeld
  <1>15. pc' \in {"read", "pull"}
    BY DEF processRTP, Received
  <1>16. NetInv'
    BY <1>1, <1>15 DEF NetInv
  <1>17. ASSUME NEW x \in SeqNum
         PROVE  Position(x)' = Position(x) /\ Position(x) \in Int /\ (Position(x) = n => x = s)
    <2>1. Position(x) \in Int
      BY <1>2, <1>3, DistanceWrapped DEF Position
    <2>2. Position(x) = n => x = s
      BY <1>2, <1>4, DistanceInjective DEF Position
    <2>3. QED
      BY <2>1, <2>2, <1>7 DEF Position
  <1>18. /\ Position(sendSeq)' = a /\ a \in n + 1 .. n + MaxReorder + 1
         /\ Position(nextSeq)' = Position(nextSeq)
    <2>1. a > n
      <3>1. Position(s) \in Position(nextSeq) .. a - 1
        BY <1>1 DEF Flowing, a
      <3>2. QED
        BY <3>1, <1>2, <1>4
    <2>2. QED
      BY <2>1, <1>2, <1>7, <1>17, <1>1 DEF a, Position
  <1>19. ASSUME NEW i \in 0 .. Capacity - 1, i # n
         PROVE  slots'[At(cur', i)] = slots[At(cur, i)]
    <2>1. At(cur', i) = At(cur, i) /\ At(cur, i) \in Cell /\ At(cur, i) # c
      <3>1. n \in 0 .. Capacity - 1
        BY <1>3
      <3>2. QED
        BY <3>1, <1>1, <1>9, <1>19, AtCell, AtInjective DEF Cell, c
    <2>2. QED
      BY <2>1, <1>1, <1>10, <1>13
  <1>20. Flowing'
    <2>1. Position(sendSeq)' >= cur'.count /\ Position(nextSeq)' \in 0 .. cur'.count
      BY <1>1, <1>2, <1>8, <1>18 DEF Flowing, n
    <2>2. ASSUME NEW x \in SeqNum, Position(x)' \in cur'.count .. Position(sendSeq)' - 1
          PROVE  x \in owed'
      <3>1. Position(x) \in n .. a - 1 /\ Position(x) # n
        BY <2>2, <1>2, <1>8, <1>17, <1>18
      <3>2. x \in owed
        BY <3>1, <1>1 DEF Flowing, n, a
      <3>3. QED
        BY <3>1, <3>2, <1>4
    <2>3. \A x \in owed' : x \notin held'
      BY <1>1, <1>14 DEF Flowing
    <2>4. ASSUME NEW x \in owed'
          PROVE  Position(x)' \in Position(nextSeq)' .. Position(sendSeq)' - 1
      <3>1. x \in SeqNum /\ Position(x) \in Position(nextSeq) .. a - 1
        BY <2>4, <1>1 DEF Flowing, a
      <3>2. QED
        BY <3>1, <1>17, <1>18
    <2>5. ASSUME NEW x \in SeqNum, InWindow(x)'
          PROVE  x \in held' \/ (x \in owed' /\ ~valid(SlotOf(x)', x))
      <3>1. Position(x) \in 0 .. n
        BY <2>5, <1>2, <1>8, <1>17 DEF InWindow
      <3>2. CASE Position(x) = n
        BY <3>2, <1>14, <1>17
      <3>3. CASE Position(x) # n
        <4>1. InWindow(x)
          BY <3>1, <3>3, <1>2 DEF InWindow, n
        <4>2. CASE x \in held
          BY <4>2, <1>14
        <4>3. CASE x \in owed /\ ~valid(SlotOf(x), x)
          <5>1. x # s
            BY <3>3, <1>4
          <5>2. Position(x) \in 0 .. Capacity - 1
            BY <3>1, <1>2, <1>3
          <5>3. SlotOf(x)' = SlotOf(x)
            BY <5>2, <3>3, <1>17, <1>19 DEF SlotOf
          <5>4. QED
            BY <5>1, <5>3, <4>3
        <4>4. QED
          BY <4>1, <4>2, <4>3, <1>1 DEF Flowing
      <3>4. QED
        BY <3>2, <3>3
    <2>6. QED
      BY <2>1, <2>2, <2>3, <2>4, <2>5 DEF Flowing, valid
  <1>21. Filling'
    <2>1. \A x \in owed' : Position(x)' >= cur'.count
      <3> SUFFICES ASSUME NEW x \in owed' PROVE Position(x)' >= cur'.count
        OBVIOUS
      <3>1. x \in SeqNum /\ x # s /\ Position(x) >= n
        BY <1>1 DEF Filling, n
      <3>2. QED
        BY <3>1, <1>2, <1>8, <1>17
    <2>2. ASSUME NEW i \in cur'.count .. Capacity - 1 PROVE slots'[At(cur', i)].payload = None
      <3>1. i \in n + 1 .. Capacity - 1 /\ i \in n .. Capacity - 1 /\ i # n /\ i \in 0 .. Capacity - 1
        BY <2>2, <1>2, <1>8
      <3>2. slots[At(cur, i)].payload = None
        BY <3>1, <1>1 DEF Filling, n
      <3>3. QED
        BY <3>1, <3>2, <1>19
    <2>3. flight' = owed'
      BY <1>1
    <2>4. QED
      BY <2>1, <2>2, <2>3 DEF Filling
  <1>22. ~isEmpty(cur)'
    BY <1>2, <1>8 DEF isEmpty
  <1>23. QED
    BY <1>7, <1>16, <1>20, <1>21, <1>22 DEF StreamInv

\* What the full window pushes off is behind the reader, and what is behind
\* the reader is held.
LEMMA BehindIsHeld ==
  ASSUME IInv, NetInv, ~isEmpty(cur), Flowing,
         NEW x \in SeqNum, Position(x) \in 0 .. Position(nextSeq) - 1
  PROVE  x \in held /\ SlotOf(x).seq = x
  <1>1. /\ cur.count \in Int /\ Position(nextSeq) \in 0 .. cur.count
    BY FlightPlace DEF Flowing
  <1>2. InWindow(x)
    BY <1>1 DEF InWindow
  <1>3. x \notin owed
    <2>1. ASSUME x \in owed PROVE FALSE
      <3>1. Position(x) >= Position(nextSeq)
        BY <2>1, <1>1 DEF Flowing
      <3>2. QED
        BY <3>1, <1>1
    <2>2. QED
      BY <2>1
  <1>4. QED
    BY <1>2, <1>3 DEF Flowing, IInv, WindowHolds, valid

\* A packet arrives at a full window: it is in the window or less than a
\* window behind its end, and the window slides by d over packets that were
\* read.
LEMMA FullPlaces ==
  ASSUME IInv, StreamInv, ~isEmpty(cur), ~Young, pc = "read",
         NEW s \in SeqNum, s \in flight
  PROVE  /\ cur.count = Capacity
         /\ Position(s) \in 0 .. Position(sendSeq) - 1
         /\ Position(sendSeq) \in Capacity .. 2 * Capacity
         /\ Position(nextSeq) \in 0 .. Capacity
         /\ Position(nextSeq) >= Position(sendSeq) - Capacity
  <1> DEFINE a == Position(sendSeq)
  <1>1. /\ NetInv /\ Flowing /\ sendSeq \in SeqNum /\ flight \subseteq SeqNum /\ owed \subseteq flight
        /\ PulledDry /\ cur.count = Capacity
    BY DEF StreamInv, NetInv, IInv, Young, isFull
  <1>2. /\ Capacity \in Nat \ {0}
        /\ startSeq \in SeqNum /\ nextSeq \in SeqNum
        /\ MaxReorder \in 0 .. Capacity - 1
        /\ a \in Capacity .. Capacity + MaxReorder + 1
        /\ \A x \in flight : Position(x) = a - distance(x, sendSeq)
    BY <1>1, FlightPlace
  <1>3. \A x \in flight : distance(x, sendSeq) \in 1 .. MaxReorder + 1
    BY <1>1 DEF NetInv
  <1>4. Position(nextSeq) \in 0 .. Capacity
    BY <1>1 DEF Flowing
  <1> HIDE DEF a
  <1>5. Position(s) \in 0 .. a - 1
    <2>1. Position(s) = a - distance(s, sendSeq) /\ distance(s, sendSeq) \in 1 .. MaxReorder + 1
      BY <1>2, <1>3
    <2>2. QED
      BY <2>1, <1>2
  <1>6. Position(nextSeq) >= a - Capacity
    <2>1. CASE Position(nextSeq) = Capacity
      BY <2>1, <1>2
    <2>2. CASE Position(nextSeq) # Capacity
      <3>1. InWindow(nextSeq)
        BY <2>2, <1>1, <1>2, <1>4 DEF InWindow
      <3>2. nextSeq \notin held
        BY <1>1 DEF PulledDry, isFull
      <3>3. nextSeq \in flight
        BY <3>1, <3>2, <1>1, <1>2 DEF Flowing
      <3>4. Position(nextSeq) = a - distance(nextSeq, sendSeq) /\ distance(nextSeq, sendSeq) \in 1 .. MaxReorder + 1
        BY <3>3, <1>2, <1>3
      <3>5. QED
        BY <3>4, <1>2
    <2>3. QED
      BY <2>1, <2>2
  <1>7. QED
    BY <1>1, <1>2, <1>4, <1>5, <1>6 DEF a

\* How insertPacket makes room for it.
LEMMA FullSlides ==
  ASSUME IInv, StreamInv, ~isEmpty(cur), ~Young,
         NEW s \in SeqNum, NEW p \in Payload, NEW due \in BOOLEAN,
         s \in flight,
         processRTP([seq |-> s, payload |-> p], due)
  PROVE  \E d \in 0 .. Capacity, normal \in Success :
           /\ d = IF Position(s) < Capacity THEN 0 ELSE Position(s) - Capacity + 1
           /\ cur' \in Cursor /\ cur'.count = Capacity
           /\ startSeq' = Plus(startSeq, d)
           /\ nextSeq' = nextSeq
           /\ \A i \in Int : At(cur', i - d) = At(cur, i)
           /\ checkPlaceSlot([seq |-> s, payload |-> p], At(cur', Position(s) - d), normal)
  <1> DEFINE pkt == [seq |-> s, payload |-> p]
             y == Position(s)
             d == IF y < Capacity THEN 0 ELSE y - Capacity + 1
  <1>1. pc = "read"
    BY DEF processRTP, Received
  <1>2. /\ cur.count = Capacity /\ y \in 0 .. 2 * Capacity - 1 /\ Capacity \in Nat \ {0}
        /\ cur \in Cursor /\ Linked(cur) /\ startSeq \in SeqNum
    BY <1>1, FullPlaces, Ranges DEF IInv, TypeOK, WindowTypeOK
  <1>3. d \in 0 .. Capacity
    BY <1>2
  <1>4. CASE y < Capacity
    <2>1. Disorder(pkt)
      BY <1>2, <1>4 DEF processRTP, insertPacket, FirstPacket, OutOfOrder, FarAway, OlderPacket, Prepend,
         NextPacket, Jump, TooNew, isEmpty
    <2>2. /\ cur' = cur /\ startSeq' = startSeq /\ nextSeq' = nextSeq
          /\ checkPlaceSlot(pkt, At(cur, y), "kDisorderPacket")
      BY <2>1 DEF Disorder
    <2>3. Plus(startSeq, 0) = startSeq
      BY <1>2, DistanceZero, PlusPosition
    <2>4. \A i \in Int : At(cur', i - 0) = At(cur, i)
      BY <2>2
    <2>5. y - 0 = y
      BY <1>2
    <2>6. checkPlaceSlot(pkt, At(cur', y - 0), "kDisorderPacket")
      BY <2>2, <2>5
    <2>7. d = 0 /\ 0 \in 0 .. Capacity /\ "kDisorderPacket" \in Success
      BY <1>2, <1>4 DEF Success
    <2> HIDE DEF d, y
    <2>8. QED
      BY <2>2, <2>3, <2>4, <2>6, <2>7, <1>2 DEF d, y
  <1>5. CASE y >= Capacity
    <2> DEFINE n == y - Capacity + 1
    <2>1. n \in Nat \ {0} /\ n \in 1 .. Capacity /\ d = n
      BY <1>2, <1>5
    <2>2. PICK normal \in Success : Slide(n) /\ checkPlaceSlot(pkt, cur'.tail, normal)
      <3>1. CASE y = Capacity
        <4>1. NextPacket(pkt)
          BY <3>1, <1>2 DEF processRTP, insertPacket, FirstPacket, OutOfOrder, FarAway, OlderPacket, Prepend,
             Disorder, InWindow, Jump, TooNew, isEmpty
        <4>2. n = 1 /\ "kNoError" \in Success
          BY <3>1, <1>2 DEF Success
        <4>3. Slide(1) /\ checkPlaceSlot(pkt, cur'.tail, "kNoError")
          BY <4>1 DEF NextPacket
        <4> HIDE DEF n
        <4>4. QED
          BY <4>2, <4>3
      <3>2. CASE y # Capacity
        <4>1. Jump(pkt)
          BY <3>2, <1>2, <1>5 DEF processRTP, insertPacket, FirstPacket, OutOfOrder, FarAway, OlderPacket, Prepend,
             Disorder, InWindow, NextPacket, TooNew, isEmpty
        <4>2. "kDiscontinuity" \in Success
          BY DEF Success
        <4>3. Slide(n) /\ checkPlaceSlot(pkt, cur'.tail, "kDiscontinuity")
          BY <4>1, <1>2 DEF Jump
        <4> HIDE DEF n
        <4>4. QED
          BY <4>2, <4>3
      <3>3. QED
        BY <3>1, <3>2
    <2> HIDE DEF n
    <2>3. OverNum(cur, n) = n
      BY <2>1, <1>2 DEF OverNum, Excess
    <2>4. /\ cur' = shiftBackN(cur, n) /\ startSeq' = Plus(startSeq, n) /\ nextSeq' = nextSeq
      BY <2>2, <2>3 DEF Slide
    <2>5. cur' \in Cursor /\ Linked(cur') /\ cur'.count = Capacity
      <3>1. cur' \in Cursor /\ Linked(cur') /\ cur'.count = Capacity + n - n
        BY <2>1, <2>3, <2>4, <1>2, ShiftBackN
      <3>2. QED
        BY <3>1, <2>1, <1>2
    <2>6. \A i \in Int : At(cur', i - n) = At(cur, i)
      BY <2>1, <2>3, <2>4, <1>2, ShiftBackKeeps
    <2>7. cur'.tail = At(cur', y - n)
      <3>1. y - n = Capacity - 1
        BY <1>2 DEF n
      <3>2. QED
        BY <3>1, <2>5, <1>2 DEF Linked
    <2>8. checkPlaceSlot(pkt, At(cur', y - n), normal)
      BY <2>2, <2>7
    <2>9. n \in 0 .. Capacity
      BY <2>1, <1>2
    <2> HIDE DEF d, y
    <2>10. QED
      BY <2>1, <2>2, <2>4, <2>5, <2>6, <2>8, <2>9 DEF d, y
  <1>6. QED
    BY <1>2, <1>4, <1>5

\* A packet arrives at a full window.
LEMMA FullArrives ==
  ASSUME IInv, StreamInv, ~isEmpty(cur), ~Young,
         NEW s \in SeqNum, NEW p \in Payload, NEW due \in BOOLEAN,
         s \in flight,
         processRTP([seq |-> s, payload |-> p], due),
         flight' \subseteq flight, flight \ {s} \subseteq flight',
         owed' = owed \ {s}, sendSeq' = sendSeq
  PROVE  StreamInv' /\ nextSeq' = nextSeq
  <1> DEFINE pkt == [seq |-> s, payload |-> p]
             a == Position(sendSeq)
             y == Position(s)
             r == Position(nextSeq)
  <1>1. /\ NetInv /\ Flowing /\ sendSeq \in SeqNum /\ flight \subseteq SeqNum /\ owed \subseteq flight
        /\ slots \in [Cell -> Slot] /\ cur \in Cursor
        /\ WindowHolds /\ startSeq \in SeqNum /\ nextSeq \in SeqNum /\ held \subseteq SeqNum
    BY DEF StreamInv, NetInv, IInv, TypeOK, WindowTypeOK
  <1>2. pc = "read" /\ pc' = IF isFull(cur') \/ due THEN "pull" ELSE "read"
    BY DEF processRTP, Received
  <1>3. /\ Capacity \in Nat \ {0} /\ HalfRange \in Nat /\ 3 * Capacity < HalfRange
        /\ cur.count = Capacity
        /\ y \in 0 .. a - 1 /\ a \in Capacity .. 2 * Capacity
        /\ r \in 0 .. Capacity /\ r >= a - Capacity
    BY <1>2, FullPlaces, Ranges
  <1>4. PICK d \in 0 .. Capacity, normal \in Success :
           /\ d = IF y < Capacity THEN 0 ELSE y - Capacity + 1
           /\ cur' \in Cursor /\ cur'.count = Capacity
           /\ startSeq' = Plus(startSeq, d)
           /\ nextSeq' = nextSeq
           /\ \A i \in Int : At(cur', i - d) = At(cur, i)
           /\ checkPlaceSlot(pkt, At(cur', y - d), normal)
    BY FullSlides
  <1> DEFINE c == At(cur', y - d)
  <1>5. d <= a - Capacity /\ d <= r /\ y - d \in 0 .. Capacity - 1 /\ d \in Int
    BY <1>3, <1>4
  <1>6. startSeq' \in SeqNum
    BY <1>1, <1>3, <1>4, MovedPlaces
  <1>7. ASSUME NEW x \in SeqNum,
               Position(x) \in -Capacity .. 3 * Capacity \/ distance(startSeq', x) \in -Capacity .. Capacity
        PROVE  Position(x)' = Position(x) - d
    <2>1. distance(startSeq', x) = Position(x) - d
      BY <1>1, <1>4, <1>7, MovedPlaces
    <2>2. QED
      BY <2>1 DEF Position
  <1>8. Position(sendSeq)' = a - d /\ Position(nextSeq)' = r - d
    <2>1. a \in -Capacity .. 3 * Capacity /\ r \in -Capacity .. 3 * Capacity
      BY <1>3
    <2>2. distance(startSeq', sendSeq) = a - d /\ distance(startSeq', nextSeq) = r - d
      BY <2>1, <1>1, <1>4, MovedPlaces
    <2>3. QED
      BY <2>2, <1>4 DEF Position
  <1>9. distance(startSeq', s) = y - d
    <2>1. y \in -Capacity .. 3 * Capacity
      BY <1>3
    <2>2. QED
      BY <2>1, <1>1, <1>4, MovedPlaces
  <1>10. c \in Cell /\ c = At(cur, y)
    BY <1>3, <1>4, <1>5, AtCell DEF Cell
  <1>11. checkPlaceSlot(pkt, c, normal)
    BY <1>4
  <1> HIDE DEF c, a, y, r
  \* The slot of a number behind the old window holds a packet that was read.
  <1>12. ASSUME NEW x \in SeqNum, Position(x) \in Capacity .. Capacity + d - 1
         PROVE  ~valid(slots[At(cur, Position(x))], x)
    <2> DEFINE z == Plus(startSeq, Position(x) - Capacity)
               k == Position(x) - Capacity
    <2>1. k \in 0 .. d - 1 /\ k \in -HalfRange .. HalfRange - 1 /\ k \in 0 .. r - 1
      BY <1>3, <1>5, <1>12
    <2>2. z \in SeqNum /\ Position(z) = k
      BY <2>1, <1>1, DistanceUnique DEF Position
    <2>3. SlotOf(z).seq = z
      BY <2>1, <2>2, <1>1, BehindIsHeld DEF r
    <2>4. At(cur, k) = At(cur, Position(x))
      <3>1. cur.head \in Int
        BY <1>1, CursorInts
      <3> DEFINE h == cur.head + k
      <3>2. h \in Int /\ cur.head + Position(x) = h + Capacity
        BY <3>1, <2>1, <1>3, <1>12
      <3> HIDE DEF h
      <3>3. (h + Capacity) % Capacity = h % Capacity
        <4>1. Capacity % Capacity = 0
          <5>1. 0 \in 0 .. Capacity - 1 /\ Capacity = Capacity * 1 + 0 /\ Capacity \in Int
            BY <1>3
          <5>2. QED
            BY <5>1, <1>3, ModUnique
        <4>2. ((Capacity % Capacity) + h) % Capacity = (Capacity + h) % Capacity
          <5>1. Capacity \in Int
            BY <1>3
          <5>2. QED
            BY <5>1, <3>2, CellChain
        <4>3. Capacity + h = h + Capacity /\ 0 + h = h
          BY <3>2, <1>3
        <4>4. QED
          BY <4>1, <4>2, <4>3
      <3>4. QED
        BY <3>2, <3>3 DEF At, h
    <2>5. z # x
      BY <2>1, <2>2, <1>3, <1>12
    <2> HIDE DEF z, k
    <2>6. slots[At(cur, Position(x))].seq = z
      BY <2>2, <2>3, <2>4 DEF SlotOf
    <2>7. QED
      BY <2>5, <2>6 DEF valid
  <1>13. s \in held' /\ held' \subseteq held \cup {s}
    <2>1. held' \subseteq held \cup {s}
      BY <1>11 DEF checkPlaceSlot, StillHeld, Accepted
    <2>2. distance(startSeq', s) \in 0 .. cur'.count - 1
      BY <1>3, <1>4, <1>5, <1>9
    <2>3. CASE valid(slots[c], s)
      <3>1. y < Capacity
        <4>1. ASSUME y >= Capacity PROVE FALSE
          <5>1. y \in Capacity .. Capacity + d - 1
            BY <4>1, <1>3, <1>4
          <5>2. ~valid(slots[At(cur, Position(s))], s)
            BY <5>1, <1>12 DEF y
          <5>3. QED
            BY <5>2, <2>3, <1>10 DEF y
        <4>2. QED
          BY <4>1, <1>3
      <3>2. InWindow(s) /\ valid(SlotOf(s), s)
        BY <3>1, <2>3, <1>3, <1>10 DEF InWindow, SlotOf, y
      <3>3. s \in held
        BY <3>2, <1>1 DEF Flowing
      <3>4. held' = StillHeld(held)
        BY <2>3, <1>11 DEF checkPlaceSlot
      <3>5. QED
        BY <3>3, <3>4, <2>1, <2>2 DEF StillHeld
    <2>4. CASE ~valid(slots[c], s)
      <3>1. held' = StillHeld(held \cup {s})
        BY <2>4, <1>11, StreamAssumption DEF checkPlaceSlot, Accepted
      <3>2. QED
        BY <3>1, <2>1, <2>2 DEF StillHeld
    <2>5. QED
      BY <2>3, <2>4
  <1>14. ASSUME NEW x \in held, distance(startSeq', x) \in 0 .. cur'.count - 1
         PROVE  x \in held'
    BY <1>11, <1>14 DEF checkPlaceSlot, StillHeld
  <1>15. NetInv'
    BY <1>1, <1>2 DEF NetInv
  <1>16. Flowing'
    <2>1. Position(sendSeq)' >= cur'.count /\ Position(nextSeq)' \in 0 .. cur'.count
      BY <1>3, <1>4, <1>5, <1>8
    <2>2. ASSUME NEW x \in SeqNum, Position(x)' \in cur'.count .. Position(sendSeq)' - 1
          PROVE  x \in owed'
      <3>1. distance(startSeq', x) \in Capacity .. a - d - 1
        BY <2>2, <1>4, <1>8 DEF Position
      <3>2. distance(startSeq', x) \in -Capacity .. 3 * Capacity
        BY <3>1, <1>3, <1>5
      <3>3. Position(x) = distance(startSeq', x) + d
        <4> DEFINE u == distance(startSeq', x)
                   w == distance(startSeq', startSeq)
        <4>1. w = -d
          <5>1. distance(startSeq, startSeq') = d
            BY <1>1, <1>3, <1>4, DistanceUnique
          <5>2. d \in -Capacity .. 3 * Capacity
            BY <1>3
          <5>3. QED
            BY <5>1, <5>2, <1>1, <1>6, DistanceBack
        <4>2. u \in Capacity .. a - d - 1
          BY <3>1
        <4> HIDE DEF u, w
        <4>3. u - w \in -HalfRange .. HalfRange - 1 /\ u - w = u + d
          BY <4>1, <4>2, <1>3, <1>5
        <4>4. distance(startSeq, x) = u - w
          BY <4>3, <2>2, <1>1, <1>6, DistanceAdds DEF u, w
        <4>5. QED
          BY <4>3, <4>4 DEF Position, u
      <3>4. Position(x) \in Capacity .. a - 1 /\ Position(x) >= Capacity + d
        BY <3>1, <3>3, <1>3, <1>5
      <3>5. x \in owed
        BY <3>4, <1>1, <1>3 DEF Flowing, a
      <3>6. x # s
        BY <3>4, <1>3, <1>5 DEF y
      <3>7. QED
        BY <3>5, <3>6
    <2>3. \A x \in owed' : x \notin held'
      BY <1>1, <1>13 DEF Flowing
    <2>4. ASSUME NEW x \in owed'
          PROVE  Position(x)' \in Position(nextSeq)' .. Position(sendSeq)' - 1
      <3>1. x \in SeqNum /\ Position(x) \in r .. a - 1
        BY <2>4, <1>1 DEF Flowing, a, r
      <3>2. Position(x) \in -Capacity .. 3 * Capacity
        BY <3>1, <1>3
      <3>3. Position(x)' = Position(x) - d
        BY <3>1, <3>2, <1>7
      <3>4. QED
        BY <3>1, <3>3, <1>3, <1>5, <1>8
    <2>5. ASSUME NEW x \in SeqNum, InWindow(x)'
          PROVE  x \in held' \/ (x \in owed' /\ ~valid(SlotOf(x)', x))
      <3> DEFINE q == distance(startSeq', x)
      <3>1. q \in 0 .. Capacity - 1 /\ q \in 0 .. cur'.count - 1
        BY <2>5, <1>4 DEF InWindow, Position
      <3>2. q = Position(x) - d /\ Position(x) \in Int
        <4>1. q \in -Capacity .. Capacity
          BY <3>1, <1>3
        <4>2. QED
          BY <4>1, <1>1, <1>3, <1>4, MovedPlaces, DistanceWrapped DEF Position
      <3> HIDE DEF q
      <3>3. Position(x) \in d .. Capacity + d - 1
        BY <3>1, <3>2, <1>3, <1>5
      <3>4. CASE x = s
        BY <3>4, <1>13
      <3>5. CASE x # s
        <4>1. At(cur', q) = At(cur, Position(x)) /\ At(cur', q) \in Cell
          BY <3>1, <3>2, <1>4, AtCell DEF Cell
        <4>2. At(cur', q) # c
          <5>1. q # y - d
            BY <3>2, <3>5, <1>1, <1>3, <1>5, DistanceInjective DEF Position, y
          <5>2. QED
            BY <5>1, <3>1, <1>4, <1>5, AtInjective DEF c
        <4>3. slots'[At(cur', q)] = slots[At(cur, Position(x))]
          BY <4>1, <4>2, <1>1, <1>11 DEF checkPlaceSlot, emplaceSlot
        <4>4. SlotOf(x)' = slots[At(cur, Position(x))]
          BY <4>3 DEF SlotOf, Position, q
        <4>5. CASE Position(x) < Capacity
          <5>1. InWindow(x)
            BY <4>5, <3>3, <1>3 DEF InWindow
          <5>2. x \in held \/ (x \in owed /\ ~valid(SlotOf(x), x))
            BY <5>1, <1>1 DEF Flowing
          <5>3. x \in held => x \in held'
            BY <3>1, <1>14 DEF q
          <5>4. QED
            BY <5>2, <5>3, <4>4, <3>5 DEF SlotOf
        <4>6. CASE Position(x) >= Capacity
          <5>1. Position(x) \in Capacity .. Capacity + d - 1 /\ d # 0
            BY <4>6, <3>2, <3>3, <1>3, <1>5
          <5>2. Position(x) \in Capacity .. a - 1
            BY <5>1, <1>3, <1>5
          <5>3. x \in owed'
            BY <5>2, <3>5, <1>1, <1>3 DEF Flowing, a
          <5>4. QED
            BY <5>1, <5>3, <4>4, <1>12
        <4>7. QED
          BY <4>5, <4>6, <3>2, <1>3
      <3>6. QED
        BY <3>4, <3>5
    <2>6. QED
      BY <2>1, <2>2, <2>3, <2>4, <2>5 DEF Flowing, valid
  <1>17. ~isEmpty(cur)' /\ ~Young'
    BY <1>3, <1>4 DEF isEmpty, Young, isFull
  <1>18. QED
    BY <1>4, <1>15, <1>16, <1>17 DEF StreamInv

\* The demuxer pulls: it takes the number it waits for or nothing.
LEMMA PullStep ==
  ASSUME IInv, StreamInv, Pull
  PROVE  /\ StreamInv'
         /\ nextSeq' # nextSeq => depacked' = nextSeq /\ depacked' \in pending
  <1>1. /\ pc = "pull" /\ processFlow
        /\ UNCHANGED <<cur, slots, startSeq, held, sendSeq, flight, owed>>
    BY DEF Pull, processFlow, nextSlotInOrder
  <1>2. ~isEmpty(cur) /\ Flowing /\ NetInv
    BY <1>1 DEF StreamInv, Waiting
  <1>3. /\ startSeq \in SeqNum /\ nextSeq \in SeqNum /\ cur.count \in 1 .. Capacity
        /\ Capacity \in Nat \ {0} /\ owed \subseteq SeqNum /\ held \subseteq SeqNum
        /\ Position(nextSeq) \in 0 .. cur.count
    BY <1>2, FlightPlace DEF NetInv, Flowing, IInv, TypeOK, WindowTypeOK
  <1>4. Expected = nextSeq
    BY <1>3 DEF Expected
  <1>5. pc' \in {"read", "pull"}
    BY <1>1 DEF processFlow
  <1>6. NetInv'
    BY <1>1, <1>2, <1>5 DEF NetInv
  <1>7. CASE nextSeq' = nextSeq
    <2>1. Flowing'
      BY <1>1, <1>2, <1>7 DEF Flowing, Position, InWindow, SlotOf
    <2>2. (Young => Filling) => (Young' => Filling')
      BY <1>1 DEF Young, Filling, Position
    <2>3. QED
      BY <2>1, <2>2, <1>1, <1>2, <1>6, <1>7 DEF StreamInv
  <1>8. CASE nextSeq' # nextSeq
    <2>1. PullNext
      BY <1>1, <1>4, <1>8 DEF processFlow, nextSlotInOrder, PullNothing, PullEmpty
    <2>2. /\ InWindow(nextSeq) /\ valid(SlotOf(nextSeq), nextSeq)
          /\ nextSeq' = Plus(nextSeq, 1) /\ state' = "kNoError"
      BY <2>1, <1>4 DEF PullNext
    <2>3. nextSeq \in held /\ nextSeq \in pending
      <3>1. nextSeq \in held
        BY <2>2, <1>2, <1>3 DEF Flowing
      <3>2. Behind
        BY DEF IInv
      <3>3. QED
        BY <3>1, <3>2, <1>3 DEF Behind
    <2>4. depacked' = nextSeq
      <3>1. state' \notin Failure
        BY <2>2 DEF Failure
      <3>2. depacked' = Plus(nextSeq', -1)
        BY <3>1, <1>1 DEF processFlow
      <3>3. QED
        BY <3>2, <2>2, <1>3, PlusBack
    <2>5. nextSeq' \in SeqNum /\ Position(nextSeq)' = Position(nextSeq) + 1
      <3>1. Position(nextSeq) \in -Capacity .. 2 * Capacity
        BY <1>3
      <3>2. QED
        BY <3>1, <2>2, <1>1, <1>3, DistanceNext DEF Position
    <2>6. Position(nextSeq) <= cur.count - 1
      BY <2>2, <1>3 DEF InWindow
    <2>7. \A x \in owed : Position(x) \in Position(nextSeq) + 1 .. Position(sendSeq) - 1
      <3> SUFFICES ASSUME NEW x \in owed
                   PROVE  Position(x) \in Position(nextSeq) + 1 .. Position(sendSeq) - 1
        OBVIOUS
      <3>1. x \in SeqNum /\ x \notin held /\ Position(x) \in Position(nextSeq) .. Position(sendSeq) - 1
        BY <1>2, <1>3 DEF Flowing
      <3>2. Position(x) # Position(nextSeq)
        BY <3>1, <2>3, <1>3, DistanceInjective DEF Position
      <3>3. QED
        BY <3>1, <3>2, <1>3
    <2>8. Flowing'
      <3>1. Position(nextSeq)' \in 0 .. cur'.count
        BY <2>5, <2>6, <1>1, <1>3
      <3>2. \A x \in owed' : Position(x)' \in Position(nextSeq)' .. Position(sendSeq)' - 1
        <4>1. Position(sendSeq)' = Position(sendSeq) /\ owed' = owed /\ startSeq' = startSeq
          BY <1>1 DEF Position
        <4> SUFFICES ASSUME NEW x \in owed
                     PROVE  Position(x)' \in Position(nextSeq)' .. Position(sendSeq)' - 1
          BY <4>1
        <4>2. Position(x)' = Position(x)
          BY <4>1 DEF Position
        <4>3. QED
          BY <4>1, <4>2, <2>5, <2>7
      <3>3. /\ Position(sendSeq)' >= cur'.count
            /\ \A x \in SeqNum : Position(x)' \in cur'.count .. Position(sendSeq)' - 1 => x \in owed'
            /\ \A x \in owed' : x \notin held'
            /\ \A x \in SeqNum : InWindow(x)' => x \in held' \/ (x \in owed' /\ ~valid(SlotOf(x), x)')
        BY <1>1, <1>2 DEF Flowing, Position, InWindow, SlotOf, valid
      <3>4. QED
        BY <3>1, <3>2, <3>3 DEF Flowing
    <2>9. (Young => Filling) => (Young' => Filling')
      BY <1>1 DEF Young, Filling, Position
    <2>10. QED
      BY <2>3, <2>4, <2>8, <2>9, <1>1, <1>2, <1>6 DEF StreamInv
  <1>9. QED
    BY <1>7, <1>8

\* A packet arrives.
LEMMA ArriveStep ==
  ASSUME IInv, StreamInv, NEW s \in SeqNum, NEW again \in BOOLEAN, Arrive(s, again)
  PROVE  StreamInv' /\ (~isEmpty(cur) => nextSeq' = nextSeq)
  <1>1. PICK p \in Payload, due \in BOOLEAN : processRTP([seq |-> s, payload |-> p], due)
    BY DEF Arrive
  <1>2. /\ s \in flight
        /\ Young => Oldest(s) /\ ~again
        /\ flight' = IF again THEN flight ELSE flight \ {s}
        /\ owed' = owed \ {s}
        /\ sendSeq' = sendSeq
    BY DEF Arrive
  <1>3. CASE isEmpty(cur)
    <2>1. Young
      BY <1>3, Ranges DEF Young, isEmpty, isFull
    <2>2. QED
      BY <2>1, <1>1, <1>2, <1>3, FirstArrives
  <1>4. CASE ~isEmpty(cur) /\ Young
    BY <1>1, <1>2, <1>4, YoungArrives
  <1>5. CASE ~isEmpty(cur) /\ ~Young
    <2>1. flight' \subseteq flight /\ flight \ {s} \subseteq flight'
      BY <1>2
    <2>2. QED
      BY <2>1, <1>1, <1>2, <1>5, FullArrives
  <1>6. QED
    BY <1>3, <1>4, <1>5

LEMMA InitStreamInv == StreamInit => IInv /\ StreamInv
  <1> SUFFICES ASSUME StreamInit PROVE IInv /\ StreamInv
    OBVIOUS
  <1>1. Init /\ sendSeq = FirstSeq /\ flight = {} /\ owed = {}
    BY DEF StreamInit
  <1>2. /\ pc = "read" /\ held = {} /\ isEmpty(cur)
        /\ \A i \in Cell : slots[i].payload = None
    BY <1>1 DEF Init, WindowInit, Cleared, isEmpty
  <1>3. Capacity \in Nat \ {0} /\ MaxReorder \in 0 .. Capacity - 1 /\ FirstSeq \in SeqNum
    BY StreamAssumption, Ranges
  <1>4. NetInv
    BY <1>1, <1>2, <1>3 DEF NetInv
  <1>5. Waiting
    <2>1. 0 \in 0 .. MaxReorder + 1
      BY <1>3
    <2>2. {x \in SeqNum : distance(x, sendSeq) \in 1 .. 0} = {}
      OBVIOUS
    <2>3. QED
      BY <2>1, <2>2, <1>1, <1>2 DEF Waiting
  <1>6. QED
    BY <1>1, <1>2, <1>4, <1>5, InitIInv DEF StreamInv

\* Whatever the stream does is something a flow may do.
LEMMA StreamIsFlow == [StreamNext]_streamVars => [Next]_vars
  <1>1. ASSUME NEW s \in SeqNum, NEW again \in BOOLEAN, Arrive(s, again) PROVE Next
    <2>1. PICK p \in Payload, due \in BOOLEAN : processRTP([seq |-> s, payload |-> p], due)
      BY <1>1 DEF Arrive
    <2>2. [seq |-> s, payload |-> p] \in Packet
      BY DEF Packet
    <2>3. QED
      BY <2>1, <2>2 DEF Next
  <1>2. Send => UNCHANGED vars
    BY DEF Send
  <1>3. Pull => Next
    BY DEF Pull, Next
  <1>4. UNCHANGED streamVars => UNCHANGED vars
    BY DEF streamVars
  <1>5. QED
    BY <1>1, <1>2, <1>3, <1>4 DEF StreamNext

LEMMA NextStreamInv == IInv /\ StreamInv /\ [StreamNext]_streamVars => StreamInv'
  <1> SUFFICES ASSUME IInv, StreamInv, [StreamNext]_streamVars PROVE StreamInv'
    OBVIOUS
  <1>1. CASE Send
    BY <1>1, SendStep
  <1>2. ASSUME NEW s \in SeqNum, NEW again \in BOOLEAN, Arrive(s, again) PROVE StreamInv'
    BY <1>2, ArriveStep
  <1>3. CASE Pull
    BY <1>3, PullStep
  <1>4. CASE UNCHANGED streamVars
    <2>1. UNCHANGED <<cur, slots, startSeq, nextSeq, held, pc, sendSeq, flight, owed>>
      BY <1>4 DEF streamVars, vars
    <2>2. NetInv' /\ (Waiting => Waiting') /\ (Filling => Filling') /\ Young' = Young
      BY <2>1 DEF StreamInv, NetInv, Waiting, Filling, Young, Position
    <2>3. Flowing => Flowing'
      BY <2>1 DEF Flowing, Position, InWindow, SlotOf
    <2>4. QED
      BY <2>1, <2>2, <2>3 DEF StreamInv
  <1>5. QED
    BY <1>1, <1>2, <1>3, <1>4 DEF StreamNext

\* A stream without loss, whose packets overtake each other by less than the
\* window and may come twice, is read without a gap: no packet is given up,
\* repeated or stale and the window is never reset, for every window size,
\* range of sequence numbers and first sequence number, round the wrap any
\* number of times.
THEOREM StreamGapFree == StreamSpec => GapFree
  <1>1. IInv /\ [StreamNext]_streamVars => IInv'
    BY StreamIsFlow, NextIInv
  <1>2. IInv /\ StreamInv /\ [StreamNext]_streamVars
          => [nextSeq' # nextSeq /\ ~isEmpty(cur) => depacked' = nextSeq /\ depacked' \in pending]_streamVars
    <2> SUFFICES ASSUME IInv, StreamInv, [StreamNext]_streamVars,
                        nextSeq' # nextSeq, ~isEmpty(cur)
                 PROVE  depacked' = nextSeq /\ depacked' \in pending
      BY DEF streamVars, vars
    <2>1. CASE Send
      BY <2>1 DEF Send, vars
    <2>2. ASSUME NEW s \in SeqNum, NEW again \in BOOLEAN, Arrive(s, again) PROVE FALSE
      BY <2>2, ArriveStep
    <2>3. CASE Pull
      BY <2>3, PullStep
    <2>4. CASE UNCHANGED streamVars
      BY <2>4 DEF streamVars, vars
    <2>5. QED
      BY <2>1, <2>2, <2>3, <2>4 DEF StreamNext
  <1>3. QED
    BY <1>1, <1>2, InitStreamInv, NextStreamInv, PTL DEF StreamSpec, GapFree
=============================================================================
