---------------------------- MODULE PacketWindow ----------------------------
(***************************************************************************)
(* NRTPPacketWindow: the reordering window of one RTP flow.  Packets are   *)
(* inserted in the order they arrive and pulled in the order of their      *)
(* sequence numbers.  The window is a circular buffer of slots; the slot   *)
(* at position i is the place of sequence number startSeq + i.  Slots are  *)
(* never cleared: whether a slot is occupied is decided by comparing the   *)
(* sequence number it still stores with the one its position stands for.   *)
(***************************************************************************)
EXTENDS CircularCursor, SeqRing, FiniteSets

CONSTANTS
  Payload,    \* what a packet carries
  Oversize,   \* the payloads that do not fit a slot's 1700 bytes
  None        \* payloadPtr == nullptr

ASSUME PayloadAssumption == Oversize \subseteq Payload /\ None \notin Payload

\* `high' and `low' in insertPacket are int16_t and hold twice the capacity;
\* the window and what precedes it must lie on one side of the wrap (128
\* slots, HalfRange 32768 in the code).
ASSUME RangeAssumption == 3 * Capacity < HalfRange

VARIABLES
  cur,        \* head_, tail_ and count_ of the base class
  slots,      \* the slots: the packet each one last stored
  startSeq,   \* startSeq_: the sequence number of position 0
  nextSeq,    \* nextSeq_: the next one to pull
  lastSlot,   \* lastSlot_: the cell of the last packet placed
  state,      \* what the last call of insertPacket or nextSlotInOrder returned
  held        \* history: the sequence numbers accepted since the last reset
              \* and in the window ever since

windowVars == <<cur, slots, startSeq, nextSeq, lastSlot, state, held>>

Packet == [seq : SeqNum, payload : Payload]
Slot   == [seq : SeqNum, payload : Payload \cup {None}]

\* insertPacket's results and nextSlotInOrder's, and the negative ones.
Failure == {"kReachEmptySlot", "kOutOfRange", "kUnknownData",
            "kDuplicatePacket", "kOutOfDatePacket"}
Success == {"kNoError", "kFirstPacket", "kPrepend", "kDiscontinuity",
            "kOutOfOrderReset", "kDisorderPacket"}

WindowTypeOK ==
  /\ cur \in Cursor
  /\ slots \in [Cell -> Slot]
  /\ startSeq \in SeqNum
  /\ nextSeq \in SeqNum
  /\ lastSlot \in Cell
  /\ state \in Failure \cup Success
  /\ held \subseteq SeqNum

\* The slots are default-constructed NRTPData: sequence number 0, no payload.
WindowInit ==
  /\ cur = Cleared
  /\ slots = [i \in Cell |-> [seq |-> 0, payload |-> None]]
  /\ startSeq = 0
  /\ nextSeq = 0
  /\ lastSlot = 0
  /\ state = "kNoError"
  /\ held = {}

valid(slot, seq) == slot.seq = seq /\ slot.payload # None

\* The position of a sequence number, in the window when in 0 .. count - 1.
Position(seq) == distance(startSeq, seq)

InWindow(seq) == Position(seq) \in 0 .. cur.count - 1

\* getSlotInWindow, for a sequence number in the window.
SlotOf(seq) == slots[At(cur, Position(seq))]

-----------------------------------------------------------------------------
(* insertPacket.                                                           *)

\* NRTPPacketSlot::reset: a packet that does not fit is not stored, and the
\* caller does not look at the result.
Stored(pkt, slot) == IF pkt.payload \in Oversize THEN slot ELSE pkt

Accepted(pkt) == IF pkt.payload \in Oversize THEN {} ELSE {pkt.seq}

emplaceSlot(pkt, i) ==
  /\ slots' = [slots EXCEPT ![i] = Stored(pkt, slots[i])]
  /\ lastSlot' = i

\* What stays of held when the window has moved.
StillHeld(seqs) ==
  {s \in seqs : distance(startSeq', s) \in 0 .. cur'.count - 1}

checkPlaceSlot(pkt, i, normal) ==
  \/ /\ valid(slots[i], pkt.seq)
     /\ state' = "kDuplicatePacket"
     /\ held' = StillHeld(held)
     /\ UNCHANGED <<slots, lastSlot>>
  \/ /\ ~valid(slots[i], pkt.seq)
     /\ state' = normal
     /\ emplaceSlot(pkt, i)
     /\ held' = StillHeld(held \cup Accepted(pkt))

\* Faulty variant: the reader is left where it was.
resetKeepsReader(pkt, result) ==
  /\ cur' = shiftBack(Cleared)
  /\ emplaceSlot(pkt, cur'.tail)
  /\ startSeq' = pkt.seq
  /\ UNCHANGED nextSeq
  /\ state' = result
  /\ held' = Accepted(pkt)

reset(pkt, result) ==
  /\ cur' = shiftBack(Cleared)
  /\ emplaceSlot(pkt, cur'.tail)
  /\ startSeq' = pkt.seq
  /\ nextSeq' = pkt.seq
  /\ state' = result
  /\ held' = Accepted(pkt)

\* Faulty variant: startSeq_ moves by one however many slots were pushed off.
SlideByOne(n) ==
  /\ cur' = shiftBackN(cur, n)
  /\ startSeq' = Plus(startSeq, IF OverNum(cur, n) > 0 THEN 1 ELSE 0)
  /\ UNCHANGED nextSeq

\* Make room for n more positions at the back.
Slide(n) ==
  /\ cur' = shiftBackN(cur, n)
  /\ startSeq' = Plus(startSeq, OverNum(cur, n))
  /\ UNCHANGED nextSeq

FirstPacket(pkt) ==
  /\ isEmpty(cur)
  /\ reset(pkt, "kFirstPacket")

\* Faulty variant: one window.
FarAwayOne(dist) == dist < -Capacity \/ dist > Capacity

\* More than two windows away from the start, in either direction.
FarAway(dist) == dist < -(2 * Capacity) \/ dist > 2 * Capacity

OutOfOrder(pkt) ==
  /\ ~isEmpty(cur)
  /\ FarAway(Position(pkt.seq))
  /\ reset(pkt, "kOutOfOrderReset")

\* The older packets the window turns down.
OutOfDate(dist) == isFull(cur) \/ cur.count - dist < Capacity

OlderPacket(pkt) ==
  LET dist == Position(pkt.seq)
  IN  /\ ~isEmpty(cur)
      /\ ~FarAway(dist)
      /\ dist < 0
      /\ OutOfDate(dist)
      /\ state' = "kOutOfDatePacket"
      /\ UNCHANGED <<cur, slots, startSeq, nextSeq, lastSlot, held>>

\* Faulty variant: the reader goes back to the new start.
PrependRewinds(pkt) ==
  LET dist == Position(pkt.seq)
  IN  /\ ~isEmpty(cur)
      /\ ~FarAway(dist)
      /\ dist < 0
      /\ ~OutOfDate(dist)
      /\ cur' = unshiftFrontN(cur, -dist)
      /\ startSeq' = pkt.seq
      /\ checkPlaceSlot(pkt, cur'.head, "kPrepend")
      /\ nextSeq' = pkt.seq

Prepend(pkt) ==
  LET dist == Position(pkt.seq)
  IN  /\ ~isEmpty(cur)
      /\ ~FarAway(dist)
      /\ dist < 0
      /\ ~OutOfDate(dist)
      /\ cur' = unshiftFrontN(cur, -dist)
      /\ startSeq' = pkt.seq
      /\ checkPlaceSlot(pkt, cur'.head, "kPrepend")
      /\ UNCHANGED nextSeq

Disorder(pkt) ==
  /\ InWindow(pkt.seq)
  /\ UNCHANGED <<cur, startSeq, nextSeq>>
  /\ checkPlaceSlot(pkt, At(cur, Position(pkt.seq)), "kDisorderPacket")

NextPacket(pkt) ==
  /\ ~isEmpty(cur)
  /\ Position(pkt.seq) = cur.count
  /\ Slide(1)
  /\ checkPlaceSlot(pkt, cur'.tail, "kNoError")

Jump(pkt) ==
  LET dist == Position(pkt.seq)
  IN  /\ ~isEmpty(cur)
      /\ dist > cur.count
      /\ dist < 2 * cur.count
      /\ Slide(dist - cur.count + 1)
      /\ checkPlaceSlot(pkt, cur'.tail, "kDiscontinuity")

\* The last branch, commented "too newer packet, never reach here".
TooNew(pkt) ==
  LET dist == Position(pkt.seq)
  IN  /\ ~isEmpty(cur)
      /\ ~FarAway(dist)
      /\ dist >= 2 * cur.count
      /\ reset(pkt, "kOutOfOrderReset")

insertPacket(pkt) ==
  \/ FirstPacket(pkt)
  \/ OutOfOrder(pkt)
  \/ OlderPacket(pkt)
  \/ Prepend(pkt)
  \/ Disorder(pkt)
  \/ NextPacket(pkt)
  \/ Jump(pkt)
  \/ TooNew(pkt)

-----------------------------------------------------------------------------
(* nextSlotInOrder(slot, skip_empty).                                      *)

\* Faulty variant: each call starts at the front of the window.
ExpectedFront == startSeq

\* The sequence number the call looks for first: one that has slid out of
\* the window is given up.
Expected == IF Position(nextSeq) < 0 THEN startSeq ELSE nextSeq

\* Without skip_empty the loop body runs once.
PullNext ==
  /\ InWindow(Expected)
  /\ valid(SlotOf(Expected), Expected)
  /\ nextSeq' = Plus(Expected, 1)
  /\ state' = IF Expected = nextSeq THEN "kNoError" ELSE "kDiscontinuity"

PullEmpty ==
  /\ InWindow(Expected)
  /\ ~valid(SlotOf(Expected), Expected)
  /\ nextSeq' = Expected
  /\ state' = "kReachEmptySlot"

PullNothing ==
  /\ ~InWindow(Expected)
  /\ nextSeq' = nextSeq
  /\ state' = "kOutOfRange"

\* With skip_empty: the positions from the expected one on that are occupied.
Occupied ==
  {i \in 0 .. cur.count - 1 :
     /\ i >= Position(Expected)
     /\ valid(slots[At(cur, i)], Plus(startSeq, i))}

\* A slot found after an empty one is returned with the state that the end
\* of the loop body left, kReachEmptySlot.
SkipToNext ==
  /\ InWindow(Expected)
  /\ ~valid(SlotOf(Expected), Expected)
  /\ \E i \in Occupied :
       /\ \A j \in Occupied : i <= j
       /\ nextSeq' = Plus(startSeq, i + 1)
  /\ state' = "kReachEmptySlot"

SkipAll ==
  /\ InWindow(Expected)
  /\ Occupied = {}
  /\ nextSeq' = Plus(startSeq, cur.count)
  /\ state' = "kOutOfRange"

nextSlotInOrder(skip_empty) ==
  /\ UNCHANGED <<cur, slots, startSeq, lastSlot, held>>
  /\ \/ PullNext
     \/ PullNothing
     \/ ~skip_empty /\ PullEmpty
     \/ skip_empty /\ SkipToNext
     \/ skip_empty /\ SkipAll
=============================================================================
