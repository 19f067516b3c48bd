---------------------------- MODULE UlpfecWindow ----------------------------
(***************************************************************************)
(* NRTPUlpfecWindow: the packet window together with the list of forward   *)
(* error correction (ULPFEC) packets that still cover a missing packet.  A *)
(* FEC packet is the exclusive or of the packets it covers; when all but   *)
(* one of them are in the window the missing one is computed in its slot.  *)
(*                                                                         *)
(* Contents stand for the set of packets whose exclusive or they are; those *)
(* of media packet s are {s}.  They are looked at in two places.  The      *)
(* payload of a slot is what every packet has: the length and the fields   *)
(* of the header, but for the ssrc, which is not recovered.  `byte' is one *)
(* position of the slots' buffers that not every packet reaches: buffers   *)
(* are not cleared, so that a packet which ends before it (Short) leaves   *)
(* there what was in the buffer.                                           *)
(***************************************************************************)
EXTENDS PacketWindow, Sequences

CONSTANTS
  MaskBits,     \* how many sequence numbers a mask covers: 16 or 48
  FecCapacity,  \* size of feclist_: (cap + 7) / 8, 16 in the code
  Short         \* the packets that end before the position looked at

\* A failed parse is told from a FEC packet.
ASSUME FecAssumption ==
  /\ MaskBits \in Nat \ {0} /\ FecCapacity \in Nat \ {0}
  /\ None \notin [base : SeqNum, cover : SUBSET (0 .. MaskBits - 1)]
  /\ Short \subseteq SeqNum

VARIABLES
  byte,      \* what the slots' buffers hold at the position looked at
  feclist,   \* feclist_, front first
  pc         \* "idle"; "native", "ulpfec": processFEC runs for a packet of that
             \* codec; "null": recoveryAdd read a slot that never held a packet

fecVars == <<windowVars, byte, feclist, pc>>

\* The memory of a new buffer is not initialized: what is there in cell c.
Memory(c) == SeqRange + c

\* What the exclusive or at a byte can be made of.
Source == 0 .. SeqRange + Capacity - 1

\* A parsed FEC packet.  `cell' is the slot its level0.data points into.
FecData == [base : SeqNum, cover : SUBSET (0 .. MaskBits - 1),
            recv : SUBSET (0 .. MaskBits - 1), cell : Cell]

FecTypeOK ==
  /\ WindowTypeOK
  /\ byte \in [Cell -> SUBSET Source]
  /\ feclist \in Seq(FecData) /\ Len(feclist) <= FecCapacity
  /\ pc \in {"idle", "native", "ulpfec", "null"}

FecInit ==
  /\ WindowInit
  /\ byte = [c \in Cell |-> {Memory(c)}]
  /\ feclist = <<>>
  /\ pc = "idle"

\* The slots at positions `from' to `to', as far as there are any.
SlotsFrom(c, s, from, to) ==
  {s[At(c, j)] : j \in {k \in from .. to : k < c.count}}

\* checkSet for each of the slots: the offsets they clear in maskRecv.  Only
\* the sequence number that a slot stores is looked at.
Seen(base, slotset) == {distance(base, slot.seq) : slot \in slotset}

-----------------------------------------------------------------------------
(* insertPacket.                                                           *)

Cut(list) == SubSeq(list, 1, Len(list) - 1)

\* shiftBack on the list: a full one loses its front.
Pushed(list, fecd) ==
  Append(IF Len(list) = FecCapacity THEN Tail(list) ELSE list, fecd)

\* Faulty variant: the packets already there are not looked for.
MissingAll(fec) == fec.cover

\* maskRecv, the covered packets not received, as addFEC leaves it.
MissingOf(fec) ==
  fec.cover \ Seen(fec.base, SlotsFrom(cur', slots', distance(startSeq', fec.base),
                                       distance(startSeq', fec.base) + MaskBits - 1))

\* addFEC.  `fec' is what parse read, or None when it failed; what does not
\* parse, or begins outside of the window, is taken off the list again, which
\* does not bring back the front that had to give way.
addFEC(list, fec) ==
  IF fec # None /\ distance(startSeq', fec.base) \in 0 .. cur'.count - 1
  THEN Pushed(list, [base |-> fec.base, cover |-> fec.cover,
                     recv |-> MissingOf(fec), cell |-> lastSlot'])
  ELSE Cut(Pushed(list, None))

\* reset() clears the list when the window was reset.
ListAfterReset == IF state' = "kOutOfOrderReset" THEN <<>> ELSE feclist

\* serialize, in the slot that insertPacket chose, writes as many bytes as the
\* packet has.
serialize(pkt) ==
  byte' = IF pkt.seq \in Short \/ pkt.payload \in Oversize THEN byte
          ELSE [byte EXCEPT ![lastSlot'] = {pkt.seq}]

\* A native packet: the masks of the FEC packets are updated in copies.
insertNative(pkt) ==
  /\ pc = "idle"
  /\ insertPacket(pkt)
  /\ \/ /\ state' \in Failure
        /\ UNCHANGED <<byte, feclist, pc>>
     \/ /\ state' \in Success
        /\ serialize(pkt)
        /\ feclist' = ListAfterReset
        /\ pc' = "native"

insertULPFEC(pkt, fec) ==
  /\ pc = "idle"
  /\ insertPacket(pkt)
  /\ \/ /\ state' \in Failure
        /\ UNCHANGED <<byte, feclist, pc>>
     \/ /\ state' \in Success
        /\ serialize(pkt)
        /\ feclist' = addFEC(ListAfterReset, fec)
        /\ pc' = "ulpfec"

-----------------------------------------------------------------------------
(* processFEC: one iteration of its loop is a step.                        *)

\* Faulty variant: the mask is not consulted.
CoversAny(fecd, slot) == TRUE

\* recoveryAdd uses a slot whose sequence number the mask covers.
Covers(fecd, slot) == distance(fecd.base, slot.seq) \in fecd.cover

\* recoverULPFEC: the slots it adds up.  It goes on to the end of the window,
\* not just to the end of the mask, leaving out the slot to be filled.
Addends(fecd, offset) ==
  LET from == Position(fecd.base)
  IN  {j \in from .. cur.count - 1 : j - from # offset /\ Covers(fecd, slots[At(cur, j)])}

\* The exclusive or of what some cells contain and one more.
XorAll(contents, cells, more) ==
  {x \in Source : Cardinality({c \in cells : x \in contents[c]})
                    % 2 # (IF x \in more THEN 1 ELSE 0)}

payloads == [c \in Cell |-> slots[c].payload]

\* Faulty variant: isMissOne is not asked.
RecoverableAnyMiss(fecd, offset) ==
  LET miss == Plus(fecd.base, offset)
  IN  /\ InWindow(miss)
      /\ SlotOf(miss).seq # miss
      /\ InWindow(fecd.base)

\* The front, when exactly one packet it covers is missing, its slot is in the
\* window and holds another packet, and so does the base.
Recoverable(fecd, offset) ==
  LET miss == Plus(fecd.base, offset)
  IN  /\ fecd.recv = {offset}
      /\ InWindow(miss)
      /\ SlotOf(miss).seq # miss
      /\ InWindow(fecd.base)

\* A slot that never held a packet has no data to add.
ReadsNull(fecd, offset) ==
  \E j \in Addends(fecd, offset) : slots[At(cur, j)].payload = None

\* level.length is that of the longest packet covered; whether it reaches the
\* position looked at.
Reaches(fecd) == \E o \in fecd.cover : Plus(fecd.base, o) \notin Short

\* What level.data, in the slot of the FEC packet, has for it there: shorter
\* packets count as zero.
levelByte(fecd) == slots[fecd.cell].payload \ Short

\* recoveryAdd takes level.length bytes from each slot, whatever the length of
\* the packet in it.
recoverULPFEC(fecd, offset) ==
  LET miss == Plus(fecd.base, offset)
      out  == At(cur, Position(miss))
      from == {At(cur, j) : j \in Addends(fecd, offset)}
  IN  /\ slots' = [slots EXCEPT ![out] =
                     [seq |-> miss,
                      payload |-> XorAll(payloads, from, slots[fecd.cell].payload)]]
      /\ byte' = IF Reaches(fecd)
                 THEN [byte EXCEPT ![out] = XorAll(byte, from, levelByte(fecd))]
                 ELSE byte

\* Faulty variant: only a FEC packet whose packets are all there is dropped.
DoneComplete(fecd) == fecd.recv = {}

\* A FEC packet is dropped once nothing it covers is missing or its base has
\* left the window.
Done(fecd) == fecd.recv = {} \/ Position(fecd.base) < 0

processFEC ==
  /\ pc \in {"native", "ulpfec"}
  /\ UNCHANGED <<cur, startSeq, nextSeq, lastSlot, state, held>>
  /\ \/ /\ feclist = <<>>
        /\ pc' = "idle"
        /\ UNCHANGED <<slots, byte, feclist>>
     \/ /\ feclist # <<>>
        /\ LET fecd == Head(feclist)
           IN  \/ \E offset \in fecd.recv :
                    /\ Recoverable(fecd, offset)
                    /\ \/ /\ ReadsNull(fecd, offset)
                          /\ pc' = "null"
                          /\ UNCHANGED <<slots, byte, feclist>>
                       \/ /\ ~ReadsNull(fecd, offset)
                          /\ recoverULPFEC(fecd, offset)
                          /\ feclist' = Tail(feclist)
                          /\ UNCHANGED pc
               \/ /\ \A offset \in fecd.recv : ~Recoverable(fecd, offset)
                  /\ UNCHANGED <<slots, byte>>
                  /\ \/ Done(fecd) /\ feclist' = Tail(feclist) /\ UNCHANGED pc
                     \/ ~Done(fecd) /\ pc' = "idle" /\ UNCHANGED feclist
=============================================================================
