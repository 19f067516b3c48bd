---------------------------- MODULE UlpfecStream ----------------------------
(***************************************************************************)
(* A flow of the demuxer whose window recovers packets, and a sender that  *)
(* follows every BlockLen media packets by a FEC packet that covers them.  *)
(* Packets are lost and overtake each other.  As in RtpFlow, the demuxer   *)
(* pulls what it can after a packet when the window is full or the flow    *)
(* has been buffered long enough.                                          *)
(***************************************************************************)
EXTENDS UlpfecWindow

CONSTANTS
  FirstSeq,    \* the first sequence number
  BlockLen,    \* media packets of a block
  MaxSent,     \* bound: packets sent
  MaxReorder   \* bound: how many packets one may be late

isFec(k) == k % (BlockLen + 1) = 0

SeqOf(k) == Plus(FirstSeq, k - 1)

\* The numbers of the packets that may be sent.
Sent == {SeqOf(k) : k \in 1 .. MaxSent}

\* No number is used twice, a block fits a mask, a packet fits a slot and is
\* late by less than the window.
ASSUME StreamAssumption ==
  /\ FirstSeq \in SeqNum /\ MaxSent \in Nat /\ MaxSent <= HalfRange
  /\ BlockLen \in 1 .. MaskBits
  /\ SUBSET Sent \subseteq Payload /\ Oversize = {}
  /\ MaxReorder \in 0 .. Capacity - 1

\* The window holds a block and its FEC packet: 128 slots, masks of up to 48.
ASSUME BlockAssumption == BlockLen < Capacity

VARIABLES
  arrived, last,   \* the packets that arrived, by number, and the latest
  pulling,         \* processFlow is called next, or runs
  calm,            \* history: no packet was late or malformed so far
  stale            \* history: where slots may hold packets from before the last
                   \* reset, if anywhere: "older" than the start of the window,
                   \* or "within", since a packet was put in front of it

vars == <<fecVars, arrived, last, pulling, calm, stale>>

TypeOK ==
  /\ FecTypeOK
  /\ arrived \subseteq 1 .. MaxSent /\ last \in 0 .. MaxSent
  /\ pulling \in BOOLEAN /\ calm \in BOOLEAN
  /\ stale \in {"none", "older", "within"}

Init ==
  /\ FecInit
  /\ arrived = {}
  /\ last = 0
  /\ pulling = FALSE /\ calm = TRUE
  /\ stale = "none"

\* The FEC packet of the block that packet k ends.
FecOf(k) == [base |-> SeqOf(k - BlockLen), cover |-> 0 .. BlockLen - 1]

PayloadOf(k) == IF isFec(k) THEN {SeqOf(j) : j \in k - BlockLen .. k - 1} ELSE {SeqOf(k)}

\* processRTP of the demuxer, after the insertion.  `due' may be either for any
\* packet but the flow's first.
Received(due) ==
  /\ due => last > 0
  /\ pulling' = (isFull(cur') \/ due)

NowStale ==
  IF state' = "kOutOfOrderReset" THEN "older"
  ELSE IF stale = "older" /\ distance(startSeq, startSeq') < 0 THEN "within" ELSE stale

Arrive(k, due) ==
  /\ ~pulling
  /\ k \notin arrived
  /\ k >= last - MaxReorder
  /\ arrived' = arrived \cup {k}
  /\ last' = IF k > last THEN k ELSE last
  /\ LET pkt == [seq |-> SeqOf(k), payload |-> PayloadOf(k)]
         orderly == calm /\ k > last
     IN  \/ ~isFec(k) /\ insertNative(pkt) /\ calm' = orderly
         \/ isFec(k) /\ insertULPFEC(pkt, FecOf(k)) /\ calm' = orderly
         \/ isFec(k) /\ insertULPFEC(pkt, None) /\ calm' = FALSE
  /\ stale' = NowStale
  /\ Received(due)

\* processFlow of the demuxer: one call of nextSlotInOrder.
processFlow ==
  /\ pc = "idle" /\ pulling
  /\ nextSlotInOrder(FALSE)
  /\ pulling' = (state' \in Success)
  /\ UNCHANGED <<byte, feclist, pc, arrived, last, calm, stale>>

Next ==
  \/ \E k \in 1 .. MaxSent, due \in BOOLEAN : Arrive(k, due)
  \/ processFEC /\ UNCHANGED <<arrived, last, pulling, calm, stale>>
  \/ processFlow

Spec == Init /\ [][Next]_vars

-----------------------------------------------------------------------------

InPlace(s) == InWindow(s) /\ valid(SlotOf(s), s)

\* The media packets of k's block.
Block(k) == {SeqOf(j) : j \in {m \in 1 .. MaxSent :
                                 ~isFec(m) /\ (m - 1) \div (BlockLen + 1) = (k - 1) \div (BlockLen + 1)}}

\* What the reader finds in the window, received or recovered, has the length and
\* the header that were sent, but for the ssrc, which recovery leaves wrong, and
\* the bytes, when no packet of the block is shorter: recovery adds up the right
\* packets although it goes over slots that still hold older ones, and never
\* changes one that arrived.  In a block of packets of several lengths recovery
\* also adds what shorter ones left in their buffers.  Excepted besides is the
\* block of sequence number 0, which slots that never held a packet seem to hold,
\* and a window that goes back, behind its last reset, to slots that were filled
\* before.
RecoveredRight ==
  stale # "within" =>
    \A k \in 1 .. MaxSent :
      ~isFec(k) /\ InPlace(SeqOf(k)) /\ 0 \notin Block(k)
        => /\ SlotOf(SeqOf(k)).payload = {SeqOf(k)}
           /\ Block(k) \cap Short = {} => byte[At(cur, Position(SeqOf(k)))] = {SeqOf(k)}

\* Recovery reads a slot that never held a packet only when the FEC packet
\* covers sequence number 0, the one such slots seem to hold.
NullReadOnlyAtZero ==
  pc = "null" => 0 \in {Plus(Head(feclist).base, o) : o \in Head(feclist).cover}

\* Between two packets the front of the list is worth waiting for: it covers
\* nothing that has left the window.
FrontStillUseful ==
  pc = "idle" /\ feclist # <<>> => Position(Head(feclist).base) >= 0

Lost(k) == k < last /\ k \notin arrived

\* So far everything came in order and parsed, and what was lost is a media
\* packet, the only one of its block, after the window had been filled and not
\* beside sequence number 0.
Recoverables ==
  /\ calm
  /\ \A k \in 1 .. MaxSent :
       Lost(k) => /\ k > Capacity /\ ~isFec(k) /\ 0 \notin Block(k)
                  /\ \A j \in 1 .. MaxSent : Lost(j) /\ SeqOf(j) \in Block(k) => j = k

\* Such losses are invisible behind the window: the reader, however early it
\* began, waits at the gap until processFEC has put the packet in its slot, and
\* goes on without giving up a packet.
LossesHidden ==
  [][Recoverables /\ pulling => nextSeq' \in {nextSeq, Plus(nextSeq, 1)}]_vars
=============================================================================
