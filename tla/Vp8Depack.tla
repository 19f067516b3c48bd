------------------------------ MODULE Vp8Depack -----------------------------
(***************************************************************************)
(* NRTPDepackVP8 (NRTPReceiver.hpp): puts VP8 frames together from RTP     *)
(* packets.  It must not hand out a frame that a decoder cannot use: after *)
(* any packet that does not fit it waits for the first packet of a key     *)
(* frame.  Frames come from a pool (NObjectPool) and go back to it with    *)
(* the data and the time they had.                                         *)
(***************************************************************************)
EXTENDS SeqRing, Sequences

CONSTANTS
  Time,       \* RTP timestamps
  Converted,  \* the NTP milliseconds that processFrame writes over a timestamp
  Part,       \* the payload of a packet after its descriptor
  None,       \* a frame that was never given a time; no frame handed out
  MaxHeld     \* bound: the frames the consumer keeps

ASSUME TimeAssumption == Converted \notin Time /\ None \notin Time

\* What parsePacket tells apart.  "key" and "delta" begin partition 0 of a key
\* frame and of another one, "rest" is any other VP8 packet, "other" is a
\* packet of another codec (forward error correction).  "empty" has no
\* payload and "badDescriptor" a descriptor that does not parse; the header of
\* partition 0 is less than 3 bytes in "noHeader" and otherwise not that of a
\* key frame, which it claims to be, in "badHeader".
Kind == {"key", "delta", "rest", "other",
         "empty", "badDescriptor", "noHeader", "badHeader"}

Packet == [seq : SeqNum, ts : Time, mark : BOOLEAN, kind : Kind, part : Part]

VARIABLES
  expectKeyFrame,  \* expectKeyFrame_
  firstPacket,     \* firstPacket_: no frame is open
  startPhase,      \* startPhase_: nothing was accepted yet
  nextSeq,         \* nextSeq_
  isKeyFrame,      \* vp8header_.isKeyFrame
  frame,           \* frame_: the one being put together
  pool,            \* pool_: free frames, the last one is handed out first
  taken,           \* the frames the consumer has moved out and not dropped
  ret,             \* what the last call of depack returned
  out              \* history: the frame that call handed out, or None

depackVars == <<expectKeyFrame, firstPacket, startPhase, nextSeq, isKeyFrame,
                frame, pool, taken, ret, out>>

Frame == [data : Seq(Part), time : Time \cup {Converted, None}]

Errors == {"kErrorTimestamp", "kNotDecodable", "kNotFirst", "kSeqDisorder",
           "kErrorHeaderSize", "kErrorDescriptorSize", "kZeroLength"}

DepackTypeOK ==
  /\ {expectKeyFrame, firstPacket, startPhase, isKeyFrame} \subseteq BOOLEAN
  /\ nextSeq \in SeqNum
  /\ frame \in Frame
  /\ pool \in Seq(Frame)
  /\ taken \in Seq(Frame) /\ Len(taken) <= MaxHeld
  /\ ret \in Errors \cup {"kNoError", "kComplete"}
  /\ out = None \/ out \in [data : Seq(Part), time : Time, key : BOOLEAN]

NewFrame == [data |-> <<>>, time |-> None]

DepackInit ==
  /\ expectKeyFrame = TRUE
  /\ firstPacket = TRUE
  /\ startPhase = TRUE
  /\ nextSeq = 0
  /\ isKeyFrame = FALSE
  /\ frame = NewFrame
  /\ pool = <<>>
  /\ taken = <<>>
  /\ ret = "kNoError"
  /\ out = None

isVP8(pkt) == pkt.kind # "other"

StartsFrame(pkt) == pkt.kind \in {"key", "delta"}

ParseErrors == [empty         |-> "kZeroLength",
                badDescriptor |-> "kErrorDescriptorSize",
                noHeader      |-> "kErrorHeaderSize",
                badHeader     |-> "kErrorHeaderSize"]

parsePacket(pkt) ==
  IF pkt.kind \in DOMAIN ParseErrors THEN ParseErrors[pkt.kind] ELSE "kNoError"

\* Faulty variant: every packet is taken for one with a header.
HeaderOfAny(pkt) ==
  IF pkt.kind \in Kind \ {"key", "badHeader"} THEN FALSE ELSE TRUE

\* vp8header_.isKeyFrame after parsePacket.  A key frame's header that turns
\* out too short, or without the start code, has set it already.
HeaderAfter(pkt) ==
  IF pkt.kind \in {"key", "delta", "badHeader"} THEN pkt.kind # "delta" ELSE isKeyFrame

\* Faulty variant: the sequence number is not looked at.
continuousAnySeq(pkt) == "kNoError"

continuousSeq(pkt) ==
  IF startPhase \/ nextSeq = pkt.seq THEN "kNoError" ELSE "kSeqDisorder"

\* Faulty variant: the time of a frame that is not open counts.
continuousPacketSameTime(pkt) ==
  IF isVP8(pkt) /\ frame.time # pkt.ts /\ frame.time # None THEN "kErrorTimestamp"
  ELSE IF IF isVP8(pkt) THEN firstPacket /\ ~StartsFrame(pkt) ELSE startPhase
       THEN "kNotFirst"
       ELSE continuousSeq(pkt)

\* lastPicId_ is never assigned: the picture ids are not looked at.
continuousPacket(pkt) ==
  IF isVP8(pkt) /\ frame.time # pkt.ts /\ ~firstPacket THEN "kErrorTimestamp"
  ELSE IF IF isVP8(pkt) THEN firstPacket /\ ~StartsFrame(pkt) ELSE startPhase
       THEN "kNotFirst"
       ELSE continuousSeq(pkt)

\* Faulty variant: any first packet will do.
keyPacketAnyFrame(pkt) ==
  IF StartsFrame(pkt) THEN "kNoError" ELSE "kNotFirst"

keyPacket(pkt) ==
  IF StartsFrame(pkt)
  THEN IF HeaderAfter(pkt) THEN "kNoError" ELSE "kNotDecodable"
  ELSE "kNotFirst"

nextDecodable(pkt) ==
  IF parsePacket(pkt) # "kNoError" THEN parsePacket(pkt)
  ELSE IF expectKeyFrame THEN keyPacket(pkt) ELSE continuousPacket(pkt)

\* Faulty variant: a frame from the pool is used as it is.
FrameAsIs(pkt) == frame

\* frame_ after nextDecodable: continuousPacket drops the data of a frame with
\* another time when no frame is open, whatever it returns in the end.
FrameFor(pkt) ==
  IF /\ ~expectKeyFrame /\ parsePacket(pkt) = "kNoError"
     /\ isVP8(pkt) /\ firstPacket /\ frame.time # pkt.ts
  THEN [frame EXCEPT !.data = <<>>]
  ELSE frame

Rejected(pkt) ==
  /\ nextDecodable(pkt) \in Errors
  /\ expectKeyFrame' = TRUE
  /\ isKeyFrame' = HeaderAfter(pkt)
  /\ frame' = FrameFor(pkt)
  /\ ret' = nextDecodable(pkt)
  /\ out' = None
  /\ UNCHANGED <<firstPacket, startPhase, nextSeq, pool, taken>>

\* The frame with the packet added.  Only the first packet sets the time.
Extended(pkt) ==
  IF isVP8(pkt)
  THEN [data |-> Append(FrameFor(pkt).data, pkt.part),
        time |-> IF firstPacket THEN pkt.ts ELSE frame.time]
  ELSE FrameFor(pkt)

\* Faulty variant: expectKeyFrame_ stays set.
AcceptedKeepsExpecting(pkt) ==
  /\ nextDecodable(pkt) = "kNoError"
  /\ UNCHANGED expectKeyFrame
  /\ isKeyFrame' = HeaderAfter(pkt)
  /\ startPhase' = (startPhase /\ ~isVP8(pkt))
  /\ nextSeq' = Plus(pkt.seq, 1)

\* The part of depack that every accepted packet goes through.
Accepted(pkt) ==
  /\ nextDecodable(pkt) = "kNoError"
  /\ expectKeyFrame' = FALSE
  /\ isKeyFrame' = HeaderAfter(pkt)
  /\ startPhase' = (startPhase /\ ~isVP8(pkt))
  /\ nextSeq' = Plus(pkt.seq, 1)

AddToFrame(pkt) ==
  /\ ~pkt.mark
  /\ Accepted(pkt)
  /\ firstPacket' = (firstPacket /\ ~isVP8(pkt))
  /\ frame' = Extended(pkt)
  /\ ret' = "kNoError"
  /\ out' = None
  /\ UNCHANGED <<pool, taken>>

\* func(frame_) leaves the frame, possibly with another time, or moves it out.
\* A frame left is cleared; one moved out is replaced from the pool as it is.
HandOut(pkt, moves, time) ==
  LET full == Extended(pkt)
      used == [full EXCEPT !.time = time]
  IN  /\ pkt.mark
      /\ Accepted(pkt)
      /\ firstPacket' = TRUE
      /\ time \in {full.time, Converted}
      /\ out' = [data |-> full.data, time |-> full.time, key |-> isKeyFrame']
      /\ ret' = "kComplete"
      /\ \/ /\ ~moves
            /\ frame' = [used EXCEPT !.data = <<>>]
            /\ UNCHANGED <<pool, taken>>
         \/ /\ moves
            /\ Len(taken) < MaxHeld
            /\ taken' = Append(taken, used)
            /\ \/ pool = <<>> /\ frame' = NewFrame /\ UNCHANGED pool
               \/ /\ pool # <<>>
                  /\ frame' = pool[Len(pool)]
                  /\ pool' = SubSeq(pool, 1, Len(pool) - 1)

depack(pkt) ==
  \/ Rejected(pkt)
  \/ AddToFrame(pkt)
  \/ \E moves \in BOOLEAN, time \in Time \cup {Converted} : HandOut(pkt, moves, time)

\* The consumer drops a frame: its deleter puts it on the pool's stack.
Drop ==
  /\ taken # <<>>
  /\ pool' = Append(pool, Head(taken))
  /\ taken' = Tail(taken)
  /\ out' = None
  /\ UNCHANGED <<expectKeyFrame, firstPacket, startPhase, nextSeq, isKeyFrame, frame, ret>>
=============================================================================
