--------------------------- MODULE Vp8StreamProofs --------------------------
(***************************************************************************)
(* Proofs about Vp8Stream for any number of frames, packets of a frame and *)
(* packets of no frame, and every range of sequence numbers.               *)
(***************************************************************************)
EXTENDS Vp8Stream, TLAPS

-----------------------------------------------------------------------------
(* The inductive invariant.                                                *)

\* The packet sent next is the one depack expects.
InSeq == ~expectKeyFrame /\ nextSeq = seq

\* Packets of the current frame are still to be sent.
Mid == i <= len

\* The last k packets in d are the first k of frame m.
EndsWith(d, m, k) == Len(d) >= k /\ \A j \in 1 .. k : d[Len(d) - k + j] = <<m, j>>

\* Times the frames may have by now: none is that of a frame yet to be sent.
Old == (0 .. n) \cup {Converted, None}

Place == i \in 1 .. len + 1 /\ (i = 1 => len = 0)

Times ==
  /\ frame.time \in Old
  /\ \A k \in 1 .. Len(pool) : pool[k].time \in Old
  /\ \A k \in 1 .. Len(taken) : taken[k].time \in Old
  /\ ~firstPacket => frame.time \in 0 .. n

Starting == startPhase => expectKeyFrame /\ firstPacket

\* In step between two frames: no frame is open and the last one was handed out.
Between == InSeq /\ ~Mid => firstPacket /\ lastOut = n

\* In step within a frame: the open frame ends with what was sent of it.
Within ==
  InSeq /\ Mid => /\ ~firstPacket
                  /\ EndsWith(frame.data, n, i - 1)
                  /\ isKeyFrame = key
                  /\ ~key => lastOut = n - 1
                  /\ inStep => Len(frame.data) = i - 1 /\ frame.time = n

\* A key frame that no other was in the way of is being put together.
KeyOpen ==
  Mid /\ key /\ whole /\ wasFree /\ ~inStep => InSeq /\ frame.time = n

Perfect ==
  perfect => IF seenKey THEN InSeq /\ (Mid => frame.time = n)
                        ELSE expectKeyFrame /\ firstPacket

\* What has just been handed out ends with the current frame.
Handed ==
  out # None => /\ EndsWith(out.data, n, len)
                /\ out.key = key
                /\ inStep => Len(out.data) = len /\ out.time = n

IInv ==
  /\ TypeOK /\ Place /\ Times /\ Starting
  /\ Between /\ Within /\ KeyOpen /\ Perfect /\ Handed

-----------------------------------------------------------------------------
(* What depack accepts.                                                    *)

LEMMA SeqStep ==
  ASSUME NEW s \in SeqNum
  PROVE  Plus(s, 1) \in SeqNum /\ Plus(s, 1) # s
  <1>1. SeqRange \in Nat /\ SeqRange >= 2
    BY HalfRangeAssumption DEF SeqRange
  <1>2. CASE s + 1 < SeqRange
    BY <1>1, <1>2 DEF Plus, SeqNum
  <1>3. CASE s + 1 = SeqRange
    <2>1. (s + 1) % SeqRange = 0
      BY <1>1, <1>3
    <2>2. QED
      BY <1>1, <1>3, <2>1 DEF Plus, SeqNum
  <1>4. QED
    BY <1>1, <1>2, <1>3 DEF SeqNum

\* parsePacket has errors for four kinds of packets.
LEMMA Parses ==
  ASSUME NEW pkt \in Packet
  PROVE  /\ (parsePacket(pkt) = "kNoError") = (pkt.kind \in {"key", "delta", "rest", "other"})
         /\ (pkt.kind \notin DOMAIN ParseErrors) = (pkt.kind \in {"key", "delta", "rest", "other"})
         /\ parsePacket(pkt) # "kNoError" => parsePacket(pkt) \in Errors
  BY DEF Packet, Kind, parsePacket, ParseErrors, Errors

\* While it waits for a key frame depack accepts the first packet of one and
\* nothing else.
LEMMA AcceptsWaiting ==
  ASSUME NEW pkt \in Packet, expectKeyFrame
  PROVE  (nextDecodable(pkt) = "kNoError") = (pkt.kind = "key")
  BY Parses DEF nextDecodable, keyPacket, StartsFrame, HeaderAfter, Packet, Kind

\* Otherwise it accepts the next packet in sequence, of the open frame or the
\* first of one.
LEMMA AcceptsNext ==
  ASSUME NEW pkt \in Packet, ~expectKeyFrame, ~startPhase
  PROVE  (nextDecodable(pkt) = "kNoError") =
           (/\ pkt.kind \in {"key", "delta", "rest", "other"}
            /\ nextSeq = pkt.seq
            /\ isVP8(pkt) => IF firstPacket THEN StartsFrame(pkt) ELSE frame.time = pkt.ts)
  <1>1. CASE pkt.kind \in {"key", "delta", "rest", "other"}
    <2>1. nextDecodable(pkt) = continuousPacket(pkt)
      BY <1>1, Parses DEF nextDecodable
    <2>2. QED
      BY <1>1, <2>1 DEF continuousPacket, continuousSeq, isVP8, StartsFrame
  <1>2. CASE pkt.kind \notin {"key", "delta", "rest", "other"}
    BY <1>2, Parses DEF nextDecodable
  <1>3. QED
    BY <1>1, <1>2

LEMMA Decides ==
  ASSUME NEW pkt \in Packet
  PROVE  nextDecodable(pkt) \in Errors \cup {"kNoError"}
  BY Parses DEF nextDecodable, keyPacket, continuousPacket, continuousSeq, Errors

-----------------------------------------------------------------------------
(* What a call of depack leaves behind.                                    *)

LEMMA FrameForType ==
  ASSUME frame \in Frame, NEW pkt \in Packet
  PROVE  FrameFor(pkt) \in Frame /\ FrameFor(pkt).time = frame.time
  <1>1. [frame EXCEPT !.data = <<>>] = [data |-> <<>>, time |-> frame.time]
    BY DEF Frame
  <1>2. <<>> \in Seq(Part)
    OBVIOUS
  <1>3. [frame EXCEPT !.data = <<>>] \in Frame
    BY <1>1, <1>2 DEF Frame
  <1>4. QED
    BY <1>1, <1>3 DEF FrameFor

LEMMA ExtendedType ==
  ASSUME frame \in Frame, NEW pkt \in Packet
  PROVE  /\ Extended(pkt) \in Frame
         /\ Extended(pkt).time = IF isVP8(pkt) /\ firstPacket THEN pkt.ts ELSE frame.time
         /\ isVP8(pkt) => Extended(pkt).data = Append(FrameFor(pkt).data, pkt.part)
         /\ ~isVP8(pkt) => Extended(pkt) = FrameFor(pkt)
  <1>1. FrameFor(pkt) \in Frame /\ FrameFor(pkt).time = frame.time
    BY FrameForType
  <1>2. FrameFor(pkt).data \in Seq(Part) /\ frame.time \in Time \cup {Converted, None}
    BY <1>1 DEF Frame
  <1>3. pkt.part \in Part /\ pkt.ts \in Time
    BY DEF Packet
  <1>4. CASE isVP8(pkt)
    BY <1>2, <1>3, <1>4 DEF Extended, Frame
  <1>5. CASE ~isVP8(pkt)
    BY <1>1, <1>5 DEF Extended
  <1>6. QED
    BY <1>4, <1>5

\* The types, the times and the start phase after a call of depack with a
\* packet of the current frame.
Tidy == DepackTypeOK /\ Times /\ Starting

LEMMA RejectedTidy ==
  ASSUME Tidy, n \in Nat, n' \in 0 .. MaxFrames, n <= n', NEW pkt \in Packet, Rejected(pkt)
  PROVE  Tidy'
  <1>1. frame' \in Frame /\ frame'.time = frame.time
    BY FrameForType DEF Tidy, DepackTypeOK, Rejected
  <1>2. MaxFrames \in Nat
    BY StreamAssumption
  <1>3. DepackTypeOK'
    BY <1>1 DEF Tidy, DepackTypeOK, Rejected, HeaderAfter
  <1>4. Times'
    BY <1>1, <1>2 DEF Tidy, Times, Old, Rejected
  <1>5. Starting'
    BY DEF Tidy, Starting, Rejected
  <1>6. QED
    BY <1>3, <1>4, <1>5 DEF Tidy

LEMMA AcceptedTidy ==
  ASSUME Tidy, NEW pkt \in Packet, Accepted(pkt), firstPacket' \in BOOLEAN
  PROVE  /\ {expectKeyFrame, firstPacket, startPhase, isKeyFrame}' \subseteq BOOLEAN
         /\ nextSeq' \in SeqNum
         /\ ~startPhase'
  <1>1. {expectKeyFrame, firstPacket, startPhase, isKeyFrame}' \subseteq BOOLEAN
    BY DEF Tidy, DepackTypeOK, Accepted, HeaderAfter
  <1>2. nextSeq' \in SeqNum
    BY SeqStep DEF Accepted, Packet
  <1>3. startPhase => isVP8(pkt)
    BY AcceptsWaiting DEF Accepted, Tidy, Starting, isVP8
  <1>4. QED
    BY <1>1, <1>2, <1>3 DEF Accepted

LEMMA AddedTidy ==
  ASSUME Tidy, n \in Nat, n' \in 0 .. MaxFrames, n <= n', NEW pkt \in Packet, pkt.ts = n',
         AddToFrame(pkt)
  PROVE  Tidy'
  <1>1. frame \in Frame /\ firstPacket \in BOOLEAN
    BY DEF Tidy, DepackTypeOK
  <1>2. frame' \in Frame
        /\ frame'.time = IF isVP8(pkt) /\ firstPacket THEN pkt.ts ELSE frame.time
    BY <1>1, ExtendedType DEF AddToFrame
  <1>3. MaxFrames \in Nat
    BY StreamAssumption
  <1>4. firstPacket' \in BOOLEAN /\ (firstPacket' = (firstPacket /\ ~isVP8(pkt)))
    BY <1>1 DEF AddToFrame
  <1>5. Accepted(pkt)
    BY DEF AddToFrame
  <1>6. DepackTypeOK'
    BY <1>2, <1>4, <1>5, AcceptedTidy DEF Tidy, DepackTypeOK, AddToFrame
  <1>7. Times'
    <2>1. Old \subseteq Old' /\ n' \in 0 .. n' /\ n' \in Old' /\ 0 .. n \subseteq 0 .. n'
      BY <1>3 DEF Old
    <2>2. frame'.time \in Old'
      BY <2>1, <1>2 DEF Tidy, Times
    <2>3. ~firstPacket' => frame'.time \in 0 .. n'
      <3>1. CASE firstPacket
        BY <3>1, <2>1, <1>2, <1>4
      <3>2. CASE ~firstPacket
        BY <3>2, <2>1, <1>2 DEF Tidy, Times
      <3>3. QED
        BY <3>1, <3>2
    <2>4. QED
      BY <2>1, <2>2, <2>3 DEF Tidy, Times, AddToFrame
  <1>8. Starting'
    BY <1>4, <1>5, AcceptedTidy DEF Starting
  <1>9. QED
    BY <1>6, <1>7, <1>8 DEF Tidy

LEMMA HandedTidy ==
  ASSUME Tidy, n \in Nat, n' \in 0 .. MaxFrames, n <= n', NEW pkt \in Packet, pkt.ts = n',
         isVP8(pkt), NEW moves \in BOOLEAN, NEW time \in Time \cup {Converted},
         HandOut(pkt, moves, time)
  PROVE  Tidy' /\ out' # None
  <1> DEFINE full == Extended(pkt)
             used == [full EXCEPT !.time = time]
  <1>1. frame \in Frame /\ pool \in Seq(Frame) /\ taken \in Seq(Frame) /\ Len(taken) <= MaxHeld
    BY DEF Tidy, DepackTypeOK
  <1>2. full \in Frame /\ full.time = IF firstPacket THEN pkt.ts ELSE frame.time
    BY <1>1, ExtendedType
  <1>3. MaxFrames \in Nat /\ MaxHeld \in Nat /\ 0 .. MaxFrames \subseteq Time
    BY StreamAssumption
  <1>4. full.time \in 0 .. n'
    BY <1>2, <1>3 DEF Tidy, Times
  <1>5. used = [data |-> full.data, time |-> time]
    BY <1>2 DEF Frame
  <1>6. full.data \in Seq(Part)
    BY <1>2 DEF Frame
  <1>7. firstPacket' = TRUE /\ Accepted(pkt) /\ time \in {full.time, Converted}
        /\ out' = [data |-> full.data, time |-> full.time, key |-> isKeyFrame']
        /\ ret' = "kComplete"
    BY DEF HandOut
  <1>8. used \in Frame /\ used.time \in (0 .. n') \cup {Converted, None}
    BY <1>4, <1>5, <1>6, <1>7 DEF Frame
  <1>9. [used EXCEPT !.data = <<>>] = [data |-> <<>>, time |-> time]
    <2> HIDE DEF used, full
    <2>1. QED
      BY <1>5
  <1>10. /\ frame' \in Frame /\ frame'.time \in Old'
         /\ pool' \in Seq(Frame) /\ \A k \in 1 .. Len(pool') : pool'[k].time \in Old'
         /\ taken' \in Seq(Frame) /\ \A k \in 1 .. Len(taken') : taken'[k].time \in Old'
         /\ Len(taken') <= MaxHeld
    <2>1. Old \subseteq Old' /\ Old' = (0 .. n') \cup {Converted, None}
      BY <1>3 DEF Old
    <2>2. /\ \A k \in 1 .. Len(pool) : pool[k].time \in Old'
          /\ \A k \in 1 .. Len(taken) : taken[k].time \in Old'
      BY <2>1 DEF Tidy, Times
    <2>3. CASE ~moves /\ frame' = [used EXCEPT !.data = <<>>] /\ UNCHANGED <<pool, taken>>
      <3>1. <<>> \in Seq(Part)
        OBVIOUS
      <3>2. frame' \in Frame /\ frame'.time \in Old'
        BY <2>1, <2>3, <3>1, <1>4, <1>7, <1>9 DEF Frame
      <3>3. QED
        BY <3>2, <2>2, <2>3, <1>1
    <2>4. CASE /\ Len(taken) < MaxHeld /\ taken' = Append(taken, used)
               /\ \/ pool = <<>> /\ frame' = NewFrame /\ UNCHANGED pool
                  \/ /\ pool # <<>>
                     /\ frame' = pool[Len(pool)]
                     /\ pool' = SubSeq(pool, 1, Len(pool) - 1)
      <3> HIDE DEF used, full
      <3>1. /\ taken' \in Seq(Frame) /\ \A k \in 1 .. Len(taken') : taken'[k].time \in Old'
            /\ Len(taken') <= MaxHeld
        BY <2>1, <2>2, <2>4, <1>1, <1>3, <1>8
      <3>2. CASE pool = <<>> /\ frame' = NewFrame /\ UNCHANGED pool
        <4>1. frame' \in Frame /\ frame'.time \in Old'
          BY <3>2, <2>1 DEF NewFrame, Frame
        <4>2. QED
          BY <4>1, <3>1, <3>2, <2>2, <1>1
      <3>3. CASE /\ pool # <<>>
                 /\ frame' = pool[Len(pool)]
                 /\ pool' = SubSeq(pool, 1, Len(pool) - 1)
        <4>1. Len(pool) \in 1 .. Len(pool)
          BY <3>3, <1>1
        <4>2. frame' \in Frame /\ frame'.time \in Old'
          BY <4>1, <3>3, <2>2, <1>1
        <4>3. pool' \in Seq(Frame) /\ \A k \in 1 .. Len(pool') : pool'[k].time \in Old'
          BY <4>1, <3>3, <2>2, <1>1
        <4>4. QED
          BY <4>2, <4>3, <3>1
      <3>4. QED
        BY <2>4, <3>2, <3>3
    <2>5. QED
      BY <2>3, <2>4 DEF HandOut
  <1>11. /\ {expectKeyFrame, firstPacket, startPhase, isKeyFrame}' \subseteq BOOLEAN
         /\ nextSeq' \in SeqNum
         /\ ~startPhase'
    BY <1>7, AcceptedTidy
  <1>12. out' \in [data : Seq(Part), time : Time, key : BOOLEAN]
    BY <1>3, <1>4, <1>6, <1>7, <1>11
  <1>13. QED
    BY <1>7, <1>10, <1>11, <1>12, StreamAssumption DEF Tidy, DepackTypeOK, Times, Starting

\* A packet that is lost leaves depack as it is.
LEMMA LostTidy ==
  ASSUME Tidy, n \in Nat, n' \in 0 .. MaxFrames, n <= n', out' = None,
         UNCHANGED <<expectKeyFrame, firstPacket, startPhase, nextSeq, isKeyFrame,
                     frame, pool, taken, ret>>
  PROVE  Tidy'
  <1>1. MaxFrames \in Nat
    BY StreamAssumption
  <1>2. DepackTypeOK' /\ Starting'
    BY DEF Tidy, DepackTypeOK, Starting
  <1>3. Times'
    BY <1>1 DEF Tidy, Times, Old
  <1>4. QED
    BY <1>2, <1>3 DEF Tidy

LEMMA DropTidy ==
  ASSUME Tidy, n' = n, Drop
  PROVE  Tidy'
  <1>1. pool \in Seq(Frame) /\ taken \in Seq(Frame) /\ Len(taken) <= MaxHeld /\ taken # <<>>
    BY DEF Tidy, DepackTypeOK, Drop
  <1>2. MaxHeld \in Nat
    BY StreamAssumption
  <1>3. Head(taken) \in Frame /\ Head(taken) = taken[1] /\ 1 \in 1 .. Len(taken)
    BY <1>1
  <1>4. taken' \in Seq(Frame) /\ Len(taken') = Len(taken) - 1
        /\ \A k \in 1 .. Len(taken') : taken'[k] = taken[k + 1] /\ k + 1 \in 1 .. Len(taken)
    BY <1>1 DEF Drop
  <1>5. pool' \in Seq(Frame) /\ Len(pool') = Len(pool) + 1
        /\ \A k \in 1 .. Len(pool') : pool'[k] = IF k = Len(pool) + 1 THEN taken[1] ELSE pool[k]
    BY <1>1, <1>3 DEF Drop
  <1>6. Old' = Old
    BY DEF Old
  <1>7. \A k \in 1 .. Len(pool') : pool'[k].time \in Old'
    <2>1. Len(pool) \in Nat
      BY <1>1
    <2>2. TAKE k \in 1 .. Len(pool')
    <2>3. CASE k = Len(pool) + 1
      BY <2>3, <1>3, <1>5, <1>6 DEF Tidy, Times
    <2>4. CASE k \in 1 .. Len(pool)
      BY <2>4, <2>1, <1>5, <1>6 DEF Tidy, Times
    <2>5. QED
      BY <2>1, <2>3, <2>4, <1>5
  <1>8. \A k \in 1 .. Len(taken') : taken'[k].time \in Old'
    BY <1>4, <1>6 DEF Tidy, Times
  <1>9. DepackTypeOK'
    BY <1>1, <1>2, <1>4, <1>5 DEF Tidy, DepackTypeOK, Drop
  <1>10. QED
    BY <1>6, <1>7, <1>8, <1>9 DEF Tidy, Times, Starting, Drop

-----------------------------------------------------------------------------
(* Packets that are accepted.                                              *)

LEMMA StreamTypes ==
  ASSUME TypeOK
  PROVE  /\ MaxFrames \in Nat /\ MaxLen \in Nat /\ MaxNoise \in Nat
         /\ n \in Nat /\ len \in Nat /\ i \in Nat \ {0} /\ noise \in Nat
         /\ n <= MaxFrames /\ len <= MaxLen
         /\ seq \in SeqNum /\ frame \in Frame /\ frame.data \in Seq(Part)
         /\ {key, whole, perfect, seenKey, wasFree, inStep} \subseteq BOOLEAN
         /\ {expectKeyFrame, firstPacket, startPhase, isKeyFrame} \subseteq BOOLEAN
  BY StreamAssumption DEF TypeOK, DepackTypeOK, Frame

\* One more packet of the frame at the end.
LEMMA EndsWithMore ==
  ASSUME NEW d \in Seq(Part), NEW m \in Nat, NEW k \in Nat, EndsWith(d, m, k),
         <<m, k + 1>> \in Part
  PROVE  EndsWith(Append(d, <<m, k + 1>>), m, k + 1)
  <1> DEFINE e == Append(d, <<m, k + 1>>)
  <1>1. Len(e) = Len(d) + 1 /\ Len(d) \in Nat /\ Len(d) >= k
    BY DEF EndsWith
  <1>2. ASSUME NEW j \in 1 .. k + 1
        PROVE  e[Len(e) - (k + 1) + j] = <<m, j>>
    <2>1. CASE j = k + 1
      BY <2>1, <1>1
    <2>2. CASE j \in 1 .. k
      <3>1. Len(e) - (k + 1) + j = Len(d) - k + j /\ Len(d) - k + j \in 1 .. Len(d)
        BY <2>2, <1>1
      <3>2. e[Len(d) - k + j] = d[Len(d) - k + j]
        BY <3>1
      <3>3. QED
        BY <3>1, <3>2, <2>2 DEF EndsWith
    <2>3. QED
      <3> HIDE DEF e
      <3>1. QED
        BY <2>1, <2>2
  <1>3. QED
    <2> HIDE DEF e
    <2>1. Len(e) >= k + 1
      BY <1>1
    <2>2. \A j \in 1 .. k + 1 : e[Len(e) - (k + 1) + j] = <<m, j>>
      BY <1>2
    <2>3. EndsWith(e, m, k + 1)
      BY <2>1, <2>2 DEF EndsWith
    <2>4. QED
      BY <2>3 DEF e

LEMMA EndsWithNone ==
  ASSUME NEW d \in Seq(Part), NEW m
  PROVE  EndsWith(d, m, 0)
  BY DEF EndsWith

\* The first packet of a frame: of a key frame after a gap, of any frame in
\* step, when no frame is open and the data of the buffer is dropped.
LEMMA FirstAccepted ==
  ASSUME IInv, ~Mid, n < MaxFrames, NEW pkt \in Packet,
         pkt.seq = seq, pkt.ts = n + 1, pkt.part = <<n + 1, 1>>,
         pkt.kind \in {"key", "delta", "badHeader", "noHeader"},
         nextDecodable(pkt) = "kNoError"
  PROVE  /\ pkt.kind \in {"key", "delta"}
         /\ HeaderAfter(pkt) = (pkt.kind = "key")
         /\ pkt.kind = "delta" => lastOut = n
         /\ EndsWith(Extended(pkt).data, n + 1, 1)
         /\ firstPacket => Extended(pkt).time = n + 1
         /\ ~expectKeyFrame => /\ Len(Extended(pkt).data) = 1
                               /\ Extended(pkt).time = n + 1
  <1>1. /\ n \in Nat /\ MaxFrames \in Nat /\ frame \in Frame /\ frame.data \in Seq(Part)
        /\ expectKeyFrame \in BOOLEAN /\ firstPacket \in BOOLEAN
    BY StreamTypes DEF IInv
  <1>2. <<n + 1, 1>> \in Part /\ n + 1 \in Time
    BY DEF Packet
  <1>3. isVP8(pkt)
    BY DEF isVP8
  <1>4. FrameFor(pkt).data \in Seq(Part)
    BY <1>1, FrameForType DEF Frame
  <1>5. /\ Extended(pkt).data = Append(FrameFor(pkt).data, <<n + 1, 0 + 1>>)
        /\ Extended(pkt).time = IF firstPacket THEN n + 1 ELSE frame.time
    BY <1>1, <1>3, ExtendedType
  <1>6. EndsWith(Extended(pkt).data, n + 1, 1)
    <2> DEFINE d == FrameFor(pkt).data
    <2>1. d \in Seq(Part) /\ Extended(pkt).data = Append(d, <<n + 1, 0 + 1>>)
      BY <1>4, <1>5
    <2> HIDE DEF d
    <2>2. n + 1 \in Nat /\ <<n + 1, 0 + 1>> \in Part
      BY <1>1, <1>2
    <2>3. EndsWith(Append(d, <<n + 1, 0 + 1>>), n + 1, 0 + 1)
      BY <2>1, <2>2, EndsWithNone, EndsWithMore
    <2>4. QED
      BY <2>1, <2>3
  <1>7. CASE expectKeyFrame
    <2>1. pkt.kind = "key"
      BY <1>7, AcceptsWaiting
    <2>2. QED
      BY <2>1, <1>5, <1>6, <1>7 DEF HeaderAfter
  <1>8. CASE ~expectKeyFrame
    <2>1. ~startPhase
      BY <1>8 DEF IInv, Starting
    <2>2. pkt.kind \in {"key", "delta"} /\ nextSeq = seq
      BY <1>8, <2>1, AcceptsNext
    <2>3. firstPacket /\ lastOut = n
      BY <1>8, <2>2 DEF IInv, Between, InSeq
    <2>4. frame.time # n + 1
      <3>1. frame.time \in Old
        BY DEF IInv, Times
      <3>2. QED
        BY <3>1, <1>1, <1>2, TimeAssumption DEF Old
    <2>5. FrameFor(pkt).data = <<>>
      <3>1. FrameFor(pkt) = [frame EXCEPT !.data = <<>>]
        BY <1>3, <1>8, <2>2, <2>3, <2>4, Parses DEF FrameFor
      <3>2. QED
        BY <3>1, <1>1 DEF Frame
    <2>6. Len(Extended(pkt).data) = 1
      BY <2>5, <1>2, <1>5
    <2>7. QED
      BY <2>2, <2>3, <2>6, <1>5, <1>6, <1>8 DEF HeaderAfter
  <1>9. QED
    BY <1>1, <1>7, <1>8

\* The rest of a frame is accepted in step only, into the open frame.
LEMMA RestAccepted ==
  ASSUME IInv, Mid, NEW pkt \in Packet,
         pkt.seq = seq, pkt.ts = n, pkt.part = <<n, i>>, pkt.kind = "rest",
         nextDecodable(pkt) = "kNoError"
  PROVE  /\ InSeq
         /\ HeaderAfter(pkt) = key
         /\ EndsWith(Extended(pkt).data, n, i)
         /\ Extended(pkt).time = n
         /\ inStep => Len(Extended(pkt).data) = i
         /\ ~key => lastOut = n - 1
  <1>1. /\ n \in Nat /\ i \in Nat \ {0} /\ frame \in Frame /\ frame.data \in Seq(Part)
        /\ expectKeyFrame \in BOOLEAN
    BY StreamTypes DEF IInv
  <1>2. <<n, i>> \in Part
    BY DEF Packet
  <1>3. isVP8(pkt) /\ ~StartsFrame(pkt)
    BY DEF isVP8, StartsFrame
  <1>4. ~expectKeyFrame
    BY AcceptsWaiting
  <1>5. ~startPhase
    BY <1>4 DEF IInv, Starting
  <1>6. nextSeq = seq /\ ~firstPacket /\ frame.time = n
    BY <1>3, <1>4, <1>5, AcceptsNext
  <1>7. InSeq
    BY <1>4, <1>6 DEF InSeq
  <1>8. /\ EndsWith(frame.data, n, i - 1)
        /\ isKeyFrame = key
        /\ ~key => lastOut = n - 1
        /\ inStep => Len(frame.data) = i - 1
    BY <1>7 DEF IInv, Within
  <1>9. FrameFor(pkt) = frame
    BY <1>6 DEF FrameFor
  <1>10. Extended(pkt).data = Append(frame.data, <<n, (i - 1) + 1>>) /\ Extended(pkt).time = n
    BY <1>1, <1>3, <1>6, <1>9, ExtendedType
  <1>11. EndsWith(Extended(pkt).data, n, (i - 1) + 1)
    BY <1>1, <1>2, <1>8, <1>10, EndsWithMore
  <1>12. inStep => Len(Extended(pkt).data) = i
    BY <1>1, <1>2, <1>8, <1>10
  <1>13. HeaderAfter(pkt) = key
    BY <1>8 DEF HeaderAfter
  <1>14. QED
    BY <1>1, <1>7, <1>8, <1>10, <1>11, <1>12, <1>13

-----------------------------------------------------------------------------
(* The invariant is inductive.                                             *)

\* What the action properties say of a step.
DeltaStep   == out' # None /\ ~key' => lastOut = n' - 1
KeyStep     == Ends /\ key' /\ whole' /\ wasFree' /\ ~inStep' => out' # None
PerfectStep == Ends /\ perfect' /\ seenKey' => out' # None
GoodStep    == DeltaStep /\ KeyStep /\ PerfectStep

\* After a packet that was lost depack is not in step.
LEMMA LostGap ==
  ASSUME IInv, GapShort, seq' = Plus(seq, 1), UNCHANGED <<expectKeyFrame, nextSeq>>
  PROVE  ~InSeq'
  BY DEF IInv, Starting, GapShort, InSeq

\* After one that was accepted it is.
LEMMA AcceptedInSeq ==
  ASSUME NEW pkt \in Packet, pkt.seq = seq, seq' = Plus(seq, 1), Accepted(pkt)
  PROVE  InSeq'
  BY DEF Accepted, InSeq

LEMMA FirstStep ==
  ASSUME IInv, NEW isKey \in BOOLEAN, NEW packets \in 1 .. MaxLen,
         NEW kind \in {"key", "delta", "badHeader", "noHeader"},
         isKey = (kind \in {"key", "badHeader"}),
         SendFirst(isKey, packets, kind)
  PROVE  IInv' /\ GoodStep
  <1> DEFINE pkt == [seq |-> seq, ts |-> n', mark |-> packets = 1, kind |-> kind,
                     part |-> <<n', 1>>]
             fine == kind \notin DOMAIN ParseErrors
  <1>1. /\ i > len /\ n < MaxFrames
        /\ n' = n + 1 /\ len' = packets /\ key' = isKey /\ i' = 2
        /\ wasFree' = firstPacket /\ inStep' = ~expectKeyFrame
        /\ seenKey' = (seenKey \/ isKey) /\ noise' = noise
        /\ Carry(pkt)
    BY DEF SendFirst
  <1>2. /\ MaxFrames \in Nat /\ MaxLen \in Nat /\ n \in Nat /\ len \in Nat /\ i \in Nat
        /\ seq \in SeqNum /\ lastOut \in 0 .. MaxFrames /\ noise \in 0 .. MaxNoise
        /\ {key, whole, perfect, seenKey, wasFree, inStep} \subseteq BOOLEAN
        /\ {expectKeyFrame, firstPacket, startPhase, isKeyFrame} \subseteq BOOLEAN
    BY StreamTypes DEF IInv, TypeOK
  <1>3. n' \in 0 .. MaxFrames /\ n <= n' /\ n' \in Time /\ <<n', 1>> \in Part
    BY <1>1, <1>2, StreamAssumption
  <1>4. pkt \in Packet
    BY <1>2, <1>3 DEF Packet, Kind
  <1>5. Tidy /\ ~Mid
    BY <1>1, <1>2 DEF IInv, TypeOK, Tidy, Mid
  <1>6. /\ pkt.seq = seq /\ pkt.ts = n' /\ pkt.part = <<n', 1>> /\ pkt.kind = kind
        /\ pkt.mark = (packets = 1)
    OBVIOUS
  <1>7. (packets > 1 => Mid') /\ (packets = 1 => ~Mid') /\ Place'
    BY <1>1 DEF Mid, Place
  <1>8. GapShort /\ seq' = Plus(seq, 1) /\ seq' \in SeqNum
    BY <1>1, <1>2, SeqStep DEF Carry
  <1>9. (kind \in {"key", "delta"}) = fine
    BY <1>4, <1>6, Parses
  <1> HIDE DEF pkt, fine
  <1>10. ASSUME DepackTypeOK', whole' \in BOOLEAN, perfect' \in BOOLEAN,
                lastOut' \in 0 .. MaxFrames
         PROVE  TypeOK'
    <2>1. len' \in 0 .. MaxLen /\ i' \in 1 .. MaxLen + 1 /\ noise' \in 0 .. MaxNoise
      BY <1>1, <1>2
    <2>2. {key, whole, perfect, seenKey, wasFree, inStep}' \subseteq BOOLEAN
      BY <1>1, <1>2, <1>10
    <2>3. QED
      BY <2>1, <2>2, <1>3, <1>8, <1>10 DEF TypeOK
  <1>11. CASE /\ out' = None
              /\ whole' = FALSE /\ perfect' = FALSE
              /\ UNCHANGED <<expectKeyFrame, firstPacket, startPhase, nextSeq, isKeyFrame,
                             frame, pool, taken, ret, lastOut>>
    <2>1. Tidy'
      BY <1>2, <1>3, <1>5, <1>11, LostTidy
    <2>2. ~InSeq'
      BY <1>8, <1>11, LostGap
    <2>3. TypeOK'
      BY <2>1, <1>2, <1>11, <1>10 DEF Tidy
    <2>4. QED
      BY <2>1, <2>2, <2>3, <1>7, <1>11
         DEF IInv, Tidy, Between, Within, KeyOpen, Perfect, Handed, GoodStep, DeltaStep, KeyStep, PerfectStep
  <1>12. CASE /\ depack(pkt)
              /\ whole' = (fine /\ (whole \/ StartsFrame(pkt)))
              /\ perfect' = (fine /\ perfect)
              /\ lastOut' = IF out' = None THEN lastOut ELSE pkt.ts
    <2>1. CASE Rejected(pkt)
      <3>1. Tidy'
        BY <1>2, <1>3, <1>4, <1>5, <2>1, RejectedTidy
      <3>2. ~InSeq' /\ out' = None /\ expectKeyFrame' /\ firstPacket' = firstPacket
        BY <2>1 DEF Rejected, InSeq
      <3>3. TypeOK'
        BY <3>1, <3>2, <1>2, <1>12, <1>10 DEF Tidy, fine, StartsFrame
      <3>4. nextDecodable(pkt) # "kNoError"
        BY <2>1 DEF Rejected, Errors
      <3>5. ~(expectKeyFrame /\ kind = "key")
        BY <3>4, <1>4, <1>6, AcceptsWaiting
      <3>6. ~(InSeq /\ kind \in {"key", "delta"})
        <4>1. SUFFICES ASSUME InSeq, kind \in {"key", "delta"}
                       PROVE  FALSE
          OBVIOUS
        <4>2. ~expectKeyFrame /\ nextSeq = seq /\ ~startPhase /\ firstPacket
          BY <4>1, <1>5 DEF InSeq, IInv, Between, Starting
        <4>3. StartsFrame(pkt)
          BY <4>1, <1>6 DEF StartsFrame
        <4>4. QED
          BY <3>4, <4>1, <4>2, <4>3, <1>4, <1>6, AcceptsNext
      <3>7. ~(whole' /\ key' /\ ~inStep')
        BY <3>5, <1>1, <1>2, <1>9, <1>12 DEF fine
      <3>8. perfect' => ~seenKey' /\ firstPacket
        <4>1. SUFFICES ASSUME perfect'
                       PROVE  ~seenKey' /\ firstPacket
          OBVIOUS
        <4>2. perfect /\ kind \in {"key", "delta"}
          BY <4>1, <1>9, <1>12
        <4>3. ~seenKey
          BY <4>2, <3>6 DEF IInv, Perfect
        <4>4. QED
          BY <4>2, <4>3, <3>5, <1>1 DEF IInv, Perfect
      <3>9. QED
        BY <3>1, <3>2, <3>3, <3>7, <3>8, <1>7
           DEF IInv, Tidy, Between, Within, KeyOpen, Perfect, Handed, GoodStep, DeltaStep, KeyStep, PerfectStep
    <2>2. ASSUME nextDecodable(pkt) = "kNoError"
          PROVE  /\ fine
                 /\ HeaderAfter(pkt) = isKey
                 /\ ~isKey => lastOut = n
                 /\ EndsWith(Extended(pkt).data, n', 1)
                 /\ firstPacket => Extended(pkt).time = n'
                 /\ ~expectKeyFrame => Len(Extended(pkt).data) = 1 /\ Extended(pkt).time = n'
                 /\ perfect' => seenKey' /\ firstPacket
      <3>1. n' = n + 1 /\ pkt.ts = n + 1 /\ pkt.part = <<n + 1, 1>>
        BY <1>1, <1>6
      <3>2. /\ kind \in {"key", "delta"}
            /\ HeaderAfter(pkt) = (kind = "key")
            /\ kind = "delta" => lastOut = n
            /\ EndsWith(Extended(pkt).data, n + 1, 1)
            /\ firstPacket => Extended(pkt).time = n + 1
            /\ ~expectKeyFrame => Len(Extended(pkt).data) = 1 /\ Extended(pkt).time = n + 1
        BY <2>2, <3>1, <1>1, <1>4, <1>5, <1>6, FirstAccepted
      <3>3. perfect' => seenKey' /\ firstPacket
        <4>1. SUFFICES ASSUME perfect'
                       PROVE  seenKey' /\ firstPacket
          OBVIOUS
        <4>2. perfect
          BY <4>1, <1>12
        <4>3. CASE seenKey
          BY <4>2, <4>3, <1>1, <1>5 DEF IInv, Perfect, Between
        <4>4. CASE ~seenKey
          BY <4>2, <4>4, <2>2, <1>1, <1>4, <1>6, AcceptsWaiting DEF IInv, Perfect
        <4>5. QED
          BY <4>3, <4>4
      <3>4. QED
        BY <3>1, <3>2, <3>3, <1>9
    <2>3. CASE AddToFrame(pkt)
      <3>1. Tidy'
        BY <1>2, <1>3, <1>4, <1>5, <1>6, <2>3, AddedTidy
      <3>2. /\ Accepted(pkt) /\ nextDecodable(pkt) = "kNoError" /\ frame' = Extended(pkt)
            /\ out' = None /\ packets > 1 /\ isKeyFrame' = HeaderAfter(pkt)
            /\ firstPacket' = (firstPacket /\ ~isVP8(pkt))
        <4>1. ~(packets = 1)
          BY <2>3, <1>6 DEF AddToFrame
        <4>2. packets > 1
          BY <4>1, <1>2
        <4>3. QED
          BY <4>2, <2>3 DEF AddToFrame, Accepted
      <3>3. InSeq'
        BY <3>2, <1>4, <1>6, <1>8, AcceptedInSeq
      <3>4. ~firstPacket'
        BY <3>2, <1>6 DEF isVP8
      <3>5. lastOut' = lastOut
        BY <3>2, <1>12
      <3>6. TypeOK'
        BY <3>1, <3>5, <1>2, <1>12, <1>10 DEF Tidy, fine, StartsFrame
      <3>7. Mid'
        BY <3>2, <1>7
      <3>8. Within'
        BY <2>2, <3>2, <3>4, <3>5, <1>1, <1>2 DEF Within
      <3>9. KeyOpen' /\ Perfect'
        BY <2>2, <3>2, <3>3, <1>1 DEF KeyOpen, Perfect
      <3>10. Between' /\ Handed'
        BY <3>2, <3>7 DEF Between, Handed
      <3>11. GoodStep
        BY <3>2, <1>1 DEF GoodStep, DeltaStep, KeyStep, PerfectStep, Ends
      <3>12. QED
        BY <3>1, <3>6, <3>8, <3>9, <3>10, <3>11, <1>7 DEF IInv, Tidy
    <2>4. ASSUME NEW moves \in BOOLEAN, NEW time \in Time \cup {Converted},
                 HandOut(pkt, moves, time)
          PROVE  IInv' /\ GoodStep
      <3>1. isVP8(pkt)
        BY <1>6 DEF isVP8
      <3>2. Tidy' /\ out' # None
        BY <2>4, <3>1, <1>2, <1>3, <1>4, <1>5, <1>6, HandedTidy
      <3>3. Accepted(pkt) /\ nextDecodable(pkt) = "kNoError" /\ packets = 1
            /\ firstPacket' = TRUE
            /\ out' = [data |-> Extended(pkt).data, time |-> Extended(pkt).time,
                        key |-> HeaderAfter(pkt)]
        BY <2>4, <1>6 DEF HandOut, Accepted
      <3>4. InSeq'
        BY <3>3, <1>4, <1>6, <1>8, AcceptedInSeq
      <3>5. lastOut' = n' /\ ~Mid'
        BY <3>2, <3>3, <1>6, <1>7, <1>12
      <3>6. TypeOK'
        BY <3>2, <3>5, <1>2, <1>3, <1>12, <1>10 DEF Tidy, fine, StartsFrame
      <3>7. Between' /\ Within' /\ KeyOpen'
        BY <3>3, <3>5 DEF Between, Within, KeyOpen
      <3>8. Perfect'
        BY <2>2, <3>3, <3>4, <3>5 DEF Perfect
      <3>9. Handed'
        BY <2>2, <3>3, <1>1 DEF Handed
      <3>10. GoodStep
        BY <2>2, <3>2, <3>3, <1>1, <1>2 DEF GoodStep, DeltaStep, KeyStep, PerfectStep
      <3>11. QED
        BY <3>2, <3>6, <3>7, <3>8, <3>9, <3>10, <1>7 DEF IInv, Tidy
    <2>5. QED
      BY <1>12, <2>1, <2>3, <2>4 DEF depack
  <1>13. QED
    BY <1>1, <1>6, <1>11, <1>12 DEF Carry, fine

LEMMA RestStep ==
  ASSUME IInv, SendRest
  PROVE  IInv' /\ GoodStep
  <1> DEFINE pkt == [seq |-> seq, ts |-> n, mark |-> i = len, kind |-> "rest", part |-> <<n, i>>]
             fine == "rest" \notin DOMAIN ParseErrors
  <1>1. /\ i <= len /\ i' = i + 1
        /\ n' = n /\ len' = len /\ key' = key /\ noise' = noise
        /\ seenKey' = seenKey /\ wasFree' = wasFree /\ inStep' = inStep
        /\ Carry(pkt)
    BY DEF SendRest
  <1>2. /\ MaxFrames \in Nat /\ MaxLen \in Nat /\ n \in Nat /\ len \in Nat /\ i \in Nat \ {0}
        /\ seq \in SeqNum /\ lastOut \in 0 .. MaxFrames /\ n \in 0 .. MaxFrames /\ len <= MaxLen
        /\ {key, whole, perfect, seenKey, wasFree, inStep} \subseteq BOOLEAN
        /\ {expectKeyFrame, firstPacket, startPhase, isKeyFrame} \subseteq BOOLEAN
    BY StreamTypes DEF IInv, TypeOK
  <1>3. n' \in 0 .. MaxFrames /\ n <= n' /\ n \in Time /\ <<n, i>> \in Part
    BY <1>1, <1>2, StreamAssumption
  <1>4. pkt \in Packet
    BY <1>2, <1>3 DEF Packet, Kind
  <1>5. Tidy /\ Mid
    BY <1>1, <1>2 DEF IInv, TypeOK, Tidy, Mid
  <1>6. /\ pkt.seq = seq /\ pkt.ts = n /\ pkt.part = <<n, i>> /\ pkt.kind = "rest"
        /\ pkt.mark = (i = len)
    OBVIOUS
  <1>7. (i # len => Mid') /\ (i = len => ~Mid') /\ Place'
    BY <1>1, <1>2 DEF Mid, Place
  <1>8. GapShort /\ seq' = Plus(seq, 1) /\ seq' \in SeqNum
    BY <1>1, <1>2, SeqStep DEF Carry
  <1>9. fine /\ ~StartsFrame(pkt) /\ isVP8(pkt)
    BY <1>4, <1>6, Parses DEF StartsFrame, isVP8
  <1> HIDE DEF pkt, fine
  <1>10. ASSUME DepackTypeOK', whole' \in BOOLEAN, perfect' \in BOOLEAN,
                lastOut' \in 0 .. MaxFrames
         PROVE  TypeOK'
    <2>1. i' \in 1 .. MaxLen + 1
      BY <1>1, <1>2
    <2>2. {key, whole, perfect, seenKey, wasFree, inStep}' \subseteq BOOLEAN
      BY <1>1, <1>2, <1>10
    <2>3. QED
      BY <2>1, <2>2, <1>1, <1>3, <1>8, <1>10 DEF TypeOK, IInv
  <1>11. CASE /\ out' = None
              /\ whole' = FALSE /\ perfect' = FALSE
              /\ UNCHANGED <<expectKeyFrame, firstPacket, startPhase, nextSeq, isKeyFrame,
                             frame, pool, taken, ret, lastOut>>
    <2>1. Tidy'
      BY <1>2, <1>3, <1>5, <1>11, LostTidy
    <2>2. ~InSeq'
      BY <1>8, <1>11, LostGap
    <2>3. TypeOK'
      BY <2>1, <1>2, <1>10, <1>11 DEF Tidy
    <2>4. QED
      BY <2>1, <2>2, <2>3, <1>7, <1>11
         DEF IInv, Tidy, Between, Within, KeyOpen, Perfect, Handed, GoodStep, DeltaStep, KeyStep, PerfectStep
  <1>12. CASE /\ depack(pkt)
              /\ whole' = (fine /\ (whole \/ StartsFrame(pkt)))
              /\ perfect' = (fine /\ perfect)
              /\ lastOut' = IF out' = None THEN lastOut ELSE pkt.ts
    <2>1. whole' = whole /\ perfect' = perfect
      BY <1>2, <1>9, <1>12
    <2>2. CASE Rejected(pkt)
      <3>1. Tidy'
        BY <1>2, <1>3, <1>4, <1>5, <2>2, RejectedTidy
      <3>2. ~InSeq' /\ out' = None /\ expectKeyFrame' /\ firstPacket' = firstPacket
        BY <2>2 DEF Rejected, InSeq
      <3>3. TypeOK'
        BY <3>1, <3>2, <2>1, <1>2, <1>10, <1>12 DEF Tidy
      <3>4. nextDecodable(pkt) # "kNoError"
        BY <2>2 DEF Rejected, Errors
      <3>5. ~(InSeq /\ frame.time = n)
        <4>1. SUFFICES ASSUME InSeq, frame.time = n
                       PROVE  FALSE
          OBVIOUS
        <4>2. ~expectKeyFrame /\ nextSeq = seq /\ ~startPhase /\ ~firstPacket
          BY <4>1, <1>5 DEF InSeq, IInv, Within, Starting
        <4>3. QED
          BY <3>4, <4>1, <4>2, <1>4, <1>6, AcceptsNext
      <3>6. ~(key /\ whole /\ wasFree /\ ~inStep)
        BY <3>5, <1>5 DEF IInv, KeyOpen
      <3>7. perfect => ~seenKey /\ firstPacket
        BY <3>5, <1>5 DEF IInv, Perfect
      <3>8. QED
        BY <3>1, <3>2, <3>3, <3>6, <3>7, <2>1, <1>1, <1>7
           DEF IInv, Tidy, Between, Within, KeyOpen, Perfect, Handed, GoodStep, DeltaStep, KeyStep, PerfectStep
    <2>3. ASSUME nextDecodable(pkt) = "kNoError"
          PROVE  /\ InSeq
                 /\ HeaderAfter(pkt) = key
                 /\ EndsWith(Extended(pkt).data, n, i)
                 /\ Extended(pkt).time = n
                 /\ inStep => Len(Extended(pkt).data) = i
                 /\ ~key => lastOut = n - 1
                 /\ perfect => seenKey
      <3>1. /\ InSeq
            /\ HeaderAfter(pkt) = key
            /\ EndsWith(Extended(pkt).data, n, i)
            /\ Extended(pkt).time = n
            /\ inStep => Len(Extended(pkt).data) = i
            /\ ~key => lastOut = n - 1
        BY <2>3, <1>4, <1>5, <1>6, RestAccepted
      <3>2. perfect => seenKey
        BY <3>1 DEF IInv, Perfect, InSeq
      <3>3. QED
        BY <3>1, <3>2
    <2>4. CASE AddToFrame(pkt)
      <3>1. Tidy'
        BY <1>1, <1>2, <1>3, <1>4, <1>5, <1>6, <2>4, AddedTidy
      <3>2. /\ Accepted(pkt) /\ nextDecodable(pkt) = "kNoError" /\ frame' = Extended(pkt)
            /\ out' = None /\ i # len /\ isKeyFrame' = HeaderAfter(pkt)
            /\ ~firstPacket'
        BY <2>4, <1>6, <1>9 DEF AddToFrame, Accepted
      <3>3. InSeq'
        BY <3>2, <1>4, <1>6, <1>8, AcceptedInSeq
      <3>4. lastOut' = lastOut
        BY <3>2, <1>12
      <3>5. TypeOK'
        BY <3>1, <3>4, <2>1, <1>2, <1>10 DEF Tidy
      <3>6. Mid' /\ i' - 1 = i
        BY <3>2, <1>1, <1>2, <1>7
      <3>7. Within'
        BY <2>3, <3>2, <3>4, <3>6, <1>1 DEF Within
      <3>8. KeyOpen' /\ Perfect'
        BY <2>1, <2>3, <3>2, <3>3, <1>1 DEF KeyOpen, Perfect
      <3>9. Between' /\ Handed'
        BY <3>2, <3>6 DEF Between, Handed
      <3>10. GoodStep
        BY <3>2, <3>6, <1>1, <1>2 DEF GoodStep, DeltaStep, KeyStep, PerfectStep, Ends, Mid
      <3>11. QED
        BY <3>1, <3>5, <3>7, <3>8, <3>9, <3>10, <1>7 DEF IInv, Tidy
    <2>5. ASSUME NEW moves \in BOOLEAN, NEW time \in Time \cup {Converted},
                 HandOut(pkt, moves, time)
          PROVE  IInv' /\ GoodStep
      <3>1. Tidy' /\ out' # None
        BY <2>5, <1>1, <1>2, <1>3, <1>4, <1>5, <1>6, <1>9, HandedTidy
      <3>2. /\ Accepted(pkt) /\ nextDecodable(pkt) = "kNoError" /\ i = len
            /\ firstPacket' = TRUE
            /\ out' = [data |-> Extended(pkt).data, time |-> Extended(pkt).time,
                        key |-> HeaderAfter(pkt)]
        BY <2>5, <1>6 DEF HandOut, Accepted
      <3>3. InSeq'
        BY <3>2, <1>4, <1>6, <1>8, AcceptedInSeq
      <3>4. lastOut' = n' /\ ~Mid'
        BY <3>1, <3>2, <1>1, <1>6, <1>7, <1>12
      <3>5. TypeOK'
        BY <3>1, <3>4, <2>1, <1>2, <1>3, <1>10 DEF Tidy
      <3>6. Between' /\ Within' /\ KeyOpen'
        BY <3>2, <3>4 DEF Between, Within, KeyOpen
      <3>7. Perfect'
        BY <2>1, <2>3, <3>2, <3>3, <3>4, <1>1 DEF Perfect
      <3>8. Handed'
        BY <2>3, <3>2, <1>1 DEF Handed
      <3>9. GoodStep
        BY <2>3, <3>1, <3>2, <1>1 DEF GoodStep, DeltaStep, KeyStep, PerfectStep
      <3>10. QED
        BY <3>1, <3>5, <3>6, <3>7, <3>8, <3>9, <1>7 DEF IInv, Tidy
    <2>6. QED
      BY <1>12, <2>2, <2>4, <2>5 DEF depack
  <1>13. QED
    BY <1>1, <1>6, <1>11, <1>12 DEF Carry, fine

\* A packet of no frame: a packet of another codec is let through in step, one
\* that does not parse makes depack wait for a key frame.
LEMMA NoiseStep ==
  ASSUME IInv, NEW kind \in {"other", "empty", "badDescriptor"}, SendNoise(kind)
  PROVE  IInv' /\ GoodStep
  <1> DEFINE pkt == [seq |-> seq, ts |-> n, mark |-> FALSE, kind |-> kind, part |-> <<n, 0>>]
             fine == kind \notin DOMAIN ParseErrors
  <1>1. /\ noise < MaxNoise /\ noise' = noise + 1
        /\ n' = n /\ len' = len /\ key' = key /\ i' = i
        /\ seenKey' = seenKey /\ wasFree' = wasFree /\ inStep' = inStep
        /\ Carry(pkt)
    BY DEF SendNoise
  <1>2. /\ MaxFrames \in Nat /\ MaxLen \in Nat /\ MaxNoise \in Nat /\ n \in Nat /\ noise \in Nat
        /\ seq \in SeqNum /\ lastOut \in 0 .. MaxFrames /\ n \in 0 .. MaxFrames
        /\ {key, whole, perfect, seenKey, wasFree, inStep} \subseteq BOOLEAN
        /\ {expectKeyFrame, firstPacket, startPhase, isKeyFrame} \subseteq BOOLEAN
    BY StreamTypes DEF IInv, TypeOK
  <1>3. n' \in 0 .. MaxFrames /\ n <= n' /\ n \in Time /\ <<n, 0>> \in Part
    BY <1>1, <1>2, StreamAssumption
  <1>4. pkt \in Packet
    BY <1>2, <1>3 DEF Packet, Kind
  <1>5. Tidy
    BY DEF IInv, TypeOK, Tidy
  <1>6. pkt.seq = seq /\ pkt.ts = n /\ pkt.kind = kind /\ ~pkt.mark
    OBVIOUS
  <1>7. Mid' = Mid /\ Place' /\ ~Ends
    BY <1>1 DEF Mid, Place, IInv, Ends
  <1>8. GapShort /\ seq' = Plus(seq, 1) /\ seq' \in SeqNum
    BY <1>1, <1>2, SeqStep DEF Carry
  <1>9. fine = (kind = "other") /\ ~StartsFrame(pkt)
    BY <1>4, <1>6, Parses DEF StartsFrame
  <1> HIDE DEF pkt, fine
  <1>10. ASSUME DepackTypeOK', whole' \in BOOLEAN, perfect' \in BOOLEAN, lastOut' = lastOut
         PROVE  TypeOK'
    <2>1. noise' \in 0 .. MaxNoise
      BY <1>1, <1>2
    <2>2. {key, whole, perfect, seenKey, wasFree, inStep}' \subseteq BOOLEAN
      BY <1>1, <1>2, <1>10
    <2>3. QED
      BY <2>1, <2>2, <1>1, <1>3, <1>8, <1>10 DEF TypeOK, IInv
  <1>11. CASE /\ out' = None
              /\ whole' = FALSE /\ perfect' = FALSE
              /\ UNCHANGED <<expectKeyFrame, firstPacket, startPhase, nextSeq, isKeyFrame,
                             frame, pool, taken, ret, lastOut>>
    <2>1. Tidy'
      BY <1>2, <1>3, <1>5, <1>11, LostTidy
    <2>2. ~InSeq'
      BY <1>8, <1>11, LostGap
    <2>3. TypeOK'
      BY <2>1, <1>10, <1>11 DEF Tidy
    <2>4. QED
      BY <2>1, <2>2, <2>3, <1>7, <1>11
         DEF IInv, Tidy, Between, Within, KeyOpen, Perfect, Handed, GoodStep, DeltaStep, KeyStep, PerfectStep
  <1>12. CASE /\ depack(pkt)
              /\ whole' = (fine /\ (whole \/ StartsFrame(pkt)))
              /\ perfect' = (fine /\ perfect)
              /\ lastOut' = IF out' = None THEN lastOut ELSE pkt.ts
    <2>1. /\ whole' \in BOOLEAN /\ perfect' \in BOOLEAN
          /\ whole' => whole /\ kind = "other"
          /\ perfect' => perfect /\ kind = "other"
      BY <1>2, <1>9, <1>12 DEF fine
    <2>2. CASE Rejected(pkt)
      <3>1. Tidy'
        BY <1>2, <1>3, <1>4, <1>5, <2>2, RejectedTidy
      <3>2. ~InSeq' /\ out' = None /\ expectKeyFrame' /\ firstPacket' = firstPacket
        BY <2>2 DEF Rejected, InSeq
      <3>3. TypeOK'
        BY <3>1, <3>2, <2>1, <1>10, <1>12 DEF Tidy
      <3>4. nextDecodable(pkt) # "kNoError"
        BY <2>2 DEF Rejected, Errors
      <3>5. ~(InSeq /\ kind = "other")
        <4>1. SUFFICES ASSUME InSeq, kind = "other"
                       PROVE  FALSE
          OBVIOUS
        <4>2. ~expectKeyFrame /\ nextSeq = seq /\ ~startPhase /\ ~isVP8(pkt)
          BY <4>1, <1>6 DEF InSeq, IInv, Starting, isVP8
        <4>3. QED
          BY <3>4, <4>1, <4>2, <1>4, <1>6, AcceptsNext
      <3>6. KeyOpen'
        BY <2>1, <3>5, <1>1, <1>7 DEF IInv, KeyOpen
      <3>7. Perfect'
        BY <2>1, <3>2, <3>5, <1>1 DEF IInv, Perfect
      <3>8. QED
        BY <3>1, <3>2, <3>3, <3>6, <3>7, <1>7
           DEF IInv, Tidy, Between, Within, Handed, GoodStep, DeltaStep, KeyStep, PerfectStep
    <2>3. CASE AddToFrame(pkt)
      <3>1. Tidy'
        BY <1>1, <1>2, <1>3, <1>4, <1>5, <1>6, <2>3, AddedTidy
      <3>2. Accepted(pkt) /\ nextDecodable(pkt) = "kNoError" /\ out' = None
        BY <2>3 DEF AddToFrame, Accepted
      <3>3. ~expectKeyFrame
        BY <3>2, <1>4, <1>6, AcceptsWaiting
      <3>4. ~startPhase
        BY <3>3 DEF IInv, Starting
      <3>5. nextSeq = seq /\ kind = "other"
        BY <3>2, <3>3, <3>4, <1>4, <1>6, AcceptsNext
      <3>6. InSeq /\ InSeq'
        BY <3>2, <3>3, <3>5, <1>4, <1>6, <1>8, AcceptedInSeq DEF InSeq
      <3>7. ~isVP8(pkt)
        BY <3>5, <1>6 DEF isVP8
      <3>8. frame' = frame /\ firstPacket' = firstPacket /\ isKeyFrame' = isKeyFrame
            /\ lastOut' = lastOut
        BY <3>2, <3>5, <3>7, <2>3, <1>2, <1>6, <1>12
           DEF AddToFrame, Accepted, Extended, FrameFor, HeaderAfter
      <3>9. TypeOK'
        BY <3>1, <3>8, <2>1, <1>10 DEF Tidy
      <3>10. Between' /\ Within' /\ Handed'
        BY <3>2, <3>6, <3>8, <1>1, <1>7 DEF IInv, Between, Within, Handed
      <3>11. KeyOpen' /\ Perfect'
        <4>1. KeyOpen'
          BY <2>1, <3>6, <3>8, <1>1, <1>7 DEF IInv, KeyOpen
        <4>2. perfect => seenKey
          BY <3>3 DEF IInv, Perfect
        <4>3. Perfect'
          BY <4>2, <2>1, <3>6, <3>8, <1>1, <1>7 DEF IInv, Perfect
        <4>4. QED
          BY <4>1, <4>3
      <3>12. GoodStep
        BY <3>2, <1>7 DEF GoodStep, DeltaStep, KeyStep, PerfectStep
      <3>13. QED
        BY <3>1, <3>9, <3>10, <3>11, <3>12, <1>7 DEF IInv, Tidy
    <2>4. QED
      BY <1>6, <1>12, <2>2, <2>3 DEF depack, HandOut
  <1>13. QED
    BY <1>1, <1>6, <1>11, <1>12 DEF Carry, fine

LEMMA DropStep ==
  ASSUME IInv, ConsumerDrops
  PROVE  IInv' /\ GoodStep
  <1>1. /\ Tidy'
        /\ out' = None
        /\ UNCHANGED <<expectKeyFrame, firstPacket, startPhase, nextSeq, isKeyFrame, frame>>
        /\ UNCHANGED streamVars
    BY DropTidy DEF ConsumerDrops, Drop, IInv, TypeOK, Tidy, streamVars
  <1>2. TypeOK' /\ Place'
    BY <1>1 DEF IInv, Tidy, TypeOK, Place, streamVars
  <1>3. Between' /\ Within' /\ KeyOpen' /\ Perfect'
    BY <1>1 DEF IInv, Between, Within, KeyOpen, Perfect, InSeq, Mid, streamVars
  <1>4. Handed' /\ GoodStep
    BY <1>1 DEF Handed, GoodStep, DeltaStep, KeyStep, PerfectStep, Ends, streamVars
  <1>5. QED
    BY <1>1, <1>2, <1>3, <1>4 DEF IInv, Tidy

LEMMA InitIInv ==
  Init => IInv
  <1> SUFFICES ASSUME Init
               PROVE  IInv
    OBVIOUS
  <1>1. HalfRange \in Nat \ {0} /\ SeqRange = 2 * HalfRange
    BY HalfRangeAssumption DEF SeqRange
  <1>2. MaxFrames \in Nat /\ MaxLen \in Nat /\ MaxNoise \in Nat /\ MaxHeld \in Nat
    BY StreamAssumption
  <1>3. 0 \in SeqNum /\ SeqRange - 2 \in SeqNum
    BY <1>1 DEF SeqNum
  <1>4. NewFrame \in Frame /\ NewFrame.time = None
    BY DEF NewFrame, Frame
  <1>5. DepackTypeOK
    <2>1. <<>> \in Seq(Frame) /\ Len(<<>>) = 0
      OBVIOUS
    <2>2. {expectKeyFrame, firstPacket, startPhase, isKeyFrame} \subseteq BOOLEAN
      BY DEF Init, DepackInit
    <2>3. /\ nextSeq \in SeqNum /\ frame \in Frame /\ pool \in Seq(Frame)
          /\ taken \in Seq(Frame) /\ Len(taken) <= MaxHeld /\ out = None /\ ret = "kNoError"
      BY <2>1, <1>2, <1>3, <1>4 DEF Init, DepackInit
    <2>4. QED
      BY <2>2, <2>3 DEF DepackTypeOK
  <1>6. TypeOK /\ Place
    <2>1. {key, whole, perfect, seenKey, wasFree, inStep} \subseteq BOOLEAN
      BY DEF Init
    <2>2. QED
      BY <2>1, <1>2, <1>3, <1>5 DEF Init, TypeOK, Place
  <1>7. Times /\ Starting
    BY <1>4 DEF Init, DepackInit, Times, Starting, Old
  <1>8. Between /\ Within /\ KeyOpen /\ Perfect /\ Handed
    BY DEF Init, DepackInit, Between, Within, KeyOpen, Perfect, Handed, InSeq
  <1>9. QED
    BY <1>6, <1>7, <1>8 DEF IInv

LEMMA NextIInv ==
  IInv /\ [Next]_vars => IInv' /\ (UNCHANGED vars \/ GoodStep)
  <1> SUFFICES ASSUME IInv, [Next]_vars
               PROVE  IInv' /\ (UNCHANGED vars \/ GoodStep)
    OBVIOUS
  <1>1. ASSUME NEW packets \in 1 .. MaxLen,
               \/ SendFirst(TRUE, packets, "key")
               \/ SendFirst(FALSE, packets, "delta")
               \/ SendFirst(TRUE, packets, "badHeader")
               \/ SendFirst(FALSE, packets, "noHeader")
        PROVE  IInv' /\ GoodStep
    <2>1. CASE SendFirst(TRUE, packets, "key")
      BY <2>1, FirstStep
    <2>2. CASE SendFirst(FALSE, packets, "delta")
      <3>1. FALSE = ("delta" \in {"key", "badHeader"})
        OBVIOUS
      <3>2. QED
        BY <2>2, <3>1, FirstStep
    <2>3. CASE SendFirst(TRUE, packets, "badHeader")
      BY <2>3, FirstStep
    <2>4. CASE SendFirst(FALSE, packets, "noHeader")
      <3>1. FALSE = ("noHeader" \in {"key", "badHeader"})
        OBVIOUS
      <3>2. QED
        BY <2>4, <3>1, FirstStep
    <2>5. QED
      BY <1>1, <2>1, <2>2, <2>3, <2>4
  <1>2. CASE SendRest
    BY <1>2, RestStep
  <1>3. ASSUME NEW kind \in {"other", "empty", "badDescriptor"}, SendNoise(kind)
        PROVE  IInv' /\ GoodStep
    BY <1>3, NoiseStep
  <1>4. CASE ConsumerDrops
    BY <1>4, DropStep
  <1>5. CASE UNCHANGED vars
    BY <1>5 DEF vars, depackVars, streamVars, IInv, TypeOK, DepackTypeOK, Place, Times, Old,
                Starting, Between, Within, KeyOpen, Perfect, Handed, InSeq, Mid
  <1>6. QED
    BY <1>1, <1>2, <1>3, <1>4, <1>5 DEF Next

LEMMA AlwaysIInv ==
  Spec => []IInv
  <1>1. QED
    BY InitIInv, NextIInv, PTL DEF Spec

-----------------------------------------------------------------------------
(* The theorems.                                                           *)

\* Frames, times and sequence numbers keep their types; the consumer never
\* holds more frames than MaxHeld.
THEOREM Vp8TypeCorrect ==
  Spec => []TypeOK
  <1>1. IInv => TypeOK
    BY DEF IInv
  <1>2. QED
    BY <1>1, AlwaysIInv, PTL

\* A frame handed out ends with all packets of the frame it was completed by,
\* in order.
THEOREM AlwaysEndsWithWholeFrame ==
  Spec => []EndsWithWholeFrame
  <1>1. ASSUME IInv, out # None
        PROVE  LET d == Len(out.data) - len
               IN  d >= 0 /\ SubSeq(out.data, d + 1, Len(out.data)) = Sent
    <2> DEFINE a == out.data
               d == Len(a) - len
               tail == SubSeq(a, d + 1, Len(a))
    <2>1. a \in Seq(Part) /\ len \in Nat /\ EndsWith(a, n, len)
      BY <1>1, StreamTypes DEF IInv, TypeOK, DepackTypeOK, Handed
    <2> HIDE DEF a
    <2>2. d \in Nat /\ Len(a) \in Nat /\ d + len = Len(a)
      BY <2>1 DEF EndsWith
    <2>3. /\ tail \in Seq(Part) /\ Len(tail) = len
          /\ \A j \in 1 .. len : tail[j] = a[d + j]
      <3>1. tail \in Seq(Part) /\ Len(tail) = len
        BY <2>1, <2>2
      <3>2. ASSUME NEW j \in 1 .. len
            PROVE  tail[j] = a[d + j]
        <4>1. d + 1 \in Int /\ j + (d + 1) - 1 = d + j /\ j \in 1 .. (Len(a) - (d + 1) + 1)
          BY <2>1, <2>2
        <4> HIDE DEF d
        <4>2. tail[j] = a[j + (d + 1) - 1]
          BY <4>1, <2>1, <2>2
        <4>3. QED
          BY <4>1, <4>2
      <3>3. QED
        BY <3>1, <3>2
    <2>4. \A j \in 1 .. len : tail[j] = <<n, j>>
      BY <2>1, <2>3 DEF EndsWith
    <2>5. tail = [j \in 1 .. Len(tail) |-> tail[j]]
      BY <2>3
    <2>6. tail = Sent
      BY <2>3, <2>4, <2>5 DEF Sent
    <2>7. QED
      BY <2>2, <2>6 DEF a
  <1>2. IInv => EndsWithWholeFrame
    BY <1>1 DEF EndsWithWholeFrame
  <1>3. QED
    BY <1>2, AlwaysIInv, PTL

\* A frame that began in step is handed out exactly as it was sent, although
\* the buffers it is put together in are used again with their old data.
THEOREM AlwaysExactInStep ==
  Spec => []ExactInStep
  <1>1. ASSUME IInv, out # None, inStep
        PROVE  out.data = Sent /\ out.time = n
    <2> DEFINE a == out.data
    <2>1. a \in Seq(Part) /\ len \in Nat /\ EndsWith(a, n, len) /\ Len(a) = len /\ out.time = n
      BY <1>1, StreamTypes DEF IInv, TypeOK, DepackTypeOK, Handed
    <2> HIDE DEF a
    <2>2. \A j \in 1 .. len : a[j] = <<n, j>>
      BY <2>1 DEF EndsWith
    <2>3. a = [j \in 1 .. Len(a) |-> a[j]]
      BY <2>1
    <2>4. a = Sent
      BY <2>1, <2>2, <2>3 DEF Sent
    <2>5. QED
      BY <2>1, <2>4 DEF a
  <1>2. IInv => ExactInStep
    BY <1>1 DEF ExactInStep
  <1>3. QED
    BY <1>2, AlwaysIInv, PTL

\* A frame goes with the header of its own first packet.
THEOREM AlwaysHeaderRight ==
  Spec => []HeaderRight
  <1>1. IInv => HeaderRight
    BY DEF IInv, Handed, HeaderRight
  <1>2. QED
    BY <1>1, AlwaysIInv, PTL

\* A frame that is not a key frame is handed out only right after the one
\* before it.
THEOREM AlwaysDeltaFollows ==
  Spec => DeltaFollows
  <1>1. IInv /\ [Next]_vars => [out' # None /\ ~key' => lastOut = n' - 1]_vars
    BY NextIInv DEF GoodStep, DeltaStep
  <1>2. QED
    BY <1>1, AlwaysIInv, PTL DEF Spec, DeltaFollows

\* While depack waits for a key frame and no frame was left open, the next key
\* frame that arrives whole is handed out.
THEOREM AlwaysKeyGetsThrough ==
  Spec => KeyGetsThrough
  <1>1. IInv /\ [Next]_vars
          => [Ends /\ key' /\ whole' /\ wasFree' /\ ~inStep' => out' # None]_vars
    BY NextIInv DEF GoodStep, KeyStep
  <1>2. QED
    BY <1>1, AlwaysIInv, PTL DEF Spec, KeyGetsThrough

\* Without losses and malformed packets every frame from the first key frame
\* on is handed out.
THEOREM AlwaysLosslessDelivered ==
  Spec => LosslessDelivered
  <1>1. IInv /\ [Next]_vars => [Ends /\ perfect' /\ seenKey' => out' # None]_vars
    BY NextIInv DEF GoodStep, PerfectStep
  <1>2. QED
    BY <1>1, AlwaysIInv, PTL DEF Spec, LosslessDelivered
=============================================================================
