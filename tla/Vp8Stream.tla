------------------------------ MODULE Vp8Stream -----------------------------
(***************************************************************************)
(* The depacker behind a packet window: a sender numbers the packets of    *)
(* its frames, the window hands them on in order, some are lost, some do   *)
(* not parse, and packets of no frame take sequence numbers in between.    *)
(***************************************************************************)
EXTENDS Vp8Depack

CONSTANTS
  MaxFrames,  \* bound: frames sent
  MaxLen,     \* bound: packets of a frame
  MaxNoise    \* bound: packets that belong to no frame

\* The timestamp of a frame is its number, a payload is known by its frame and
\* its place in it; None is no frame.
ASSUME StreamAssumption ==
  /\ {MaxFrames, MaxLen, MaxNoise, MaxHeld} \subseteq Nat
  /\ 0 .. MaxFrames \subseteq Time
  /\ (0 .. MaxFrames) \X (0 .. MaxLen) \subseteq Part
  /\ None \notin [data : Seq(Part), time : Time, key : BOOLEAN]

VARIABLES
  seq,        \* the sequence number of the next packet
  n, len, key, \* the current frame: its number, its packets, whether a key frame
  i,          \* its next packet
  noise,      \* packets of no frame sent
  whole,      \* no packet was lost or malformed since the frame began
  perfect,    \* none ever was
  seenKey,    \* a key frame was sent
  wasFree,    \* firstPacket_ when the frame began
  inStep,     \* ~expectKeyFrame_ when the frame began
  lastOut     \* the number of the frame handed out last

streamVars == <<seq, n, len, key, i, noise, whole, perfect, seenKey, wasFree, inStep, lastOut>>

TypeOK ==
  /\ DepackTypeOK
  /\ seq \in SeqNum
  /\ n \in 0 .. MaxFrames /\ len \in 0 .. MaxLen /\ i \in 1 .. MaxLen + 1
  /\ noise \in 0 .. MaxNoise
  /\ {key, whole, perfect, seenKey, wasFree, inStep} \subseteq BOOLEAN
  /\ lastOut \in 0 .. MaxFrames

Init ==
  /\ DepackInit
  /\ seq = SeqRange - 2
  /\ n = 0 /\ len = 0 /\ key = FALSE /\ i = 1 /\ noise = 0
  /\ whole = TRUE /\ perfect = TRUE /\ seenKey = FALSE
  /\ wasFree = TRUE /\ inStep = FALSE /\ lastOut = 0

\* Bound: what is lost or rejected in a row is less than a whole turn of the
\* sequence numbers, which depack could not tell from nothing.
GapShort == startPhase \/ Plus(seq, 1) # nextSeq

\* The packet is lost on the way, or reaches the depacker.
Carry(pkt) ==
  /\ GapShort
  /\ seq' = Plus(seq, 1)
  /\ \/ /\ out' = None
        /\ whole' = FALSE /\ perfect' = FALSE
        /\ UNCHANGED <<expectKeyFrame, firstPacket, startPhase, nextSeq, isKeyFrame,
                       frame, pool, taken, ret, lastOut>>
     \/ /\ depack(pkt)
        /\ LET fine == pkt.kind \notin DOMAIN ParseErrors
           IN  /\ whole' = (fine /\ (whole \/ StartsFrame(pkt)))
               /\ perfect' = (fine /\ perfect)
        /\ lastOut' = IF out' = None THEN lastOut ELSE pkt.ts

SendFirst(isKey, packets, kind) ==
  /\ i > len
  /\ n < MaxFrames
  /\ n' = n + 1 /\ len' = packets /\ key' = isKey /\ i' = 2
  /\ wasFree' = firstPacket /\ inStep' = ~expectKeyFrame
  /\ seenKey' = (seenKey \/ isKey)
  /\ Carry([seq |-> seq, ts |-> n', mark |-> packets = 1, kind |-> kind, part |-> <<n', 1>>])
  /\ UNCHANGED noise

SendRest ==
  /\ i <= len
  /\ i' = i + 1
  /\ Carry([seq |-> seq, ts |-> n, mark |-> i = len, kind |-> "rest", part |-> <<n, i>>])
  /\ UNCHANGED <<n, len, key, noise, seenKey, wasFree, inStep>>

SendNoise(kind) ==
  /\ noise < MaxNoise
  /\ noise' = noise + 1
  /\ Carry([seq |-> seq, ts |-> n, mark |-> FALSE, kind |-> kind, part |-> <<n, 0>>])
  /\ UNCHANGED <<n, len, key, i, seenKey, wasFree, inStep>>

ConsumerDrops == Drop /\ UNCHANGED streamVars

Next ==
  \/ \E packets \in 1 .. MaxLen :
       \/ SendFirst(TRUE, packets, "key")
       \/ SendFirst(FALSE, packets, "delta")
       \/ SendFirst(TRUE, packets, "badHeader")
       \/ SendFirst(FALSE, packets, "noHeader")
  \/ SendRest
  \/ \E kind \in {"other", "empty", "badDescriptor"} : SendNoise(kind)
  \/ ConsumerDrops

vars == <<depackVars, streamVars>>

Spec == Init /\ [][Next]_vars

-----------------------------------------------------------------------------

Sent == [j \in 1 .. len |-> <<n, j>>]

\* A frame handed out always ends with all the packets of the frame it was
\* completed by, none missing and none out of order, whatever was lost.  (It
\* may begin with packets of an older one, see ExactInStep.)
EndsWithWholeFrame ==
  out # None =>
    LET d == Len(out.data) - len
    IN  d >= 0 /\ SubSeq(out.data, d + 1, Len(out.data)) = Sent

\* A frame that began while depack was not waiting for a key frame is handed
\* out exactly as it was sent, even when the buffer it is put together in comes
\* back from the pool with the data of an older frame.
ExactInStep ==
  out # None /\ inStep => out.data = Sent /\ out.time = n

\* A frame that is not a key frame is handed out only if the one before it
\* was: the decoder never misses a reference.
DeltaFollows ==
  [][out' # None /\ ~key' => lastOut = n' - 1]_vars

\* The header that goes with a frame is that of its own first packet, although
\* parsePacket overwrites it for packets that are then rejected.
HeaderRight ==
  out # None => out.key = key

\* The last packet of the current frame has just been sent.
Ends == <<n, i>>' # <<n, i>> /\ i' > len'

\* While depack waits for a key frame and no frame was left open, the next key
\* frame that arrives whole is handed out.  (Both conditions are needed: the
\* first packet after a gap is rejected even if it begins a key frame, and a
\* frame left open swallows the first packet of the next key frame.)
KeyGetsThrough ==
  [][Ends /\ key' /\ whole' /\ wasFree' /\ ~inStep' => out' # None]_vars

\* As long as nothing was lost or malformed every frame from the first key
\* frame on is handed out.
LosslessDelivered ==
  [][Ends /\ perfect' /\ seenKey' => out' # None]_vars
=============================================================================
