------------------------------- MODULE RtpFlow ------------------------------
(***************************************************************************)
(* One media flow of XSWTLVDemuxer (Lab000-Demo.cpp) over its packet       *)
(* window.  The demuxer is one thread: it reads a recorded packet, inserts *)
(* it in the window of its flow, and pulls what it can in order once the   *)
(* window is full or the flow has been buffered long enough; at the end of *)
(* the file it pulls the rest.  Each call of nextSlotInOrder is a step.    *)
(***************************************************************************)
EXTENDS PacketWindow

VARIABLES
  opened,     \* the demuxer has a MediaFlow for the flow (mflow.rtpFlow is set)
  pc,         \* "read": processUntilFrame reads the next record
              \* "pull": processFlow's loop, "flush": its first call at the
              \* end of the file, "drain": its loop then, "done": the end
  depacked,   \* history: the sequence number handed to the depacker by the
              \* last step, or None
  pending     \* history: the held packets not handed to the depacker yet

vars == <<cur, slots, startSeq, nextSeq, lastSlot, state, held,
          opened, pc, depacked, pending>>

TypeOK ==
  /\ WindowTypeOK
  /\ opened \in BOOLEAN
  /\ pc \in {"read", "pull", "flush", "drain", "done"}
  /\ depacked \in SeqNum \cup {None}
  /\ pending \subseteq SeqNum

Init ==
  /\ WindowInit
  /\ opened = FALSE
  /\ pc = "read"
  /\ depacked = None
  /\ pending = {}

\* Faulty variant: the window is tested before the packet is inserted.
ReceivedTestsBefore(due) ==
  /\ pc = "read"
  /\ due => opened
  /\ opened' = TRUE
  /\ pc' = IF isFull(cur) \/ due THEN "pull" ELSE "read"
  /\ depacked' = None

\* Faulty variant: a full window is not pulled from.
ReceivedPullsYoung(due) ==
  /\ pc = "read"
  /\ due => opened
  /\ opened' = TRUE
  /\ pc' = IF ~isFull(cur') /\ due THEN "pull" ELSE "read"
  /\ depacked' = None

\* A packet of the flow has been read and inserted.  `due' is
\* (recv_ts - firstRecvTS) >= flowBufferDurationMS: the time stamps come from
\* the file, so it may be either for any packet but the flow's first, which
\* sets firstRecvTS.
Received(due) ==
  /\ pc = "read"
  /\ due => opened
  /\ opened' = TRUE
  /\ pc' = IF isFull(cur') \/ due THEN "pull" ELSE "read"
  /\ depacked' = None

\* processRTP.  What insertPacket returned is not looked at.
processRTP(pkt, due) ==
  /\ insertPacket(pkt)
  /\ Received(due)
  /\ pending' = {s \in held' : s \in held => s \in pending}

\* processRTP for a packet whose codec is neither native nor ULPFEC: it is not
\* inserted, but it opens the flow and may set off the pulling.
processForeign(due) ==
  /\ state' = "kUnknownData"
  /\ UNCHANGED <<cur, slots, startSeq, nextSeq, lastSlot, held, pending>>
  /\ Received(due)

\* process(): the file ends and processFlow is called with skip_empty.
EndOfFile ==
  /\ pc = "read"
  /\ opened
  /\ pc' = "flush"
  /\ depacked' = None
  /\ UNCHANGED <<windowVars, opened, pending>>

\* processFlow: a state >= 0 hands the slot to the depacker and calls again,
\* without skip_empty; a negative one ends the loop.
processFlow ==
  /\ pc \in {"pull", "flush", "drain"}
  /\ nextSlotInOrder(pc = "flush")
  /\ UNCHANGED opened
  /\ \/ /\ state' \in Success
        /\ depacked' = Plus(nextSeq', -1)
        /\ pc' = IF pc = "flush" THEN "drain" ELSE pc
        /\ pending' = pending \ {depacked'}
     \/ /\ state' \in Failure
        /\ depacked' = None
        /\ pc' = IF pc = "pull" THEN "read" ELSE "done"
        /\ UNCHANGED pending

Next ==
  \/ \E pkt \in Packet, due \in BOOLEAN : processRTP(pkt, due)
  \/ \E due \in BOOLEAN : processForeign(due)
  \/ EndOfFile
  \/ processFlow

Spec == Init /\ [][Next]_vars

-----------------------------------------------------------------------------
(* Safety.                                                                 *)

\* A packet the window accepted stays readable at its position until the
\* window has slid past it, dropped it to make room in front, or was reset:
\* no other packet is ever placed over it and the positions never come apart
\* from the sequence numbers, although slots are reused without being cleared.
WindowHolds ==
  \A s \in held : InWindow(s) /\ valid(SlotOf(s), s)

\* How far the reader may be from the start of the window: at most one window
\* behind it and, after a Prepend, three ahead.  The signed 16-bit distance
\* between the two is only meaningful because of this bound.
ReaderNear ==
  ~isEmpty(cur) => Position(nextSeq) \in -Capacity .. 3 * Capacity

\* Between resets the reader never moves back: packets reach the depacker in
\* sequence order, none of them twice, across the wrap of the sequence
\* numbers and whatever arrives in between.
NeverBackward ==
  [][state' \notin {"kFirstPacket", "kOutOfOrderReset"}
       => distance(nextSeq, nextSeq') >= 0]_vars

\* A packet that was accepted is handed to the depacker once.
AtMostOnce ==
  [][depacked' # None /\ depacked' \in held => depacked' \in pending]_vars

\* When the demuxer goes back to reading with a full window, everything that
\* could be pulled has been: the reader has given up what slid out of the
\* window and the next packet in order is not in it.
PulledDry ==
  pc = "read" /\ isFull(cur) => Position(nextSeq) >= 0 /\ nextSeq \notin held

-----------------------------------------------------------------------------
(* What a comment in the code says.                                        *)

\* Lab000-Demo.cpp, process(): "process remain packets".  When the demuxer is
\* done, no accepted packet is left in the window ahead of the reader.
RemainProcessed ==
  pc = "done" => \A s \in pending : distance(nextSeq, s) < 0
=============================================================================
