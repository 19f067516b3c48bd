------------------------------ MODULE RtpStream -----------------------------
(***************************************************************************)
(* RtpFlow behind a network that loses nothing, but reorders packets by up *)
(* to MaxReorder and may deliver one twice.  The stream never ends.  Until *)
(* the window is full for the first time packets arrive in order: a young  *)
(* window turns an older packet down, is reset by one that is twice its    *)
(* size ahead, and loses its first packets, before any of them is pulled,  *)
(* to one that jumps over its end.                                         *)
(***************************************************************************)
EXTENDS RtpFlow

CONSTANTS
  FirstSeq,    \* the sequence number the sender starts with
  MaxReorder   \* how many later packets may overtake a packet

ASSUME StreamAssumption ==
  /\ FirstSeq \in SeqNum
  /\ MaxReorder \in 0 .. Capacity - 1
  /\ Oversize = {}

VARIABLES
  sendSeq,     \* the next sequence number the sender uses
  flight,      \* the packets the network may still deliver
  owed         \* those it has not delivered at all yet

streamVars == <<vars, sendSeq, flight, owed>>

StreamInit ==
  /\ Init
  /\ sendSeq = FirstSeq
  /\ flight = {}
  /\ owed = {}

\* Nothing is sent while an older packet would fall behind by more than
\* MaxReorder.
Send ==
  /\ \A s \in flight : distance(s, sendSeq) <= MaxReorder
  /\ flight' = flight \cup {sendSeq}
  /\ owed' = owed \cup {sendSeq}
  /\ sendSeq' = Plus(sendSeq, 1)
  /\ UNCHANGED vars

Young == ~isFull(cur)

Oldest(s) == \A o \in flight : distance(s, o) >= 0

\* A packet arrives; the network may keep one copy that it delivers again.
Arrive(s, again) ==
  /\ s \in flight
  /\ again => s \in owed
  /\ Young => Oldest(s) /\ ~again
  /\ \E p \in Payload, due \in BOOLEAN : processRTP([seq |-> s, payload |-> p], due)
  /\ flight' = IF again THEN flight ELSE flight \ {s}
  /\ owed' = owed \ {s}
  /\ UNCHANGED sendSeq

Pull ==
  /\ pc = "pull"
  /\ processFlow
  /\ UNCHANGED <<sendSeq, flight, owed>>

StreamNext ==
  \/ Send
  \/ \E s \in SeqNum, again \in BOOLEAN : Arrive(s, again)
  \/ Pull

\* The sender keeps sending and the network delivers each packet in the end;
\* the demuxer's loop runs until it has nothing to pull.
Fairness ==
  /\ WF_streamVars(Send)
  /\ \A s \in SeqNum : WF_streamVars(Arrive(s, FALSE))
  /\ WF_streamVars(Pull)

StreamSpec == StreamInit /\ [][StreamNext]_streamVars /\ Fairness

-----------------------------------------------------------------------------
\* No packet is skipped and none is stale: from the first packet on, the reader
\* moves only to hand the depacker the packet with the next sequence number,
\* accepted in this run of the stream.  No reset and no given-up packet:
\* reordering and duplication by less than the window are invisible behind it.
GapFree ==
  [][nextSeq' # nextSeq /\ ~isEmpty(cur)
       => depacked' = nextSeq /\ depacked' \in pending]_streamVars

\* A packet on its way is handed to the depacker in the end.
EventuallyDepacked ==
  \A s \in SeqNum : s \in owed ~> depacked = s
=============================================================================
