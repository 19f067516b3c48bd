------------------------------ MODULE MCRtpFlow -----------------------------
(***************************************************************************)
(* RtpFlow for TLC.  The first sequence number is fixed, next to the wrap, *)
(* since the model looks the same from every first sequence number.  After *)
(* it the numbers from MaxBefore before it to MaxAfter after it arrive, in *)
(* any order and any number of times; those at BigAt after it do not fit   *)
(* in a slot, however often they come.                                     *)
(***************************************************************************)
EXTENDS RtpFlow

CONSTANTS FirstSeq, MaxBefore, MaxAfter, BigAt

Near == {Plus(FirstSeq, d) : d \in -MaxBefore .. MaxAfter}

Big == {Plus(FirstSeq, d) : d \in BigAt}

Arrivals ==
  {pkt \in [seq : IF isEmpty(cur) THEN {FirstSeq} ELSE Near, payload : Payload] :
     pkt.payload \in Oversize <=> pkt.seq \in Big}

MCNext ==
  \/ \E pkt \in Arrivals, due \in BOOLEAN : processRTP(pkt, due)
  \/ \E due \in BOOLEAN : processForeign(due)
  \/ EndOfFile
  \/ processFlow

MCSpec == Init /\ [][MCNext]_vars
=============================================================================
