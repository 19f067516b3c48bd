--------------------------- MODULE MCUlpfecStream ---------------------------
(* A payload is the set of the packets whose exclusive or it is.  The union *)
(* makes TLC list the sets, so that it can tell None from all of them.      *)
EXTENDS UlpfecStream

MCPayload == {S \cup {} : S \in SUBSET {SeqOf(k) : k \in 1 .. MaxSent}}
=============================================================================
