------------------------------ MODULE MCRtpTime ------------------------------
(* Two flows with small clocks.                                            *)
EXTENDS RtpTime
MCRate    == [audio |-> 3, video |-> 7]
MCFirstTs == [audio |-> 30, video |-> 5]
MCStep    == {-2, 5, 9}
MCEpoch   == [audio |-> 100, video |-> 160]
==============================================================================
