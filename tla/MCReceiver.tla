------------------------------ MODULE MCReceiver ----------------------------
(* SDPs and packets for Receiver: an audio and two video m-lines.          *)
EXTENDS Receiver, TLC

Codec(type, apt) == [type |-> type, apt |-> apt]
Media(type, codecs, fid, ssrcs) ==
  [type |-> type, codecs |-> codecs, fid |-> fid, ssrcs |-> ssrcs]

Audio == (111 :> Codec("opus", 0))
Video == (96 :> Codec("vp8", 0)) @@ (97 :> Codec("rtx", 96)) @@ (98 :> Codec("red", 0))
         @@ (99 :> Codec("ulpfec", 0)) @@ (100 :> Codec("rtx", 98)) @@ (101 :> Codec("rtx", 50))

\* With a FID group, without any ssrc, and with the video first.
MCSdps == { <<Media("audio", Audio, << >>, {1}), Media("video", Video, <<{2, 3}>>, {2, 3, 4})>>,
            <<Media("audio", Audio, << >>, {}), Media("video", Video, << >>, {})>>,
            <<Media("video", Video, <<{2, 3}>>, {2, 3}), Media("audio", Audio, << >>, {1}),
              Media("video", Video, << >>, {4})>> }

RTP(ssrc, pt, osn, blocks, bad) ==
  [ssrc |-> ssrc, pt |-> pt, seq |-> 7, ts |-> 50, osn |-> osn, blocks |-> blocks, bad |-> bad]
Block(pt, offset) == [pt |-> pt, offset |-> offset]

MCPackets == { RTP(1, 111, 0, << >>, FALSE), RTP(2, 96, 0, << >>, FALSE), RTP(4, 96, 0, << >>, FALSE),
               RTP(1, 96, 0, << >>, FALSE),
               RTP(3, 97, 5, << >>, FALSE), RTP(3, 100, 5, <<Block(99, 0)>>, FALSE),
               RTP(3, 101, 5, << >>, FALSE),
               RTP(2, 98, 0, <<Block(50, 0), Block(99, 0)>>, FALSE),
               RTP(2, 98, 0, <<Block(96, 3), Block(99, 0)>>, FALSE),
               RTP(9, 96, 0, << >>, FALSE), RTP(9, 111, 0, << >>, TRUE), RTP(9, 96, 0, << >>, TRUE),
               RTP(9, 111, 0, << >>, FALSE) }
=============================================================================
