----------------------------- MODULE MCVp8Stream ----------------------------
(* The timestamp of a frame is its number, a payload is known by its frame   *)
(* and its place in it.                                                     *)
EXTENDS Vp8Stream

MCTime == 0 .. MaxFrames

MCPart == (0 .. MaxFrames) \X (0 .. MaxLen)
=============================================================================
