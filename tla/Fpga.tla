-------------------------------- MODULE Fpga --------------------------------
(***************************************************************************)
(* The sender of the streams that the histogram and the average trace      *)
(* tasks put together.  A stream is a number of frames with protocol       *)
(* sequence numbers 0, 1, 2...; frame 0 is its header and says how long    *)
(* the stream is.  The sender is external: what is known of it is what     *)
(* tespkt.h says of its frames.                                            *)
(***************************************************************************)
EXTENDS Naturals

CONSTANTS
  Lens,        \* bound: how many frames a stream may have
  MaxStreams   \* bound: how many streams are sent

ASSUME FpgaAssumption ==
  /\ Lens \subseteq Nat \ {0}
  /\ MaxStreams \in Nat

\* Frame pseq of a stream.  tespkt_is_header: pseq is 0.
Frames == [id : Nat, len : Nat \ {0}, pseq : Nat]

IsHeader(f) == f.pseq = 0
IsLast(f)   == f.pseq + 1 = f.len

\* What the sender will send next, if anything
FirstFrames == [id : {1}, len : Lens, pseq : {0}]
Sends(f) == f.id <= MaxStreams

\* The header of the stream after f's.  Besides the end of a stream, the
\* sender may start again in its middle (it is reset or set up anew).
NextHeaders(f) == [id : {f.id + 1}, len : Lens, pseq : {0}]
NextFrames(f) ==
  NextHeaders(f) \cup (IF IsLast(f) THEN {} ELSE {[f EXCEPT !.pseq = @ + 1]})

\* What becomes of a frame
Fates == {"good", "bad", "lost"}
=============================================================================
