---------------------------- MODULE MCFramebuffer ----------------------------
(* Framebuffers of a few pixels, with bytes of one bit, for TLC.           *)
EXTENDS Framebuffer

\* Every byte of a colour is different from its neighbour in one of them.
MCColours == {6, 11}
=============================================================================
