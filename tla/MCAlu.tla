------------------------------- MODULE MCAlu -------------------------------
(* Alu on words of a few bits, for TLC.                                    *)
EXTENDS Alu

MCWeight == [k \in 0 .. Bits |-> 2 ^ k]
=============================================================================
