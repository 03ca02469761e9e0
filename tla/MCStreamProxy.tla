--------------------------- MODULE MCStreamProxy ---------------------------
(* An image of three cells and a devio whose buffer begins with two, for TLC: a write of
   the whole image is too large for it until a read has made the buffer grow. *)
EXTENDS StreamProxy

MCPayload == {1}
=============================================================================
