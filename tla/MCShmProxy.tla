----------------------------- MODULE MCShmProxy -----------------------------
(* An image of three cells behind a buffer of two, for TLC: a transfer of the whole
   image takes two calls, the second one shorter than the buffer.  Writes store the
   value the image does not begin with. *)
EXTENDS ShmProxy

MCValue   == {0, 1}
MCPayload == MCValue \ {Blank}
=============================================================================
