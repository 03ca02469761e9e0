----------------------------- MODULE MCVhdImage -----------------------------
(* Three blocks of two sectors, the last of them half used: new blocks in every order, a request over one, two and
   all three blocks, and a failure or a stop at every write to the file. *)
EXTENDS VhdImage

CONSTANT One

MCValue == {Zero, One}

\* Nothing is claimed of an image behind a torn block.
NotTorn == ~torn
=============================================================================
