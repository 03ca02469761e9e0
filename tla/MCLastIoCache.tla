---------------------------- MODULE MCLastIoCache ----------------------------
(* Two clients of a disk of two cells, for TLC.  A range of one cell inside one
   of two cells, and the same cell at two offsets, are the cases that matter.  One
   of the payloads changes under a byte swap, and a cell can return to what it was.
   A swapped image that others write too is left out: its readers do not look at the
   buffer, and the worker's swap is there without it. *)
EXTENDS LastIoCache, TLC

Symmetry  == Permutations(Client)
MCSettings == {<<FALSE, FALSE>>, <<TRUE, FALSE>>, <<FALSE, TRUE>>}
MCByte    == {0, 1}
MCPayload == {<<0, 1>>, <<0, 0>>}
=============================================================================
