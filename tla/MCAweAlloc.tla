----------------------------- MODULE MCAweAlloc -----------------------------
(* Two requests at a time on a file of up to two pages of two cells: blocks of one page,
   of a page and a half and of two pages, a request across both pages, sizes inside a
   page, and a mapping that is kept or exchanged between the two. *)
EXTENDS AweAlloc, TLC

MCValue  == {0, 1}
Symmetry == Permutations(Thread)
=============================================================================
