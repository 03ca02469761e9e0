---------------------------- MODULE MCDiskImage ----------------------------
(* Every kind of disk, with and without an image, an offset, a size and write protection; sizes 0 to 4, of which a
   disk has to be larger than 1, so that a disk of 2 can grow twice before the sum is no longer a size. *)
EXTENDS DiskImage

MCRequest ==
    {r \in [kind : Kinds, named : BOOLEAN, size : 0 .. Max, offset : {0, 1}, ro : BOOLEAN, cd : BOOLEAN,
            swap : BOOLEAN, sparse : BOOLEAN, geometry : BOOLEAN] :
        /\ r.swap => r.kind \in {"vm", "file", "buffered", "parallel"} /\ ~r.sparse
        /\ r.cd => r.named /\ ~r.ro
        /\ r.sparse => r.kind = "file"}
=============================================================================
