------------------------------ MODULE VhdImage ------------------------------
(***************************************************************************)
(* The writer and reader of dynamic VHD images in the storage server       *)
(* (vhd_write and vhd_read of devio/devio.c): a table leads from each      *)
(* block of the disk to its place in the file, a block that was never      *)
(* written has none, and a new block is put where the file's footer is,    *)
(* with the footer behind it.  The server handles one request at a time;   *)
(* each of its writes to the file may fail or be cut short, and it may be  *)
(* stopped between any two of them and started again.                      *)
(*                                                                         *)
(* The unit is the sector.  The file is what follows the table.  A block   *)
(* takes one sector for its bitmap and BlockSize for data.  The test for a *)
(* new block of zeroes (devio.c:829-832) ends at its first comparison and  *)
(* finds none, so that such a block is stored as any other.                *)
(***************************************************************************)
EXTENDS Integers, Sequences

CONSTANTS Blocks, BlockSize,       \* of the table
          DiskSize,                \* of the disk, which may end inside a block
          Value, Zero,             \* what a sector of the disk can hold
          Footer, Marked,          \* sectors that are not data: footer and used bitmap
          MaxRequest               \* bound: sectors of a request

ASSUME SizeAssumption  == /\ Blocks \in Nat \ {0} /\ BlockSize \in Nat \ {0} /\ MaxRequest \in Nat
                          /\ DiskSize \in 1 .. Blocks * BlockSize
ASSUME ValueAssumption == Zero \in Value /\ Footer \notin Value /\ Marked \notin Value

Free  == 0                         \* a table entry of 0xFFFFFFFF
Block == 0 .. Blocks - 1
Disk  == 0 .. DiskSize - 1
Cell  == Value \cup {Footer, Marked}

VARIABLES
    bat,                           \* the table: the place of a block's bitmap
    file,
    pc, offset, size, value,       \* the part of the write that is under way
    total,                         \* sectors of the whole request
    writedone,                     \* sectors stored so far
    may,                           \* what each sector may hold, as the requests and answers say
    torn                           \* a new block's table entry was stored, and not the block

vhdVars == <<bat, file, pc, offset, size, value, total, writedone, may, torn>>

VhdTypeOK ==
    /\ bat \in [Block -> Nat] /\ file \in Seq(Cell)
    /\ pc \in {"idle", "table", "block", "data", "bitmap"}
    /\ offset \in Disk /\ size \in 0 .. MaxRequest /\ value \in Value
    /\ total \in 0 .. MaxRequest /\ writedone \in 0 .. total
    /\ may \in [Disk -> SUBSET Value] /\ torn \in BOOLEAN
    /\ pc # "idle" => offset + size - 1 \in Disk

VhdInit ==
    /\ bat = [b \in Block |-> Free] /\ file = <<Footer>>
    /\ pc = "idle" /\ offset = 0 /\ size = 0 /\ value = Zero
    /\ total = 0 /\ writedone = 0
    /\ may = [s \in Disk |-> {Zero}] /\ torn = FALSE

-----------------------------------------------------------------------------
BlockOf(s) == s \div BlockSize
Place(s)   == bat[BlockOf(s)] + 1 + (s % BlockSize)

\* pwrite: n sectors, beginning at p; what lies between the old end and p is zeroes.
Stored(p, cells) ==
    LET end  == p + Len(cells) - 1
        last == IF end > Len(file) THEN end ELSE Len(file)
    IN [i \in 1 .. last |-> IF i \in p .. end THEN cells[i - p + 1]
                            ELSE IF i <= Len(file) THEN file[i] ELSE Zero]

Copies(n, c) == [i \in 1 .. n |-> c]

\* vhd_read: the buffer is zeroed, and a read beyond the end of the file is short.
Sector(s) == IF bat[BlockOf(s)] = Free \/ Place(s) > Len(file) THEN Zero ELSE file[Place(s)]
Read(o, n) == [i \in 1 .. n |-> IF o + n - 1 \in Disk THEN Sector(o + i - 1) ELSE Zero]

\* The first part of a request is what lies in its first block.
First == LET room == BlockSize - (offset % BlockSize) IN IF size > room THEN room ELSE size

Idle == pc' = "idle" /\ offset' = 0 /\ size' = 0 /\ value' = Zero /\ total' = 0 /\ writedone' = 0

\* The answer of write_data says how much was written; a full one is a promise.
WriteAnswer(n) ==
    /\ may' = IF n = total
              THEN [s \in Disk |-> IF s \in offset + size - total .. offset + size - 1
                                   THEN {value} ELSE may[s]]
              ELSE may
    /\ Idle

-----------------------------------------------------------------------------
\* write_data and vhd_write: a write that goes beyond the end changes nothing.
Write(o, n, v) ==
    /\ pc = "idle"
    /\ o + n - 1 \in Disk
    /\ pc' = "table" /\ offset' = o /\ size' = n /\ value' = v /\ total' = n
    /\ may' = [s \in Disk |-> IF s \in o .. o + n - 1 THEN may[s] \cup {v} ELSE may[s]]
    /\ UNCHANGED <<bat, file, writedone, torn>>

WriteTable ==
    /\ pc = "table"
    /\ IF bat[BlockOf(offset)] = Free
       THEN bat' = [bat EXCEPT ![BlockOf(offset)] = Len(file)] /\ pc' = "block"
       ELSE UNCHANGED bat /\ pc' = "data"
    /\ UNCHANGED <<file, offset, size, value, total, writedone, may, torn>>

NewBlock == Append(Copies(1 + BlockSize, Zero), Footer)

\* Mutant: no footer is written behind the new block.
WriteBlockOnly ==
    /\ pc = "block" /\ pc' = "data"
    /\ file' = Stored(bat[BlockOf(offset)], Copies(1 + BlockSize, Zero))
    /\ UNCHANGED <<bat, offset, size, value, total, writedone, may, torn>>

WriteBlock ==
    /\ pc = "block" /\ pc' = "data"
    /\ file' = Stored(bat[BlockOf(offset)], NewBlock)
    /\ UNCHANGED <<bat, offset, size, value, total, writedone, may, torn>>

\* The server tells the driver of an error; the entry stays in the table.
BlockFails ==
    /\ pc = "block"
    /\ \E n \in 0 .. Len(NewBlock) - 1 :
         file' = Stored(bat[BlockOf(offset)], SubSeq(NewBlock, 1, n))
    /\ torn' = TRUE /\ Idle /\ UNCHANGED <<bat, may>>

\* Less than the whole may be written.
WriteData ==
    /\ pc = "data" /\ pc' = "bitmap"
    /\ \E n \in 0 .. First :
         /\ file' = IF n = 0 THEN file ELSE Stored(Place(offset), Copies(n, value))
         /\ writedone' = writedone + n
    /\ UNCHANGED <<bat, offset, size, value, total, may, torn>>

\* Mutant: the second part is written to where the first part was.
WriteBitmapSameOffset ==
    /\ pc = "bitmap"
    /\ file' = Stored(bat[BlockOf(offset)], <<Marked>>)
    /\ IF size > First
       THEN /\ pc' = "table" /\ size' = size - First
            /\ UNCHANGED <<offset, value, total, writedone, may>>
       ELSE WriteAnswer(writedone)
    /\ UNCHANGED <<bat, torn>>

\* Then comes the part of the request that lies in the next blocks.
WriteBitmap ==
    /\ pc = "bitmap"
    /\ file' = Stored(bat[BlockOf(offset)], <<Marked>>)
    /\ IF size > First
       THEN /\ pc' = "table" /\ offset' = offset + First /\ size' = size - First
            /\ UNCHANGED <<value, total, writedone, may>>
       ELSE WriteAnswer(writedone)
    /\ UNCHANGED <<bat, torn>>

\* The table cannot be read or written, or the data or the bitmap cannot be written.
Fails ==
    /\ pc \in {"table", "data", "bitmap"}
    /\ Idle /\ UNCHANGED <<bat, file, may, torn>>

\* The server is stopped, and started again: it reads the header and keeps nothing.
Stop ==
    /\ pc # "idle"
    /\ torn' = (torn \/ pc = "block")
    /\ Idle /\ UNCHANGED <<bat, file, may>>

VhdNext ==
    \/ \E o \in Disk, n \in 1 .. MaxRequest, v \in Value : Write(o, n, v)
    \/ WriteTable \/ WriteBlock \/ BlockFails \/ WriteData \/ WriteBitmap \/ Fails \/ Stop

VhdSpec == VhdInit /\ [][VhdNext]_vhdVars

-----------------------------------------------------------------------------
Placed(b) == bat[b] # Free /\ ~(pc = "block" /\ b = BlockOf(offset))
Taken(b)  == bat[b] .. bat[b] + BlockSize

(* However requests fail, are cut short or lost, the disk reads as the answers say: a
   sector holds what was written last, where a request was not answered in full what it
   held before or what it was to hold, and never a footer, a bitmap or another block's
   data.  The one exception is a new block whose table entry was stored while the block
   was not: vhd_write stores the entry first (devio.c:881). *)
ReadsBack == ~torn =>
    \A o \in Disk, n \in 1 .. MaxRequest : o + n - 1 \in Disk =>
        \A i \in 1 .. n : Read(o, n)[i] \in may[o + i - 1]

(* With the same exception, behind which two blocks may share their place, the file stays
   an image that other programs can open: each block has a place of its own, before the
   footer, which ends the file. *)
ImageWhole == ~torn =>
    /\ \A b, c \in Block : Placed(b) /\ Placed(c) /\ b # c => Taken(b) \cap Taken(c) = {}
    /\ file[Len(file)] = Footer
    /\ \A b \in Block : Placed(b) => bat[b] + BlockSize < Len(file)
=============================================================================
