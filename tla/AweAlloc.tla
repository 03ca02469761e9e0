------------------------------ MODULE AweAlloc ------------------------------
(***************************************************************************)
(* A file of the memory allocation driver (awefsalloc/awefsalloc.c): a     *)
(* chain of blocks of physical memory, of which one page at a time is      *)
(* mapped by a request, and the last mapping is kept for the next request. *)
(* Requests run side by side under a lock that is only ever tried: reads   *)
(* and writes share it, a change of the size needs it alone.               *)
(*                                                                         *)
(* Sizes and offsets are in cells, of which a page has PageSize.  A step   *)
(* is what runs under one hold of IOLock, with what follows it in the      *)
(* thread alone.                                                           *)
(***************************************************************************)
EXTENDS Integers, Sequences, FiniteSets, SequencesExt

CONSTANTS Thread,     \* threads with a request
          Value,      \* what a cell can hold
          Fresh,      \* what new memory holds
          PageSize, MaxBlock,
          MaxSize,    \* bound: the size of the file
          BlockId     \* bound: names for blocks

ASSUME SizeAssumption == /\ PageSize \in Nat \ {0} /\ MaxSize \in Nat \ {0} /\ MaxBlock \in Nat \ {0}
                         /\ MaxBlock % PageSize = 0
ASSUME FreshAssumption == Fresh \in Value
ASSUME ThreadAssumption == IsFiniteSet(Thread)

VARIABLES file,          \* "none", "loading", "open", "failed", "closed"
          VirtualSize,
          chain,         \* FirstBlock and its successors: each a name and an offset
          bytes,         \* what the memory of each named block holds
          Latest,        \* LatestPageContext
          ActiveReaders, ActiveWriters,
          pc, op, offset, length, done, value,   \* a request
          page,          \* its current_page_context
          out            \* what a read has copied so far

shared  == <<file, VirtualSize, chain, bytes, Latest>>
lock    == <<ActiveReaders, ActiveWriters>>
request == <<op, offset, value>>
vars    == <<shared, lock, pc, request, length, done, page, out>>

Cells == 0 .. MaxSize
Unmapped == [base |-> -1, id |-> CHOOSE i \in BlockId : TRUE, at |-> 0]
Mapping  == [base : Cells, id : BlockId, at : Cells] \cup {Unmapped}

TypeOK ==
    /\ file \in {"none", "loading", "open", "failed", "closed"}
    /\ VirtualSize \in Cells
    /\ chain \in Seq([id : BlockId, offset : Cells])
    /\ bytes \in [BlockId -> Seq(Value)]
    /\ Latest \in Mapping /\ page \in [Thread -> Mapping]
    /\ ActiveReaders \in 0 .. Cardinality(Thread) /\ ActiveWriters \in {0, 1}
    /\ pc \in [Thread -> {"idle", "upgrade", "size", "map", "copy", "release"}]
    /\ op \in [Thread -> {"none", "read", "write", "set", "load"}]
    /\ offset \in [Thread -> Cells] /\ length \in [Thread -> Cells]
    /\ done \in [Thread -> Cells] /\ value \in [Thread -> Value]
    /\ out \in [Thread -> Seq(Value)]

Init ==
    /\ file = "none" /\ VirtualSize = 0 /\ chain = <<>>
    /\ bytes = [b \in BlockId |-> <<>>]
    /\ Latest = Unmapped /\ page = [t \in Thread |-> Unmapped]
    /\ ActiveReaders = 0 /\ ActiveWriters = 0
    /\ pc = [t \in Thread |-> "idle"] /\ op = [t \in Thread |-> "none"]
    /\ offset = [t \in Thread |-> 0] /\ length = [t \in Thread |-> 0]
    /\ done = [t \in Thread |-> 0] /\ value = [t \in Thread |-> Fresh]
    /\ out = [t \in Thread |-> <<>>]

-----------------------------------------------------------------------------
(* Pages and blocks. *)

PageBase(n)      == n - (n % PageSize)
RequiredPages(n) == PageBase(n + PageSize - 1)
Size(b)          == Len(bytes[b])

\* Only whole pages of a block count.
TotalSize(ch) == IF ch = <<>> THEN 0 ELSE Head(ch).offset + PageBase(Size(Head(ch).id))

\* The block a page is in: the first of the chain that does not begin behind it.
BlockOf(base) ==
    LET i == CHOOSE j \in DOMAIN chain :
               /\ chain[j].offset <= base
               /\ \A k \in 1 .. j - 1 : chain[k].offset > base
    IN chain[i]

Used == {chain[i].id : i \in DOMAIN chain}

Goto(t, to) == pc' = [pc EXCEPT ![t] = to]

\* A request is over: nothing of it is kept but what it returned.
Ends(t) ==
    /\ Goto(t, "idle")
    /\ op' = [op EXCEPT ![t] = "none"] /\ offset' = [offset EXCEPT ![t] = 0]
    /\ value' = [value EXCEPT ![t] = Fresh]
    /\ length' = [length EXCEPT ![t] = 0] /\ done' = [done EXCEPT ![t] = 0]

-----------------------------------------------------------------------------
(* AWE_FS_AllocTryAcquireProtection and AWE_FS_AllocReleaseProtection. *)

MayRead == ActiveWriters = 0
MayWrite(owned) == ActiveWriters = 0 /\ ActiveReaders = owned

Release(readers, writers) ==
    /\ ActiveReaders' = ActiveReaders - readers
    /\ ActiveWriters' = ActiveWriters - writers

-----------------------------------------------------------------------------
(* AWE_FS_AllocCreate with an image file, or without. *)

Create(t, n) ==
    /\ file = "none"
    /\ IF n = 0
       THEN file' = "open" /\ UNCHANGED <<pc, op, length, value>>
       ELSE /\ file' = "loading" /\ Goto(t, "size")
            /\ op' = [op EXCEPT ![t] = "load"]
            /\ length' = [length EXCEPT ![t] = n]
            /\ \E v \in Value \ {Fresh} : value' = [value EXCEPT ![t] = v]
    /\ UNCHANGED <<VirtualSize, chain, bytes, Latest, lock, offset, done, page, out>>

-----------------------------------------------------------------------------
(* AWE_FS_AllocReadWrite: the way to the loop. *)

End(t) == offset[t] + length[t]

\* A read is cut at the end of the file, and refused behind it; a write that goes
\* beyond the end has to make the file larger first.
Read(t, o, n) ==
    /\ file = "open" /\ pc[t] = "idle" /\ MayRead
    /\ o <= VirtualSize
    /\ op' = [op EXCEPT ![t] = "read"]
    /\ offset' = [offset EXCEPT ![t] = o]
    /\ length' = [length EXCEPT ![t] = IF o + n > VirtualSize THEN VirtualSize - o ELSE n]
    /\ Goto(t, "map")
    /\ ActiveReaders' = ActiveReaders + 1
    /\ UNCHANGED <<shared, ActiveWriters, value, done, page, out>>

Write(t, o, n, v) ==
    /\ file = "open" /\ pc[t] = "idle" /\ MayRead
    /\ op' = [op EXCEPT ![t] = "write"]
    /\ offset' = [offset EXCEPT ![t] = o] /\ length' = [length EXCEPT ![t] = n]
    /\ value' = [value EXCEPT ![t] = v]
    /\ Goto(t, IF o + n > VirtualSize THEN "upgrade" ELSE "map")
    /\ ActiveReaders' = ActiveReaders + 1
    /\ UNCHANGED <<shared, ActiveWriters, done, page, out>>

\* The write fails when anybody else reads or writes.
Upgrade(t) ==
    /\ pc[t] = "upgrade"
    /\ IF MayWrite(1)
       THEN /\ ActiveWriters' = 1 /\ Goto(t, "size")
            /\ UNCHANGED <<ActiveReaders, request, length, done>>
       ELSE Release(1, 0) /\ Ends(t)
    /\ UNCHANGED <<shared, page, out>>

SetEndOfFile(t, n) ==
    /\ file = "open" /\ pc[t] = "idle" /\ MayWrite(0)
    /\ ActiveWriters' = 1 /\ Goto(t, "size")
    /\ op' = [op EXCEPT ![t] = "set"] /\ length' = [length EXCEPT ![t] = n]
    /\ UNCHANGED <<shared, ActiveReaders, offset, value, done, page, out>>

-----------------------------------------------------------------------------
(* AWE_FS_AllocSetSize.  Nobody else has the lock, or the file yet. *)

\* What follows a change of the size: a write keeps its share of the lock and goes on.
Sized(t, ok) ==
    CASE op[t] = "load"  -> /\ UNCHANGED <<lock, request, length, done>>
                            /\ IF ok THEN Goto(t, "map") /\ UNCHANGED file
                               ELSE Goto(t, "idle") /\ file' = "failed"
      [] op[t] = "write" -> /\ UNCHANGED file
                            /\ IF ok THEN /\ Release(0, 1) /\ Goto(t, "map")
                                          /\ UNCHANGED <<request, length, done>>
                               ELSE Release(1, 1) /\ Ends(t)
      [] OTHER           -> UNCHANGED file /\ Release(0, 1) /\ Ends(t)

\* What is left of the chain: blocks go from its front while they begin at n or behind it.
Dropped(n) ==
    LET first == CHOOSE i \in 1 .. Len(chain) + 1 :
                   \A j \in DOMAIN chain : chain[j].offset < n <=> j >= i
    IN SubSeq(chain, first, Len(chain))

\* Mutant: the mapping that is kept survives its block.
ShrinkBlocksOnly(t) ==
    LET n == End(t) IN
    /\ pc[t] = "size" /\ TotalSize(chain) >= n
    /\ IF TotalSize(chain) - n >= PageSize
       THEN /\ chain' = Dropped(n)
            /\ bytes' = [b \in BlockId |-> IF \E c \in Range(Dropped(n)) : c.id = b
                                           THEN bytes[b] ELSE <<>>]
       ELSE UNCHANGED <<chain, bytes>>
    /\ VirtualSize' = n
    /\ Sized(t, TRUE)
    /\ UNCHANGED <<Latest, page, out>>

\* The blocks that begin at or behind the new end go, and the mapping that is kept
\* with them, if at least a page is saved.
Shrink(t) ==
    LET n == End(t) IN
    /\ pc[t] = "size" /\ TotalSize(chain) >= n
    /\ IF TotalSize(chain) - n >= PageSize
       THEN /\ Latest' = Unmapped
            /\ chain' = Dropped(n)
            /\ bytes' = [b \in BlockId |-> IF \E c \in Range(Dropped(n)) : c.id = b
                                           THEN bytes[b] ELSE <<>>]
       ELSE UNCHANGED <<Latest, chain, bytes>>
    /\ VirtualSize' = n
    /\ Sized(t, TRUE)
    /\ UNCHANGED <<page, out>>

Wanted(t) == LET rest == End(t) - TotalSize(chain)
             IN IF rest > MaxBlock THEN MaxBlock ELSE RequiredPages(rest)

\* A block is added, of as many cells as there are, which may be less than wanted; a
\* block of less than a page is given back.
AddBlock(t) ==
    /\ pc[t] = "size" /\ TotalSize(chain) < End(t)
    /\ Used # BlockId
    /\ \E n \in PageSize .. Wanted(t) :
         LET b == CHOOSE c \in BlockId \ Used : TRUE
         IN /\ chain' = <<[id |-> b, offset |-> TotalSize(chain)]>> \o chain
            /\ bytes' = [bytes EXCEPT ![b] = [i \in 1 .. n |-> Fresh]]
    /\ UNCHANGED <<file, VirtualSize, Latest, lock, pc, request, length, done, page, out>>

\* The blocks that were added before stay.
NoMemory(t) ==
    /\ pc[t] = "size" /\ TotalSize(chain) < End(t)
    /\ Sized(t, FALSE)
    /\ UNCHANGED <<VirtualSize, chain, bytes, Latest, page, out>>

-----------------------------------------------------------------------------
(* AWE_FS_AllocMapPage and the loop of AWE_FS_AllocReadWrite. *)

Here(t)     == offset[t] + done[t]
Mapped(m, base) == m.base = base /\ base >= 0

\* Mutant: every page is mapped at the beginning of its block.
MapBlockStart(base) == [base |-> base, id |-> BlockOf(base).id, at |-> 0]
MapBlock(base) == [base |-> base, id |-> BlockOf(base).id, at |-> base - BlockOf(base).offset]

\* The page may be mapped already, or be the one that is kept; what is exchanged for it
\* is kept in its place, and a mapping that is of no use is freed.
MapPage(t) ==
    /\ pc[t] = "map" /\ done[t] < length[t]
    /\ Goto(t, "copy")
    /\ LET base == PageBase(Here(t)) IN
       IF Mapped(page[t], base) THEN UNCHANGED <<page, Latest>>
       ELSE /\ Latest' = page[t]
            /\ page' = [page EXCEPT ![t] = IF Mapped(Latest, base) THEN Latest
                                           ELSE MapBlock(base)]
    /\ UNCHANGED <<file, VirtualSize, chain, bytes, lock, request, length, done, out>>

\* No memory for the mapping: the exchange has been made all the same.
MapFails(t) ==
    LET base == PageBase(Here(t)) IN
    /\ pc[t] = "map" /\ done[t] < length[t]
    /\ ~Mapped(page[t], base) /\ ~Mapped(Latest, base)
    /\ Latest' = page[t] /\ page' = [page EXCEPT ![t] = Unmapped]
    /\ Goto(t, IF op[t] = "load" THEN "idle" ELSE "release")
    /\ file' = IF op[t] = "load" THEN "failed" ELSE file
    /\ UNCHANGED <<VirtualSize, chain, bytes, lock, request, length, done, out>>

\* The image file cannot be read: what was loaded stays, but nobody has the file.
LoadFails(t) ==
    /\ pc[t] = "copy" /\ op[t] = "load"
    /\ Goto(t, "idle") /\ file' = "failed"
    /\ Latest' = page[t] /\ page' = [page EXCEPT ![t] = Unmapped]
    /\ UNCHANGED <<VirtualSize, chain, bytes, lock, request, length, done, out>>

Chunk(t) == LET rest == length[t] - done[t]
                room == PageSize - (Here(t) % PageSize)
            IN IF rest > room THEN room ELSE rest

Place(t) == page[t].at + (Here(t) % PageSize)

Copy(t) ==
    /\ pc[t] = "copy" /\ Goto(t, "map")
    /\ done' = [done EXCEPT ![t] = @ + Chunk(t)]
    /\ LET b == page[t].id
           cells == Place(t) + 1 .. Place(t) + Chunk(t)
       IN IF op[t] = "read"
          THEN /\ out' = [out EXCEPT ![t] = @ \o SubSeq(bytes[b], Place(t) + 1, Place(t) + Chunk(t))]
               /\ UNCHANGED bytes
          ELSE /\ bytes' = [bytes EXCEPT ![b] = [i \in DOMAIN @ |-> IF i \in cells THEN value[t]
                                                                     ELSE @[i]]]
               /\ UNCHANGED out
    /\ UNCHANGED <<file, VirtualSize, chain, Latest, lock, request, length, page>>

\* The mapping is kept for the next request, and the one that was kept is freed.
StorePage(t) ==
    /\ pc[t] = "map" /\ done[t] >= length[t]
    /\ Latest' = page[t] /\ page' = [page EXCEPT ![t] = Unmapped]
    /\ IF op[t] = "load"
       THEN file' = "open" /\ Ends(t)
       ELSE Goto(t, "release") /\ UNCHANGED <<file, request, length, done>>
    /\ UNCHANGED <<VirtualSize, chain, bytes, lock, out>>

Complete(t) ==
    /\ pc[t] = "release" /\ Release(1, 0) /\ Ends(t)
    /\ out' = [out EXCEPT ![t] = <<>>]
    /\ UNCHANGED <<shared, page>>

\* The last handle is closed when no request is under way; the blocks go.
Close ==
    /\ file = "open" /\ \A t \in Thread : pc[t] = "idle"
    /\ file' = "closed" /\ VirtualSize' = 0
    /\ IF TotalSize(chain) >= PageSize
       THEN /\ Latest' = Unmapped /\ chain' = <<>>
            /\ bytes' = [b \in BlockId |-> <<>>]
       ELSE UNCHANGED <<Latest, chain, bytes>>
    /\ UNCHANGED <<lock, pc, request, length, done, page, out>>

-----------------------------------------------------------------------------
Request(t) == \E o \in 0 .. MaxSize - 1 :
    \E n \in 1 .. MaxSize - o : Read(t, o, n) \/ \E v \in Value \ {Fresh} : Write(t, o, n, v)

Next ==
    \/ Close
    \/ \E t \in Thread :
         \/ \E n \in Cells : Create(t, n) \/ SetEndOfFile(t, n)
         \/ Request(t) \/ Upgrade(t) \/ Shrink(t) \/ AddBlock(t) \/ NoMemory(t)
         \/ MapPage(t) \/ MapFails(t) \/ LoadFails(t) \/ Copy(t) \/ StorePage(t) \/ Complete(t)

Spec == Init /\ [][Next]_vars

-----------------------------------------------------------------------------
(* A mapping, in use or kept, leads into a block of the file and to the page it stands
   for, however the size has changed since: AWE_FS_AllocMapPage uses it unseen.  Whoever
   changes the size is alone but for its own share, the two counters are those of the
   requests under way, and a closed file has kept nothing. *)
Holding(t, phases) == pc[t] \in phases /\ op[t] # "load"

MappingsLive ==
    /\ \A m \in {Latest} \cup {page[t] : t \in Thread} :
         m # Unmapped => /\ m.id \in Used
                         /\ m = MapBlock(m.base)
                         /\ m.at + PageSize <= Size(m.id)
    /\ ActiveReaders = Cardinality({t \in Thread :
         \/ Holding(t, {"upgrade", "map", "copy", "release"})
         \/ Holding(t, {"size"}) /\ op[t] = "write"})
    /\ ActiveWriters = Cardinality({t \in Thread : Holding(t, {"size"})})
    /\ (\E t \in Thread : Holding(t, {"size"})) => ActiveReaders <= 1
    /\ file = "closed" => chain = <<>> /\ Latest = Unmapped

(* The blocks, the mappings that are handed from request to request and the lock that is
   only tried implement a plain file, MemoryFile. *)
contentBar == [i \in 1 .. VirtualSize |->
    LET b == BlockOf(PageBase(i - 1)) IN bytes[b.id][i - b.offset]]
askBar == [t \in Thread |-> [kind |-> op[t], from |-> Here(t) + 1, to |-> End(t)]]
File == INSTANCE MemoryFile WITH content <- contentBar, ask <- askBar, out <- out
FileSpec == File!Spec
=============================================================================
