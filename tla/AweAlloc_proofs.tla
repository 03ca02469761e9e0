--------------------------- MODULE AweAlloc_proofs ---------------------------
(***************************************************************************)
(* Proofs about AweAlloc, for every number of threads, every size of a     *)
(* page and every file: no mapping, in use or kept, outlives its block,    *)
(* the lock that is only tried counts what is under way, and the chain of  *)
(* blocks with its mappings implements a plain file, MemoryFile.           *)
(***************************************************************************)
EXTENDS AweAlloc, FiniteSetTheorems, TLAPS

-----------------------------------------------------------------------------
(* The inductive invariant. *)

BlockEnd(b)  == b.offset + PageBase(Size(b.id))
Covers(b, p) == b.offset <= p /\ p < BlockEnd(b)

\* The blocks have different memory, lie one behind the other from the front of the chain to its
\* end, and together hold every cell of the file.
ChainInv ==
    /\ \A i \in DOMAIN chain :
          chain[i].offset % PageSize = 0 /\ Size(chain[i].id) >= PageSize
    /\ \A i, j \in DOMAIN chain :
          i < j => BlockEnd(chain[j]) <= chain[i].offset /\ chain[i].id # chain[j].id
    /\ \A p \in 0 .. TotalSize(chain) - 1 : \E j \in DOMAIN chain : Covers(chain[j], p)
    /\ VirtualSize <= TotalSize(chain)

\* A mapping is of a page of the chain as it is now.
Live(m) == m # Unmapped =>
    /\ m.base \in Nat /\ m.base % PageSize = 0 /\ m.base < TotalSize(chain)
    /\ m = MapBlock(m.base)

MapInv == Live(Latest) /\ \A t \in Thread : Live(page[t])

\* Where a request is, and what it can rely on there.
RequestInv(t) ==
    /\ offset[t] + length[t] <= MaxSize /\ done[t] <= length[t]
    /\ file \in {"none", "failed", "closed"} => pc[t] = "idle"
    /\ pc[t] = "idle" /\ file # "failed" =>
          op[t] = "none" /\ offset[t] = 0 /\ length[t] = 0 /\ done[t] = 0
    /\ pc[t] # "idle" => (op[t] = "load" <=> file = "loading")
    /\ pc[t] = "upgrade" => op[t] = "write"
    /\ pc[t] = "size" => op[t] \in {"write", "set", "load"}
    /\ pc[t] \in {"map", "copy"} => op[t] \in {"read", "write", "load"}
    /\ pc[t] = "release" => op[t] \in {"read", "write"}
    /\ pc[t] \in {"upgrade", "size"} =>
          /\ done[t] = 0
          /\ op[t] = "write" => VirtualSize < End(t)
          /\ op[t] \in {"set", "load"} => offset[t] = 0
    /\ pc[t] \in {"map", "copy"} => End(t) <= VirtualSize
    /\ pc[t] = "copy" => done[t] < length[t] /\ page[t].base = PageBase(Here(t))
    /\ pc[t] \notin {"map", "copy"} => page[t] = Unmapped
    /\ out[t] # <<>> => op[t] = "read" /\ pc[t] \in {"map", "copy", "release"}

PhaseInv ==
    /\ \A t \in Thread : RequestInv(t)
    /\ \A t, u \in Thread : file = "loading" /\ pc[t] # "idle" /\ pc[u] # "idle" => t = u
    /\ file = "closed" => chain = <<>> /\ Latest = Unmapped

\* The counters are those of the requests under way, and who changes the size is alone.
Readers == {t \in Thread : \/ Holding(t, {"upgrade", "map", "copy", "release"})
                           \/ Holding(t, {"size"}) /\ op[t] = "write"}
Writers == {t \in Thread : Holding(t, {"size"})}

LockInv ==
    /\ ActiveReaders = Cardinality(Readers) /\ ActiveWriters = Cardinality(Writers)
    /\ \A t \in Writers, u \in Readers \cup Writers : t = u

IInv == TypeOK /\ ChainInv /\ MapInv /\ PhaseInv /\ LockInv

-----------------------------------------------------------------------------
(* Pages. *)

LEMMA MulMono == ASSUME NEW k \in Nat \ {0}, NEW d \in Int, d >= 1 PROVE k * d >= k
  OBVIOUS

LEMMA DivisionFacts ==
    ASSUME NEW n \in Nat, NEW k \in Nat \ {0}
    PROVE  n % k \in 0 .. k - 1 /\ n \div k \in Nat /\ n = (k * (n \div k)) + (n % k)
  OBVIOUS

LEMMA DivisionUnique ==
    ASSUME NEW k \in Nat \ {0}, NEW q \in Int, NEW r \in 0 .. k - 1, NEW s \in Int,
           NEW u \in 0 .. k - 1, (k * q) + r = (k * s) + u
    PROVE  q = s /\ r = u
<1>1. k * (q - s) = u - r /\ k * (s - q) = r - u
  OBVIOUS
<1>2. CASE q - s >= 1
  <2>1. k * (q - s) >= k
    BY <1>2, MulMono
  <2> QED
    BY <1>1, <2>1
<1>3. CASE s - q >= 1
  <2>1. k * (s - q) >= k
    BY <1>3, MulMono
  <2> QED
    BY <1>1, <2>1
<1> QED
  BY <1>2, <1>3

LEMMA MultipleFacts ==
    ASSUME NEW k \in Nat \ {0}, NEW q \in Nat
    PROVE  (k * q) \in Nat /\ (k * q) % k = 0
<1>1. (k * q) \in Nat
  OBVIOUS
<1> DEFINE n == k * q
<1>3. n = (k * q) + 0 /\ 0 \in 0 .. k - 1
  BY <1>1
<1>6. n \in Nat
  BY <1>1
<1> HIDE DEF n
<1>2. n % k \in 0 .. k - 1 /\ n \div k \in Int /\ n = (k * (n \div k)) + (n % k)
  BY <1>6, DivisionFacts
<1>4. (k * (n \div k)) + (n % k) = (k * q) + 0
  BY <1>2, <1>3
<1>5. n % k = 0
  BY <1>2, <1>3, <1>4, DivisionUnique
<1> QED
  BY <1>1, <1>5 DEF n

LEMMA MultiplesApart ==
    ASSUME NEW k \in Nat \ {0}, NEW a \in Nat, NEW b \in Nat, a % k = 0, b % k = 0
    PROVE  /\ (a + b) % k = 0
           /\ a < b => a + k <= b
           /\ a <= b => (b - a) \in Nat /\ (b - a) % k = 0
<1> DEFINE p == a \div k
           q == b \div k
<1>1. p \in Nat /\ q \in Nat /\ a = k * p /\ b = k * q
  BY DivisionFacts
<1> HIDE DEF p, q
<1>2. a + b = k * (p + q) /\ b - a = k * (q - p) /\ a - b = k * (p - q)
  BY <1>1
<1>3. a < b => q - p >= 1
  <2> SUFFICES ASSUME a < b, p - q >= 0 PROVE FALSE
    BY <1>1
  <2>1. p - q = 0 \/ p - q >= 1
    BY <1>1
  <2>2. k * (p - q) >= 0
    BY <1>1, <2>1, MulMono
  <2> QED
    BY <1>2, <2>2
<1>4. a < b => k * (q - p) >= k
  BY <1>1, <1>3, MulMono
<1>5. a <= b => q - p \in Nat
  BY <1>1, <1>3
<1> QED
  BY <1>1, <1>2, <1>4, <1>5, MultipleFacts

LEMMA PageFacts ==
    ASSUME NEW n \in Nat
    PROVE  /\ PageBase(n) \in Nat /\ PageBase(n) % PageSize = 0
           /\ PageBase(n) <= n /\ n < PageBase(n) + PageSize
           /\ n % PageSize \in 0 .. PageSize - 1 /\ n = PageBase(n) + (n % PageSize)
           /\ n >= PageSize => PageBase(n) >= PageSize
<1>1. PageSize \in Nat \ {0}
  BY SizeAssumption
<1>2. n % PageSize \in 0 .. PageSize - 1 /\ n \div PageSize \in Nat
      /\ n = (PageSize * (n \div PageSize)) + (n % PageSize)
  BY <1>1, DivisionFacts
<1>3. PageBase(n) = PageSize * (n \div PageSize)
  BY <1>1, <1>2 DEF PageBase
<1>4. PageBase(n) \in Nat /\ PageBase(n) % PageSize = 0
  BY <1>1, <1>2, <1>3, MultipleFacts
<1>5. PageBase(n) <= n /\ n < PageBase(n) + PageSize /\ n = PageBase(n) + (n % PageSize)
  BY <1>1, <1>2, <1>4 DEF PageBase
<1>6. 0 % PageSize = 0
  BY <1>1, MultipleFacts
<1>7. n >= PageSize => PageBase(n) >= PageSize
  BY <1>1, <1>4, <1>5, <1>6, MultiplesApart
<1> QED
  BY <1>2, <1>4, <1>5, <1>7

LEMMA PageIs ==
    ASSUME NEW n \in Nat, NEW a \in Nat, a % PageSize = 0, a <= n, n < a + PageSize
    PROVE  PageBase(n) = a
<1>1. PageSize \in Nat \ {0} /\ PageBase(n) \in Nat /\ PageBase(n) % PageSize = 0
      /\ PageBase(n) <= n /\ n < PageBase(n) + PageSize
  BY SizeAssumption, PageFacts
<1>2. ~(a < PageBase(n)) /\ ~(PageBase(n) < a)
  BY <1>1, MultiplesApart
<1> QED
  BY <1>1, <1>2

-----------------------------------------------------------------------------
(* Blocks. *)

LEMMA ElementFacts == ASSUME NEW S, NEW s \in Seq(S), NEW i \in DOMAIN s PROVE s[i] \in S
  OBVIOUS

\* What BlockOf chooses: there is only one such block.
LEMMA ChosenBlock ==
    ASSUME NEW ch, NEW m \in Nat, DOMAIN ch = 1 .. m, NEW base \in Int,
           \A i \in DOMAIN ch : ch[i].offset \in Int,
           NEW j \in DOMAIN ch, ch[j].offset <= base, \A k \in 1 .. j - 1 : ch[k].offset > base
    PROVE  (CHOOSE i \in DOMAIN ch : /\ ch[i].offset <= base
                                     /\ \A k \in 1 .. i - 1 : ch[k].offset > base) = j
<1> DEFINE Q(i) == ch[i].offset <= base /\ \A k \in 1 .. i - 1 : ch[k].offset > base
<1>1. ASSUME NEW i \in DOMAIN ch, Q(i) PROVE i = j
  <2>1. CASE i < j
    <3>1. i \in 1 .. j - 1
      BY <2>1
    <3> QED
      BY <1>1, <3>1
  <2>2. CASE j < i
    <3>1. j \in 1 .. i - 1
      BY <2>2
    <3> QED
      BY <1>1, <3>1
  <2> QED
    BY <2>1, <2>2
<1>2. Q(j)
  OBVIOUS
<1> QED
  BY <1>1, <1>2

LEMMA ChainFacts ==
    ASSUME TypeOK
    PROVE  /\ chain \in Seq([id : BlockId, offset : Cells]) /\ Len(chain) \in Nat
           /\ DOMAIN chain = 1 .. Len(chain)
           /\ \A i \in DOMAIN chain :
                 /\ chain[i].id \in BlockId /\ chain[i].offset \in Nat
                 /\ Size(chain[i].id) \in Nat
                 /\ PageBase(Size(chain[i].id)) \in Nat /\ BlockEnd(chain[i]) \in Nat
                 /\ PageBase(Size(chain[i].id)) % PageSize = 0
                 /\ PageBase(Size(chain[i].id)) <= Size(chain[i].id)
           /\ chain = <<>> <=> Len(chain) = 0
           /\ TotalSize(chain) \in Nat
           /\ TotalSize(chain) = IF chain = <<>> THEN 0 ELSE BlockEnd(chain[1])
<1>1. chain \in Seq([id : BlockId, offset : Cells]) /\ Len(chain) \in Nat
      /\ DOMAIN chain = 1 .. Len(chain) /\ (chain = <<>> <=> Len(chain) = 0)
  BY DEF TypeOK
<1>2. ASSUME NEW i \in DOMAIN chain
      PROVE  chain[i].id \in BlockId /\ chain[i].offset \in Nat /\ Size(chain[i].id) \in Nat
  <2>1. chain[i] \in [id : BlockId, offset : Cells]
    BY <1>1, ElementFacts
  <2>2. bytes[chain[i].id] \in Seq(Value)
    BY <2>1 DEF TypeOK
  <2> QED
    BY <2>1, <2>2, SizeAssumption DEF Cells, Size
<1>3. \A i \in DOMAIN chain : /\ PageBase(Size(chain[i].id)) \in Nat /\ BlockEnd(chain[i]) \in Nat
                              /\ PageBase(Size(chain[i].id)) % PageSize = 0
                              /\ PageBase(Size(chain[i].id)) <= Size(chain[i].id)
  BY <1>2, PageFacts DEF BlockEnd
<1>4. chain # <<>> => 1 \in DOMAIN chain /\ Head(chain) = chain[1]
  BY <1>1
<1> QED
  BY <1>1, <1>2, <1>3, <1>4 DEF TotalSize, BlockEnd

\* The block that covers a cell is the one that is looked up for it and for its page; the whole
\* page is in it.
LEMMA BlockFacts ==
    ASSUME TypeOK, ChainInv, NEW j \in DOMAIN chain, NEW p \in Nat, Covers(chain[j], p)
    PROVE  /\ BlockOf(p) = chain[j] /\ BlockOf(PageBase(p)) = chain[j]
           /\ Covers(chain[j], PageBase(p))
           /\ PageBase(p) - chain[j].offset \in Nat
           /\ PageBase(p) - chain[j].offset + PageSize <= Size(chain[j].id)
           /\ \A k \in 1 .. j - 1 : k \in DOMAIN chain /\ chain[k].offset > p
                                    /\ chain[k].offset > PageBase(p)
           /\ p < TotalSize(chain)
<1>1. /\ PageSize \in Nat \ {0} /\ PageBase(p) \in Nat /\ PageBase(p) % PageSize = 0
      /\ PageBase(p) <= p /\ p < PageBase(p) + PageSize
  BY SizeAssumption, PageFacts
<1>2. /\ chain[j].offset \in Nat /\ chain[j].offset % PageSize = 0
      /\ Size(chain[j].id) \in Nat /\ PageBase(Size(chain[j].id)) \in Nat
      /\ PageBase(Size(chain[j].id)) % PageSize = 0
      /\ PageBase(Size(chain[j].id)) <= Size(chain[j].id)
      /\ DOMAIN chain = 1 .. Len(chain) /\ Len(chain) \in Nat
      /\ \A i \in DOMAIN chain : chain[i].offset \in Int
  BY ChainFacts DEF ChainInv
<1>3. PageBase(p) >= chain[j].offset
  <2> SUFFICES ASSUME PageBase(p) < chain[j].offset PROVE FALSE
    BY <1>1, <1>2
  <2>1. PageBase(p) + PageSize <= chain[j].offset
    BY <1>1, <1>2, MultiplesApart
  <2> QED
    BY <1>1, <1>2, <2>1 DEF Covers
<1>4. BlockEnd(chain[j]) \in Nat /\ BlockEnd(chain[j]) % PageSize = 0
      /\ BlockEnd(chain[j]) = chain[j].offset + PageBase(Size(chain[j].id))
  BY <1>1, <1>2, MultiplesApart, SMTT(30) DEF BlockEnd
<1>5. PageBase(p) + PageSize <= BlockEnd(chain[j])
  BY <1>1, <1>4, MultiplesApart DEF Covers
<1>6. Covers(chain[j], PageBase(p))
  BY <1>1, <1>3, <1>4, <1>5 DEF Covers
<1>7. \A k \in 1 .. j - 1 : k \in DOMAIN chain /\ chain[k].offset > p
                            /\ chain[k].offset > PageBase(p)
  <2> SUFFICES ASSUME NEW k \in 1 .. j - 1
               PROVE  k \in DOMAIN chain /\ chain[k].offset > p /\ chain[k].offset > PageBase(p)
    OBVIOUS
  <2>1. k \in DOMAIN chain /\ k < j
    BY <1>2
  <2>2. BlockEnd(chain[j]) <= chain[k].offset /\ chain[k].offset \in Int
    BY <1>2, <2>1 DEF ChainInv
  <2> QED
    BY <1>1, <1>4, <2>1, <2>2 DEF Covers
<1>8. BlockOf(p) = chain[j]
  BY <1>2, <1>7, ChosenBlock, SMTT(30) DEF BlockOf, Covers
<1>9. BlockOf(PageBase(p)) = chain[j]
  BY <1>1, <1>2, <1>3, <1>7, ChosenBlock, SMTT(30) DEF BlockOf
<1>10. p < TotalSize(chain)
  <2>1. chain # <<>> /\ 1 \in DOMAIN chain /\ TotalSize(chain) = BlockEnd(chain[1])
        /\ BlockEnd(chain[1]) \in Nat /\ chain[1].offset \in Nat
        /\ PageBase(Size(chain[1].id)) \in Nat
    BY <1>2, ChainFacts
  <2>2. CASE j = 1
    BY <2>1, <2>2 DEF Covers
  <2>3. CASE j > 1
    <3>1. BlockEnd(chain[j]) <= chain[1].offset
      BY <2>1, <2>3 DEF ChainInv
    <3> QED
      BY <1>4, <2>1, <3>1 DEF BlockEnd, Covers
  <2> QED
    BY <1>2, <2>2, <2>3
<1> QED
  BY <1>1, <1>2, <1>3, <1>4, <1>5, <1>6, <1>7, <1>8, <1>9, <1>10, SMTT(30)

-----------------------------------------------------------------------------
(* The lock. *)

\* A step of one thread.
Act(t) ==
    \/ \E n \in Cells : Create(t, n) \/ SetEndOfFile(t, n)
    \/ \E o, n \in Nat : o < MaxSize /\ n > 0 /\ o + n <= MaxSize /\ Read(t, o, n)
    \/ \E o, n \in Nat, v \in Value :
          o < MaxSize /\ n > 0 /\ o + n <= MaxSize /\ Write(t, o, n, v)
    \/ Upgrade(t) \/ Shrink(t) \/ AddBlock(t) \/ NoMemory(t)
    \/ MapPage(t) \/ MapFails(t) \/ LoadFails(t) \/ Copy(t) \/ StorePage(t) \/ Complete(t)

LEMMA StepCases == Next => Close \/ \E t \in Thread : Act(t)
<1>1. ASSUME NEW t \in Thread, Request(t) PROVE Act(t)
  <2>1. PICK o \in 0 .. MaxSize - 1 : \E n \in 1 .. MaxSize - o :
             Read(t, o, n) \/ \E v \in Value \ {Fresh} : Write(t, o, n, v)
    BY <1>1 DEF Request
  <2>2. PICK n \in 1 .. MaxSize - o :
             Read(t, o, n) \/ \E v \in Value \ {Fresh} : Write(t, o, n, v)
    BY <2>1
  <2>3. o \in Nat /\ n \in Nat /\ o < MaxSize /\ n > 0 /\ o + n <= MaxSize
    BY SizeAssumption
  <2> QED
    BY <2>2, <2>3 DEF Act
<1> QED
  BY <1>1 DEF Next, Act

\* It leaves the requests of the other threads alone.
LEMMA OthersStay ==
    ASSUME TypeOK, NEW t \in Thread, Act(t), NEW u \in Thread, u # t
    PROVE  /\ pc'[u] = pc[u] /\ op'[u] = op[u] /\ offset'[u] = offset[u]
           /\ length'[u] = length[u] /\ done'[u] = done[u] /\ page'[u] = page[u]
           /\ out'[u] = out[u]
<1> USE DEF shared, lock, request, Goto, Ends, Release, TypeOK
<1>1. CASE (\E n \in Cells : Create(t, n) \/ SetEndOfFile(t, n)) \/ Upgrade(t)
  BY <1>1 DEF Create, SetEndOfFile, Upgrade
<1>2. CASE \/ \E o, n \in Nat : o < MaxSize /\ n > 0 /\ o + n <= MaxSize /\ Read(t, o, n)
           \/ \E o, n \in Nat, v \in Value :
                 o < MaxSize /\ n > 0 /\ o + n <= MaxSize /\ Write(t, o, n, v)
  BY <1>2 DEF Read, Write
<1>3. CASE Shrink(t) \/ NoMemory(t)
  BY <1>3 DEF Shrink, NoMemory, Sized
<1>4. CASE AddBlock(t) \/ MapPage(t) \/ MapFails(t) \/ LoadFails(t)
  BY <1>4 DEF AddBlock, MapPage, MapFails, LoadFails
<1>5. CASE Copy(t) \/ StorePage(t) \/ Complete(t)
  BY <1>5 DEF Copy, StorePage, Complete
<1> QED
  BY <1>1, <1>2, <1>3, <1>4, <1>5 DEF Act

\* Phases from which nothing is held by t.
LEMMA HoldingFacts ==
    ASSUME NEW t \in Thread
    PROVE  /\ t \in Readers <=> /\ op[t] # "load"
                                /\ \/ pc[t] \in {"upgrade", "map", "copy", "release"}
                                   \/ pc[t] = "size" /\ op[t] = "write"
           /\ t \in Writers <=> op[t] # "load" /\ pc[t] = "size"
  BY DEF Readers, Writers, Holding

LEMMA LockFacts ==
    /\ IsFiniteSet(Readers) /\ IsFiniteSet(Writers) /\ IsFiniteSet(Thread)
    /\ Cardinality(Readers) \in Nat /\ Cardinality(Writers) \in Nat
    /\ Cardinality(Readers) <= Cardinality(Thread)
    /\ Cardinality(Readers) = 0 <=> Readers = {}
    /\ Cardinality(Writers) = 0 <=> Writers = {}
    /\ Cardinality(Thread) \in Nat
<1>1. Readers \subseteq Thread /\ Writers \subseteq Thread
  BY DEF Readers, Writers
<1> QED
  BY <1>1, ThreadAssumption, FS_Subset, FS_CardinalityType, FS_EmptySet

LEMMA AddOne ==
    ASSUME NEW S, IsFiniteSet(S), NEW x, x \notin S
    PROVE  Cardinality(S \cup {x}) = Cardinality(S) + 1
  BY FS_AddElement

LEMMA RemoveOne ==
    ASSUME NEW S, IsFiniteSet(S), NEW x \in S
    PROVE  Cardinality(S \ {x}) = Cardinality(S) - 1
  BY FS_RemoveElement

\* Who changes the size, or loads the file, is the only one with a request.
LEMMA Alone ==
    ASSUME TypeOK, PhaseInv, LockInv, NEW t \in Thread, pc[t] = "size", NEW u \in Thread, u # t
    PROVE  pc[u] = "idle" /\ page[u] = Unmapped
<1>1. RequestInv(t) /\ RequestInv(u)
  BY DEF PhaseInv
<1>2. CASE op[t] = "load"
  <2>1. file = "loading"
    BY <1>1, <1>2 DEF RequestInv
  <2> QED
    BY <1>1, <2>1 DEF PhaseInv, RequestInv
<1>3. CASE op[t] # "load"
  <2>1. t \in Writers /\ u \notin Readers \cup Writers
    BY <1>3, HoldingFacts DEF LockInv
  <2>2. op[u] # "load" \/ pc[u] = "idle"
    BY <1>1, <1>3 DEF RequestInv
  <2>3. pc[u] \in {"idle", "upgrade", "size", "map", "copy", "release"}
    BY DEF TypeOK
  <2>4. pc[u] = "idle"
    BY <2>1, <2>2, <2>3, HoldingFacts
  <2> QED
    BY <1>1, <2>4 DEF RequestInv
<1> QED
  BY <1>2, <1>3

\* A step that changes pc and op at t only changes no other thread's share of the lock.
LEMMA Changed ==
    ASSUME NEW t \in Thread, TypeOK,
           \A u \in Thread : u # t => pc'[u] = pc[u] /\ op'[u] = op[u]
    PROVE  /\ \A u \in Thread : u # t => (u \in Readers' <=> u \in Readers)
           /\ \A u \in Thread : u # t => (u \in Writers' <=> u \in Writers)
           /\ Readers' = Readers \/ Readers' = Readers \cup {t} \/ Readers' = Readers \ {t}
           /\ Writers' = Writers \/ Writers' = Writers \cup {t} \/ Writers' = Writers \ {t}
           /\ t \in Readers' /\ t \notin Readers => Readers' = Readers \cup {t}
           /\ t \notin Readers' /\ t \in Readers => Readers' = Readers \ {t}
           /\ (t \in Readers' <=> t \in Readers) => Readers' = Readers
           /\ t \in Writers' /\ t \notin Writers => Writers' = Writers \cup {t}
           /\ t \notin Writers' /\ t \in Writers => Writers' = Writers \ {t}
           /\ (t \in Writers' <=> t \in Writers) => Writers' = Writers
<1>1. \A u \in Thread : u # t => (u \in Readers' <=> u \in Readers)
                                 /\ (u \in Writers' <=> u \in Writers)
  BY DEF Readers, Writers, Holding
<1>2. Readers \subseteq Thread /\ Readers' \subseteq Thread
      /\ Writers \subseteq Thread /\ Writers' \subseteq Thread
  BY DEF Readers, Writers
<1> QED
  BY <1>1, <1>2

LEMMA StepLock == TypeOK /\ PhaseInv /\ LockInv /\ [Next]_vars => LockInv'
<1> SUFFICES ASSUME TypeOK, PhaseInv, LockInv, [Next]_vars PROVE LockInv'
  OBVIOUS
<1>1. CASE UNCHANGED vars
  BY <1>1 DEF vars, shared, lock, request, LockInv, Readers, Writers, Holding
<1>2. CASE Close
  BY <1>2 DEF Close, lock, request, LockInv, Readers, Writers, Holding
<1>3. ASSUME NEW t \in Thread, Act(t) PROVE LockInv'
  <2>0. \A u \in Thread : u # t => pc'[u] = pc[u] /\ op'[u] = op[u]
    BY <1>3, OthersStay
  <2>00. RequestInv(t)
    BY DEF PhaseInv
  \* What is left to show of each action: its share of the lock before and after it.
  <2>1. ASSUME t \in Readers' <=> t \in Readers, t \in Writers' <=> t \in Writers,
               UNCHANGED lock
        PROVE  LockInv'
    BY <2>0, <2>1, Changed DEF lock, LockInv
  <2>2. ASSUME t \notin Readers, t \in Readers', t \notin Writers', t \notin Writers,
               ActiveWriters = 0, ActiveReaders' = ActiveReaders + 1,
               ActiveWriters' = ActiveWriters
        PROVE  LockInv'
    <3>1. Readers' = Readers \cup {t} /\ Writers' = Writers /\ Writers = {}
      BY <2>0, <2>2, Changed, LockFacts DEF LockInv
    <3>2. Cardinality(Readers') = Cardinality(Readers) + 1
      BY <2>2, <3>1, AddOne, LockFacts
    <3> QED
      BY <2>2, <3>1, <3>2 DEF LockInv
  <2>3. ASSUME t \in Readers, t \notin Readers', t \in Writers => t \notin Writers',
               ActiveReaders' = ActiveReaders - 1,
               ActiveWriters' = IF t \in Writers THEN ActiveWriters - 1 ELSE ActiveWriters,
               t \notin Writers => t \notin Writers'
        PROVE  LockInv'
    <3>1. Readers' = Readers \ {t} /\ Writers' = Writers \ {t}
      BY <2>0, <2>3, Changed
    <3>2. Cardinality(Readers') = Cardinality(Readers) - 1
      BY <2>3, <3>1, RemoveOne, LockFacts
    <3>3. Cardinality(Writers') = ActiveWriters'
      <4>1. CASE t \in Writers
        BY <2>3, <3>1, <4>1, RemoveOne, LockFacts DEF LockInv
      <4>2. CASE t \notin Writers
        <5>1. Writers' = Writers
          BY <3>1, <4>2
        <5> QED
          BY <2>3, <4>2, <5>1 DEF LockInv
      <4> QED
        BY <4>1, <4>2
    <3> QED
      BY <2>3, <3>1, <3>2, <3>3 DEF LockInv
  <2>4. ASSUME t \in Writers, t \notin Writers', t \in Readers' <=> t \in Readers,
               ActiveReaders' = ActiveReaders, ActiveWriters' = ActiveWriters - 1
        PROVE  LockInv'
    <3>1. Readers' = Readers /\ Writers' = Writers \ {t}
      BY <2>0, <2>4, Changed
    <3>2. Cardinality(Writers') = Cardinality(Writers) - 1
      BY <2>4, <3>1, RemoveOne, LockFacts
    <3> QED
      BY <2>4, <3>1, <3>2 DEF LockInv
  <2>5. ASSUME t \notin Writers, t \in Writers', t \in Readers' <=> t \in Readers,
               ActiveWriters = 0, Readers \subseteq {t},
               ActiveReaders' = ActiveReaders, ActiveWriters' = 1
        PROVE  LockInv'
    <3>1. Readers' = Readers /\ Writers = {} /\ Writers' = {t}
      <4>1. Readers' = Readers /\ Writers' = Writers \cup {t}
        BY <2>0, <2>5, Changed
      <4>2. Writers = {}
        BY <2>5, LockFacts DEF LockInv
      <4> QED
        BY <4>1, <4>2
    <3>2. Cardinality({t}) = 1
      BY FS_Singleton
    <3> QED
      BY <2>5, <3>1, <3>2 DEF LockInv
  <2> USE DEF shared, lock, request, Goto, Ends, Release
  <2>10. CASE \E n \in Cells : Create(t, n)
    BY <2>1, <2>00, <2>10, HoldingFacts DEF Readers, Writers, Holding, Create, TypeOK, RequestInv
  <2>11. CASE \E o, n \in Nat : o < MaxSize /\ n > 0 /\ o + n <= MaxSize /\ Read(t, o, n)
    BY <2>2, <2>11 DEF Readers, Writers, Holding, Read, MayRead, TypeOK
  <2>12. CASE \E o, n \in Nat, v \in Value :
                 o < MaxSize /\ n > 0 /\ o + n <= MaxSize /\ Write(t, o, n, v)
    BY <2>2, <2>12 DEF Readers, Writers, Holding, Write, MayRead, TypeOK
  <2>13. CASE \E n \in Cells : SetEndOfFile(t, n)
    <3>1. Readers = {}
      BY <2>13, LockFacts DEF SetEndOfFile, MayWrite, LockInv
    <3> QED
      BY <2>5, <2>13, <3>1 DEF Readers, Writers, Holding, SetEndOfFile, MayWrite, TypeOK
  <2>14. CASE Upgrade(t)
    <3>1. op[t] = "write" /\ pc[t] = "upgrade" /\ t \in Readers /\ t \notin Writers
      BY <2>00, <2>14 DEF RequestInv, Upgrade, Readers, Writers, Holding
    <3>2. CASE MayWrite(1)
      <4>1. Readers \subseteq {t}
        <5>1. Cardinality(Readers \ {t}) = 0 /\ IsFiniteSet(Readers \ {t})
          <6>1. Cardinality(Readers) = 1 /\ IsFiniteSet(Readers)
            BY <3>2, LockFacts DEF MayWrite, LockInv
          <6>2. IsFiniteSet(Readers \ {t})
            BY <6>1, FS_RemoveElement
          <6>3. Cardinality(Readers \ {t}) = 0
            BY <3>1, <6>1, RemoveOne
          <6> QED
            BY <6>2, <6>3
        <5> QED
          BY <5>1, FS_EmptySet
      <4>2. ActiveWriters' = 1 /\ ActiveWriters = 0 /\ op'[t] = "write" /\ pc'[t] = "size"
            /\ ActiveReaders' = ActiveReaders
        BY <2>14, <3>1, <3>2 DEF Upgrade, MayWrite, TypeOK
      <4> QED
        BY <2>5, <3>1, <4>1, <4>2 DEF Readers, Writers, Holding
    <3>3. CASE ~MayWrite(1)
      <4>1. pc'[t] = "idle" /\ ActiveReaders' = ActiveReaders - 1
            /\ ActiveWriters' = ActiveWriters
        BY <2>14, <3>3 DEF Upgrade, TypeOK
      <4> QED
        BY <2>3, <3>1, <4>1 DEF Readers, Writers, Holding
    <3> QED
      BY <3>2, <3>3
  <2>15. ASSUME NEW ok \in BOOLEAN, pc[t] = "size", Sized(t, ok) PROVE LockInv'
    <3>1. CASE op[t] = "load"
      <4>1. op'[t] = "load" /\ UNCHANGED lock
        BY <2>15, <3>1 DEF Sized
      <4> QED
        BY <2>1, <3>1, <4>1 DEF Readers, Writers, Holding
    <3>2. CASE op[t] = "write"
      <4>1. CASE ok
        <5>1. op'[t] = "write" /\ pc'[t] = "map" /\ ActiveReaders' = ActiveReaders
              /\ ActiveWriters' = ActiveWriters - 1
          BY <2>15, <3>2, <4>1 DEF Sized, TypeOK
        <5> QED
          BY <2>4, <2>15, <3>2, <5>1 DEF Readers, Writers, Holding
      <4>2. CASE ~ok
        <5>1. pc'[t] = "idle" /\ ActiveReaders' = ActiveReaders - 1
              /\ ActiveWriters' = ActiveWriters - 1
          BY <2>15, <3>2, <4>2 DEF Sized, TypeOK
        <5> QED
          BY <2>3, <2>15, <3>2, <5>1 DEF Readers, Writers, Holding
      <4> QED
        BY <4>1, <4>2
    <3>3. CASE op[t] = "set"
      <4>1. pc'[t] = "idle" /\ ActiveReaders' = ActiveReaders
            /\ ActiveWriters' = ActiveWriters - 1
        BY <2>15, <3>3 DEF Sized, TypeOK
      <4> QED
        BY <2>4, <2>15, <3>3, <4>1 DEF Readers, Writers, Holding
    <3> QED
      BY <2>00, <2>15, <3>1, <3>2, <3>3 DEF RequestInv
  <2>16. CASE Shrink(t) \/ NoMemory(t)
    BY <2>15, <2>16 DEF Shrink, NoMemory
  <2>17. CASE AddBlock(t)
    BY <2>1, <2>17 DEF Readers, Writers, Holding, AddBlock
  <2>18. CASE MapPage(t) \/ MapFails(t) \/ LoadFails(t) \/ Copy(t)
    <3>1. op' = op /\ UNCHANGED lock /\ pc[t] \in {"map", "copy"}
          /\ \/ pc'[t] \in {"map", "copy", "release"}
             \/ op[t] = "load" /\ pc'[t] = "idle"
      BY <2>18 DEF MapPage, MapFails, LoadFails, Copy, TypeOK
    <3> QED
      BY <2>1, <3>1 DEF Readers, Writers, Holding
  <2>19. CASE StorePage(t)
    <3>1. UNCHANGED lock /\ pc[t] = "map"
          /\ \/ pc'[t] = "release" /\ op'[t] = op[t]
             \/ op[t] = "load" /\ pc'[t] = "idle"
      BY <2>19 DEF StorePage, TypeOK
    <3> QED
      BY <2>1, <3>1 DEF Readers, Writers, Holding
  <2>20. CASE Complete(t)
    <3>1. pc[t] = "release" /\ op[t] # "load" /\ pc'[t] = "idle"
          /\ ActiveReaders' = ActiveReaders - 1 /\ ActiveWriters' = ActiveWriters
      BY <2>00, <2>20 DEF Complete, RequestInv, TypeOK
    <3> QED
      BY <2>3, <3>1 DEF Readers, Writers, Holding
  <2> QED
    BY <1>3, <2>10, <2>11, <2>12, <2>13, <2>14, <2>16, <2>17, <2>18, <2>19, <2>20 DEF Act
<1> QED
  BY <1>1, <1>2, <1>3, StepCases

-----------------------------------------------------------------------------
(* Blocks that come and go. *)

\* No block reaches beyond the front one.
LEMMA ChainEnds ==
    ASSUME TypeOK, ChainInv
    PROVE  /\ \A j \in DOMAIN chain : BlockEnd(chain[j]) <= TotalSize(chain)
                                      /\ chain[j].offset < TotalSize(chain)
           /\ TotalSize(chain) % PageSize = 0
           /\ chain # <<>> => TotalSize(chain) >= PageSize
<1>1. PageSize \in Nat \ {0}
  BY SizeAssumption
<1>2. ASSUME NEW i \in DOMAIN chain
      PROVE  /\ BlockEnd(chain[i]) % PageSize = 0 /\ chain[i].offset + PageSize <= BlockEnd(chain[i])
             /\ chain[i].offset \in Nat /\ BlockEnd(chain[i]) \in Nat
  <2>1. /\ chain[i].offset \in Nat /\ chain[i].offset % PageSize = 0
        /\ Size(chain[i].id) \in Nat /\ PageBase(Size(chain[i].id)) \in Nat
        /\ PageBase(Size(chain[i].id)) % PageSize = 0 /\ BlockEnd(chain[i]) \in Nat
    BY ChainFacts DEF ChainInv
  <2>2. PageBase(Size(chain[i].id)) >= PageSize
    BY <2>1, PageFacts DEF ChainInv
  <2> QED
    BY <1>1, <2>1, <2>2, MultiplesApart DEF BlockEnd
<1>3. ASSUME NEW j \in DOMAIN chain PROVE BlockEnd(chain[j]) <= TotalSize(chain)
  <2>1. 1 \in DOMAIN chain /\ TotalSize(chain) = BlockEnd(chain[1]) /\ j \in Nat /\ j >= 1
    BY ChainFacts
  <2>2. CASE j = 1
    BY <1>2, <2>1, <2>2
  <2>3. CASE j > 1
    <3>1. BlockEnd(chain[j]) <= chain[1].offset
      BY <2>1, <2>3 DEF ChainInv
    <3> QED
      BY <1>1, <1>2, <2>1, <3>1
  <2> QED
    BY <2>1, <2>2, <2>3
<1>4. chain # <<>> => 1 \in DOMAIN chain /\ TotalSize(chain) = BlockEnd(chain[1])
  BY ChainFacts
<1>5. 0 % PageSize = 0
  BY <1>1, MultipleFacts
<1>6. TotalSize(chain) \in Nat /\ (chain = <<>> => TotalSize(chain) = 0)
  BY ChainFacts
<1> QED
  BY <1>1, <1>2, <1>3, <1>4, <1>5, <1>6

LEMMA PrependFacts ==
    ASSUME NEW S, NEW s \in Seq(S), NEW b \in S
    PROVE  /\ <<b>> \o s \in Seq(S) /\ Len(<<b>> \o s) = Len(s) + 1
           /\ DOMAIN (<<b>> \o s) = 1 .. Len(s) + 1 /\ <<b>> \o s # <<>>
           /\ (<<b>> \o s)[1] = b /\ \A i \in 1 .. Len(s) : (<<b>> \o s)[i + 1] = s[i]
           /\ Head(<<b>> \o s) = b
  OBVIOUS

LEMMA EmptyFacts == ASSUME NEW S, NEW s \in Seq(S) PROVE s = <<>> <=> Len(s) = 0
  OBVIOUS

LEMMA SuffixFacts ==
    ASSUME NEW S, NEW s \in Seq(S), NEW f \in 1 .. Len(s) + 1
    PROVE  LET r == SubSeq(s, f, Len(s))
           IN /\ r \in Seq(S) /\ Len(r) = Len(s) - f + 1 /\ DOMAIN r = 1 .. Len(s) - f + 1
              /\ \A i \in DOMAIN r : i + f - 1 \in DOMAIN s /\ r[i] = s[i + f - 1]
              /\ r = <<>> <=> f = Len(s) + 1
              /\ r # <<>> => Head(r) = s[f]
<1> DEFINE r == SubSeq(s, f, Len(s))
           m == Len(s) - f + 1
<1>1. m \in Nat /\ f \in Nat /\ f >= 1 /\ Len(s) \in Nat
  OBVIOUS
<1>2. r = [i \in 1 .. m |-> s[i + f - 1]]
  OBVIOUS
<1>3. \A i \in 1 .. m : i + f - 1 \in 1 .. Len(s)
  BY <1>1
<1> HIDE DEF r
<1>4. r \in Seq(S) /\ Len(r) = m /\ DOMAIN r = 1 .. m
  BY <1>1, <1>2, <1>3
<1>5. \A i \in DOMAIN r : i + f - 1 \in DOMAIN s /\ r[i] = s[i + f - 1]
  BY <1>2, <1>3, <1>4
<1>6. (r = <<>> <=> f = Len(s) + 1) /\ (r # <<>> => Head(r) = s[f])
  <2>1. r = <<>> <=> m = 0
    BY <1>4, EmptyFacts
  <2>2. r # <<>> => Head(r) = r[1] /\ 1 \in DOMAIN r
    BY <1>1, <1>4
  <2>3. r # <<>> => Head(r) = s[f]
    BY <1>1, <1>5, <2>2
  <2> QED
    BY <1>1, <2>1, <2>3
<1> QED
  BY <1>4, <1>5, <1>6 DEF r

\* What is dropped from the front: the rest is the blocks that begin below n.
LEMMA DroppedFacts ==
    ASSUME TypeOK, ChainInv, NEW n \in Nat, n <= TotalSize(chain)
    PROVE  \E f \in 1 .. Len(chain) + 1 :
              /\ Dropped(n) = SubSeq(chain, f, Len(chain))
              /\ \A j \in DOMAIN chain : chain[j].offset < n <=> j >= f
              /\ n > 0 => f \in DOMAIN chain /\ Covers(chain[f], n - 1)
<1>1. /\ Len(chain) \in Nat /\ DOMAIN chain = 1 .. Len(chain) /\ TotalSize(chain) \in Nat
      /\ \A j \in DOMAIN chain : chain[j].offset \in Nat /\ BlockEnd(chain[j]) \in Nat
  BY ChainFacts
<1> DEFINE First(i) == \A j \in DOMAIN chain : chain[j].offset < n <=> j >= i
<1>2. \E i \in 1 .. Len(chain) + 1 : First(i)
  <2>1. CASE n = 0
    <3>1. First(Len(chain) + 1)
      BY <1>1, <2>1
    <3> QED
      BY <1>1, <3>1, SMTT(30)
  <2>2. CASE n > 0
    <3>1. n - 1 \in 0 .. TotalSize(chain) - 1
      BY <1>1, <2>2
    <3>2. PICK i \in DOMAIN chain : Covers(chain[i], n - 1)
      BY <3>1 DEF ChainInv
    <3>3. ASSUME NEW j \in DOMAIN chain PROVE chain[j].offset < n <=> j >= i
      <4>1. CASE j < i
        <5>1. BlockEnd(chain[i]) <= chain[j].offset
          BY <4>1 DEF ChainInv
        <5> QED
          BY <1>1, <3>2, <4>1, <5>1 DEF Covers
      <4>2. CASE j = i
        BY <1>1, <3>2, <4>2 DEF Covers
      <4>3. CASE j > i
        <5>1. BlockEnd(chain[j]) <= chain[i].offset
          BY <4>3 DEF ChainInv
        <5>2. chain[j].offset <= BlockEnd(chain[j])
          BY ChainFacts DEF BlockEnd
        <5> QED
          BY <1>1, <3>2, <4>3, <5>1, <5>2 DEF Covers
      <4> QED
        BY <1>1, <4>1, <4>2, <4>3
    <3> QED
      BY <1>1, <3>3
  <2> QED
    BY <2>1, <2>2
<1> DEFINE f == CHOOSE i \in 1 .. Len(chain) + 1 : First(i)
<1>3. f \in 1 .. Len(chain) + 1 /\ First(f) /\ Dropped(n) = SubSeq(chain, f, Len(chain))
  BY <1>2 DEF Dropped
<1> HIDE DEF f
<1>4. n > 0 => f \in DOMAIN chain /\ Covers(chain[f], n - 1)
  <2> SUFFICES ASSUME n > 0 PROVE f \in DOMAIN chain /\ Covers(chain[f], n - 1)
    OBVIOUS
  <2>1. n - 1 \in 0 .. TotalSize(chain) - 1
    BY <1>1
  <2>2. PICK i \in DOMAIN chain : Covers(chain[i], n - 1)
    BY <2>1 DEF ChainInv
  <2>3. i >= f
    BY <1>1, <1>3, <2>2 DEF Covers
  <2>4. f \in DOMAIN chain /\ chain[f].offset < n
    BY <1>1, <1>3, <2>3
  <2>5. CASE i = f
    BY <2>2, <2>4, <2>5
  <2>6. CASE i > f
    <3>1. BlockEnd(chain[i]) <= chain[f].offset
      BY <2>4, <2>6 DEF ChainInv
    <3> QED
      BY <1>1, <2>2, <2>4, <3>1 DEF Covers
  <2> QED
    BY <1>1, <1>3, <2>3, <2>5, <2>6
<1> QED
  BY <1>3, <1>4

\* The range of a request is within the bound.
LEMMA RequestFacts ==
    ASSUME TypeOK, NEW t \in Thread, RequestInv(t)
    PROVE  /\ offset[t] \in Nat /\ length[t] \in Nat /\ done[t] \in Nat
           /\ End(t) \in Nat /\ End(t) \in Cells /\ Here(t) \in Nat /\ Here(t) <= End(t)
           /\ VirtualSize \in Nat
<1>1. offset[t] \in Nat /\ length[t] \in Nat /\ done[t] \in Nat /\ MaxSize \in Nat
      /\ VirtualSize \in Nat
  BY SizeAssumption DEF TypeOK, Cells
<1>2. offset[t] + length[t] <= MaxSize /\ done[t] <= length[t]
  BY DEF RequestInv
<1> QED
  BY <1>1, <1>2 DEF End, Here, Cells

\* A new block: the chain still covers the file, and no cell of it moves.
LEMMA GrowChain ==
    ASSUME TypeOK, ChainInv, NEW t \in Thread, RequestInv(t), AddBlock(t)
    PROVE  /\ chain' \in Seq([id : BlockId, offset : Cells])
           /\ bytes' \in [BlockId -> Seq(Value)]
           /\ ChainInv' /\ TotalSize(chain) <= TotalSize(chain)' /\ TotalSize(chain)' \in Nat
           /\ \A p \in Nat : p < TotalSize(chain) =>
                 /\ BlockOf(p)' = BlockOf(p)
                 /\ bytes'[BlockOf(p).id] = bytes[BlockOf(p).id]
<1> DEFINE tail == chain
           total == TotalSize(chain)
           m == Len(chain)
<1>1. PICK n \in PageSize .. Wanted(t) :
         LET b == CHOOSE c \in BlockId \ Used : TRUE
         IN /\ chain' = <<[id |-> b, offset |-> total]>> \o chain
            /\ bytes' = [bytes EXCEPT ![b] = [i \in 1 .. n |-> Fresh]]
  BY DEF AddBlock
<1> DEFINE b == CHOOSE c \in BlockId \ Used : TRUE
           new == [id |-> b, offset |-> total]
           memory == [i \in 1 .. n |-> Fresh]
<1>2. /\ chain \in Seq([id : BlockId, offset : Cells]) /\ m \in Nat /\ DOMAIN chain = 1 .. m
      /\ total \in Nat
      /\ \A i \in DOMAIN chain : chain[i].id \in BlockId /\ chain[i].offset \in Nat
                                 /\ BlockEnd(chain[i]) \in Nat
  BY ChainFacts
<1>3. b \in BlockId /\ b \notin Used
  <2>1. Used \subseteq BlockId
    BY <1>2 DEF Used
  <2>2. Used # BlockId
    BY DEF AddBlock
  <2> QED
    BY <2>1, <2>2
<1>4. n \in Nat /\ n >= PageSize
  BY SizeAssumption
<1>5. memory \in Seq(Value) /\ Len(memory) = n
  BY <1>4, FreshAssumption
<1>6. /\ bytes' \in [BlockId -> Seq(Value)] /\ bytes'[b] = memory
      /\ \A c \in BlockId : c # b => bytes'[c] = bytes[c]
  BY <1>1, <1>3, <1>5 DEF TypeOK
<1>7. new \in [id : BlockId, offset : Cells] /\ new.id = b /\ new.offset = total
  BY <1>2, <1>3, RequestFacts, SizeAssumption DEF AddBlock, Cells
<1> HIDE DEF b, memory, total, m
<1>8. /\ chain' \in Seq([id : BlockId, offset : Cells]) /\ Len(chain') = m + 1
      /\ DOMAIN chain' = 1 .. m + 1 /\ chain' # <<>> /\ Head(chain') = new
      /\ chain'[1] = new /\ \A i \in 1 .. m : chain'[i + 1] = chain[i]
  <2>1. chain' = <<new>> \o chain
    BY <1>1 DEF b, total
  <2> HIDE DEF new
  <2> QED
    BY <1>2, <1>7, <2>1, PrependFacts DEF m
<1>9. \A i \in DOMAIN chain : bytes'[chain[i].id] = bytes[chain[i].id] /\ chain[i].id # b
  BY <1>2, <1>3, <1>6 DEF Used
<1>10. \A i \in DOMAIN chain : BlockEnd(chain[i + 1])' = BlockEnd(chain[i])
                               /\ Size(chain[i + 1].id)' = Size(chain[i].id)
  BY <1>2, <1>8, <1>9 DEF BlockEnd, Size
<1>11. /\ Size(chain[1].id)' = n /\ BlockEnd(chain[1])' = total + PageBase(n)
       /\ TotalSize(chain)' = total + PageBase(n)
  BY <1>5, <1>6, <1>7, <1>8 DEF BlockEnd, Size, TotalSize
<1>12. PageBase(n) \in Nat
  BY <1>4, PageFacts
<1>13. \A i \in DOMAIN chain' : i = 1 \/ (i - 1 \in DOMAIN chain /\ chain'[i] = chain[i - 1]
                                          /\ BlockEnd(chain[i])' = BlockEnd(chain[i - 1])
                                          /\ Size(chain[i].id)' = Size(chain[i - 1].id))
  <2> SUFFICES ASSUME NEW i \in DOMAIN chain', i # 1
               PROVE  i - 1 \in DOMAIN chain /\ chain'[i] = chain[i - 1]
                      /\ BlockEnd(chain[i])' = BlockEnd(chain[i - 1])
                      /\ Size(chain[i].id)' = Size(chain[i - 1].id)
    OBVIOUS
  <2>1. i - 1 \in DOMAIN chain /\ (i - 1) + 1 = i
    BY <1>2, <1>8
  <2>2. chain'[(i - 1) + 1] = chain[i - 1]
    BY <1>2, <1>8, <2>1
  <2> QED
    BY <1>10, <2>1, <2>2
<1>14. VirtualSize' = VirtualSize /\ VirtualSize <= total
  BY DEF AddBlock, ChainInv, total
<1>15. ChainInv'
  <2>1. ASSUME NEW i \in DOMAIN chain'
        PROVE  chain'[i].offset % PageSize = 0 /\ Size(chain[i].id)' >= PageSize
    BY <1>4, <1>7, <1>8, <1>11, <1>13, ChainEnds DEF ChainInv, total
  <2>2. ASSUME NEW i \in DOMAIN chain', NEW j \in DOMAIN chain', i < j
        PROVE  BlockEnd(chain[j])' <= chain'[i].offset /\ chain'[i].id # chain'[j].id
    <3>1. j # 1
      BY <1>2, <1>8, <2>2
    <3>2. j - 1 \in DOMAIN chain /\ chain'[j] = chain[j - 1]
          /\ BlockEnd(chain[j])' = BlockEnd(chain[j - 1])
      BY <1>13, <3>1
    <3>3. CASE i = 1
      BY <1>7, <1>8, <1>9, <3>2, <3>3, ChainEnds DEF total
    <3>4. CASE i # 1
      <4>1. i - 1 \in DOMAIN chain /\ chain'[i] = chain[i - 1] /\ i - 1 < j - 1
        BY <1>2, <1>8, <1>13, <2>2, <3>4
      <4> QED
        BY <3>2, <4>1 DEF ChainInv
    <3> QED
      BY <3>3, <3>4
  <2>3. ASSUME NEW p \in 0 .. TotalSize(chain)' - 1
        PROVE  \E j \in DOMAIN chain' : Covers(chain[j], p)'
    <3>1. CASE p < total
      <4>1. p \in 0 .. total - 1
        BY <1>2, <1>11, <1>12, <3>1
      <4>2. PICK j \in DOMAIN chain : Covers(chain[j], p)
        BY <4>1 DEF ChainInv, total
      <4>3. j + 1 \in DOMAIN chain' /\ chain'[j + 1] = chain[j]
        BY <1>2, <1>8
      <4> QED
        BY <1>10, <4>2, <4>3 DEF Covers
    <3>2. CASE p >= total
      <4>1. Covers(chain[1], p)' /\ 1 \in DOMAIN chain'
        BY <1>2, <1>7, <1>8, <1>11, <1>12, <3>2 DEF Covers
      <4> QED
        BY <4>1
    <3> QED
      BY <1>2, <1>11, <1>12, <3>1, <3>2
  <2>4. VirtualSize' <= TotalSize(chain)'
    BY <1>2, <1>11, <1>12, <1>14, SizeAssumption DEF TypeOK, Cells
  <2> QED
    BY <2>1, <2>2, <2>3, <2>4 DEF ChainInv
<1>16. ASSUME NEW p \in Nat, p < total
       PROVE  BlockOf(p)' = BlockOf(p) /\ bytes'[BlockOf(p).id] = bytes[BlockOf(p).id]
  <2>1. PICK j \in DOMAIN chain : Covers(chain[j], p)
    BY <1>2, <1>16 DEF ChainInv, total
  <2>2. BlockOf(p) = chain[j] /\ \A k \in 1 .. j - 1 : chain[k].offset > p
    BY <2>1, BlockFacts
  <2>3. j + 1 \in DOMAIN chain' /\ chain'[j + 1] = chain[j] /\ chain'[j + 1].offset <= p
    BY <1>2, <1>8, <2>1 DEF Covers
  <2>4. \A k \in 1 .. (j + 1) - 1 : chain'[k].offset > p
    <3> SUFFICES ASSUME NEW k \in 1 .. (j + 1) - 1 PROVE chain'[k].offset > p
      OBVIOUS
    <3>1. CASE k = 1
      BY <1>2, <1>7, <1>8, <1>16, <3>1
    <3>2. CASE k # 1
      <4>1. k - 1 \in 1 .. j - 1 /\ chain'[k] = chain[k - 1]
        <5>1. k \in DOMAIN chain' /\ k - 1 \in 1 .. j - 1
          BY <1>2, <1>8, <3>2
        <5> QED
          BY <1>13, <3>2, <5>1
      <4> QED
        BY <2>2, <4>1
    <3> QED
      BY <3>1, <3>2
  <2>5. \A i \in DOMAIN chain' : chain'[i].offset \in Int
    BY <1>2, <1>7, <1>8, <1>13
  <2>6. BlockOf(p)' = chain'[j + 1]
    <3> DEFINE ch == chain'
    <3>1. DOMAIN ch = 1 .. m + 1 /\ m + 1 \in Nat /\ j + 1 \in DOMAIN ch
          /\ (\A i \in DOMAIN ch : ch[i].offset \in Int) /\ ch[j + 1].offset <= p
          /\ \A k \in 1 .. (j + 1) - 1 : ch[k].offset > p
      BY <1>2, <1>8, <2>3, <2>4, <2>5
    <3>2. BlockOf(p)' = ch[CHOOSE i \in DOMAIN ch : /\ ch[i].offset <= p
                                                    /\ \A k \in 1 .. i - 1 : ch[k].offset > p]
      BY DEF BlockOf
    <3> HIDE DEF ch
    <3>3. (CHOOSE i \in DOMAIN ch : /\ ch[i].offset <= p
                                    /\ \A k \in 1 .. i - 1 : ch[k].offset > p) = j + 1
      BY <3>1, ChosenBlock
    <3> QED
      BY <3>2, <3>3 DEF ch
  <2> QED
    BY <1>9, <2>2, <2>3, <2>6
<1> QED
  BY <1>2, <1>6, <1>8, <1>11, <1>12, <1>15, <1>16 DEF total

\* A smaller file, or one that is as long as its blocks allow: what is below the new end stays.
LEMMA ShrinkChain ==
    ASSUME TypeOK, ChainInv, NEW t \in Thread, RequestInv(t), Shrink(t)
    PROVE  /\ chain' \in Seq([id : BlockId, offset : Cells])
           /\ bytes' \in [BlockId -> Seq(Value)]
           /\ ChainInv' /\ VirtualSize' = End(t)
           /\ \A p \in Nat : p < End(t) =>
                 /\ BlockOf(p)' = BlockOf(p)
                 /\ bytes'[BlockOf(p).id] = bytes[BlockOf(p).id]
<1> DEFINE n == End(t)
           m == Len(chain)
<1>1. /\ chain \in Seq([id : BlockId, offset : Cells]) /\ m \in Nat /\ DOMAIN chain = 1 .. m
      /\ TotalSize(chain) \in Nat
      /\ \A i \in DOMAIN chain : chain[i].id \in BlockId /\ chain[i].offset \in Nat
                                 /\ BlockEnd(chain[i]) \in Nat
  BY ChainFacts
<1>2. n \in Nat /\ n <= TotalSize(chain) /\ VirtualSize' = n
  BY <1>1, RequestFacts DEF Shrink
<1>3. CASE ~(TotalSize(chain) - n >= PageSize)
  <2>1. chain' = chain /\ bytes' = bytes
    BY <1>3 DEF Shrink
  <2>2. ChainInv'
    BY <1>2, <2>1 DEF ChainInv, BlockEnd, Covers, Size, TotalSize
  <2> QED
    BY <1>2, <2>1, <2>2 DEF BlockOf, TypeOK
<1>4. CASE TotalSize(chain) - n >= PageSize
  <2>1. chain' = Dropped(n)
        /\ bytes' = [b \in BlockId |-> IF \E c \in Range(Dropped(n)) : c.id = b
                                       THEN bytes[b] ELSE <<>>]
    BY <1>4 DEF Shrink
  <2> HIDE DEF n, m
  <2>2. PICK f \in 1 .. m + 1 :
              /\ Dropped(n) = SubSeq(chain, f, m)
              /\ \A j \in DOMAIN chain : chain[j].offset < n <=> j >= f
              /\ n > 0 => f \in DOMAIN chain /\ Covers(chain[f], n - 1)
    BY <1>2, DroppedFacts DEF m
  <2>3. /\ chain' \in Seq([id : BlockId, offset : Cells]) /\ Len(chain') = m - f + 1
        /\ DOMAIN chain' = 1 .. m - f + 1
        /\ \A i \in DOMAIN chain' : i + f - 1 \in DOMAIN chain /\ chain'[i] = chain[i + f - 1]
        /\ (chain' = <<>> <=> f = m + 1) /\ (chain' # <<>> => Head(chain') = chain[f])
    <3> DEFINE S == [id : BlockId, offset : Cells]
    <3>1. chain \in Seq(S) /\ f \in 1 .. Len(chain) + 1
      BY <1>1, <2>2 DEF m
    <3>2. chain' = SubSeq(chain, f, Len(chain))
      BY <2>1, <2>2 DEF m
    <3> HIDE DEF S
    <3>3. /\ chain' \in Seq(S) /\ Len(chain') = Len(chain) - f + 1
          /\ DOMAIN chain' = 1 .. Len(chain) - f + 1
          /\ \A i \in DOMAIN chain' : i + f - 1 \in DOMAIN chain /\ chain'[i] = chain[i + f - 1]
          /\ chain' = <<>> <=> f = Len(chain) + 1
          /\ chain' # <<>> => Head(chain') = chain[f]
      <4> DEFINE s == chain
      <4>1. s \in Seq(S) /\ f \in 1 .. Len(s) + 1 /\ chain' = SubSeq(s, f, Len(s))
        BY <3>1, <3>2
      <4> HIDE DEF s
      <4>2. LET r == SubSeq(s, f, Len(s))
            IN /\ r \in Seq(S) /\ Len(r) = Len(s) - f + 1 /\ DOMAIN r = 1 .. Len(s) - f + 1
               /\ \A i \in DOMAIN r : i + f - 1 \in DOMAIN s /\ r[i] = s[i + f - 1]
               /\ r = <<>> <=> f = Len(s) + 1
               /\ r # <<>> => Head(r) = s[f]
        BY <4>1, SuffixFacts, Zenon
      <4> QED
        BY <4>1, <4>2, Zenon DEF s
    <3> QED
      BY <3>3 DEF S, m
  <2>4. \A i \in DOMAIN chain' : bytes'[chain'[i].id] = bytes[chain'[i].id]
    <3> SUFFICES ASSUME NEW i \in DOMAIN chain' PROVE bytes'[chain'[i].id] = bytes[chain'[i].id]
      OBVIOUS
    <3>1. chain'[i] \in Range(Dropped(n)) /\ chain'[i].id \in BlockId
      BY <1>1, <2>1, <2>3 DEF Range
    <3> QED
      BY <2>1, <3>1
  <2>5. bytes' \in [BlockId -> Seq(Value)]
    <3>1. <<>> \in Seq(Value)
      OBVIOUS
    <3> QED
      BY <2>1, <3>1 DEF TypeOK
  <2>6. \A i \in DOMAIN chain' : BlockEnd(chain[i])' = BlockEnd(chain[i + f - 1])
                                 /\ Size(chain[i].id)' = Size(chain[i + f - 1].id)
    BY <2>3, <2>4 DEF BlockEnd, Size
  <2>7. \A j \in DOMAIN chain : j >= f => j - f + 1 \in DOMAIN chain' /\ chain'[j - f + 1] = chain[j]
                                          /\ BlockEnd(chain[j - f + 1])' = BlockEnd(chain[j])
    <3> SUFFICES ASSUME NEW j \in DOMAIN chain, j >= f
                 PROVE  j - f + 1 \in DOMAIN chain' /\ chain'[j - f + 1] = chain[j]
                        /\ BlockEnd(chain[j - f + 1])' = BlockEnd(chain[j])
      OBVIOUS
    <3>1. j - f + 1 \in DOMAIN chain' /\ (j - f + 1) + f - 1 = j
      BY <1>1, <2>3
    <3> QED
      BY <2>3, <2>6, <3>1
  <2>8. TotalSize(chain)' = IF f = m + 1 THEN 0 ELSE BlockEnd(chain[f])
    <3>1. CASE f = m + 1
      BY <2>3, <3>1 DEF TotalSize
    <3>2. CASE f # m + 1
      <4>1. f \in DOMAIN chain /\ Head(chain') = chain[f] /\ chain' # <<>> /\ 1 \in DOMAIN chain'
            /\ chain'[1] = chain[f] /\ bytes'[chain[f].id] = bytes[chain[f].id]
        <5>1. f \in DOMAIN chain /\ 1 \in DOMAIN chain' /\ 1 + f - 1 = f
          BY <1>1, <2>3, <3>2
        <5>2. chain' # <<>> /\ Head(chain') = chain[f]
          BY <2>3, <3>2
        <5>3. chain'[1] = chain[f] /\ bytes'[chain'[1].id] = bytes[chain'[1].id]
          BY <2>3, <2>4, <5>1
        <5> QED
          BY <5>1, <5>2, <5>3
      <4> QED
        BY <3>2, <4>1 DEF TotalSize, BlockEnd, Size
    <3> QED
      BY <3>1, <3>2
  <2>9. ChainInv'
    <3>1. ASSUME NEW i \in DOMAIN chain'
          PROVE  chain'[i].offset % PageSize = 0 /\ Size(chain[i].id)' >= PageSize
      BY <2>3, <2>6 DEF ChainInv
    <3>2. ASSUME NEW i \in DOMAIN chain', NEW j \in DOMAIN chain', i < j
          PROVE  BlockEnd(chain[j])' <= chain'[i].offset /\ chain'[i].id # chain'[j].id
      <4>1. i + f - 1 \in DOMAIN chain /\ j + f - 1 \in DOMAIN chain /\ i + f - 1 < j + f - 1
        BY <1>1, <2>3, <3>2
      <4> QED
        BY <2>3, <2>6, <4>1 DEF ChainInv
    <3>3. ASSUME NEW p \in 0 .. TotalSize(chain)' - 1
          PROVE  \E j \in DOMAIN chain' : Covers(chain[j], p)'
      <4>1. f \in DOMAIN chain /\ p \in Nat /\ p < BlockEnd(chain[f])
        BY <1>1, <2>8, <3>3
      <4>2. p \in 0 .. TotalSize(chain) - 1
        BY <1>1, <4>1, ChainEnds
      <4>3. PICK j \in DOMAIN chain : Covers(chain[j], p)
        BY <4>2 DEF ChainInv
      <4>4. j >= f
        <5> SUFFICES ASSUME j < f PROVE FALSE
          BY <1>1, <4>1
        <5>1. BlockEnd(chain[f]) <= chain[j].offset
          BY <4>1 DEF ChainInv
        <5> QED
          BY <1>1, <4>1, <4>3, <5>1 DEF Covers
      <4>5. j - f + 1 \in DOMAIN chain' /\ Covers(chain[j - f + 1], p)'
        BY <2>7, <4>3, <4>4 DEF Covers
      <4> QED
        BY <4>5
    <3>4. VirtualSize' <= TotalSize(chain)'
      <4>1. CASE n = 0
        <5>1. f = m + 1 \/ f \in DOMAIN chain
          BY <1>1
        <5> QED
          BY <1>1, <1>2, <2>8, <4>1, <5>1
      <4>2. CASE n > 0
        <5>1. f \in DOMAIN chain /\ n - 1 < BlockEnd(chain[f])
          BY <2>2, <4>2 DEF Covers
        <5> QED
          BY <1>1, <1>2, <2>8, <5>1
      <4> QED
        BY <1>2, <4>1, <4>2
    <3> QED
      BY <3>1, <3>2, <3>3, <3>4 DEF ChainInv
  <2>10. ASSUME NEW p \in Nat, p < n
         PROVE  BlockOf(p)' = BlockOf(p) /\ bytes'[BlockOf(p).id] = bytes[BlockOf(p).id]
    <3>1. p \in 0 .. TotalSize(chain) - 1
      BY <1>1, <1>2, <2>10
    <3>2. PICK j \in DOMAIN chain : Covers(chain[j], p)
      BY <3>1 DEF ChainInv
    <3>3. BlockOf(p) = chain[j] /\ \A k \in 1 .. j - 1 : chain[k].offset > p
      BY <3>2, BlockFacts
    <3>4. j >= f /\ chain[j].offset <= p
      BY <1>1, <1>2, <2>2, <2>10, <3>2 DEF Covers
    <3>5. j - f + 1 \in DOMAIN chain' /\ chain'[j - f + 1] = chain[j]
      BY <2>7, <3>4
    <3>6. \A k \in 1 .. (j - f + 1) - 1 : chain'[k].offset > p
      <4> SUFFICES ASSUME NEW k \in 1 .. (j - f + 1) - 1 PROVE chain'[k].offset > p
        OBVIOUS
      <4>1. k \in DOMAIN chain' /\ k + f - 1 \in 1 .. j - 1
        BY <1>1, <2>3, <3>4
      <4> QED
        BY <2>3, <3>3, <4>1
    <3>7. BlockOf(p)' = chain'[j - f + 1]
      <4> DEFINE ch == chain'
                 top == m - f + 1
      <4>1. DOMAIN ch = 1 .. top /\ top \in Nat /\ j - f + 1 \in DOMAIN ch
            /\ (\A i \in DOMAIN ch : ch[i].offset \in Int) /\ ch[j - f + 1].offset <= p
            /\ \A k \in 1 .. (j - f + 1) - 1 : ch[k].offset > p
        <5>1. top \in Nat /\ DOMAIN ch = 1 .. top
          BY <1>1, <2>3
        <5>2. \A i \in DOMAIN ch : ch[i].offset \in Int
          BY <1>1, <2>3
        <5> QED
          BY <3>4, <3>5, <3>6, <5>1, <5>2
      <4>2. BlockOf(p)' = ch[CHOOSE i \in DOMAIN ch : /\ ch[i].offset <= p
                                                      /\ \A k \in 1 .. i - 1 : ch[k].offset > p]
        BY DEF BlockOf
      <4> HIDE DEF ch, top
      <4>3. (CHOOSE i \in DOMAIN ch : /\ ch[i].offset <= p
                                      /\ \A k \in 1 .. i - 1 : ch[k].offset > p) = j - f + 1
        BY <4>1, ChosenBlock
      <4> QED
        BY <4>2, <4>3 DEF ch
    <3> QED
      BY <2>4, <3>3, <3>5, <3>7
  <2> QED
    BY <1>2, <2>3, <2>5, <2>9, <2>10 DEF n
<1> QED
  BY <1>3, <1>4

-----------------------------------------------------------------------------
(* Mappings. *)

\* The page of a cell of the file lies in one block, and is where its mapping says.
LEMMA PageOf ==
    ASSUME TypeOK, ChainInv, NEW p \in Nat, p < TotalSize(chain)
    PROVE  LET b == BlockOf(PageBase(p)) IN
           /\ b = BlockOf(p) /\ b.id \in Used /\ b.id \in BlockId /\ b.offset \in Nat
           /\ PageBase(p) - b.offset \in Nat
           /\ PageBase(p) - b.offset + PageSize <= Size(b.id)
<1>1. p \in 0 .. TotalSize(chain) - 1
  BY ChainFacts
<1>2. PICK j \in DOMAIN chain : Covers(chain[j], p)
  BY <1>1 DEF ChainInv
<1>3. chain[j].id \in BlockId /\ chain[j].offset \in Nat /\ chain[j].id \in Used
  BY ChainFacts DEF Used
<1> QED
  BY <1>2, <1>3, BlockFacts

LEMMA MappingFacts ==
    ASSUME TypeOK, ChainInv, NEW m, Live(m), m # Unmapped
    PROVE  /\ m = MapBlock(m.base) /\ m.id = BlockOf(m.base).id
           /\ m.at = m.base - BlockOf(m.base).offset
           /\ m.base \in Nat /\ PageBase(m.base) = m.base /\ m.base < TotalSize(chain)
           /\ m.id \in Used /\ m.id \in BlockId
           /\ m.at \in Nat /\ m.at + PageSize <= Size(m.id)
<1>1. m.base \in Nat /\ m.base % PageSize = 0 /\ m.base < TotalSize(chain)
      /\ m = MapBlock(m.base)
  BY DEF Live
<1>2. PageBase(m.base) = m.base
  BY <1>1 DEF PageBase
<1>3. m.id = BlockOf(m.base).id /\ m.at = m.base - BlockOf(m.base).offset
  BY <1>1 DEF MapBlock
<1> QED
  BY <1>1, <1>2, <1>3, PageOf

\* The step from "map": the page is that of a cell of the file.
LEMMA HereFacts ==
    ASSUME TypeOK, ChainInv, NEW t \in Thread, RequestInv(t), pc[t] \in {"map", "copy"},
           done[t] < length[t]
    PROVE  LET base == PageBase(Here(t)) IN
           /\ Here(t) \in Nat /\ Here(t) < End(t) /\ End(t) <= VirtualSize
           /\ Here(t) < TotalSize(chain)
           /\ base \in Nat /\ base \in Cells /\ base < TotalSize(chain) /\ base % PageSize = 0
           /\ PageBase(base) = base /\ Live(MapBlock(base)) /\ MapBlock(base) \in Mapping
           /\ MapBlock(base) # Unmapped
<1> DEFINE base == PageBase(Here(t))
<1>1. /\ Here(t) \in Nat /\ Here(t) < End(t) /\ End(t) <= VirtualSize
      /\ End(t) \in Cells /\ End(t) \in Nat
      /\ VirtualSize <= TotalSize(chain) /\ TotalSize(chain) \in Nat /\ VirtualSize \in Nat
  BY RequestFacts, ChainFacts DEF RequestInv, ChainInv, End, Here
<1>2. /\ base \in Nat /\ base <= Here(t) /\ base % PageSize = 0
  BY <1>1, PageFacts
<1> HIDE DEF base
<1>3. base < TotalSize(chain) /\ base \in Cells /\ PageBase(base) = base
  <2>1. base < TotalSize(chain) /\ base <= MaxSize
    BY <1>1, <1>2, SizeAssumption DEF Cells
  <2>2. PageBase(base) = base
    BY <1>2 DEF PageBase
  <2> QED
    BY <1>2, <2>1, <2>2, SizeAssumption DEF Cells
<1>4. BlockOf(base).id \in BlockId /\ BlockOf(base).offset \in Nat
      /\ base - BlockOf(base).offset \in Nat
  BY <1>2, <1>3, PageOf
<1>5. base - BlockOf(base).offset \in Cells
  BY <1>3, <1>4, SizeAssumption DEF Cells
<1>6. MapBlock(base) \in Mapping /\ MapBlock(base) # Unmapped
  BY <1>2, <1>3, <1>4, <1>5 DEF MapBlock, Mapping, Unmapped
<1>7. Live(MapBlock(base))
  BY <1>2, <1>3 DEF Live, MapBlock
<1>8. /\ base \in Nat /\ base \in Cells /\ base < TotalSize(chain) /\ base % PageSize = 0
      /\ PageBase(base) = base /\ Live(MapBlock(base)) /\ MapBlock(base) \in Mapping
      /\ MapBlock(base) # Unmapped
  BY <1>2, <1>3, <1>6, <1>7
<1>9. Here(t) < TotalSize(chain)
  BY <1>1
<1> QED
  BY <1>1, <1>8, <1>9, Zenon DEF base

\* What is copied in one step: at least a cell, and within the page that is mapped.
LEMMA ChunkFacts ==
    ASSUME TypeOK, ChainInv, MapInv, NEW t \in Thread, RequestInv(t), pc[t] = "copy"
    PROVE  /\ Chunk(t) \in Nat /\ Chunk(t) >= 1 /\ done[t] + Chunk(t) <= length[t]
           /\ Here(t) + Chunk(t) <= End(t)
           /\ Here(t) + Chunk(t) <= PageBase(Here(t)) + PageSize
           /\ page[t] # Unmapped /\ page[t].base = PageBase(Here(t))
           /\ page[t] = MapBlock(PageBase(Here(t)))
           /\ page[t].id = BlockOf(Here(t)).id /\ page[t].id \in BlockId /\ page[t].id \in Used
           /\ Place(t) = Here(t) - BlockOf(Here(t)).offset /\ Place(t) \in Nat
           /\ Place(t) + Chunk(t) <= Size(page[t].id)
<1>1. done[t] < length[t] /\ page[t].base = PageBase(Here(t)) /\ Live(page[t])
  BY DEF RequestInv, MapInv
<1>2. /\ offset[t] \in Nat /\ length[t] \in Nat /\ done[t] \in Nat /\ Here(t) \in Nat
      /\ PageBase(Here(t)) \in Nat /\ Here(t) < TotalSize(chain)
      /\ Here(t) = PageBase(Here(t)) + (Here(t) % PageSize)
      /\ Here(t) % PageSize \in 0 .. PageSize - 1 /\ PageSize \in Nat \ {0}
  BY <1>1, RequestFacts, HereFacts, PageFacts, SizeAssumption
<1>3. page[t] # Unmapped
  BY <1>1, <1>2 DEF Unmapped
<1>4. /\ Chunk(t) \in Nat /\ Chunk(t) >= 1 /\ Chunk(t) <= length[t] - done[t]
      /\ Chunk(t) <= PageSize - (Here(t) % PageSize)
  BY <1>1, <1>2 DEF Chunk
<1>5. done[t] + Chunk(t) <= length[t] /\ Here(t) + Chunk(t) <= End(t)
      /\ Here(t) + Chunk(t) <= PageBase(Here(t)) + PageSize
  <2>1. Here(t) = offset[t] + done[t] /\ End(t) = offset[t] + length[t]
    BY DEF Here, End
  <2> QED
    BY <1>2, <1>4, <2>1
<1>6. /\ page[t] = MapBlock(page[t].base) /\ page[t].id = BlockOf(page[t].base).id
      /\ page[t].at = page[t].base - BlockOf(page[t].base).offset
      /\ page[t].id \in Used /\ page[t].id \in BlockId
      /\ page[t].at \in Nat /\ page[t].at + PageSize <= Size(page[t].id)
  BY <1>1, <1>3, MappingFacts
<1>7. BlockOf(Here(t)) = BlockOf(PageBase(Here(t))) /\ BlockOf(Here(t)).offset \in Nat
  BY <1>2, PageOf
<1>8. Size(page[t].id) \in Nat
  BY <1>6 DEF Size, TypeOK
<1>9. Place(t) = page[t].at + (Here(t) % PageSize)
  BY DEF Place
<1> QED
  BY <1>1, <1>2, <1>3, <1>4, <1>5, <1>6, <1>7, <1>8, <1>9

-----------------------------------------------------------------------------
(* Every step keeps the chain. *)

LEMMA SameChain ==
    ASSUME TypeOK, ChainInv, chain' = chain, VirtualSize' = VirtualSize,
           \A b \in BlockId : Len(bytes'[b]) = Len(bytes[b])
    PROVE  ChainInv' /\ TotalSize(chain)' = TotalSize(chain)
<1>1. \A i \in DOMAIN chain : chain[i].id \in BlockId
  BY ChainFacts
<1>2. \A i \in DOMAIN chain : Size(chain[i].id)' = Size(chain[i].id)
  BY <1>1 DEF Size
<1>3. \A i \in DOMAIN chain : BlockEnd(chain[i])' = BlockEnd(chain[i])
  BY <1>2 DEF BlockEnd
<1>4. TotalSize(chain)' = TotalSize(chain)
  <2>1. chain # <<>> => 1 \in DOMAIN chain /\ Head(chain) = chain[1]
    BY ChainFacts DEF TypeOK
  <2> QED
    BY <1>2, <2>1 DEF TotalSize
<1> QED
  BY <1>2, <1>3, <1>4 DEF ChainInv, Covers

LEMMA CopyFacts ==
    ASSUME TypeOK, NEW t \in Thread, Copy(t)
    PROVE  /\ bytes' \in [BlockId -> Seq(Value)]
           /\ \A b \in BlockId : Len(bytes'[b]) = Len(bytes[b])
<1>1. CASE op[t] = "read"
  BY <1>1 DEF Copy, TypeOK
<1>2. CASE op[t] # "read"
  <2> DEFINE c == page[t].id
             cells == Place(t) + 1 .. Place(t) + Chunk(t)
             new == [i \in DOMAIN bytes[c] |-> IF i \in cells THEN value[t] ELSE bytes[c][i]]
  <2>1. bytes' = [bytes EXCEPT ![c] = new]
    BY <1>2 DEF Copy
  <2> HIDE DEF c
  <2>2. ASSUME c \in BlockId PROVE new \in Seq(Value) /\ Len(new) = Len(bytes[c])
    <3>1. bytes[c] \in Seq(Value) /\ value[t] \in Value
      BY <2>2 DEF TypeOK
    <3> DEFINE s == bytes[c]
               n == Len(s)
    <3>2. n \in Nat /\ DOMAIN s = 1 .. n /\ s \in Seq(Value)
      BY <3>1
    <3> HIDE DEF s, n, cells
    <3>3. [i \in 1 .. n |-> IF i \in cells THEN value[t] ELSE s[i]] \in [1 .. n -> Value]
      BY <3>1, <3>2, ElementFacts
    <3>4. new = [i \in 1 .. n |-> IF i \in cells THEN value[t] ELSE s[i]]
      BY <3>2 DEF s
    <3> HIDE DEF new
    <3>5. new \in [1 .. n -> Value]
      BY <3>3, <3>4
    <3>6. new \in Seq(Value) /\ Len(new) = n
      BY <3>2, <3>5
    <3> QED
      BY <3>6 DEF n, s
  <2> HIDE DEF new
  <2> QED
    BY <2>1, <2>2 DEF TypeOK
<1> QED
  BY <1>1, <1>2

\* The steps that leave the chain and its memory alone are all but three.
LEMMA ChainChanges ==
    ASSUME NEW t \in Thread, Act(t)
    PROVE  Shrink(t) \/ AddBlock(t) \/ Copy(t) \/ UNCHANGED <<chain, bytes, VirtualSize>>
<1> USE DEF shared, lock, request
<1>1. CASE (\E n \in Cells : Create(t, n) \/ SetEndOfFile(t, n)) \/ Upgrade(t)
  BY <1>1 DEF Create, SetEndOfFile, Upgrade
<1>2. CASE \/ \E o, n \in Nat : o < MaxSize /\ n > 0 /\ o + n <= MaxSize /\ Read(t, o, n)
           \/ \E o, n \in Nat, v \in Value :
                 o < MaxSize /\ n > 0 /\ o + n <= MaxSize /\ Write(t, o, n, v)
  BY <1>2 DEF Read, Write
<1>3. CASE NoMemory(t) \/ MapPage(t) \/ MapFails(t) \/ LoadFails(t)
  BY <1>3 DEF NoMemory, MapPage, MapFails, LoadFails
<1>4. CASE StorePage(t) \/ Complete(t)
  BY <1>4 DEF StorePage, Complete
<1> QED
  BY <1>1, <1>2, <1>3, <1>4 DEF Act

\* The chain of a closed file is empty: its blocks have gone, or there was none.
LEMMA CloseFacts ==
    ASSUME TypeOK, ChainInv, Close
    PROVE  chain' = <<>> /\ bytes' \in [BlockId -> Seq(Value)] /\ VirtualSize' = 0
           /\ TotalSize(chain)' = 0 /\ (Latest' = Unmapped \/ (Latest' = Latest /\ chain = <<>>))
<1>1. TotalSize(chain) \in Nat /\ PageSize \in Nat
  BY ChainFacts, SizeAssumption
<1>2. ~(TotalSize(chain) >= PageSize) => chain = <<>>
  BY ChainEnds
<1>3. <<>> \in Seq(Value)
  OBVIOUS
<1> QED
  BY <1>1, <1>2, <1>3 DEF Close, TotalSize, TypeOK

LEMMA StepChain ==
    ASSUME TypeOK, ChainInv, PhaseInv, [Next]_vars
    PROVE  ChainInv' /\ chain' \in Seq([id : BlockId, offset : Cells])
           /\ bytes' \in [BlockId -> Seq(Value)]
<1>1. CASE UNCHANGED <<chain, bytes, VirtualSize>>
  <2>1. chain' = chain /\ bytes' = bytes /\ VirtualSize' = VirtualSize
    BY <1>1
  <2> QED
    BY <2>1, SameChain DEF TypeOK
<1>2. CASE Close
  <2>1. chain' = <<>> /\ VirtualSize' = 0 /\ TotalSize(chain)' = 0
    BY <1>2, CloseFacts
  <2>2. DOMAIN chain' = {} /\ chain' \in Seq([id : BlockId, offset : Cells])
    BY <2>1
  <2> QED
    BY <1>2, <2>1, <2>2, CloseFacts DEF ChainInv
<1>3. ASSUME NEW t \in Thread, Act(t)
      PROVE  ChainInv' /\ chain' \in Seq([id : BlockId, offset : Cells])
             /\ bytes' \in [BlockId -> Seq(Value)]
  <2>0. RequestInv(t)
    BY DEF PhaseInv
  <2>1. CASE Shrink(t)
    BY <2>0, <2>1, ShrinkChain
  <2>2. CASE AddBlock(t)
    BY <2>0, <2>2, GrowChain
  <2>3. CASE Copy(t)
    <3>1. chain' = chain /\ VirtualSize' = VirtualSize
      BY <2>3 DEF Copy
    <3> QED
      BY <2>3, <3>1, CopyFacts, SameChain DEF TypeOK
  <2> QED
    BY <1>1, <1>3, <2>1, <2>2, <2>3, ChainChanges
<1>4. CASE UNCHANGED vars
  BY <1>1, <1>4 DEF vars, shared
<1> QED
  BY <1>2, <1>3, <1>4, StepCases

-----------------------------------------------------------------------------
(* Every step keeps the mappings, or drops them with their blocks. *)

\* A mapping that was good is good while its page is where it was.
LEMMA LiveStays ==
    ASSUME \A p \in Nat : p < TotalSize(chain) => BlockOf(p)' = BlockOf(p),
           TotalSize(chain) \in Nat, TotalSize(chain)' \in Nat,
           TotalSize(chain) <= TotalSize(chain)'
    PROVE  /\ Latest' = Latest /\ Live(Latest) => Live(Latest)'
           /\ \A t \in Thread : page'[t] = page[t] /\ Live(page[t]) => Live(page[t])'
           /\ \A t \in Thread : Latest' = page[t] /\ Live(page[t]) => Live(Latest)'
           /\ \A t \in Thread : page'[t] = Latest /\ Live(Latest) => Live(page[t])'
           /\ \A t \in Thread, base \in Nat :
                 page'[t] = MapBlock(base) /\ Live(MapBlock(base)) => Live(page[t])'
<1>1. ASSUME NEW m, Live(m), m # Unmapped
      PROVE  /\ m.base \in Nat /\ m.base % PageSize = 0 /\ m.base < TotalSize(chain)'
             /\ m = [base |-> m.base, id |-> BlockOf(m.base).id,
                     at |-> m.base - BlockOf(m.base).offset]
             /\ BlockOf(m.base)' = BlockOf(m.base)
  BY <1>1 DEF Live, MapBlock
<1> QED
  BY <1>1 DEF Live, MapBlock

LEMMA SameLive ==
    ASSUME TypeOK, ChainInv, chain' = chain, TotalSize(chain)' = TotalSize(chain)
    PROVE  /\ \A p \in Nat : p < TotalSize(chain) => BlockOf(p)' = BlockOf(p)
           /\ TotalSize(chain) \in Nat /\ TotalSize(chain)' \in Nat
           /\ TotalSize(chain) <= TotalSize(chain)'
<1>1. TotalSize(chain) \in Nat
  BY ChainFacts
<1> QED
  BY <1>1 DEF BlockOf

\* What a step does to the mappings.
LEMMA PageChanges ==
    ASSUME TypeOK, ChainInv, PhaseInv, NEW t \in Thread, Act(t), ~Shrink(t)
    PROVE  \/ UNCHANGED <<Latest, page>>
           \/ /\ Latest' = page[t] /\ \A u \in Thread : u # t => page'[u] = page[u]
              /\ \/ page'[t] = Unmapped \/ page'[t] = Latest
                 \/ /\ pc[t] = "map" /\ done[t] < length[t]
                    /\ page'[t] = MapBlock(PageBase(Here(t)))
<1> USE DEF shared, lock, request
<1>1. CASE (\E n \in Cells : Create(t, n) \/ SetEndOfFile(t, n)) \/ Upgrade(t)
  BY <1>1 DEF Create, SetEndOfFile, Upgrade
<1>2. CASE \/ \E o, n \in Nat : o < MaxSize /\ n > 0 /\ o + n <= MaxSize /\ Read(t, o, n)
           \/ \E o, n \in Nat, v \in Value :
                 o < MaxSize /\ n > 0 /\ o + n <= MaxSize /\ Write(t, o, n, v)
  BY <1>2 DEF Read, Write
<1>3. CASE NoMemory(t) \/ AddBlock(t) \/ Copy(t) \/ Complete(t)
  BY <1>3 DEF NoMemory, AddBlock, Copy, Complete
<1>4. CASE MapFails(t) \/ LoadFails(t) \/ StorePage(t)
  BY <1>4 DEF MapFails, LoadFails, StorePage, TypeOK
<1>5. CASE MapPage(t)
  BY <1>5 DEF MapPage, TypeOK
<1> QED
  BY <1>1, <1>2, <1>3, <1>4, <1>5 DEF Act

LEMMA StepMap ==
    ASSUME TypeOK, ChainInv, MapInv, PhaseInv, LockInv, [Next]_vars
    PROVE  MapInv'
<1>0. Live(Latest) /\ \A u \in Thread : Live(page[u])
  BY DEF MapInv
<1>1. ASSUME UNCHANGED <<Latest, page>>, chain' = chain, TotalSize(chain)' = TotalSize(chain)
      PROVE  MapInv'
  BY <1>0, <1>1, SameLive, LiveStays DEF MapInv
<1>2. CASE UNCHANGED vars
  <2>1. TotalSize(chain)' = TotalSize(chain)
    BY <1>2 DEF vars, shared, TotalSize, Size
  <2> QED
    BY <1>1, <1>2, <2>1 DEF vars, shared
<1>3. \A m : m = Unmapped => Live(m)
  BY DEF Live
<1>4. ASSUME Latest' = Unmapped, \A u \in Thread : page'[u] = Unmapped PROVE MapInv'
  BY <1>4 DEF MapInv, Live
<1>5. CASE Close
  <2>1. \A u \in Thread : page'[u] = Unmapped
    BY <1>5 DEF Close, PhaseInv, RequestInv
  <2>2. chain = <<>> => Latest = Unmapped
    <3> SUFFICES ASSUME chain = <<>>, Latest # Unmapped PROVE FALSE
      OBVIOUS
    <3>1. Latest.base \in Nat /\ Latest.base < TotalSize(chain)
      BY <1>0 DEF Live
    <3> QED
      BY <3>1 DEF TotalSize
  <2> QED
    BY <1>4, <1>5, <2>1, <2>2, CloseFacts
<1>6. ASSUME NEW t \in Thread, Act(t) PROVE MapInv'
  <2>0. RequestInv(t)
    BY DEF PhaseInv
  <2>1. CASE Shrink(t)
    <3>1. page' = page /\ pc[t] = "size"
      BY <2>1 DEF Shrink
    <3>2. \A u \in Thread : page'[u] = Unmapped
      <4>1. page[t] = Unmapped
        BY <2>0, <3>1 DEF RequestInv
      <4>2. \A u \in Thread : u # t => page[u] = Unmapped
        BY <3>1, Alone
      <4> QED
        BY <3>1, <4>1, <4>2
    <3>3. CASE TotalSize(chain) - End(t) >= PageSize
      BY <1>4, <2>1, <3>2, <3>3 DEF Shrink
    <3>4. CASE ~(TotalSize(chain) - End(t) >= PageSize)
      <4>1. Latest' = Latest /\ chain' = chain /\ bytes' = bytes
        BY <2>1, <3>4 DEF Shrink
      <4>2. TotalSize(chain)' = TotalSize(chain)
        BY <4>1 DEF TotalSize, Size
      <4> QED
        BY <1>1, <3>1, <4>1, <4>2
    <3> QED
      BY <3>3, <3>4
  <2>2. CASE AddBlock(t)
    <3>1. UNCHANGED <<Latest, page>>
      BY <2>2 DEF AddBlock
    <3>2. /\ \A p \in Nat : p < TotalSize(chain) => BlockOf(p)' = BlockOf(p)
          /\ TotalSize(chain) <= TotalSize(chain)' /\ TotalSize(chain) \in Nat
          /\ TotalSize(chain)' \in Nat
      BY <2>0, <2>2, GrowChain, ChainFacts
    <3> QED
      BY <1>0, <3>1, <3>2, LiveStays DEF MapInv
  <2>3. CASE ~Shrink(t) /\ ~AddBlock(t)
    <3>1. chain' = chain /\ TotalSize(chain)' = TotalSize(chain)
      <4>1. CASE Copy(t)
        <5>1. chain' = chain /\ VirtualSize' = VirtualSize
          BY <4>1 DEF Copy
        <5> QED
          BY <4>1, <5>1, CopyFacts, SameChain
      <4>2. CASE ~Copy(t)
        <5>1. UNCHANGED <<chain, bytes, VirtualSize>>
          BY <1>6, <2>3, <4>2, ChainChanges
        <5> QED
          BY <5>1 DEF TotalSize, Size
      <4> QED
        BY <4>1, <4>2
    <3>2. CASE UNCHANGED <<Latest, page>>
      BY <1>1, <3>1, <3>2
    <3>3. CASE ~UNCHANGED <<Latest, page>>
      <4>1. /\ Latest' = page[t] /\ \A u \in Thread : u # t => page'[u] = page[u]
            /\ \/ page'[t] = Unmapped \/ page'[t] = Latest
               \/ /\ pc[t] = "map" /\ done[t] < length[t]
                  /\ page'[t] = MapBlock(PageBase(Here(t)))
        BY <1>6, <2>3, <3>3, PageChanges
      <4>2. Live(Latest)' /\ \A u \in Thread : u # t => Live(page[u])'
        BY <1>0, <3>1, <4>1, SameLive, LiveStays
      <4>3. CASE page'[t] = Unmapped
        <5>1. Live(page[t])'
          BY <4>3 DEF Live
        <5> QED
          BY <4>2, <5>1 DEF MapInv
      <4>4. CASE page'[t] = Latest
        <5>1. Live(page[t])'
          BY <1>0, <3>1, <4>4, SameLive, LiveStays
        <5> QED
          BY <4>2, <5>1 DEF MapInv
      <4>5. CASE pc[t] = "map" /\ done[t] < length[t] /\ page'[t] = MapBlock(PageBase(Here(t)))
        <5>1. PageBase(Here(t)) \in Nat /\ Live(MapBlock(PageBase(Here(t))))
          BY <2>0, <4>5, HereFacts
        <5>2. Live(page[t])'
          BY <3>1, <4>5, <5>1, SameLive, LiveStays
        <5> QED
          BY <4>2, <5>2 DEF MapInv
      <4> QED
        BY <4>1, <4>3, <4>4, <4>5
    <3> QED
      BY <3>2, <3>3
  <2> QED
    BY <2>1, <2>2, <2>3
<1> QED
  BY <1>2, <1>5, <1>6, StepCases

-----------------------------------------------------------------------------
(* Every step keeps the requests where they can be. *)

\* Whoever changes the file's state or its size is the only one with a request.
LEMMA QuietOthers ==
    ASSUME TypeOK, PhaseInv, LockInv, NEW t \in Thread, Act(t)
    PROVE  /\ file' = file \/ \A u \in Thread : u # t => pc[u] = "idle"
           /\ VirtualSize' = VirtualSize \/ \A u \in Thread : u # t => pc[u] = "idle"
           /\ file # "failed" /\ file # "closed" /\ file' # "closed"
           /\ file = "none" \/ file' # "none"
           /\ file' = "loading" => file = "loading" \/ pc'[t] # "idle"
<1> USE DEF shared, lock, request, Goto, Ends, Release
<1>0. RequestInv(t) /\ (\A u \in Thread : RequestInv(u)) /\ pc \in [Thread -> {"idle",
        "upgrade", "size", "map", "copy", "release"}]
  BY DEF PhaseInv, TypeOK
<1>00. file = "loading" /\ pc[t] # "idle" => \A u \in Thread : u # t => pc[u] = "idle"
  BY DEF PhaseInv
<1>1. CASE \E n \in Cells : Create(t, n)
  BY <1>0, <1>1 DEF Create, RequestInv
<1>2. CASE \/ \E n \in Cells : SetEndOfFile(t, n)
           \/ \E o, n \in Nat : o < MaxSize /\ n > 0 /\ o + n <= MaxSize /\ Read(t, o, n)
           \/ \E o, n \in Nat, v \in Value :
                 o < MaxSize /\ n > 0 /\ o + n <= MaxSize /\ Write(t, o, n, v)
  BY <1>2 DEF Read, Write, SetEndOfFile
<1>3. CASE Upgrade(t) \/ AddBlock(t) \/ Copy(t) \/ Complete(t) \/ MapPage(t)
  BY <1>0, <1>3 DEF Upgrade, AddBlock, Copy, Complete, MapPage, RequestInv
<1>4. CASE Shrink(t) \/ NoMemory(t)
  <2>1. pc[t] = "size" /\ \A u \in Thread : u # t => pc[u] = "idle"
    BY <1>4, Alone DEF Shrink, NoMemory
  <2>2. file' = file \/ (file' = "failed" /\ pc'[t] = "idle")
    BY <1>0, <1>4 DEF Shrink, NoMemory, Sized
  <2> QED
    BY <1>0, <2>1, <2>2 DEF RequestInv
<1>5. CASE MapFails(t) \/ LoadFails(t) \/ StorePage(t)
  <2>1. /\ VirtualSize' = VirtualSize /\ pc[t] \in {"map", "copy"}
        /\ file' = file \/ (op[t] = "load" /\ file' \in {"failed", "open"})
    BY <1>5 DEF MapFails, LoadFails, StorePage
  <2> QED
    BY <1>0, <1>00, <2>1 DEF RequestInv
<1> QED
  BY <1>1, <1>2, <1>3, <1>4, <1>5 DEF Act

LEMMA LoadingBusy ==
    ASSUME NEW t \in Thread, Act(t), file = "loading" PROVE pc[t] # "idle"
<1>1. CASE \/ \E n \in Cells : Create(t, n) \/ SetEndOfFile(t, n)
           \/ \E o, n \in Nat : o < MaxSize /\ n > 0 /\ o + n <= MaxSize /\ Read(t, o, n)
           \/ \E o, n \in Nat, v \in Value :
                 o < MaxSize /\ n > 0 /\ o + n <= MaxSize /\ Write(t, o, n, v)
  BY <1>1 DEF Read, Write, SetEndOfFile, Create
<1>2. CASE Upgrade(t) \/ AddBlock(t) \/ Copy(t) \/ Complete(t) \/ MapPage(t) \/ Shrink(t)
  BY <1>2 DEF Upgrade, AddBlock, Copy, Complete, MapPage, Shrink
<1>3. CASE NoMemory(t) \/ MapFails(t) \/ LoadFails(t) \/ StorePage(t)
  BY <1>3 DEF NoMemory, MapFails, LoadFails, StorePage
<1> QED
  BY <1>1, <1>2, <1>3 DEF Act

LEMMA StepRequest ==
    ASSUME TypeOK, ChainInv, MapInv, PhaseInv, LockInv, NEW t \in Thread, Act(t)
    PROVE  RequestInv(t)'
<1> USE DEF shared, lock, request, Goto, Ends, Release
<1>0. RequestInv(t)
  BY DEF PhaseInv
<1>1. /\ offset \in [Thread -> Cells] /\ length \in [Thread -> Cells] /\ done \in [Thread -> Cells]
      /\ pc \in [Thread -> {"idle", "upgrade", "size", "map", "copy", "release"}]
      /\ op \in [Thread -> {"none", "read", "write", "set", "load"}]
      /\ page \in [Thread -> Mapping] /\ out \in [Thread -> Seq(Value)]
      /\ file \in {"none", "loading", "open", "failed", "closed"}
      /\ DOMAIN value = Thread
  BY DEF TypeOK
<1>2. /\ offset[t] \in Nat /\ length[t] \in Nat /\ done[t] \in Nat /\ VirtualSize \in Nat
      /\ VirtualSize <= MaxSize /\ MaxSize \in Nat
  BY RequestFacts, <1>0, SizeAssumption DEF TypeOK, Cells
<1> USE DEF Cells
<1>3. ASSUME NEW n \in Cells, Create(t, n) PROVE RequestInv(t)'
  BY <1>0, <1>1, <1>2, <1>3 DEF Create, RequestInv, End, Here
<1>4. ASSUME NEW n \in Cells, SetEndOfFile(t, n) PROVE RequestInv(t)'
  BY <1>0, <1>1, <1>2, <1>4 DEF SetEndOfFile, RequestInv, End, Here
<1>5. ASSUME NEW o \in Nat, NEW n \in Nat, o + n <= MaxSize, Read(t, o, n) PROVE RequestInv(t)'
  BY <1>0, <1>1, <1>2, <1>5 DEF Read, RequestInv, End, Here
<1>6. ASSUME NEW o \in Nat, NEW n \in Nat, o + n <= MaxSize, NEW v \in Value, Write(t, o, n, v)
      PROVE  RequestInv(t)'
  BY <1>0, <1>1, <1>2, <1>6 DEF Write, RequestInv, End, Here
<1>7. CASE Upgrade(t)
  BY <1>0, <1>1, <1>2, <1>7 DEF Upgrade, RequestInv, End, Here
<1>8. CASE Shrink(t)
  <2>1. VirtualSize' = End(t) /\ pc[t] = "size" /\ UNCHANGED <<page, out>> /\ Sized(t, TRUE)
    BY <1>8 DEF Shrink
  <2>2. CASE op[t] = "load"
    <3>1. /\ UNCHANGED <<op, offset, length, done>> /\ pc' = [pc EXCEPT ![t] = "map"]
          /\ file' = file
      BY <2>1, <2>2 DEF Sized
    <3> QED
      BY <1>0, <1>1, <1>2, <2>1, <2>2, <3>1 DEF RequestInv, End, Here
  <2>3. CASE op[t] = "write"
    <3>1. /\ UNCHANGED <<op, offset, length, done>> /\ pc' = [pc EXCEPT ![t] = "map"]
          /\ file' = file
      BY <2>1, <2>3 DEF Sized
    <3> QED
      BY <1>0, <1>1, <1>2, <2>1, <2>3, <3>1 DEF RequestInv, End, Here
  <2>4. CASE op[t] = "set"
    <3>1. file' = file /\ Ends(t)
      BY <2>1, <2>4 DEF Sized
    <3> QED
      BY <1>0, <1>1, <1>2, <2>1, <2>4, <3>1 DEF RequestInv, End, Here
  <2> QED
    BY <1>0, <2>1, <2>2, <2>3, <2>4 DEF RequestInv
<1>9. CASE NoMemory(t)
  <2>1. VirtualSize' = VirtualSize /\ pc[t] = "size" /\ UNCHANGED <<page, out>> /\ Sized(t, FALSE)
    BY <1>9 DEF NoMemory
  <2> QED
    BY <1>0, <1>1, <1>2, <2>1 DEF Sized, RequestInv, End, Here
<1>10. CASE AddBlock(t)
  BY <1>0, <1>1, <1>2, <1>10 DEF AddBlock, RequestInv, End, Here
<1>11. CASE MapPage(t)
  <2> DEFINE base == PageBase(Here(t))
  <2>1. base \in Nat /\ MapBlock(base).base = base
    BY <1>0, <1>11, HereFacts DEF MapPage, MapBlock
  <2>2. page'[t].base = base
    BY <1>1, <1>11, <2>1 DEF MapPage, Mapped
  <2>3. PageBase(Here(t))' = base
    BY <1>11 DEF MapPage, Here, PageBase
  <2> HIDE DEF base
  <2> QED
    BY <1>0, <1>1, <1>2, <1>11, <2>2, <2>3 DEF MapPage, RequestInv, End
<1>12. CASE MapFails(t) \/ LoadFails(t)
  BY <1>0, <1>1, <1>2, <1>12 DEF MapFails, LoadFails, RequestInv, End, Here
<1>13. CASE Copy(t)
  <2>1. done'[t] = done[t] + Chunk(t) /\ Chunk(t) \in Nat /\ done'[t] <= length[t]
    BY <1>0, <1>1, <1>13, ChunkFacts DEF Copy
  <2>2. out'[t] # <<>> => out[t] # <<>> \/ op[t] = "read"
    BY <1>13 DEF Copy
  <2> QED
    BY <1>0, <1>1, <1>2, <1>13, <2>1, <2>2 DEF Copy, RequestInv, End
<1>14. CASE StorePage(t)
  BY <1>0, <1>1, <1>2, <1>14 DEF StorePage, RequestInv, End, Here
<1>15. CASE Complete(t)
  BY <1>0, <1>1, <1>2, <1>15 DEF Complete, RequestInv, End, Here
<1> QED
  BY <1>3, <1>4, <1>5, <1>6, <1>7, <1>8, <1>9, <1>10, <1>11, <1>12, <1>13, <1>14, <1>15 DEF Act

LEMMA StepPhase ==
    ASSUME TypeOK, ChainInv, MapInv, PhaseInv, LockInv, [Next]_vars
    PROVE  PhaseInv'
<1>0. \A u \in Thread : RequestInv(u)
  BY DEF PhaseInv
<1>1. CASE UNCHANGED vars
  BY <1>1 DEF vars, shared, lock, request, PhaseInv, RequestInv, End, Here
<1>2. CASE Close
  <2>1. file = "open" /\ file' = "closed" /\ chain' = <<>> /\ VirtualSize' = 0 /\ \A u \in Thread : pc[u] = "idle"
    BY <1>2, CloseFacts DEF Close
  <2>2. Latest' = Unmapped
    <3> SUFFICES ASSUME chain = <<>>, Latest # Unmapped PROVE FALSE
      BY <1>2, CloseFacts
    <3>1. Latest.base \in Nat /\ Latest.base < TotalSize(chain)
      BY DEF MapInv, Live
    <3> QED
      BY <3>1 DEF TotalSize
  <2>3. UNCHANGED <<lock, pc, request, length, done, page, out>>
    BY <1>2 DEF Close
  <2> QED
    BY <1>0, <2>1, <2>2, <2>3 DEF lock, request, PhaseInv, RequestInv, End, Here
<1>3. ASSUME NEW t \in Thread, Act(t) PROVE PhaseInv'
  <2>1. RequestInv(t)'
    BY <1>3, StepRequest
  <2>2. ASSUME NEW u \in Thread, u # t PROVE RequestInv(u)'
    <3>1. /\ pc'[u] = pc[u] /\ op'[u] = op[u] /\ offset'[u] = offset[u]
          /\ length'[u] = length[u] /\ done'[u] = done[u] /\ page'[u] = page[u]
          /\ out'[u] = out[u]
      BY <1>3, <2>2, OthersStay
    <3>2. RequestInv(u)
      BY <1>0
    <3>3. file' = file \/ pc[u] = "idle"
      BY <1>3, <2>2, QuietOthers
    <3>4. VirtualSize' = VirtualSize \/ pc[u] = "idle"
      BY <1>3, <2>2, QuietOthers
    <3>5. file # "failed"
      BY <1>3, QuietOthers
    <3> QED
      BY <3>1, <3>2, <3>3, <3>4, <3>5 DEF RequestInv, End, Here
  <2>3. \A u, v \in Thread : file' = "loading" /\ pc'[u] # "idle" /\ pc'[v] # "idle" => u = v
    <3> SUFFICES ASSUME file' = "loading" PROVE \A u \in Thread : pc'[u] # "idle" => u = t
      OBVIOUS
    <3>1. \A u \in Thread : u # t => pc[u] = "idle"
      <4>1. CASE file' # file
        BY <1>3, <4>1, QuietOthers
      <4>2. CASE file' = file /\ pc[t] # "idle"
        BY <4>2 DEF PhaseInv
      <4>3. CASE file' = file /\ pc[t] = "idle"
        BY <1>3, <4>3, LoadingBusy
      <4> QED
        BY <4>1, <4>2, <4>3
    <3> QED
      BY <1>3, <3>1, OthersStay
  <2>4. file' # "closed"
    BY <1>3, QuietOthers
  <2> QED
    BY <2>1, <2>2, <2>3, <2>4 DEF PhaseInv
<1> QED
  BY <1>1, <1>2, <1>3, StepCases

-----------------------------------------------------------------------------
(* Every step keeps the types. *)

LEMMA RangeFacts ==
    ASSUME NEW S, NEW s \in Seq(S), NEW a \in Nat, NEW b \in Nat, a >= 1, b <= Len(s)
    PROVE  SubSeq(s, a, b) \in Seq(S)
  OBVIOUS

LEMMA PartOfThreads ==
    ASSUME NEW R, R \subseteq Thread
    PROVE  IsFiniteSet(R) /\ Cardinality(R) \in 0 .. Cardinality(Thread)
<1>1. IsFiniteSet(R) /\ Cardinality(R) <= Cardinality(Thread)
  BY ThreadAssumption, FS_Subset
<1> QED
  BY <1>1, ThreadAssumption, FS_CardinalityType

\* A request that ends, or goes on to its next phase, is of its type.
LEMMA EndsTypes ==
    ASSUME TypeOK, NEW t \in Thread, Ends(t)
    PROVE  /\ pc' \in [Thread -> {"idle", "upgrade", "size", "map", "copy", "release"}]
           /\ op' \in [Thread -> {"none", "read", "write", "set", "load"}]
           /\ offset' \in [Thread -> Cells] /\ length' \in [Thread -> Cells]
           /\ done' \in [Thread -> Cells] /\ value' \in [Thread -> Value]
<1>1. 0 \in Cells /\ Fresh \in Value
  BY SizeAssumption, FreshAssumption DEF Cells
<1> QED
  BY <1>1 DEF Ends, Goto, TypeOK

LEMMA GotoTypes ==
    ASSUME TypeOK, NEW t \in Thread,
           NEW to \in {"idle", "upgrade", "size", "map", "copy", "release"}, Goto(t, to)
    PROVE  pc' \in [Thread -> {"idle", "upgrade", "size", "map", "copy", "release"}]
  BY DEF Goto, TypeOK

LEMMA PageIsFunction ==
    ASSUME TypeOK, NEW t \in Thread, Act(t) PROVE page' = [page EXCEPT ![t] = page'[t]]
<1> USE DEF shared, lock, request, TypeOK
<1>1. CASE (\E n \in Cells : Create(t, n) \/ SetEndOfFile(t, n)) \/ Upgrade(t)
  BY <1>1 DEF Create, SetEndOfFile, Upgrade
<1>2. CASE \/ \E o, n \in Nat : o < MaxSize /\ n > 0 /\ o + n <= MaxSize /\ Read(t, o, n)
           \/ \E o, n \in Nat, v \in Value :
                 o < MaxSize /\ n > 0 /\ o + n <= MaxSize /\ Write(t, o, n, v)
  BY <1>2 DEF Read, Write
<1>3. CASE NoMemory(t) \/ AddBlock(t) \/ Copy(t) \/ Complete(t) \/ Shrink(t)
  BY <1>3 DEF NoMemory, AddBlock, Copy, Complete, Shrink
<1>4. CASE MapFails(t) \/ LoadFails(t) \/ StorePage(t) \/ MapPage(t)
  BY <1>4 DEF MapFails, LoadFails, StorePage, MapPage
<1> QED
  BY <1>1, <1>2, <1>3, <1>4 DEF Act

LEMMA StepType ==
    ASSUME TypeOK, ChainInv, MapInv, PhaseInv, LockInv, [Next]_vars
    PROVE  TypeOK'
<1>0. /\ chain' \in Seq([id : BlockId, offset : Cells]) /\ bytes' \in [BlockId -> Seq(Value)]
      /\ ActiveReaders' \in 0 .. Cardinality(Thread) /\ ActiveWriters' \in {0, 1}
  <2>1. chain' \in Seq([id : BlockId, offset : Cells]) /\ bytes' \in [BlockId -> Seq(Value)]
    BY StepChain
  <2>2. LockInv'
    BY StepLock
  <2>3. ActiveReaders' \in 0 .. Cardinality(Thread)
    <3>1. Readers' \subseteq Thread /\ ActiveReaders' = Cardinality(Readers')
      BY <2>2 DEF LockInv, Readers
    <3> QED
      BY <3>1, PartOfThreads
  <2>4. ActiveWriters' \in {0, 1}
    <3>1. ActiveWriters' = Cardinality(Writers')
      BY <2>2 DEF LockInv
    <3>2. CASE Writers' = {}
      BY <3>1, <3>2, FS_EmptySet
    <3>3. CASE Writers' # {}
      <4>1. PICK t \in Writers' : Writers' = {t}
        BY <2>2, <3>3 DEF LockInv
      <4> QED
        BY <3>1, <4>1, FS_Singleton
    <3> QED
      BY <3>2, <3>3
  <2> QED
    BY <2>1, <2>3, <2>4
<1>1. CASE UNCHANGED vars
  BY <1>1 DEF vars, shared, lock, request, TypeOK
<1>2. CASE Close
  <2>1. VirtualSize' \in Cells /\ Latest' \in Mapping
    BY <1>2, SizeAssumption DEF Close, Cells, Mapping, TypeOK
  <2> QED
    BY <1>0, <1>2, <2>1 DEF Close, lock, request, TypeOK
<1>3. ASSUME NEW t \in Thread, Act(t) PROVE TypeOK'
  <2>0. RequestInv(t)
    BY DEF PhaseInv
  <2>1. /\ offset[t] \in Nat /\ length[t] \in Nat /\ done[t] \in Nat
        /\ VirtualSize \in Nat /\ VirtualSize <= MaxSize /\ MaxSize \in Nat
        /\ 0 \in Cells /\ <<>> \in Seq(Value) /\ Fresh \in Value /\ End(t) \in Cells
        /\ Unmapped \in Mapping
    BY <2>0, RequestFacts, SizeAssumption, FreshAssumption, SMTT(30) DEF TypeOK, Cells, Mapping
  <2>2. Latest' \in Mapping /\ page' \in [Thread -> Mapping]
    <3>1. CASE Shrink(t)
      BY <2>1, <3>1 DEF Shrink, TypeOK
    <3>2. CASE ~Shrink(t)
      <4>1. CASE UNCHANGED <<Latest, page>>
        BY <4>1 DEF TypeOK
      <4>2. CASE ~UNCHANGED <<Latest, page>>
        <5>1. Latest' = page[t]
              /\ \/ page'[t] = Unmapped \/ page'[t] = Latest
                 \/ /\ pc[t] = "map" /\ done[t] < length[t]
                    /\ page'[t] = MapBlock(PageBase(Here(t)))
          BY <1>3, <3>2, <4>2, PageChanges
        <5>2. page'[t] \in Mapping
          BY <2>0, <2>1, <5>1, HereFacts DEF TypeOK
        <5>3. page' = [page EXCEPT ![t] = page'[t]]
          BY <1>3, PageIsFunction
        <5> QED
          BY <5>1, <5>2, <5>3 DEF TypeOK
      <4> QED
        BY <4>1, <4>2
    <3> QED
      BY <3>1, <3>2
  <2>3. VirtualSize' \in Cells
    <3>1. CASE Shrink(t)
      BY <2>1, <3>1 DEF Shrink
    <3>2. CASE ~Shrink(t)
      BY <1>3, <3>2, ChainChanges DEF TypeOK, AddBlock, Copy
    <3> QED
      BY <3>1, <3>2
  <2> USE DEF shared, lock, request
  <2>4. ASSUME NEW n \in Cells, Create(t, n) \/ SetEndOfFile(t, n) PROVE TypeOK'
    <3>1. CASE SetEndOfFile(t, n)
      BY <1>0, <2>1, <2>2, <2>3, <2>4, <3>1, GotoTypes DEF SetEndOfFile, TypeOK
    <3>2. CASE Create(t, n)
      <4>1. /\ pc' \in [Thread -> {"idle", "upgrade", "size", "map", "copy", "release"}]
            /\ file' \in {"none", "loading", "open", "failed", "closed"}
        BY <3>2, GotoTypes DEF Create, TypeOK
      <4>2. op' \in [Thread -> {"none", "read", "write", "set", "load"}]
        BY <3>2 DEF Create, TypeOK
      <4>3. length' \in [Thread -> Cells] /\ value' \in [Thread -> Value]
        BY <3>2 DEF Create, TypeOK
      <4> QED
        BY <1>0, <2>2, <2>3, <3>2, <4>1, <4>2, <4>3 DEF Create, TypeOK
    <3> QED
      BY <2>4, <3>1, <3>2
  <2>5. ASSUME NEW o \in Nat, NEW n \in Nat, o < MaxSize, o + n <= MaxSize, Read(t, o, n)
        PROVE  TypeOK'
    <3>1. o \in Cells /\ n \in Cells /\ (o <= VirtualSize => VirtualSize - o \in Cells)
      BY <2>1, <2>5 DEF Cells
    <3> QED
      BY <1>0, <2>2, <2>3, <2>5, <3>1, GotoTypes DEF Read, TypeOK
  <2>6. ASSUME NEW o \in Nat, NEW n \in Nat, o < MaxSize, o + n <= MaxSize, NEW v \in Value,
               Write(t, o, n, v)
        PROVE  TypeOK'
    <3>1. o \in Cells /\ n \in Cells
      BY <2>1, <2>6 DEF Cells
    <3> QED
      BY <1>0, <2>2, <2>3, <2>6, <3>1, GotoTypes DEF Write, TypeOK
  <2>7. CASE Upgrade(t)
    BY <1>0, <2>2, <2>3, <2>7, EndsTypes, GotoTypes DEF Upgrade, TypeOK
  <2>8. CASE Shrink(t) \/ NoMemory(t)
    <3>1. PICK ok \in BOOLEAN : Sized(t, ok) /\ UNCHANGED <<page, out>>
      BY <2>8 DEF Shrink, NoMemory
    <3> QED
      BY <1>0, <2>2, <2>3, <3>1, EndsTypes, GotoTypes DEF Sized, TypeOK
  <2>9. CASE AddBlock(t) \/ MapPage(t) \/ MapFails(t) \/ LoadFails(t)
    BY <1>0, <2>2, <2>3, <2>9, GotoTypes DEF AddBlock, MapPage, MapFails, LoadFails, TypeOK
  <2>10. CASE Copy(t)
    <3>1. /\ Chunk(t) \in Nat /\ Place(t) \in Nat /\ done[t] + Chunk(t) <= length[t]
          /\ page[t].id \in BlockId /\ Place(t) + Chunk(t) <= Size(page[t].id)
      BY <2>0, <2>10, ChunkFacts DEF Copy
    <3>2. done[t] + Chunk(t) \in Cells
      BY <2>1, <3>1 DEF Cells, TypeOK
    <3>3. out' \in [Thread -> Seq(Value)]
      <4> DEFINE part == SubSeq(bytes[page[t].id], Place(t) + 1, Place(t) + Chunk(t))
      <4>1. part \in Seq(Value)
        <5>1. bytes[page[t].id] \in Seq(Value) /\ Place(t) + Chunk(t) <= Len(bytes[page[t].id])
          BY <3>1 DEF Size, TypeOK
        <5>2. Place(t) + 1 \in Nat /\ Place(t) + Chunk(t) \in Nat /\ Place(t) + 1 >= 1
          BY <3>1
        <5> QED
          BY <5>1, <5>2, RangeFacts
      <4> HIDE DEF part
      <4>2. out[t] \o part \in Seq(Value)
        BY <4>1 DEF TypeOK
      <4>3. out' = out \/ out' = [out EXCEPT ![t] = out[t] \o part]
        BY <2>10 DEF Copy, part
      <4> QED
        BY <4>2, <4>3 DEF TypeOK
    <3> QED
      BY <1>0, <2>2, <2>3, <2>10, <3>2, <3>3, GotoTypes DEF Copy, TypeOK
  <2>11. CASE StorePage(t) \/ Complete(t)
    BY <1>0, <2>1, <2>2, <2>3, <2>11, EndsTypes, GotoTypes, ZenonT(60) DEF StorePage, Complete, TypeOK
  <2> QED
    BY <1>3, <2>4, <2>5, <2>6, <2>7, <2>8, <2>9, <2>10, <2>11 DEF Act
<1> QED
  BY <1>1, <1>2, <1>3, StepCases

-----------------------------------------------------------------------------
LEMMA InitInv == Init => IInv
<1> SUFFICES ASSUME Init PROVE IInv
  OBVIOUS
<1> USE DEF Init
<1>1. chain = <<>> /\ DOMAIN chain = {} /\ TotalSize(chain) = 0
      /\ chain \in Seq([id : BlockId, offset : Cells])
  BY DEF TotalSize
<1>2. 0 \in Cells /\ <<>> \in Seq(Value) /\ Fresh \in Value /\ Unmapped \in Mapping
      /\ MaxSize \in Nat
  BY SizeAssumption, FreshAssumption DEF Cells, Mapping
<1>3. TypeOK
  <2>1. ActiveReaders \in 0 .. Cardinality(Thread)
    BY LockFacts
  <2> QED
    BY <1>1, <1>2, <2>1 DEF TypeOK
<1>4. ChainInv
  BY <1>1 DEF ChainInv
<1>5. MapInv
  BY DEF MapInv, Live
<1>6. PhaseInv
  BY <1>2 DEF PhaseInv, RequestInv, End, Here
<1>7. LockInv
  <2>1. Readers = {} /\ Writers = {}
    BY DEF Readers, Writers, Holding
  <2> QED
    BY <2>1, LockFacts DEF LockInv
<1> QED
  BY <1>3, <1>4, <1>5, <1>6, <1>7 DEF IInv

LEMMA StepInv == IInv /\ [Next]_vars => IInv'
  BY StepType, StepChain, StepMap, StepPhase, StepLock DEF IInv

(* The requests, the lock, the chain of blocks and the mappings always fit together: the
   invariant of every step of awefsalloc.c. *)
THEOREM Inductive == Spec => []IInv
<1>1. Init => IInv
  BY InitInv
<1>2. IInv /\ [Next]_vars => IInv'
  BY StepInv
<1> QED
  BY <1>1, <1>2, PTL DEF Spec

(* Whatever AWE_FS_AllocMapPage uses unseen, a mapping in use or the one that is kept, leads
   into a block of the file and to the page it stands for; the two counters of IOLock are those
   of the requests under way; a closed file has kept nothing. *)
THEOREM MappingsSound == Spec => []MappingsLive
<1>1. IInv => MappingsLive
  <2> SUFFICES ASSUME IInv PROVE MappingsLive
    OBVIOUS
  <2> USE DEF IInv
  <2>1. ASSUME NEW m \in {Latest} \cup {page[t] : t \in Thread}, m # Unmapped
        PROVE  m.id \in Used /\ m = MapBlock(m.base) /\ m.at + PageSize <= Size(m.id)
    <3>1. Live(m)
      BY DEF MapInv
    <3> QED
      BY <2>1, <3>1, MappingFacts
  <2>2. ActiveReaders = Cardinality(Readers) /\ ActiveWriters = Cardinality(Writers)
    BY DEF LockInv
  <2>3. (\E t \in Thread : Holding(t, {"size"})) => ActiveReaders <= 1
    <3> SUFFICES ASSUME NEW t \in Thread, Holding(t, {"size"}) PROVE ActiveReaders <= 1
      OBVIOUS
    <3>1. Readers \subseteq {t}
      BY DEF LockInv, Writers
    <3>2. IsFiniteSet({t}) /\ Cardinality({t}) = 1
      BY FS_Singleton
    <3> QED
      BY <2>2, <3>1, <3>2, FS_Subset
  <2>4. file = "closed" => chain = <<>> /\ Latest = Unmapped
    BY DEF PhaseInv
  <2> QED
    BY <2>1, <2>2, <2>3, <2>4 DEF MappingsLive, Readers, Writers
<1> QED
  BY <1>1, Inductive, PTL

-----------------------------------------------------------------------------
(* The refinement: what the users of the file see. *)

\* The cell at p, as it is found through its block.
Cell(p) == bytes[BlockOf(p).id][p + 1 - BlockOf(p).offset]

LEMMA CellType ==
    ASSUME TypeOK, ChainInv, NEW p \in Nat, p < TotalSize(chain)
    PROVE  /\ BlockOf(p).id \in BlockId /\ BlockOf(p).offset \in Nat
           /\ p + 1 - BlockOf(p).offset \in DOMAIN bytes[BlockOf(p).id]
           /\ Cell(p) \in Value /\ BlockOf(PageBase(p)) = BlockOf(p)
<1>1. /\ BlockOf(PageBase(p)) = BlockOf(p) /\ BlockOf(p).id \in BlockId
      /\ BlockOf(p).offset \in Nat /\ PageBase(p) - BlockOf(p).offset \in Nat
      /\ PageBase(p) - BlockOf(p).offset + PageSize <= Size(BlockOf(p).id)
  BY PageOf
<1>2. /\ PageBase(p) \in Nat /\ PageBase(p) <= p /\ p < PageBase(p) + PageSize
      /\ PageSize \in Nat
  BY PageFacts, SizeAssumption
<1>3. bytes[BlockOf(p).id] \in Seq(Value)
  BY <1>1 DEF TypeOK
<1>4. p + 1 - BlockOf(p).offset \in DOMAIN bytes[BlockOf(p).id]
  BY <1>1, <1>2, <1>3, SMTT(30) DEF Size
<1> QED
  BY <1>1, <1>3, <1>4, ElementFacts DEF Cell

ContentSound ==
    /\ VirtualSize \in Nat /\ VirtualSize <= MaxSize
    /\ contentBar \in [1 .. VirtualSize -> Value]
    /\ contentBar \in Seq(Value) /\ Len(contentBar) = VirtualSize
    /\ DOMAIN contentBar = 1 .. VirtualSize
    /\ contentBar = [i \in 1 .. VirtualSize |-> Cell(i - 1)]

LEMMA ContentFacts == TypeOK /\ ChainInv => ContentSound
<1> SUFFICES ASSUME TypeOK, ChainInv PROVE ContentSound
  OBVIOUS
<1>1. /\ VirtualSize \in Nat /\ VirtualSize <= MaxSize /\ VirtualSize <= TotalSize(chain)
      /\ TotalSize(chain) \in Nat
  BY SizeAssumption, ChainFacts DEF TypeOK, ChainInv, Cells
<1>2. ASSUME NEW i \in 1 .. VirtualSize
      PROVE  /\ i - 1 \in Nat /\ Cell(i - 1) \in Value
             /\ Cell(i - 1) = LET b == BlockOf(PageBase(i - 1)) IN bytes[b.id][i - b.offset]
  <2>1. i - 1 \in Nat /\ i - 1 < TotalSize(chain) /\ (i - 1) + 1 = i
    BY <1>1
  <2>2. Cell(i - 1) \in Value /\ BlockOf(PageBase(i - 1)) = BlockOf(i - 1)
    BY <2>1, CellType
  <2>3. Cell(i - 1) = bytes[BlockOf(i - 1).id][i - BlockOf(i - 1).offset]
    <3>1. BlockOf(i - 1).offset \in Nat /\ i \in Nat
      BY <1>1, <2>1, CellType
    <3> QED
      BY <2>1, <3>1 DEF Cell
  <2> QED
    BY <2>1, <2>2, <2>3
<1>3. contentBar = [i \in 1 .. VirtualSize |-> Cell(i - 1)]
  BY <1>2 DEF contentBar
<1>4. contentBar \in [1 .. VirtualSize -> Value]
  BY <1>2, <1>3
<1> HIDE DEF contentBar
<1> QED
  BY <1>1, <1>3, <1>4 DEF ContentSound

LEMMA ContentNext == TypeOK' /\ ChainInv' => ContentSound'
  BY ContentFacts, PTL

\* The file looks the same as long as its cells do.
LEMMA SameContent ==
    ASSUME TypeOK, ChainInv, TypeOK', ChainInv', VirtualSize' = VirtualSize,
           \A p \in Nat : p < VirtualSize => Cell(p)' = Cell(p)
    PROVE  contentBar' = contentBar
<1>1. /\ contentBar = [i \in 1 .. VirtualSize |-> Cell(i - 1)] /\ VirtualSize \in Nat
  BY ContentFacts DEF ContentSound
<1>2. contentBar' = [i \in 1 .. VirtualSize' |-> Cell(i - 1)']
  BY ContentNext DEF ContentSound
<1>3. \A i \in 1 .. VirtualSize : i - 1 \in Nat /\ Cell(i - 1)' = Cell(i - 1)
  BY <1>1
<1> QED
  BY <1>1, <1>2, <1>3

LEMMA InitFile == Init => File!Init
  BY DEF Init, File!Init, contentBar, askBar, Here, End, File!NoRequest

LEMMA AskChanges ==
    ASSUME TypeOK, NEW t \in Thread, Act(t)
    PROVE  /\ askBar' = [askBar EXCEPT ![t] = [kind |-> op'[t], from |-> Here(t)' + 1,
                                               to |-> End(t)']]
           /\ op'[t] = op[t] /\ Here(t)' = Here(t) /\ End(t)' = End(t) => askBar' = askBar
<1>1. \A u \in Thread : u # t => op'[u] = op[u] /\ Here(u)' = Here(u) /\ End(u)' = End(u)
  BY OthersStay DEF Here, End
<1>2. askBar = [u \in Thread |-> [kind |-> op[u], from |-> Here(u) + 1, to |-> End(u)]]
      /\ askBar' = [u \in Thread |-> [kind |-> op'[u], from |-> Here(u)' + 1, to |-> End(u)']]
  BY DEF askBar
<1> HIDE DEF askBar
<1> QED
  BY <1>1, <1>2

\* A request begins.
LEMMA AskStep ==
    ASSUME IInv, NEW t \in Thread, Act(t), pc[t] = "idle", file \in {"none", "open"},
           op'[t] \in {"read", "write", "set", "load"},
           offset'[t] \in Nat, offset'[t] < MaxSize, length'[t] \in Nat,
           offset'[t] + length'[t] <= MaxSize, done'[t] = 0,
           UNCHANGED <<chain, bytes, VirtualSize, out>>
    PROVE  File!Ask(t)
<1>1. RequestInv(t)
  BY DEF IInv, PhaseInv
<1>2. askBar[t] = File!NoRequest
  BY <1>1 DEF RequestInv, askBar, File!NoRequest, Here, End
<1>3. askBar' = [askBar EXCEPT ![t] = [kind |-> op'[t], from |-> Here(t)' + 1, to |-> End(t)']]
  BY AskChanges DEF IInv
<1>4. Here(t)' + 1 \in 1 .. MaxSize /\ End(t)' \in 0 .. MaxSize
  BY SizeAssumption DEF Here, End
<1>5. contentBar' = contentBar
  BY DEF contentBar, BlockOf
<1> QED
  BY <1>2, <1>3, <1>4, <1>5 DEF File!Ask, File!Kinds

\* A request ends, or is given up.
LEMMA FinishStep ==
    ASSUME IInv, NEW t \in Thread, Act(t), op'[t] = "none", offset'[t] = 0, length'[t] = 0,
           done'[t] = 0, out' = [out EXCEPT ![t] = <<>>],
           UNCHANGED <<chain, bytes, VirtualSize>>
    PROVE  File!Finish(t)
<1>1. askBar' = [askBar EXCEPT ![t] = [kind |-> op'[t], from |-> Here(t)' + 1, to |-> End(t)']]
  BY AskChanges DEF IInv
<1>2. [kind |-> op'[t], from |-> Here(t)' + 1, to |-> End(t)'] = File!NoRequest
  BY DEF Here, End, File!NoRequest
<1>3. contentBar' = contentBar
  BY DEF contentBar, BlockOf
<1> QED
  BY <1>1, <1>2, <1>3 DEF File!Finish

\* What has not been a read has copied nothing out.
LEMMA NothingRead ==
    ASSUME IInv, NEW t \in Thread, op[t] # "read", out' = out
    PROVE  out' = [out EXCEPT ![t] = <<>>]
<1>1. RequestInv(t) /\ out \in [Thread -> Seq(Value)]
  BY DEF IInv, PhaseInv, TypeOK
<1>2. out[t] = <<>>
  BY <1>1 DEF RequestInv
<1> QED
  BY <1>1, <1>2

\* A step that the users do not see.
LEMMA HiddenStep ==
    ASSUME IInv, NEW t \in Thread, Act(t), op'[t] = op[t], offset'[t] = offset[t],
           length'[t] = length[t], done'[t] = done[t],
           UNCHANGED <<chain, bytes, VirtualSize, out>>
    PROVE  UNCHANGED <<contentBar, askBar, out>>
<1>1. askBar' = askBar
  <2>1. Here(t)' = Here(t) /\ End(t)' = End(t)
    BY DEF Here, End
  <2> QED
    BY <2>1, AskChanges DEF IInv
<1>2. contentBar' = contentBar
  BY DEF contentBar, BlockOf
<1> QED
  BY <1>1, <1>2

\* The file is made larger or smaller.
LEMMA ResizeStep ==
    ASSUME IInv, IInv', NEW t \in Thread, Act(t), Shrink(t)
    PROVE  File!Resize(t)
<1>0. /\ TypeOK /\ ChainInv /\ RequestInv(t) /\ pc[t] = "size"
      /\ op[t] \in {"write", "set", "load"} /\ done[t] = 0
  BY DEF IInv, PhaseInv, RequestInv, Shrink
<1>1. /\ VirtualSize' = End(t) /\ VirtualSize \in Nat /\ End(t) \in Nat
      /\ \A p \in Nat : p < End(t) => BlockOf(p)' = BlockOf(p)
                                      /\ bytes'[BlockOf(p).id] = bytes[BlockOf(p).id]
  BY <1>0, ShrinkChain, RequestFacts
<1>2. askBar[t].kind = op[t] /\ askBar[t].to = End(t) /\ DOMAIN askBar = Thread
  BY DEF askBar
<1>3. /\ contentBar = [i \in 1 .. VirtualSize |-> Cell(i - 1)] /\ Len(contentBar) = VirtualSize
      /\ DOMAIN contentBar = 1 .. VirtualSize
  BY <1>0, ContentFacts DEF ContentSound
<1>4. /\ contentBar' = [i \in 1 .. VirtualSize' |-> Cell(i - 1)']
      /\ contentBar' \in [1 .. VirtualSize' -> Value]
  BY ContentNext DEF ContentSound, IInv
<1>5. ASSUME NEW i \in DOMAIN contentBar, i \in DOMAIN contentBar'
      PROVE  contentBar'[i] = contentBar[i]
  <2> DEFINE p == i - 1
  <2>1. p \in Nat /\ p < End(t)
    BY <1>1, <1>3, <1>4, <1>5
  <2>2. BlockOf(p)' = BlockOf(p) /\ bytes'[BlockOf(p).id] = bytes[BlockOf(p).id]
    BY <1>1, <2>1
  <2>3. contentBar'[i] = Cell(p)' /\ contentBar[i] = Cell(p)
    BY <1>3, <1>4, <1>5
  <2>4. Cell(p)' = Cell(p)
    <3> HIDE DEF p
    <3> QED
      BY <2>2 DEF Cell
  <2> QED
    BY <2>3, <2>4
<1>6. op[t] = "write" => End(t) > VirtualSize
  BY <1>0, <1>1 DEF RequestInv
<1>7. Sized(t, TRUE) /\ out' = out
  BY DEF Shrink
<1>8. askBar' = IF op[t] = "set" THEN [askBar EXCEPT ![t] = File!NoRequest] ELSE askBar
  <2>1. CASE op[t] = "set"
    <3>1. op'[t] = "none" /\ offset'[t] = 0 /\ length'[t] = 0 /\ done'[t] = 0
      BY <1>0, <1>7, <2>1 DEF Sized, Ends, TypeOK
    <3>2. [kind |-> op'[t], from |-> Here(t)' + 1, to |-> End(t)'] = File!NoRequest
      BY <3>1 DEF Here, End, File!NoRequest
    <3> QED
      BY <1>0, <2>1, <3>2, AskChanges
  <2>2. CASE op[t] # "set"
    <3>1. op' = op /\ offset' = offset /\ length' = length /\ done' = done
      BY <1>0, <1>7, <2>2 DEF Sized, request
    <3>2. Here(t)' = Here(t) /\ End(t)' = End(t)
      BY <3>1 DEF Here, End
    <3> QED
      BY <1>0, <2>2, <3>1, <3>2, AskChanges
  <2> QED
    BY <2>1, <2>2
<1> HIDE DEF contentBar, askBar
<1> QED
  BY <1>0, <1>1, <1>2, <1>3, <1>4, <1>5, <1>6, <1>7, <1>8 DEF File!Resize

\* A new block is behind the end of the file.
LEMMA GrowStep ==
    ASSUME IInv, IInv', NEW t \in Thread, Act(t), AddBlock(t)
    PROVE  UNCHANGED <<contentBar, askBar, out>>
<1>0. TypeOK /\ ChainInv /\ RequestInv(t) /\ TypeOK' /\ ChainInv'
  BY DEF IInv, PhaseInv
<1>1. /\ VirtualSize' = VirtualSize /\ out' = out /\ op' = op /\ offset' = offset
      /\ length' = length /\ done' = done
  BY DEF AddBlock, request
<1>2. VirtualSize <= TotalSize(chain) /\ TotalSize(chain) \in Nat /\ VirtualSize \in Nat
  BY <1>0, ChainFacts, RequestFacts DEF ChainInv
<1>3. ASSUME NEW p \in Nat, p < VirtualSize PROVE Cell(p)' = Cell(p)
  <2>1. BlockOf(p)' = BlockOf(p) /\ bytes'[BlockOf(p).id] = bytes[BlockOf(p).id]
    BY <1>0, <1>2, <1>3, GrowChain
  <2> QED
    BY <2>1 DEF Cell
<1>4. contentBar' = contentBar
  BY <1>0, <1>1, <1>3, SameContent
<1>5. Here(t)' = Here(t) /\ End(t)' = End(t)
  BY <1>1 DEF Here, End
<1> QED
  BY <1>0, <1>1, <1>4, <1>5, AskChanges

\* A block is known by the name of its memory.
LEMMA SameBlock ==
    ASSUME TypeOK, ChainInv, NEW p \in Nat, p < TotalSize(chain), NEW q \in Nat,
           q < TotalSize(chain), BlockOf(p).id = BlockOf(q).id
    PROVE  BlockOf(p) = BlockOf(q)
<1>1. p \in 0 .. TotalSize(chain) - 1 /\ q \in 0 .. TotalSize(chain) - 1
  BY ChainFacts
<1>2. PICK i \in DOMAIN chain : Covers(chain[i], p)
  BY <1>1 DEF ChainInv
<1>3. PICK j \in DOMAIN chain : Covers(chain[j], q)
  BY <1>1 DEF ChainInv
<1>4. BlockOf(p) = chain[i] /\ BlockOf(q) = chain[j]
  BY <1>2, <1>3, BlockFacts
<1>5. ~(i < j) /\ ~(j < i)
  BY <1>4 DEF ChainInv
<1>6. i \in Nat /\ j \in Nat
  BY ChainFacts
<1> QED
  BY <1>4, <1>5, <1>6

\* The cells of one page lie in its block one behind the other.
LEMMA ChunkCells ==
    ASSUME TypeOK, ChainInv, MapInv, NEW t \in Thread, RequestInv(t), pc[t] = "copy"
    PROVE  \A p \in Nat : Here(t) <= p /\ p < Here(t) + Chunk(t) =>
              /\ BlockOf(p) = BlockOf(Here(t))
              /\ p + 1 - BlockOf(p).offset = Place(t) + (p - Here(t)) + 1
              /\ Cell(p) = bytes[page[t].id][Place(t) + (p - Here(t)) + 1]
<1>1. /\ Chunk(t) \in Nat /\ Here(t) + Chunk(t) <= PageBase(Here(t)) + PageSize
      /\ Here(t) + Chunk(t) <= End(t) /\ page[t].id = BlockOf(Here(t)).id
      /\ Place(t) = Here(t) - BlockOf(Here(t)).offset
  BY ChunkFacts
<1>2. /\ Here(t) \in Nat /\ Here(t) < TotalSize(chain) /\ End(t) <= VirtualSize
      /\ VirtualSize <= TotalSize(chain) /\ TotalSize(chain) \in Nat /\ End(t) \in Nat
      /\ VirtualSize \in Nat
  BY HereFacts, RequestFacts, ChainFacts DEF RequestInv, ChainInv
<1>3. /\ PageBase(Here(t)) \in Nat /\ PageBase(Here(t)) <= Here(t)
      /\ PageBase(Here(t)) % PageSize = 0
      /\ BlockOf(PageBase(Here(t))) = BlockOf(Here(t)) /\ BlockOf(Here(t)).offset \in Nat
  BY <1>2, PageFacts, PageOf
<1>4. ASSUME NEW p \in Nat, Here(t) <= p, p < Here(t) + Chunk(t)
      PROVE  /\ BlockOf(p) = BlockOf(Here(t))
             /\ p + 1 - BlockOf(p).offset = Place(t) + (p - Here(t)) + 1
             /\ Cell(p) = bytes[page[t].id][Place(t) + (p - Here(t)) + 1]
  <2>1. p < TotalSize(chain)
    BY <1>1, <1>2, <1>4
  <2>2. PageBase(p) = PageBase(Here(t))
    BY <1>1, <1>2, <1>3, <1>4, PageIs, SizeAssumption
  <2>3. BlockOf(p) = BlockOf(Here(t))
    BY <1>3, <2>1, <2>2, PageOf
  <2>4. p + 1 - BlockOf(p).offset = Place(t) + (p - Here(t)) + 1
    BY <1>1, <1>2, <1>3, <2>3
  <2> QED
    BY <1>1, <2>3, <2>4 DEF Cell
<1> QED
  BY <1>4

\* Which part of the request a copy is.
LEMMA CopyPart ==
    ASSUME IInv, NEW t \in Thread, Act(t), Copy(t)
    PROVE  /\ Here(t) + Chunk(t) \in askBar[t].from .. MaxSize
           /\ File!Part(t, Here(t) + Chunk(t))
           /\ askBar[t].kind = op[t] /\ askBar[t].from = Here(t) + 1
           /\ Here(t) + Chunk(t) <= VirtualSize
<1>0. TypeOK /\ ChainInv /\ MapInv /\ RequestInv(t) /\ pc[t] = "copy"
  BY DEF IInv, PhaseInv, Copy
<1>1. /\ Chunk(t) \in Nat /\ Chunk(t) >= 1 /\ Here(t) + Chunk(t) <= End(t)
      /\ Here(t) \in Nat /\ End(t) \in Nat /\ End(t) <= MaxSize /\ End(t) <= VirtualSize
      /\ offset[t] \in Nat /\ done[t] \in Nat
  BY <1>0, ChunkFacts, RequestFacts DEF RequestInv, End
<1>2. Len(contentBar) = VirtualSize /\ VirtualSize \in Nat
  BY <1>0, ContentFacts DEF ContentSound
<1>3. /\ askBar[t] = [kind |-> op[t], from |-> Here(t) + 1, to |-> End(t)]
      /\ askBar \in [Thread -> {askBar[u] : u \in Thread}]
  BY DEF askBar
<1>4. Here(t)' = Here(t) + Chunk(t) /\ op'[t] = op[t] /\ End(t)' = End(t)
  <2>1. done'[t] = done[t] + Chunk(t) /\ op' = op /\ offset' = offset /\ length' = length
    BY <1>0 DEF Copy, request, TypeOK
  <2> QED
    BY <1>1, <2>1 DEF Here, End
<1>5. askBar' = [askBar EXCEPT ![t] = [kind |-> op[t], from |-> Here(t) + Chunk(t) + 1,
                                       to |-> End(t)]]
  BY <1>0, <1>4, AskChanges
<1> HIDE DEF askBar, contentBar
<1>6. askBar' = [askBar EXCEPT ![t].from = Here(t) + Chunk(t) + 1]
  <2>1. [askBar[t] EXCEPT !.from = Here(t) + Chunk(t) + 1]
          = [kind |-> op[t], from |-> Here(t) + Chunk(t) + 1, to |-> End(t)]
    BY <1>3
  <2>2. [askBar EXCEPT ![t].from = Here(t) + Chunk(t) + 1]
          = [askBar EXCEPT ![t] = [askBar[t] EXCEPT !.from = Here(t) + Chunk(t) + 1]]
    OBVIOUS
  <2> QED
    BY <1>5, <2>1, <2>2
<1> QED
  BY <1>1, <1>2, <1>3, <1>6, SizeAssumption DEF File!Part

LEMMA PartFacts ==
    ASSUME NEW S, NEW s \in Seq(S), NEW a \in Nat, NEW n \in Nat, a + n <= Len(s)
    PROVE  SubSeq(s, a + 1, a + n) = [i \in 1 .. n |-> s[a + i]]
  OBVIOUS

LEMMA ReadStep ==
    ASSUME IInv, IInv', NEW t \in Thread, Act(t), Copy(t), op[t] = "read"
    PROVE  File!Read(t)
<1>0. TypeOK /\ ChainInv /\ MapInv /\ RequestInv(t) /\ pc[t] = "copy"
  BY DEF IInv, PhaseInv, Copy
<1> DEFINE h == Here(t)
           c == Chunk(t)
           a == Place(t)
           memory == bytes[page[t].id]
<1>1. /\ c \in Nat /\ h \in Nat /\ a \in Nat /\ a + c <= Len(memory) /\ memory \in Seq(Value)
  BY <1>0, ChunkFacts, RequestFacts DEF Size, TypeOK
<1>2. /\ contentBar \in Seq(Value) /\ Len(contentBar) = VirtualSize
      /\ contentBar = [i \in 1 .. VirtualSize |-> Cell(i - 1)] /\ VirtualSize \in Nat
      /\ VirtualSize <= MaxSize
  BY <1>0, ContentFacts DEF ContentSound
<1>3. h + c <= VirtualSize /\ File!Part(t, h + c) /\ h + c \in askBar[t].from .. MaxSize
      /\ askBar[t].kind = "read" /\ askBar[t].from = h + 1
  BY CopyPart
<1>4. out' = [out EXCEPT ![t] = out[t] \o SubSeq(memory, a + 1, a + c)]
  BY DEF Copy
<1>5. contentBar' = contentBar
  <2>1. UNCHANGED <<chain, bytes, VirtualSize>>
    BY DEF Copy
  <2> QED
    BY <2>1 DEF contentBar, BlockOf
<1>6. \A i \in 1 .. c : contentBar[h + i] = memory[a + i]
  <2> SUFFICES ASSUME NEW i \in 1 .. c PROVE contentBar[h + i] = memory[a + i]
    OBVIOUS
  <2> DEFINE p == h + i - 1
  <2>1. p \in Nat /\ h <= p /\ p < h + c /\ a + (p - h) + 1 = a + i
    BY <1>1
  <2>2. Cell(p) = memory[a + (p - h) + 1]
    BY <1>0, <2>1, ChunkCells
  <2>3. h + i \in 1 .. VirtualSize /\ (h + i) - 1 = p
    BY <1>1, <1>2, <1>3
  <2> HIDE DEF contentBar
  <2>4. contentBar[h + i] = Cell(p)
    BY <1>2, <2>3
  <2> QED
    BY <2>1, <2>2, <2>4
<1>7. SubSeq(contentBar, h + 1, h + c) = SubSeq(memory, a + 1, a + c)
  <2> HIDE DEF contentBar, memory, h, a, c
  <2>1. SubSeq(contentBar, h + 1, h + c) = [i \in 1 .. c |-> contentBar[h + i]]
    BY <1>1, <1>2, <1>3, PartFacts
  <2>2. SubSeq(memory, a + 1, a + c) = [i \in 1 .. c |-> memory[a + i]]
    BY <1>1, PartFacts
  <2> QED
    BY <1>6, <2>1, <2>2
<1> HIDE DEF contentBar, askBar, memory, h, a, c
<1> QED
  BY <1>3, <1>4, <1>5, <1>7 DEF File!Read

LEMMA WriteStep ==
    ASSUME IInv, IInv', NEW t \in Thread, Act(t), Copy(t), op[t] # "read"
    PROVE  File!Write(t)
<1>0. /\ TypeOK /\ ChainInv /\ MapInv /\ RequestInv(t) /\ pc[t] = "copy"
      /\ op[t] \in {"write", "load"} /\ value[t] \in Value
  BY DEF IInv, PhaseInv, Copy, RequestInv, TypeOK
<1> DEFINE h == Here(t)
           c == Chunk(t)
           a == Place(t)
           b == page[t].id
<1>1. /\ c \in Nat /\ h \in Nat /\ a \in Nat /\ a + c <= Len(bytes[b]) /\ b \in BlockId
      /\ bytes[b] \in Seq(Value) /\ h < TotalSize(chain) /\ b = BlockOf(h).id
      /\ a = h - BlockOf(h).offset
  BY <1>0, ChunkFacts, RequestFacts, HereFacts DEF Size, TypeOK, RequestInv
<1>2. /\ contentBar = [i \in 1 .. VirtualSize |-> Cell(i - 1)] /\ VirtualSize \in Nat
      /\ VirtualSize <= MaxSize /\ DOMAIN contentBar = 1 .. VirtualSize
      /\ VirtualSize <= TotalSize(chain) /\ TotalSize(chain) \in Nat
  BY <1>0, ContentFacts, ChainFacts DEF ContentSound, ChainInv
<1>3. h + c <= VirtualSize /\ File!Part(t, h + c) /\ h + c \in askBar[t].from .. MaxSize
      /\ askBar[t].kind = op[t] /\ askBar[t].from = h + 1
  BY CopyPart
<1>4. /\ bytes' = [bytes EXCEPT ![b] = [i \in DOMAIN bytes[b] |->
                      IF i \in a + 1 .. a + c THEN value[t] ELSE bytes[b][i]]]
      /\ out' = out /\ chain' = chain /\ VirtualSize' = VirtualSize
  BY DEF Copy
<1>5. contentBar' = [i \in 1 .. VirtualSize |-> Cell(i - 1)']
  BY <1>4, ContentNext DEF ContentSound, IInv
<1>6. ASSUME NEW p \in Nat, p < VirtualSize
      PROVE  Cell(p)' = IF p + 1 \in h + 1 .. h + c THEN value[t] ELSE Cell(p)
  <2> DEFINE k == p + 1 - BlockOf(p).offset
             d == BlockOf(p).id
  <2>1. BlockOf(p)' = BlockOf(p)
    BY <1>4 DEF BlockOf
  <2>2. /\ d \in BlockId /\ k \in DOMAIN bytes[d] /\ BlockOf(p).offset \in Nat
        /\ BlockOf(h).offset \in Nat
    BY <1>0, <1>1, <1>2, <1>6, CellType
  <2>3. Cell(p) = bytes[d][k] /\ Cell(p)' = bytes'[d][k]
    <3> HIDE DEF contentBar
    <3> QED
      BY <2>1 DEF Cell
  <2>4. CASE p + 1 \in h + 1 .. h + c
    <3>1. h <= p /\ p < h + c
      BY <1>1, <2>4
    <3>2. BlockOf(p) = BlockOf(h) /\ k = a + (p - h) + 1
      BY <1>0, <3>1, ChunkCells
    <3> HIDE DEF k, d, h, a, c, b
    <3>3. k \in a + 1 .. a + c
      BY <1>1, <3>1, <3>2
    <3>4. d = b
      BY <1>1, <3>2 DEF d
    <3>5. k \in DOMAIN bytes[b]
      BY <2>2, <3>4
    <3>6. bytes'[b][k] = value[t]
      <4> DEFINE new == [i \in DOMAIN bytes[b] |->
                            IF i \in a + 1 .. a + c THEN value[t] ELSE bytes[b][i]]
      <4>1. new[k] = value[t]
        BY <3>3, <3>5
      <4>2. bytes' = [bytes EXCEPT ![b] = new] /\ b \in DOMAIN bytes
        BY <1>0, <1>1, <1>4 DEF TypeOK
      <4> HIDE DEF new
      <4>3. bytes'[b] = new
        BY <4>2
      <4> QED
        BY <4>1, <4>3
    <3> QED
      BY <2>3, <2>4, <3>4, <3>6
  <2>5. CASE p + 1 \notin h + 1 .. h + c /\ d # b
    <3> HIDE DEF d, k, b, a, c, h
    <3> QED
      BY <1>1, <1>4, <2>2, <2>3, <2>5 DEF TypeOK
  <2>6. CASE p + 1 \notin h + 1 .. h + c /\ d = b
    <3>1. p < TotalSize(chain)
      BY <1>2, <1>6
    <3>2. BlockOf(p) = BlockOf(h)
      BY <1>0, <1>1, <2>6, <3>1, SameBlock
    <3>3. a = h - BlockOf(p).offset /\ k = p + 1 - BlockOf(p).offset
      BY <1>1, <3>2
    <3> HIDE DEF k, d, h, a, c, b
    <3>4. k \notin a + 1 .. a + c
      <4>1. BlockOf(p).offset \in Nat
        BY <2>2
      <4> QED
        BY <1>1, <2>6, <3>3, <4>1
    <3> QED
      BY <1>1, <1>4, <2>2, <2>3, <2>6, <3>4 DEF TypeOK
  <2> QED
    BY <2>4, <2>5, <2>6
<1>7. contentBar' = [i \in 1 .. VirtualSize |->
                        IF i \in h + 1 .. h + c THEN value[t] ELSE contentBar[i]]
  <2> SUFFICES ASSUME NEW i \in 1 .. VirtualSize
               PROVE  Cell(i - 1)' = IF i \in h + 1 .. h + c THEN value[t] ELSE contentBar[i]
    <3> HIDE DEF contentBar
    <3> QED
      BY <1>5
  <2>1. i - 1 \in Nat /\ i - 1 < VirtualSize /\ (i - 1) + 1 = i
    BY <1>2
  <2>2. Cell(i - 1)' = IF (i - 1) + 1 \in h + 1 .. h + c THEN value[t] ELSE Cell(i - 1)
    BY <1>6, <2>1
  <2>3. contentBar[i] = Cell(i - 1)
    <3> HIDE DEF contentBar
    <3> QED
      BY <1>2
  <2> QED
    BY <2>1, <2>2, <2>3
<1> HIDE DEF contentBar, askBar, h, a, c
<1> QED
  BY <1>0, <1>2, <1>3, <1>4, <1>7 DEF File!Write

LEMMA CloseStep ==
    ASSUME IInv, IInv', Close
    PROVE  File!Close
<1>0. /\ TypeOK /\ ChainInv /\ (\A t \in Thread : RequestInv(t) /\ pc[t] = "idle")
      /\ file = "open"
  BY DEF IInv, PhaseInv, Close
<1>1. VirtualSize' = 0
  BY <1>0, CloseFacts
<1>2. contentBar' = <<>>
  BY <1>1 DEF contentBar
<1>3. askBar = [t \in Thread |-> File!NoRequest]
  BY <1>0 DEF askBar, RequestInv, Here, End, File!NoRequest
<1>4. askBar' = askBar /\ out' = out
  BY DEF Close, request, askBar, Here, End
<1> HIDE DEF contentBar, askBar
<1> QED
  BY <1>2, <1>3, <1>4 DEF File!Close

\* Every step is one of the file's, or is not seen by its users.
LEMMA StepFile ==
    ASSUME IInv, IInv', [Next]_vars
    PROVE  [File!Next]_<<contentBar, askBar, out>>
<1>1. CASE UNCHANGED vars
  BY <1>1 DEF vars, shared, request, contentBar, askBar, Here, End, BlockOf
<1>2. CASE Close
  BY <1>2, CloseStep DEF File!Next
<1>3. ASSUME NEW t \in Thread, Act(t) PROVE [File!Next]_<<contentBar, askBar, out>>
  <2>0. /\ TypeOK /\ RequestInv(t) /\ MaxSize \in Nat /\ MaxSize > 0
        /\ VirtualSize \in Nat /\ file \in {"none", "loading", "open", "failed", "closed"}
    BY RequestFacts, SizeAssumption, SMTT(30) DEF IInv, PhaseInv, TypeOK
  <2>1. ASSUME File!Ask(t) \/ File!Resize(t) \/ File!Write(t) \/ File!Read(t) \/ File!Finish(t)
        PROVE  [File!Next]_<<contentBar, askBar, out>>
    BY <2>1 DEF File!Next
  <2> USE DEF shared, lock, request
  <2>2. ASSUME NEW n \in Cells, Create(t, n) PROVE [File!Next]_<<contentBar, askBar, out>>
    <3>1. CASE n = 0
      BY <1>3, <2>2, <3>1, HiddenStep DEF Create
    <3>2. CASE n # 0
      <4>1. /\ pc[t] = "idle" /\ op'[t] = "load" /\ offset'[t] = 0 /\ length'[t] = n
            /\ done'[t] = 0 /\ n \in Nat /\ n <= MaxSize /\ file = "none"
        BY <2>0, <2>2, <3>2 DEF Create, TypeOK, RequestInv, Cells
      <4>2. UNCHANGED <<chain, bytes, VirtualSize, out>>
        BY <2>2 DEF Create
      <4> QED
        BY <1>3, <2>0, <2>1, <4>1, <4>2, AskStep
    <3> QED
      BY <3>1, <3>2
  <2>3. ASSUME NEW n \in Cells, SetEndOfFile(t, n)
        PROVE  [File!Next]_<<contentBar, askBar, out>>
    <3>1. /\ pc[t] = "idle" /\ op'[t] = "set" /\ offset'[t] = 0 /\ length'[t] = n
          /\ done'[t] = 0 /\ n \in Nat /\ n <= MaxSize /\ file = "open"
      BY <2>0, <2>3 DEF SetEndOfFile, TypeOK, RequestInv, Cells
    <3>2. UNCHANGED <<chain, bytes, VirtualSize, out>>
      BY <2>3 DEF SetEndOfFile
    <3> QED
      BY <1>3, <2>0, <2>1, <3>1, <3>2, AskStep
  <2>4. ASSUME NEW o \in Nat, NEW n \in Nat, o < MaxSize, o + n <= MaxSize, Read(t, o, n)
        PROVE  [File!Next]_<<contentBar, askBar, out>>
    <3>1. /\ pc[t] = "idle" /\ op'[t] = "read" /\ offset'[t] = o /\ length'[t] \in Nat
          /\ length'[t] <= n /\ done'[t] = 0 /\ file = "open"
      BY <2>0, <2>4 DEF Read, TypeOK, RequestInv
    <3>2. UNCHANGED <<chain, bytes, VirtualSize, out>>
      BY <2>4 DEF Read
    <3> QED
      BY <1>3, <2>0, <2>1, <2>4, <3>1, <3>2, AskStep
  <2>5. ASSUME NEW o \in Nat, NEW n \in Nat, o < MaxSize, o + n <= MaxSize, NEW v \in Value,
               Write(t, o, n, v)
        PROVE  [File!Next]_<<contentBar, askBar, out>>
    <3>1. /\ pc[t] = "idle" /\ op'[t] = "write" /\ offset'[t] = o /\ length'[t] = n
          /\ done'[t] = 0 /\ file = "open"
      BY <2>0, <2>5 DEF Write, TypeOK, RequestInv
    <3>2. UNCHANGED <<chain, bytes, VirtualSize, out>>
      BY <2>5 DEF Write
    <3> QED
      BY <1>3, <2>0, <2>1, <2>5, <3>1, <3>2, AskStep
  <2>6. ASSUME op[t] # "read", out' = out, Ends(t), UNCHANGED <<chain, bytes, VirtualSize>>
        PROVE  [File!Next]_<<contentBar, askBar, out>>
    <3>1. op'[t] = "none" /\ offset'[t] = 0 /\ length'[t] = 0 /\ done'[t] = 0
      BY <2>0, <2>6 DEF Ends, TypeOK
    <3>2. out' = [out EXCEPT ![t] = <<>>]
      BY <2>6, NothingRead
    <3> QED
      BY <1>3, <2>1, <2>6, <3>1, <3>2, FinishStep
  <2>7. ASSUME UNCHANGED <<op, offset, length, done, chain, bytes, VirtualSize, out>>
        PROVE  [File!Next]_<<contentBar, askBar, out>>
    BY <1>3, <2>7, HiddenStep
  <2>8. CASE Upgrade(t)
    BY <2>0, <2>6, <2>7, <2>8 DEF Upgrade, RequestInv
  <2>9. CASE Shrink(t)
    BY <1>3, <2>1, <2>9, ResizeStep
  <2>10. CASE AddBlock(t)
    BY <1>3, <2>10, GrowStep
  <2>11. CASE NoMemory(t)
    BY <2>0, <2>6, <2>7, <2>11 DEF NoMemory, Sized, RequestInv
  <2>12. CASE MapPage(t) \/ MapFails(t) \/ LoadFails(t)
    BY <2>7, <2>12 DEF MapPage, MapFails, LoadFails
  <2>13. CASE Copy(t)
    BY <1>3, <2>1, <2>13, ReadStep, WriteStep
  <2>14. CASE StorePage(t)
    BY <2>6, <2>7, <2>14 DEF StorePage
  <2>15. CASE Complete(t)
    <3>1. op'[t] = "none" /\ offset'[t] = 0 /\ length'[t] = 0 /\ done'[t] = 0
      BY <2>0, <2>15 DEF Complete, Ends, TypeOK
    <3>2. out' = [out EXCEPT ![t] = <<>>] /\ UNCHANGED <<chain, bytes, VirtualSize>>
      BY <2>15 DEF Complete
    <3> QED
      BY <1>3, <2>1, <3>1, <3>2, FinishStep
  <2> QED
    BY <1>3, <2>2, <2>3, <2>4, <2>5, <2>8, <2>9, <2>10, <2>11, <2>12, <2>13, <2>14, <2>15 DEF Act
<1> QED
  BY <1>1, <1>2, <1>3, StepCases

(* The chain of blocks, the mappings that are handed from request to request and the lock that is
   only tried implement a plain file: whatever a request of awefsalloc.c copies is what the file
   holds there, and what it writes is what the file holds after it. *)
THEOREM ImplementsFile == Spec => FileSpec
<1>1. Init => File!Init
  BY InitFile
<1>2. IInv /\ IInv' /\ [Next]_vars => [File!Next]_<<contentBar, askBar, out>>
  BY StepFile
<1> QED
  BY <1>1, <1>2, Inductive, PTL DEF Spec, FileSpec, File!Spec
=============================================================================
