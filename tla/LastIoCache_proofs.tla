------------------------- MODULE LastIoCache_proofs -------------------------
(***************************************************************************)
(* Proofs about LastIoCache, for every set of clients, every size of the   *)
(* disk and every set of payloads, and then about MountApi, for every set  *)
(* of programs, device numbers and mount points.  The two share nothing.   *)
(***************************************************************************)
EXTENDS LastIoCache, MountApi, TLAPS

-----------------------------------------------------------------------------
(* Words, buffers and requests. *)

LEMMA WordType == Zero \in Word /\ Payload \subseteq Word /\ <<Fill, Fill>> \in Word
  BY PayloadAssumption DEF Zero, Word

LEMMA RequestFacts ==
    ASSUME NEW r \in Request
    PROVE  /\ r.op \in {"read", "write"} /\ r.off \in Cell /\ r.off \in Nat
           /\ r.len \in 1 .. Size /\ r.len \in Nat /\ r.len > 0
           /\ r.off + r.len <= Size /\ r.word \in Word
  BY WordType, SizeAssumption DEF Request, Cell

LEMMA NoRequestType == NoRequest \in Request
  BY WordType, SizeAssumption DEF Request, NoRequest, Cell

\* A buffer of at most n words.
LEMMA WordsFacts ==
    ASSUME NEW n \in Nat, NEW w
    PROVE  w \in Words(n) <=> w \in Seq(Word) /\ Len(w) <= n
<1>1. ASSUME w \in Words(n) PROVE w \in Seq(Word) /\ Len(w) <= n
  <2>1. PICK k \in 0 .. n : w \in [1 .. k -> Word]
    BY <1>1 DEF Words
  <2> QED
    BY <2>1
<1>2. ASSUME w \in Seq(Word), Len(w) <= n PROVE w \in Words(n)
  <2>1. Len(w) \in 0 .. n /\ w \in [1 .. Len(w) -> Word]
    BY <1>2
  <2> QED
    BY <2>1 DEF Words
<1> QED
  BY <1>1, <1>2

LEMMA NullType == Null \in Words(Size)
<1>1. <<>> \in Seq(Word) /\ Len(<<>>) <= Size
  BY SizeAssumption
<1> QED
  BY <1>1, WordsFacts, SizeAssumption DEF Null

LEMMA SeqFacts ==
    ASSUME NEW n \in Nat, NEW f \in [1 .. n -> Word]
    PROVE  f \in Seq(Word) /\ Len(f) = n /\ DOMAIN f = 1 .. n
  OBVIOUS

\* Every step is one of these.
LEMMA StepCases ==
    ASSUME Next
    PROVE  \/ \E c \in Client : \/ \E r \in Request : Start(c, r)
                                \/ CompareRange(c) \/ CopyFromBuffer(c) \/ CopyFromNull(c)
                                \/ Return(c) \/ TakeRequest(c)
           \/ Invalidate \/ Allocate \/ AllocateFails
           \/ \E n \in 0 .. Size : ReadImage(n)
           \/ WriteImage \/ TransferFails \/ PublishOffset \/ PublishLength
           \/ FormatTracks \/ TearDown \/ RemoveVirtualDisk \/ ForeignWrite
  BY DEF Next, ClientStep, WorkerStep

-----------------------------------------------------------------------------
(* The inductive invariant. *)

\* A range that is published lies in the buffer and on the disk, and there is one only while
\* there is a buffer, until the teardown.
RangeInv ==
    /\ last_io_data # Null => last_io_length <= Len(last_io_data)
    /\ last_io_offset + last_io_length <= Size
    /\ last_io_data = Null /\ image_open => last_io_length = 0

\* The worker serves a queued request.  From its invalidation to the end of the transfer nothing
\* is published, and its buffer holds the request.
WorkerInv ==
    /\ worker # "idle" => irp \in Client /\ pc[irp] = "queued"
    /\ worker \in {"allocate", "transfer", "offset", "length"} => last_io_length = 0 /\ ~formatted
    /\ worker = "allocate" => last_io_data = Null \/ req[irp].len <= Len(last_io_data)
    /\ worker \in {"transfer", "offset", "length"} =>
          last_io_data # Null /\ req[irp].len <= Len(last_io_data)
    /\ worker = "length" => last_io_offset = req[irp].off
    /\ worker \in {"offset", "length"} /\ req[irp].op = "read" =>
          Len(result[irp]) <= req[irp].len

\* Who looks at the buffer reads a disk whose image is not shared; who copies has the lock
\* and a range that is published.
CopyInv ==
    \A c \in Client :
        /\ pc[c] \in {"lock", "copy"} => req[c].op = "read" /\ ~shared_image
        /\ pc[c] = "copy" =>
              last_io_lock = c /\ Hit(req[c]) /\ worker \in {"idle", "invalidate"}

\* What the transfer has moved, and will publish, is what the image holds.
Moved == IF req[irp].op = "read" THEN Len(result[irp]) ELSE req[irp].len
CoherentInv ==
    /\ CacheCoherent
    /\ worker \in {"offset", "length"} /\ ~shared_image =>
          \A i \in 1 .. Moved : last_io_data[i] = image[req[irp].off + i - 1]

\* A read under way has seen the image as it is, and what the worker got for it is in one of
\* the images it has seen.
Matches(c, m) == \A i \in DOMAIN result[c] : result[c][i] = View(m[req[c].off + i - 1])
SeenInv ==
    /\ \A c \in Client : Reading(c) => image \in seen[c]
    /\ worker \in {"offset", "length"} /\ req[irp].op = "read" =>
          \E m \in seen[irp] : Matches(irp, m)
    /\ FreshReads

\* The buffer holds the word of the write that is under way.
WordInv ==
    /\ worker = "transfer" /\ req[irp].op = "write" =>
          \A i \in 1 .. req[irp].len : last_io_data[i] = req[irp].word
    /\ PlainWritesAsGiven

IInv == TypeOK /\ RangeInv /\ WorkerInv /\ CopyInv /\ CoherentInv /\ SeenInv /\ WordInv

-----------------------------------------------------------------------------
(* Type correctness. *)

LEMMA InitType == Init => TypeOK
<1> SUFFICES ASSUME Init PROVE TypeOK
  OBVIOUS
<1>1. Null \in Words(Size)
  BY NullType
<1>2. 0 \in Cell /\ 0 \in 0 .. Size
  BY SizeAssumption DEF Cell
<1>3. byte_swap \in BOOLEAN /\ shared_image \in BOOLEAN
  BY SettingsAssumption DEF Init
<1>4. image \in [Cell -> Word] /\ req \in [Client -> Request]
  BY WordType, NoRequestType DEF Init
<1>5. foreign \in 0 .. Foreign
  BY ForeignAssumption DEF Init
<1> QED
  BY <1>1, <1>2, <1>3, <1>4, <1>5 DEF Init, TypeOK, Null

\* The buffer and the results are sequences.
LEMMA TypeFacts ==
    ASSUME TypeOK
    PROVE  /\ last_io_data \in Seq(Word) /\ Len(last_io_data) <= Size
           /\ \A c \in Client : result[c] \in Seq(Word) /\ Len(result[c]) <= Size
           /\ last_io_offset \in Nat /\ last_io_length \in Nat /\ Size \in Nat
  BY WordsFacts, SizeAssumption DEF TypeOK, Cell

LEMMA ViewType == \A w \in Word : View(w) \in Word
  BY DEF View, Swap, Word

LEMMA StoredType ==
    ASSUME TypeOK, irp \in Client, NEW n \in Nat, n <= Len(last_io_data)
    PROVE  Stored(n) \in [Cell -> Word]
<1> DEFINE r == req[irp]
<1>1. r \in Request /\ r.off \in Nat
  BY RequestFacts DEF TypeOK
<1>2. ASSUME NEW p \in Cell, p \in Range(r.off, n) PROVE last_io_data[p - r.off + 1] \in Word
  <2>1. p - r.off + 1 \in 1 .. Len(last_io_data)
    BY <1>1, <1>2, TypeFacts, SizeAssumption, SMTT(30) DEF Range, Cell
  <2> QED
    BY <2>1, TypeFacts
<1> QED
  BY <1>1, <1>2 DEF Stored, TypeOK

LEMMA StepType == TypeOK /\ RangeInv /\ WorkerInv /\ CopyInv /\ [Next]_vars => TypeOK'
<1> SUFFICES ASSUME TypeOK, RangeInv, WorkerInv, CopyInv, [Next]_vars PROVE TypeOK'
  OBVIOUS
<1> USE DEF TypeOK, config, outside, cache, request, Fixed, Frame
<1>1. CASE UNCHANGED vars
  BY <1>1 DEF vars
<1>2. ASSUME NEW c \in Client, NEW r \in Request, Start(c, r) PROVE TypeOK'
  BY <1>2 DEF Start, At
<1>3. ASSUME NEW c \in Client, CompareRange(c) \/ CopyFromNull(c) PROVE TypeOK'
  BY <1>3 DEF CompareRange, CopyFromNull, At
<1>4. ASSUME NEW c \in Client, CopyFromBuffer(c) PROVE TypeOK'
  <2> DEFINE r == req[c]
             words == [i \in 1 .. r.len |-> View(last_io_data[r.off - last_io_offset + i])]
  <2>1. r \in Request /\ pc[c] = "copy" /\ Hit(r) /\ last_io_data # Null
    BY <1>4 DEF CopyFromBuffer, At, CopyInv
  <2>2. r.off \in Nat /\ r.len \in Nat /\ r.len <= Size
    BY <2>1, RequestFacts
  <2>3. ASSUME NEW i \in 1 .. r.len
        PROVE  View(last_io_data[r.off - last_io_offset + i]) \in Word
    <3>1. r.off - last_io_offset + i \in 1 .. Len(last_io_data)
      BY <2>1, <2>2, TypeFacts, SMTT(30) DEF Hit, RangeInv
    <3> QED
      BY <3>1, TypeFacts, ViewType
  <2>4. words \in Seq(Word) /\ Len(words) = r.len
    BY <2>2, <2>3
  <2>5. words \in Words(Size)
    BY <2>2, <2>4, WordsFacts, SizeAssumption
  <2> QED
    BY <1>4, <2>5 DEF CopyFromBuffer, At
<1>5. ASSUME NEW c \in Client, Return(c) PROVE TypeOK'
  BY <1>5, NullType, NoRequestType DEF Return, Null
<1>6. ASSUME NEW c \in Client, TakeRequest(c) PROVE TypeOK'
  BY <1>6 DEF TakeRequest, Goto
<1>7. CASE Invalidate
  <2>1. 0 \in Cell /\ 0 \in 0 .. Size
    BY SizeAssumption DEF Cell
  <2> QED
    BY <1>7, <2>1, NullType DEF Invalidate, Goto
<1>8. CASE Allocate
  <2> DEFINE r == req[irp]
             buffer == IF last_io_data = Null THEN [i \in 1 .. r.len |-> Zero] ELSE last_io_data
             words == [i \in DOMAIN buffer |->
                          IF r.op = "write" /\ i <= r.len THEN r.word ELSE buffer[i]]
  <2>1. r \in Request
    BY <1>8 DEF Allocate, Goto, WorkerInv
  <2>2. r.len \in Nat /\ r.len <= Size /\ r.word \in Word
    BY <2>1, RequestFacts
  <2>3. buffer \in Seq(Word) /\ Len(buffer) <= Size
    <3>1. /\ [i \in 1 .. r.len |-> Zero] \in Seq(Word)
          /\ Len([i \in 1 .. r.len |-> Zero]) = r.len
      BY <2>2, WordType
    <3> QED
      BY <3>1, <2>2, TypeFacts
  <2> HIDE DEF buffer
  <2>4. words \in Seq(Word) /\ Len(words) = Len(buffer)
    BY <2>2, <2>3
  <2>5. words \in Words(Size)
    BY <2>3, <2>4, WordsFacts, SizeAssumption
  <2>6. last_io_data' = words
    BY <1>8 DEF Allocate, buffer
  <2> QED
    BY <1>8, <2>5, <2>6 DEF Allocate, Goto
<1>9. CASE AllocateFails
  BY <1>9 DEF AllocateFails, Goto
<1>10. ASSUME NEW n \in 0 .. Size, ReadImage(n) PROVE TypeOK'
  <2> DEFINE r == req[irp]
             held == [i \in 1 .. n |-> image[r.off + i - 1]]
             words == [i \in DOMAIN last_io_data |-> IF i <= n THEN held[i] ELSE last_io_data[i]]
             views == [i \in 1 .. n |-> View(held[i])]
  <2>1. r \in Request /\ n <= r.len /\ irp \in Client
    BY <1>10 DEF ReadImage, Goto, WorkerInv
  <2>2. r.off \in Nat /\ r.len \in Nat /\ r.off + r.len <= Size
    BY <2>1, RequestFacts
  <2>3. ASSUME NEW i \in 1 .. n PROVE held[i] \in Word
    <3>1. r.off + i - 1 \in Cell
      BY <2>1, <2>2, SizeAssumption DEF Cell
    <3> QED
      BY <3>1
  <2>4. \A i \in 1 .. n : held[i] \in Word
    BY <2>3
  <2>4a. last_io_data' = words /\ result' = [result EXCEPT ![irp] = views]
    BY <1>10 DEF ReadImage
  <2> HIDE DEF held
  <2>5. words \in Seq(Word) /\ Len(words) = Len(last_io_data)
    <3>1. \A i \in 1 .. Len(last_io_data) :
              (IF i <= n THEN held[i] ELSE last_io_data[i]) \in Word
      BY <2>4, TypeFacts
    <3>2. DOMAIN last_io_data = 1 .. Len(last_io_data) /\ Len(last_io_data) \in Nat
      BY TypeFacts
    <3>3. words \in [1 .. Len(last_io_data) -> Word]
      BY <3>1, <3>2
    <3> QED
      BY <3>2, <3>3, SeqFacts
  <2>6. views \in Seq(Word) /\ Len(views) = n
    BY <2>4, ViewType
  <2>7. words \in Words(Size) /\ views \in Words(Size)
    BY <2>5, <2>6, TypeFacts, WordsFacts, SizeAssumption
  <2> QED
    BY <1>10, <2>1, <2>4a, <2>7, ZenonT(60) DEF ReadImage, Goto
<1>11. CASE WriteImage
  <2>1. irp \in Client /\ req[irp] \in Request /\ req[irp].len <= Len(last_io_data)
    BY <1>11 DEF WriteImage, Goto, WorkerInv
  <2>2. req[irp].len \in Nat
    BY <2>1, RequestFacts
  <2>3. image' \in [Cell -> Word]
    BY <1>11, <2>1, <2>2, StoredType DEF WriteImage
  <2> QED
    BY <1>11, <2>3 DEF WriteImage, Goto, Observe
<1>12. CASE TransferFails
  <2>1. irp \in Client /\ req[irp] \in Request /\ req[irp].len <= Len(last_io_data)
    BY <1>12 DEF TransferFails, Goto, WorkerInv
  <2>2. req[irp].len \in Nat
    BY <2>1, RequestFacts
  <2>3. image' \in [Cell -> Word]
    <3>1. PICK n \in 0 .. req[irp].len - 1 :
              image' = IF image_open /\ req[irp].op = "write" THEN Stored(n) ELSE image
      BY <1>12 DEF TransferFails
    <3>2. n \in Nat /\ n <= Len(last_io_data)
      BY <2>1, <2>2, TypeFacts
    <3> QED
      BY <2>1, <3>1, <3>2, StoredType
  <2> QED
    BY <1>12, <2>3, NullType DEF TransferFails, Goto, Observe
<1>13. CASE PublishOffset
  <2>1. req[irp].off \in Cell
    BY <1>13, RequestFacts DEF PublishOffset, Goto, WorkerInv
  <2> QED
    BY <1>13, <2>1 DEF PublishOffset, Goto
<1>14. CASE PublishLength
  <2>1. irp \in Client /\ req[irp].len \in 0 .. Size /\ Len(result[irp]) \in 0 .. Size
    BY <1>14, RequestFacts, TypeFacts DEF PublishLength, Goto, WorkerInv
  <2> QED
    BY <1>14, <2>1 DEF PublishLength, Goto
<1>15. CASE FormatTracks
  <2>1. image' \in [Cell -> Word]
    BY <1>15, WordType DEF FormatTracks
  <2>2. foreign' \in 0 .. Foreign
    BY <1>15, ForeignAssumption DEF FormatTracks
  <2> QED
    BY <1>15, <2>1, <2>2 DEF FormatTracks, Observe
<1>16. CASE TearDown
  BY <1>16, NullType DEF TearDown
<1>17. CASE RemoveVirtualDisk
  BY <1>17 DEF RemoveVirtualDisk
<1>18. CASE ForeignWrite
  <2>1. image' \in [Cell -> Word]
    BY <1>18, WordType DEF ForeignWrite
  <2>2. foreign' \in 0 .. Foreign
    BY <1>18, ForeignAssumption DEF ForeignWrite
  <2> QED
    BY <1>18, <2>1, <2>2 DEF ForeignWrite, Observe
<1> QED
  BY StepCases, <1>1, <1>2, <1>3, <1>4, <1>5, <1>6, <1>7, <1>8, <1>9, <1>10, <1>11, <1>12,
     <1>13, <1>14, <1>15, <1>16, <1>17, <1>18

-----------------------------------------------------------------------------
(* The range, the worker and the copies. *)

LEMMA StepRange ==
    TypeOK /\ RangeInv /\ WorkerInv /\ CopyInv /\ [Next]_vars => RangeInv'
<1> SUFFICES ASSUME TypeOK, RangeInv, WorkerInv, CopyInv, [Next]_vars PROVE RangeInv'
  OBVIOUS
<1> USE DEF RangeInv, config, outside, cache, request, Fixed, Frame
<1>1. CASE UNCHANGED vars
  BY <1>1 DEF vars
<1>2. ASSUME NEW c \in Client, NEW r \in Request, Start(c, r) PROVE RangeInv'
  BY <1>2 DEF Start
<1>3. ASSUME NEW c \in Client,
             \/ CompareRange(c) \/ CopyFromBuffer(c) \/ CopyFromNull(c) \/ Return(c)
             \/ TakeRequest(c)
      PROVE  RangeInv'
  BY <1>3 DEF CompareRange, CopyFromBuffer, CopyFromNull, Return, TakeRequest
<1>4. CASE Invalidate
  BY <1>4, TypeFacts, SizeAssumption DEF Invalidate
<1>5. CASE Allocate
  <2>1. worker = "allocate" /\ last_io_length' = 0 /\ last_io_offset' = last_io_offset
        /\ last_io_length = 0
    BY <1>5 DEF Allocate, Goto, WorkerInv
  <2>2. last_io_data' # Null => last_io_length' <= Len(last_io_data')
    <3>1. last_io_data' \in Words(Size)
      BY StepType DEF TypeOK
    <3> QED
      BY <2>1, <3>1, WordsFacts, TypeFacts
  <2> QED
    BY <1>5, <2>1, <2>2, TypeFacts DEF Allocate
<1>6. CASE AllocateFails \/ TransferFails \/ TearDown
  BY <1>6, TypeFacts DEF AllocateFails, TransferFails, TearDown, Goto, WorkerInv
<1>7. ASSUME NEW n \in 0 .. Size, ReadImage(n) PROVE RangeInv'
  <2> QED
    BY <1>7, TypeFacts DEF ReadImage, Goto, WorkerInv
<1>8. CASE WriteImage \/ FormatTracks \/ RemoveVirtualDisk \/ ForeignWrite
  BY <1>8 DEF WriteImage, FormatTracks, RemoveVirtualDisk, ForeignWrite
<1>9. CASE PublishOffset \/ PublishLength
  <2>1. irp \in Client /\ req[irp] \in Request
    BY <1>9 DEF PublishOffset, PublishLength, Goto, WorkerInv, TypeOK
  <2> QED
    BY <1>9, <2>1, RequestFacts, TypeFacts DEF PublishOffset, PublishLength, Goto, WorkerInv
<1> QED
  BY StepCases, <1>1, <1>2, <1>3, <1>4, <1>5, <1>6, <1>7, <1>8, <1>9

LEMMA StepWorker == TypeOK /\ RangeInv /\ WorkerInv /\ [Next]_vars => WorkerInv'
<1> SUFFICES ASSUME TypeOK, RangeInv, WorkerInv, [Next]_vars PROVE WorkerInv'
  OBVIOUS
<1> USE DEF WorkerInv, config, outside, cache, request, Fixed, Frame
<1>1. CASE UNCHANGED vars
  BY <1>1 DEF vars
<1>2. ASSUME NEW c \in Client, NEW r \in Request, Start(c, r) PROVE WorkerInv'
  BY <1>2 DEF Start, At, TypeOK
<1>3. ASSUME NEW c \in Client,
             CompareRange(c) \/ CopyFromBuffer(c) \/ CopyFromNull(c) \/ Return(c)
      PROVE  WorkerInv'
  BY <1>3 DEF CompareRange, CopyFromBuffer, CopyFromNull, Return, At, TypeOK
<1>4. ASSUME NEW c \in Client, TakeRequest(c) PROVE WorkerInv'
  BY <1>4 DEF TakeRequest, Goto
<1>5. CASE Invalidate
  <2>1. irp \in Client /\ req[irp] \in Request
    BY <1>5 DEF Invalidate, Goto, TypeOK
  <2> QED
    BY <1>5, <2>1, RequestFacts, TypeFacts DEF Invalidate, Goto, RangeInv
<1>6. CASE Allocate
  <2> DEFINE r == req[irp]
             buffer == IF last_io_data = Null THEN [i \in 1 .. r.len |-> Zero] ELSE last_io_data
  <2>1. irp \in Client /\ r \in Request /\ r.len \in Nat /\ r.len > 0
    BY <1>6, RequestFacts DEF Allocate, Goto, TypeOK
  <2>2. buffer \in Seq(Word) /\ r.len <= Len(buffer)
    <3>1. /\ [i \in 1 .. r.len |-> Zero] \in Seq(Word)
          /\ Len([i \in 1 .. r.len |-> Zero]) = r.len
      BY <2>1, WordType
    <3> QED
      BY <1>6, <2>1, <3>1, TypeFacts DEF Allocate, Goto
  <2> HIDE DEF buffer
  <2>3. last_io_data' = [i \in DOMAIN buffer |->
                            IF r.op = "write" /\ i <= r.len THEN r.word ELSE buffer[i]]
    BY <1>6 DEF Allocate, buffer
  <2>4. Len(last_io_data') = Len(buffer) /\ last_io_data' # Null
    BY <2>1, <2>2, <2>3 DEF Null
  <2> QED
    BY <1>6, <2>1, <2>2, <2>4 DEF Allocate, Goto
<1>7. CASE AllocateFails \/ TransferFails
  BY <1>7 DEF AllocateFails, TransferFails, Goto
<1>8. ASSUME NEW n \in 0 .. Size, ReadImage(n) PROVE WorkerInv'
  <2> DEFINE r == req[irp]
             views == [i \in 1 .. n |-> View([j \in 1 .. n |-> image[r.off + j - 1]][i])]
  <2>1. irp \in Client /\ n \in Nat /\ n <= r.len /\ result' = [result EXCEPT ![irp] = views]
    BY <1>8 DEF ReadImage, Goto
  <2>2. result'[irp] = views
    BY <2>1 DEF TypeOK
  <2> HIDE DEF views
  <2>3. Len(views) = n
    BY <2>1 DEF views
  <2>4. Len(result'[irp]) <= r.len
    BY <2>1, <2>2, <2>3
  <2>5. Len(last_io_data') = Len(last_io_data) /\ last_io_data' # Null
    BY <1>8, TypeFacts DEF ReadImage, Goto, Null
  <2> QED
    BY <1>8, <2>4, <2>5 DEF ReadImage, Goto
<1>9. CASE WriteImage
  BY <1>9 DEF WriteImage, Goto
<1>10. CASE PublishOffset \/ PublishLength
  BY <1>10 DEF PublishOffset, PublishLength, Goto
<1>11. CASE FormatTracks \/ TearDown \/ RemoveVirtualDisk \/ ForeignWrite
  BY <1>11 DEF FormatTracks, TearDown, RemoveVirtualDisk, ForeignWrite
<1> QED
  BY StepCases, <1>1, <1>2, <1>3, <1>4, <1>5, <1>6, <1>7, <1>8, <1>9, <1>10, <1>11

LEMMA StepCopy == TypeOK /\ WorkerInv /\ CopyInv /\ [Next]_vars => CopyInv'
<1> SUFFICES ASSUME TypeOK, WorkerInv, CopyInv, [Next]_vars PROVE CopyInv'
  OBVIOUS
<1> USE DEF CopyInv, Hit, config, outside, cache, request, Fixed, Frame
<1>1. CASE UNCHANGED vars
  BY <1>1 DEF vars
<1>2. ASSUME NEW c \in Client, NEW r \in Request, Start(c, r) PROVE CopyInv'
  BY <1>2 DEF Start, At, TypeOK
<1>3. ASSUME NEW c \in Client, CompareRange(c) PROVE CopyInv'
  \* Nothing is published while the worker fills the buffer.
  <2>1. req[c] \in Request
    BY DEF TypeOK
  <2>2. Hit(req[c]) => worker \in {"idle", "invalidate"}
    BY <2>1, RequestFacts, TypeFacts DEF WorkerInv, TypeOK
  <2>3. last_io_lock = None /\ pc[c] = "lock"
    BY <1>3 DEF CompareRange, At
  <2>4. \A d \in Client : pc[d] # "copy"
    BY <2>3, NoneAssumption
  <2> QED
    BY <1>3, <2>2, <2>3, <2>4 DEF CompareRange, At, TypeOK
<1>4. ASSUME NEW c \in Client, CopyFromBuffer(c) \/ CopyFromNull(c) \/ Return(c)
      PROVE  CopyInv'
  BY <1>4 DEF CopyFromBuffer, CopyFromNull, Return, At, TypeOK
<1>5. ASSUME NEW c \in Client, TakeRequest(c) PROVE CopyInv'
  BY <1>5 DEF TakeRequest, Goto
<1>6. CASE Invalidate
  BY <1>6, NoneAssumption DEF Invalidate, Goto
<1>7. CASE Allocate \/ AllocateFails \/ TransferFails \/ WriteImage
  BY <1>7 DEF Allocate, AllocateFails, TransferFails, WriteImage, Goto, WorkerInv, TypeOK
<1>8. ASSUME NEW n \in 0 .. Size, ReadImage(n) PROVE CopyInv'
  BY <1>8 DEF ReadImage, Goto
<1>9. CASE PublishOffset \/ PublishLength
  BY <1>9 DEF PublishOffset, PublishLength, Goto, WorkerInv, TypeOK
<1>10. CASE FormatTracks \/ TearDown \/ RemoveVirtualDisk \/ ForeignWrite
  BY <1>10 DEF FormatTracks, TearDown, RemoveVirtualDisk, ForeignWrite
<1> QED
  BY StepCases, <1>1, <1>2, <1>3, <1>4, <1>5, <1>6, <1>7, <1>8, <1>9, <1>10

-----------------------------------------------------------------------------
(* What is published, or will be, is what the image holds. *)

\* What the worker has filled the buffer with, cell by cell.
LEMMA FilledByRead ==
    ASSUME TypeOK, WorkerInv, NEW n \in 0 .. Size, ReadImage(n)
    PROVE  /\ irp \in Client /\ n <= req[irp].len /\ pc[irp] = "queued"
           /\ DOMAIN result'[irp] = 1 .. n /\ Len(result'[irp]) = n
           /\ \A i \in 1 .. n : /\ last_io_data'[i] = image[req[irp].off + i - 1]
                                /\ result'[irp][i] = View(image[req[irp].off + i - 1])
<1> DEFINE r == req[irp]
           held == [i \in 1 .. n |-> image[r.off + i - 1]]
           views == [i \in 1 .. n |-> View(held[i])]
<1>1. irp \in Client /\ n <= r.len /\ pc[irp] = "queued" /\ n \in Nat
  BY DEF ReadImage, Goto, WorkerInv
<1>2. r.len <= Len(last_io_data) /\ r.len \in Nat
  BY <1>1, RequestFacts DEF ReadImage, Goto, WorkerInv, TypeOK
<1>3. result'[irp] = views
  BY <1>1 DEF ReadImage, TypeOK
<1>4. DOMAIN views = 1 .. n /\ Len(views) = n
  BY <1>1
<1>5. ASSUME NEW i \in 1 .. n PROVE last_io_data'[i] = held[i]
  <2>1. i \in DOMAIN last_io_data
    BY <1>1, <1>2, TypeFacts
  <2> QED
    BY <2>1 DEF ReadImage
<1> QED
  BY <1>1, <1>3, <1>4, <1>5

LEMMA StepCoherent ==
    TypeOK /\ RangeInv /\ WorkerInv /\ CoherentInv /\ [Next]_vars => CoherentInv'
<1> SUFFICES ASSUME TypeOK, RangeInv, WorkerInv, CoherentInv, [Next]_vars PROVE CoherentInv'
  OBVIOUS
<1> USE DEF CoherentInv, CacheCoherent, Moved, config, outside, cache, request, Fixed, Frame
<1>1. CASE UNCHANGED vars
  BY <1>1 DEF vars
<1>2. ASSUME NEW c \in Client, NEW r \in Request, Start(c, r) PROVE CoherentInv'
  BY <1>2 DEF Start, At, WorkerInv, TypeOK
<1>3. ASSUME NEW c \in Client,
             CompareRange(c) \/ CopyFromBuffer(c) \/ CopyFromNull(c) \/ Return(c)
      PROVE  CoherentInv'
  BY <1>3 DEF CompareRange, CopyFromBuffer, CopyFromNull, Return, At, WorkerInv, TypeOK
<1>4. ASSUME NEW c \in Client, TakeRequest(c) PROVE CoherentInv'
  BY <1>4 DEF TakeRequest, Goto
<1>5. CASE Invalidate \/ Allocate \/ AllocateFails \/ TransferFails
  <2>1. (last_io_length = 0)' \/ (last_io_data = Null)'
    BY <1>5 DEF Invalidate, Allocate, AllocateFails, TransferFails, Goto, WorkerInv
  <2>2. worker' \notin {"offset", "length"}
    BY <1>5 DEF Invalidate, Allocate, AllocateFails, TransferFails, Goto
  <2> QED
    BY <2>1, <2>2
<1>6. ASSUME NEW n \in 0 .. Size, ReadImage(n) PROVE CoherentInv'
  <2>1. last_io_length' = 0
    BY <1>6 DEF ReadImage, Goto, WorkerInv
  <2>2. req' = req /\ image' = image /\ irp' = irp /\ req[irp].op = "read"
    BY <1>6 DEF ReadImage
  <2> QED
    BY <1>6, <2>1, <2>2, FilledByRead
<1>7. CASE WriteImage
  <2> DEFINE r == req[irp]
  <2>1. last_io_length' = 0 /\ irp \in Client /\ r \in Request /\ r.op = "write"
    BY <1>7 DEF WriteImage, Goto, WorkerInv, TypeOK
  <2>2. image' = Stored(r.len) /\ last_io_data' = last_io_data /\ req' = req /\ irp' = irp
    BY <1>7 DEF WriteImage
  <2>3. ASSUME NEW i \in 1 .. r.len PROVE image'[r.off + i - 1] = last_io_data[i]
    <3>1. /\ r.off + i - 1 \in Cell /\ r.off + i - 1 \in Range(r.off, r.len)
          /\ (r.off + i - 1) - r.off + 1 = i
      BY <2>1, RequestFacts, SizeAssumption DEF Cell, Range
    <3> QED
      BY <2>2, <3>1 DEF Stored
  <2> QED
    BY <2>1, <2>2, <2>3
<1>8. CASE PublishOffset
  <2>1. last_io_length' = 0
    BY <1>8 DEF PublishOffset, Goto, WorkerInv
  <2> QED
    BY <1>8, <2>1 DEF PublishOffset, Goto
<1>9. CASE PublishLength
  BY <1>9 DEF PublishLength, Goto, WorkerInv
<1>10. CASE FormatTracks
  <2>1. worker' = "idle" /\ (formatted' \/ shared_image')
    BY <1>10 DEF FormatTracks, TypeOK
  <2> QED
    BY <2>1
<1>11. CASE TearDown \/ RemoveVirtualDisk \/ ForeignWrite
  BY <1>11 DEF TearDown, RemoveVirtualDisk, ForeignWrite
<1> QED
  BY StepCases, <1>1, <1>2, <1>3, <1>4, <1>5, <1>6, <1>7, <1>8, <1>9, <1>10, <1>11

-----------------------------------------------------------------------------
(* Every read returns the contents of one image of its time. *)

\* What a step that changes no read needs: the images seen may be more, not fewer.
LEMMA SeenKept ==
    ASSUME TypeOK, SeenInv, byte_swap' = byte_swap, UNCHANGED request,
           worker' \in {"offset", "length"} =>
               worker \in {"offset", "length"} /\ irp' = irp /\ irp \in Client,
           \A c \in Client : Reading(c)' => image' \in seen'[c],
           \A c \in Client : seen[c] \subseteq seen'[c],
           \A c \in Client : pc'[c] = "done" => pc[c] = "done" /\ seen'[c] = seen[c]
    PROVE  SeenInv'
  BY DEF SeenInv, FreshReads, Matches, View, request

LEMMA StepSeen ==
    TypeOK /\ RangeInv /\ WorkerInv /\ CopyInv /\ CoherentInv /\ SeenInv /\ [Next]_vars => SeenInv'
<1> SUFFICES ASSUME TypeOK, RangeInv, WorkerInv, CopyInv, CoherentInv, SeenInv, [Next]_vars
             PROVE  SeenInv'
  OBVIOUS
<1> USE DEF config, outside, cache, Fixed, Frame
<1>1. CASE UNCHANGED vars
  BY <1>1 DEF vars, request, SeenInv, FreshReads, Matches, View, Reading
<1>2. ASSUME NEW c \in Client, NEW r \in Request, Start(c, r) PROVE SeenInv'
  BY <1>2, RequestFacts, ZenonT(60) DEF Start, At, WorkerInv, SeenInv, FreshReads, Matches, View,
              Reading, TypeOK
<1>3. ASSUME NEW c \in Client, CompareRange(c) \/ CopyFromNull(c) PROVE SeenInv'
  BY <1>3 DEF CompareRange, CopyFromNull, At, request, SeenInv, FreshReads, Matches, View,
              Reading, TypeOK
<1>4. ASSUME NEW c \in Client, CopyFromBuffer(c) PROVE SeenInv'
  <2> DEFINE r == req[c]
             words == [i \in 1 .. r.len |-> View(last_io_data[r.off - last_io_offset + i])]
  <2>1. /\ pc[c] = "copy" /\ pc' = [pc EXCEPT ![c] = "done"] /\ req' = req /\ byte_swap' = byte_swap
        /\ result' = [result EXCEPT ![c] = words] /\ last_io_data # Null
        /\ worker' = worker /\ irp' = irp /\ image' = image
        /\ seen' = IF formatted THEN [seen EXCEPT ![c] = {}] ELSE seen
    BY <1>4 DEF CopyFromBuffer, At
  <2>2. r \in Request /\ Hit(r) /\ r.op = "read" /\ ~shared_image /\ image \in seen[c]
    BY <2>1 DEF CopyInv, SeenInv, Reading, TypeOK
  <2>3. ASSUME ~formatted PROVE Matches(c, image)'
    <3>1. result'[c] = words /\ DOMAIN words = 1 .. r.len
      BY <2>1 DEF TypeOK
    <3>2. ASSUME NEW i \in 1 .. r.len
          PROVE  last_io_data[r.off - last_io_offset + i] = image[r.off + i - 1]
      <4>1. /\ r.off - last_io_offset + i \in 1 .. last_io_length
            /\ last_io_offset + (r.off - last_io_offset + i) - 1 = r.off + i - 1
        <5>1. /\ r.off \in Nat /\ r.len \in Nat /\ last_io_offset \in Nat /\ last_io_length \in Nat
              /\ last_io_offset <= r.off /\ r.off + r.len <= last_io_offset + last_io_length
          BY <2>2, RequestFacts, TypeFacts DEF Hit
        <5> QED
          BY ONLY <3>2, <5>1
      <4> QED
        BY <2>1, <2>2, <2>3, <4>1 DEF CoherentInv, CacheCoherent
    <3>3. \A i \in 1 .. r.len : result'[c][i] = View(image[r.off + i - 1])
      BY <3>1, <3>2
    <3> QED
      BY <2>1, <3>1, <3>3 DEF Matches, View
  <2>4. /\ worker' \notin {"offset", "length"}
        /\ \A d \in Client \ {c} : pc'[d] = pc[d] /\ result'[d] = result[d] /\ seen'[d] = seen[d]
    BY <2>1 DEF CopyInv, TypeOK
  <2>5. pc'[c] = "done"
    BY <2>1 DEF TypeOK
  <2>6. \A d \in Client : Reading(d)' => image' \in seen'[d]
    BY <2>1, <2>4, <2>5 DEF SeenInv, Reading
  <2>7. seen'[c] # {} => ~formatted /\ image \in seen'[c]
    BY <2>1, <2>2 DEF TypeOK
  <2>8. FreshReads'
    <3>1. CASE seen'[c] = {}
      BY <2>1, <2>4, <3>1 DEF SeenInv, FreshReads, View
    <3>2. CASE seen'[c] # {}
      <4>1. image \in seen'[c] /\ Matches(c, image)'
        BY <2>3, <2>7, <3>2
      <4>2. \A i \in DOMAIN result'[c] : result'[c][i] = View(image[req[c].off + i - 1])
        BY <2>1, <4>1 DEF Matches, View
      <4>3. \E m \in seen'[c] : \A i \in DOMAIN result'[c] :
                result'[c][i] = View(m[req[c].off + i - 1])
        BY <4>1, <4>2
      <4> HIDE DEF words, r
      <4>4. \A d \in Client : pc'[d] = "done" /\ req[d].op = "read" /\ seen'[d] # {} =>
                \E m \in seen'[d] : \A i \in DOMAIN result'[d] :
                    result'[d][i] = View(m[req[d].off + i - 1])
        <5> SUFFICES ASSUME NEW d \in Client, pc'[d] = "done", req[d].op = "read", seen'[d] # {}
                     PROVE  \E m \in seen'[d] : \A i \in DOMAIN result'[d] :
                                result'[d][i] = View(m[req[d].off + i - 1])
          OBVIOUS
        <5>1. CASE d = c
          BY <4>3, <5>1
        <5>2. CASE d # c
          BY <2>4, <5>2 DEF SeenInv, FreshReads
        <5> QED
          BY <5>1, <5>2
      <4> QED
        BY <2>1, <4>4 DEF FreshReads, View
    <3> QED
      BY <3>1, <3>2
  <2> QED
    BY <2>4, <2>6, <2>8 DEF SeenInv
<1>5. ASSUME NEW c \in Client, Return(c) PROVE SeenInv'
  BY <1>5, TypeFacts, ZenonT(60) DEF Return, WorkerInv, SeenInv, FreshReads, Matches, View,
              Reading, TypeOK
<1>6. ASSUME NEW c \in Client, TakeRequest(c) PROVE SeenInv'
  BY <1>6, SeenKept DEF TakeRequest, Goto, request, SeenInv, Reading
<1>7. CASE Invalidate \/ Allocate
  BY <1>7, SeenKept DEF Invalidate, Allocate, Goto, request, SeenInv, Reading
<1>8. CASE AllocateFails
  BY <1>8, SeenKept DEF AllocateFails, Goto, request, SeenInv, Reading, WorkerInv, TypeOK
<1>9. ASSUME NEW n \in 0 .. Size, ReadImage(n) PROVE SeenInv'
  <2>1. /\ irp \in Client /\ pc[irp] = "queued" /\ pc' = pc /\ req' = req /\ seen' = seen
        /\ image' = image /\ irp' = irp /\ byte_swap' = byte_swap /\ req[irp].op = "read"
    BY <1>9, FilledByRead DEF ReadImage
  <2>2. image \in seen'[irp]
    BY <2>1 DEF SeenInv, Reading
  <2>3. Matches(irp, image)'
    BY <1>9, <2>1, FilledByRead DEF Matches, View
  <2>4. \A d \in Client \ {irp} : result'[d] = result[d]
    BY <1>9, <2>1 DEF ReadImage, TypeOK
  <2>5. FreshReads'
    BY <2>1, <2>4 DEF SeenInv, FreshReads, View
  <2> QED
    BY <2>1, <2>2, <2>3, <2>5 DEF SeenInv, Reading
<1>10. CASE WriteImage \/ FormatTracks \/ ForeignWrite
  <2>1. /\ Observe /\ pc' = pc /\ UNCHANGED request /\ byte_swap' = byte_swap /\ irp' = irp
        /\ worker' \in {"offset", "length"} =>
              \/ worker \in {"offset", "length"}
              \/ worker' = "offset" /\ req[irp].op = "write"
    BY <1>10 DEF WriteImage, FormatTracks, ForeignWrite, Goto
  <2>2. \A c \in Client : IF Reading(c) THEN seen'[c] = seen[c] \cup {image'} ELSE seen'[c] = seen[c]
    BY <2>1 DEF Observe
  <2>3. \A c \in Client : Reading(c)' => image' \in seen'[c]
    BY <2>1, <2>2 DEF Reading, request
  <2>4. FreshReads'
    BY <2>1, <2>2 DEF SeenInv, FreshReads, Reading, View, request
  <2>5. (worker \in {"offset", "length"} /\ req[irp].op = "read" =>
            \E m \in seen[irp] : Matches(irp, m))'
    <3> SUFFICES ASSUME worker' \in {"offset", "length"}, req'[irp'].op = "read"
                 PROVE  (\E m \in seen[irp] : Matches(irp, m))'
      OBVIOUS
    <3>1. worker \in {"offset", "length"} /\ req[irp].op = "read" /\ irp \in Client
      BY <2>1 DEF request, WorkerInv
    <3>2. PICK m \in seen[irp] : Matches(irp, m)
      BY <3>1 DEF SeenInv
    <3>3. m \in seen'[irp]
      BY <2>2, <3>1, <3>2
    <3>4. Matches(irp, m)'
      BY <2>1, <3>1, <3>2 DEF Matches, View, request
    <3> QED
      BY <2>1, <3>3, <3>4
  <2> QED
    BY <2>3, <2>4, <2>5 DEF SeenInv
<1>11. CASE TransferFails
  <2>1. /\ Observe /\ pc' = [pc EXCEPT ![irp] = "failed"] /\ UNCHANGED request /\ worker' = "idle"
        /\ byte_swap' = byte_swap
    BY <1>11 DEF TransferFails, Goto
  <2>2. \A c \in Client : IF Reading(c) THEN seen'[c] = seen[c] \cup {image'} ELSE seen'[c] = seen[c]
    BY <2>1 DEF Observe
  <2>3. \A c \in Client : pc'[c] = pc[c] \/ pc'[c] = "failed"
    BY <2>1 DEF TypeOK
  <2>4. \A c \in Client : Reading(c)' => image' \in seen'[c]
    BY <2>1, <2>2, <2>3 DEF Reading, request
  <2>5. FreshReads'
    BY <2>1, <2>2, <2>3 DEF SeenInv, FreshReads, Reading, View, request
  <2> QED
    BY <2>1, <2>4, <2>5 DEF SeenInv
<1>12. CASE PublishOffset
  BY <1>12, SeenKept DEF PublishOffset, Goto, request, SeenInv, Reading, WorkerInv
<1>13. CASE PublishLength
  <2>1. /\ irp \in Client /\ worker = "length" /\ worker' = "idle" /\ UNCHANGED <<request, seen, image>>
        /\ pc' = [pc EXCEPT ![irp] = "done"] /\ byte_swap' = byte_swap
    BY <1>13 DEF PublishLength, Goto, WorkerInv
  <2>2. \A d \in Client : pc'[d] = IF d = irp THEN "done" ELSE pc[d]
    BY <2>1 DEF TypeOK
  <2>3. FreshReads'
    BY <2>1, <2>2 DEF SeenInv, FreshReads, Matches, View, request
  <2> QED
    BY <2>1, <2>2, <2>3 DEF SeenInv, Reading, request
<1>14. CASE TearDown \/ RemoveVirtualDisk
  BY <1>14, SeenKept DEF TearDown, RemoveVirtualDisk, request, SeenInv, Reading, WorkerInv
<1> QED
  BY StepCases, <1>1, <1>2, <1>3, <1>4, <1>5, <1>6, <1>7, <1>8, <1>9, <1>10, <1>11, <1>12,
     <1>13, <1>14

-----------------------------------------------------------------------------
(* A write stores what it was given. *)

LEMMA StepWord ==
    TypeOK /\ WorkerInv /\ WordInv /\ [Next]_vars => WordInv'
<1> SUFFICES ASSUME TypeOK, WorkerInv, WordInv, [Next]_vars PROVE WordInv'
  OBVIOUS
<1> USE DEF WordInv, PlainWritesAsGiven, config, outside, cache, Fixed, Frame
<1>1. CASE UNCHANGED vars
  BY <1>1 DEF vars, request, View
<1>2. ASSUME NEW c \in Client, NEW r \in Request, Start(c, r) PROVE WordInv'
  BY <1>2 DEF Start, At, WorkerInv, View, TypeOK
<1>3. ASSUME NEW c \in Client,
             CompareRange(c) \/ CopyFromBuffer(c) \/ CopyFromNull(c) \/ Return(c)
      PROVE  WordInv'
  BY <1>3 DEF CompareRange, CopyFromBuffer, CopyFromNull, Return, At, WorkerInv, request, View, TypeOK
<1>4. ASSUME NEW c \in Client, TakeRequest(c) PROVE WordInv'
  BY <1>4 DEF TakeRequest, Goto
<1>5. CASE Invalidate \/ AllocateFails \/ TransferFails
  BY <1>5 DEF Invalidate, AllocateFails, TransferFails, Goto
<1>6. CASE Allocate
  <2> DEFINE r == req[irp]
             buffer == IF last_io_data = Null THEN [i \in 1 .. r.len |-> Zero] ELSE last_io_data
  <2>1. irp \in Client /\ r \in Request /\ r.len \in Nat
    BY <1>6, RequestFacts DEF Allocate, Goto, WorkerInv, TypeOK
  <2>2. \A i \in 1 .. r.len : i \in DOMAIN buffer
    BY <1>6, <2>1, TypeFacts DEF Allocate, Goto, WorkerInv
  <2> HIDE DEF buffer
  <2>3. last_io_data' = [i \in DOMAIN buffer |->
                            IF r.op = "write" /\ i <= r.len THEN r.word ELSE buffer[i]]
    BY <1>6 DEF Allocate, buffer
  <2>4. \A i \in 1 .. r.len : r.op = "write" => last_io_data'[i] = r.word
    BY <2>1, <2>2, <2>3
  <2> QED
    BY <1>6, <2>4 DEF Allocate, Goto, request
<1>7. ASSUME NEW n \in 0 .. Size, ReadImage(n) PROVE WordInv'
  BY <1>7 DEF ReadImage, Goto
<1>8. CASE WriteImage
  <2> DEFINE r == req[irp]
  <2>1. irp \in Client /\ r \in Request /\ r.op = "write" /\ worker = "transfer"
    BY <1>8 DEF WriteImage, Goto, WorkerInv, TypeOK
  <2>2. image' = Stored(r.len) /\ UNCHANGED request /\ irp' = irp /\ worker' = "offset"
        /\ byte_swap' = byte_swap
    BY <1>8 DEF WriteImage, Goto
  <2>3. ASSUME NEW p \in Range(r.off, r.len) PROVE image'[p] = r.word
    <3>1. p \in Cell /\ p - r.off + 1 \in 1 .. r.len
      BY <2>1, RequestFacts, SizeAssumption DEF Cell, Range
    <3> QED
      BY <2>1, <2>2, <3>1 DEF Stored
  <2> QED
    BY <2>2, <2>3 DEF request, View
<1>9. CASE PublishOffset
  BY <1>9 DEF PublishOffset, Goto, request, View
<1>10. CASE PublishLength
  BY <1>10 DEF PublishLength, Goto
<1>11. CASE FormatTracks \/ TearDown
  BY <1>11 DEF FormatTracks, TearDown
<1>12. CASE RemoveVirtualDisk \/ ForeignWrite
  BY <1>12 DEF RemoveVirtualDisk, ForeignWrite, request, View
<1> QED
  BY StepCases, <1>1, <1>2, <1>3, <1>4, <1>5, <1>6, <1>7, <1>8, <1>9, <1>10, <1>11, <1>12

-----------------------------------------------------------------------------
(* The theorems. *)

LEMMA InitInv == Init => IInv
<1> SUFFICES ASSUME Init PROVE IInv
  OBVIOUS
<1>1. TypeOK
  BY InitType
<1>2. RangeInv /\ WorkerInv /\ CopyInv
  BY SizeAssumption DEF Init, RangeInv, WorkerInv, CopyInv
<1>3. CoherentInv /\ SeenInv /\ WordInv
  BY DEF Init, CoherentInv, CacheCoherent, SeenInv, FreshReads, Reading, WordInv, PlainWritesAsGiven
<1> QED
  BY <1>1, <1>2, <1>3 DEF IInv

LEMMA StepInv == IInv /\ [Next]_vars => IInv'
  BY StepType, StepRange, StepWorker, StepCopy, StepCoherent, StepSeen, StepWord DEF IInv

\* A copy is undisturbed: a range that was hit is published, so that there is a buffer
\* until the teardown.
LEMMA InvSafe == IInv => BufferSafe
<1> SUFFICES ASSUME IInv PROVE BufferSafe
  OBVIOUS
<1>1. BufferFits
  BY DEF IInv, BufferFits, RangeInv, WorkerInv
<1>2. ASSUME NEW c \in Client, pc[c] = "copy", last_io_data = Null PROVE ~image_open
  <2>1. req[c] \in Request /\ Hit(req[c])
    BY <1>2 DEF IInv, CopyInv, TypeOK
  <2>2. last_io_length # 0
    BY <2>1, RequestFacts, TypeFacts DEF Hit, IInv
  <2> QED
    BY <1>2, <2>2 DEF IInv, RangeInv
<1>3. CopyUndisturbed
  BY <1>2 DEF IInv, CopyInv, CopyUndisturbed
<1> QED
  BY <1>1, <1>3 DEF BufferSafe

\* The invariant of devthrd.cpp:88-165 and 255-413 and of iodisp.cpp:213-274.
THEOREM Inductive == Spec => []IInv
<1> QED
  BY InitInv, StepInv, PTL DEF Spec

\* The buffer's memory is never used outside its allocation, nor filled while a reader copies
\* from it, although the worker fills and publishes it without last_io_lock (devthrd.cpp:93-109,
\* iodisp.cpp:223-274).
THEOREM NoUnsafeUse == Spec => []BufferSafe
<1> QED
  BY Inductive, InvSafe, PTL

\* A published range is what the image holds, through transfers that fail half-way, the
\* teardown and any number of readers, up to a track format (floppy.cpp:119).
THEOREM Coherent == Spec => []CacheCoherent
<1>1. IInv => CacheCoherent
  BY DEF IInv, CoherentInv
<1> QED
  BY <1>1, Inductive, PTL

\* What a read returns was in the image, all of it at one time between the read's start and its
\* end, whoever answers it (iodisp.cpp:213-274, devthrd.cpp:124-165).
THEOREM ReadsAreFresh == Spec => []FreshReads
<1>1. IInv => FreshReads
  BY DEF IInv, SeenInv
<1> QED
  BY <1>1, Inductive, PTL

\* A completed write of an image that is not swapped reads back as it was given
\* (devthrd.cpp:263-391).
THEOREM WritesAreAsGiven == Spec => []PlainWritesAsGiven
<1>1. IInv => PlainWritesAsGiven
  BY DEF IInv, WordInv
<1> QED
  BY <1>1, Inductive, PTL

-----------------------------------------------------------------------------
(* MountApi, for every set of programs, device numbers, letters and         *)
(* directories and every bound on a disk's size.                            *)

\* The records of a device, of a volume and of a program with its command.
Device == [state : {"absent", "running", "removing"}, ro : BOOLEAN, size : 0 .. MaxSize,
           modified : BOOLEAN, special : BOOLEAN, letter : Letters \cup {NoPoint}]

Volume == [mounted : BOOLEAN, ro : BOOLEAN, size : 0 .. MaxSize, open : BOOLEAN,
           lock : Clients \cup {NoClient}]

Stage == {"idle", "link", "lock", "dismount", "relock", "save", "eject", "close", "point",
          "set", "grow", "extend"}
Order == Removals \cup {"none", "create", "flags", "extend"}

Command == [pc : Stage, cmd : Order, n : Numbers \cup {NoNumber},
            mode : {"none", "full", "attributes", "stale"},
            force : BOOLEAN, asked : BOOLEAN, point : MountPoints \cup {NoPoint}]

\* ApiTypeOK in their terms.
ApiTypes ==
    /\ disk \in [Numbers -> Device] /\ vol \in [Numbers -> Volume]
    /\ link \in [MountPoints -> Numbers \cup {NoNumber}] /\ client \in [Clients -> Command]

\* A program with this command has a device open.
Handled(e) == e.pc \notin {"idle", "link", "point"}

\* A volume against its device: no file is open while the volume is locked, a
\* paging file is an open one, a device that is absent has no volume, and a
\* mounted volume has the protection of its device and lies within it.
Fits(d, v) ==
    /\ v.lock # NoClient => ~v.open
    /\ d.special => v.open
    /\ d.state = "absent" => ~v.mounted /\ ~v.open
    /\ v.mounted /\ d.state = "running" => v.ro = d.ro /\ v.size <= d.size

\* A program c with command e against the device it has open and the volume: on
\* a way that is not forced the lock is its own from the dismount to the eject,
\* so that no file is open; flags are set where nothing is mounted; a changed
\* disk is ejected by a window only if its user was asked; and a command that
\* comes to its end has no running disk left.
Own(c, e, d, v) ==
    /\ d.state # "absent" /\ e.mode # "none"
    /\ e.force => e.cmd \in Removals
    /\ e.pc = "relock" => e.force
    /\ e.pc \in {"dismount", "save", "eject", "set"} /\ ~e.force =>
          v.lock = c /\ ~v.open /\ e.mode = "full"
    /\ e.pc = "set" => e.cmd = "flags" /\ ~v.mounted
    /\ e.pc = "eject" /\ ~e.force /\ e.cmd = "window" => e.asked \/ ~d.modified
    /\ e.pc = "close" => d.state # "running"

Owns(c) == Handled(client[c]) => /\ client[c].n \in Numbers
                                 /\ Own(c, client[c], disk[client[c].n], vol[client[c].n])

\* The inductive invariant: a device's number stays in use while it is open, so
\* that what a program knows of it remains about the same device.
ApiInv ==
    /\ ApiTypeOK
    /\ \A n \in Numbers : Fits(disk[n], vol[n])
    /\ \A c \in Clients : Owns(c)

-----------------------------------------------------------------------------
(* Types.  A record that an action stores is of its type; the steps then    *)
(* only put such records into functions.                                    *)

\* TypeOK speaks of records of these types.
LEMMA ApiTypesIs == (ApiTypeOK <=> ApiTypes) /\ (ApiTypeOK' <=> ApiTypes')
  BY DEF ApiTypeOK, ApiTypes, Device, Volume, Command, Stage, Order

\* The fields of the entries.
LEMMA ApiFields ==
    ASSUME ApiTypes
    PROVE  /\ \A n \in Numbers :
                 /\ disk[n] \in Device /\ disk[n].ro \in BOOLEAN /\ disk[n].size \in 0 .. MaxSize
                 /\ disk[n].modified \in BOOLEAN /\ disk[n].special \in BOOLEAN
                 /\ vol[n] \in Volume /\ vol[n].mounted \in BOOLEAN /\ vol[n].ro \in BOOLEAN
                 /\ vol[n].size \in 0 .. MaxSize /\ vol[n].open \in BOOLEAN
                 /\ vol[n].lock \in Clients \cup {NoClient}
           /\ \A c \in Clients :
                 /\ client[c] \in Command /\ client[c].n \in Numbers \cup {NoNumber}
                 /\ client[c].force \in BOOLEAN /\ client[c].asked \in BOOLEAN
                 /\ client[c].cmd \in Order /\ client[c].point \in MountPoints \cup {NoPoint}
  BY DEF ApiTypes, Device, Volume, Command

\* A device that was created has the type of one, and no paging files.
LEMMA NewDevice ==
    ASSUME NEW p \in MountPoints \cup {NoPoint}, NEW ro \in BOOLEAN
    PROVE  /\ Absent \in Device /\ Absent.state = "absent" /\ ~Absent.special
           /\ NewDisk(p, ro) \in Device
           /\ NewDisk(p, ro).state = "running" /\ ~NewDisk(p, ro).special
<1>1. 0 \in 0 .. MaxSize /\ 1 \in 0 .. MaxSize
  BY MountApiAssumption
<1>2. Absent \in Device /\ Absent.state = "absent" /\ ~Absent.special
  BY <1>1 DEF Absent, Device
<1>3. ASSUME NEW a \in Device, NEW l \in Letters \cup {NoPoint}
      PROVE  LET d == [a EXCEPT !.state = "running", !.ro = ro, !.size = 1, !.letter = l]
             IN  d \in Device /\ d.state = "running" /\ d.special = a.special
  BY <1>1, <1>3 DEF Device
<1> QED
  BY <1>2, <1>3 DEF NewDisk

\* An unmounted volume, with or without a lock.
LEMMA NewVolume ==
    ASSUME NEW c \in Clients \cup {NoClient}
    PROVE  /\ Unmounted \in Volume /\ ~Unmounted.mounted /\ ~Unmounted.open
           /\ Unmounted.lock = NoClient
           /\ [Unmounted EXCEPT !.lock = c] \in Volume
           /\ [Unmounted EXCEPT !.lock = c].lock = c
           /\ ~[Unmounted EXCEPT !.lock = c].open /\ ~[Unmounted EXCEPT !.lock = c].mounted
<1>1. /\ Unmounted \in Volume /\ ~Unmounted.mounted /\ ~Unmounted.open
      /\ Unmounted.lock = NoClient
  BY MountApiAssumption DEF Volume, Unmounted
<1> DEFINE u == Unmounted
<1> HIDE DEF u
<1>2. u \in Volume /\ ~u.mounted /\ ~u.open
  BY <1>1 DEF u
<1>3. [u EXCEPT !.lock = c] \in Volume /\ [u EXCEPT !.lock = c].lock = c
      /\ ~[u EXCEPT !.lock = c].open /\ ~[u EXCEPT !.lock = c].mounted
  BY <1>2 DEF Volume
<1> QED
  BY <1>1, <1>3 DEF u

\* A mount keeps handles and lock; what it reads is what the device has now.
LEMMA MountedFacts ==
    ASSUME ApiTypes, NEW n \in Numbers
    PROVE  /\ Mounted(n) \in Volume /\ Mounted(n).mounted
           /\ Mounted(n).open = vol[n].open /\ Mounted(n).lock = vol[n].lock
           /\ vol[n].mounted => Mounted(n).ro = vol[n].ro /\ Mounted(n).size = vol[n].size
           /\ ~vol[n].mounted => Mounted(n).ro = disk[n].ro /\ Mounted(n).size = disk[n].size
<1>1. CASE vol[n].mounted
  BY <1>1, ApiFields DEF Mounted
<1>2. CASE ~vol[n].mounted
  <2> DEFINE w == [vol[n] EXCEPT !.mounted = TRUE, !.ro = disk[n].ro, !.size = disk[n].size]
  <2>1. /\ w \in Volume /\ w.mounted /\ w.open = vol[n].open /\ w.lock = vol[n].lock
        /\ w.ro = disk[n].ro /\ w.size = disk[n].size
    BY ApiFields DEF Volume
  <2>2. Mounted(n) = w
    BY <1>2 DEF Mounted
  <2> QED
    BY <1>2, <2>1, <2>2
<1> QED
  BY <1>1, <1>2

-----------------------------------------------------------------------------
(* Steps.                                                                  *)

\* What another program o may see happen to the number it has open.
Spares(o, d, v, f, w) ==
    /\ f.state # "absent" /\ (d.state # "running" => f.state # "running")
    /\ v.lock = o /\ ~v.open => /\ w.lock = o /\ ~w.open /\ (w.mounted => v.mounted)
                                /\ (f.modified => d.modified)

\* A program keeps what it knows through a step that spares it.
LEMMA Spared ==
    ASSUME NEW o \in Clients, NEW e \in Command, NEW d \in Device, NEW f \in Device,
           NEW v \in Volume, NEW w \in Volume, Own(o, e, d, v), Spares(o, d, v, f, w)
    PROVE  Own(o, e, f, w)
  BY DEF Own, Spares, Command, Device, Volume, Removals

\* A step of the system, or of a program that has nothing open, on number n.
LEMMA NumberStep ==
    ASSUME ApiInv, NEW n \in Numbers, NEW f \in Device, NEW w \in Volume,
           disk' = [disk EXCEPT ![n] = f], vol' = [vol EXCEPT ![n] = w],
           link' \in [MountPoints -> Numbers \cup {NoNumber}], client' = client,
           Fits(f, w),
           \A o \in Clients : Handled(client[o]) /\ client[o].n = n =>
                                  Spares(o, disk[n], vol[n], f, w)
    PROVE  ApiInv'
<1>1. ApiTypes /\ ApiTypes'
  BY ApiTypesIs DEF ApiInv, ApiTypes
<1>2. \A m \in Numbers : Fits(disk'[m], vol'[m])
  BY <1>1 DEF ApiInv, ApiTypes
<1>3. ASSUME NEW o \in Clients PROVE Owns(o)'
  <2>1. CASE Handled(client[o]) /\ client[o].n = n
    <3>1. Own(o, client[o], disk[n], vol[n]) /\ Spares(o, disk[n], vol[n], f, w)
      BY <2>1 DEF ApiInv, Owns
    <3>2. Own(o, client[o], f, w)
      BY <1>1, <3>1, Spared DEF ApiTypes
    <3> QED
      BY <1>1, <2>1, <3>2 DEF Owns, ApiTypes
  <2>2. CASE ~(Handled(client[o]) /\ client[o].n = n)
    BY <1>1, <2>2 DEF ApiInv, Owns, ApiTypes
  <2> QED
    BY <2>1, <2>2
<1>4. ApiTypeOK'
  BY <1>1, ApiTypesIs
<1> QED
  BY <1>2, <1>3, <1>4 DEF ApiInv

\* A step of program c on number n.
LEMMA ProgramStep ==
    ASSUME ApiInv, NEW c \in Clients, NEW n \in Numbers, NEW f \in Device, NEW w \in Volume,
           NEW e \in Command,
           disk' = [disk EXCEPT ![n] = f], vol' = [vol EXCEPT ![n] = w],
           link' \in [MountPoints -> Numbers \cup {NoNumber}],
           client' = [client EXCEPT ![c] = e],
           Fits(f, w), Handled(e) => e.n = n /\ Own(c, e, f, w),
           \A o \in Clients \ {c} : Handled(client[o]) /\ client[o].n = n =>
                                        Spares(o, disk[n], vol[n], f, w)
    PROVE  ApiInv'
<1>1. ApiTypes /\ ApiTypes'
  BY ApiTypesIs DEF ApiInv, ApiTypes
<1>2. \A m \in Numbers : Fits(disk'[m], vol'[m])
  BY <1>1 DEF ApiInv, ApiTypes
<1>3. ASSUME NEW o \in Clients PROVE Owns(o)'
  <2>0. CASE o = c
    BY <1>1, <2>0 DEF Owns, ApiTypes
  <2>1. CASE o # c /\ Handled(client[o]) /\ client[o].n = n
    <3>1. Own(o, client[o], disk[n], vol[n]) /\ Spares(o, disk[n], vol[n], f, w)
      BY <2>1 DEF ApiInv, Owns
    <3>2. Own(o, client[o], f, w)
      BY <1>1, <3>1, Spared DEF ApiTypes
    <3> QED
      BY <1>1, <2>1, <3>2 DEF Owns, ApiTypes
  <2>2. CASE o # c /\ ~(Handled(client[o]) /\ client[o].n = n)
    BY <1>1, <2>2 DEF ApiInv, Owns, ApiTypes
  <2> QED
    BY <2>0, <2>1, <2>2
<1>4. ApiTypeOK'
  BY <1>1, ApiTypesIs
<1> QED
  BY <1>2, <1>3, <1>4 DEF ApiInv

\* A step that changes no number.
LEMMA CommandStep ==
    ASSUME ApiInv, NEW c \in Clients, NEW e \in Command, UNCHANGED <<disk, vol>>,
           link' \in [MountPoints -> Numbers \cup {NoNumber}],
           client' = [client EXCEPT ![c] = e],
           Handled(e) => e.n \in Numbers /\ Own(c, e, disk[e.n], vol[e.n])
    PROVE  ApiInv'
<1>1. ApiTypes /\ ApiTypes'
  BY ApiTypesIs DEF ApiInv, ApiTypes
<1>2. ASSUME NEW o \in Clients PROVE Owns(o)'
  BY <1>1 DEF ApiInv, Owns, ApiTypes
<1>3. ApiTypeOK'
  BY <1>1, ApiTypesIs
<1> QED
  BY <1>2, <1>3 DEF ApiInv

\* What the invariant says, in the form the steps cite.
LEMMA Stands ==
    ASSUME ApiInv
    PROVE  /\ ApiTypes
           /\ disk = [n \in Numbers |-> disk[n]] /\ vol = [n \in Numbers |-> vol[n]]
           /\ link \in [MountPoints -> Numbers \cup {NoNumber}]
           /\ \A n \in Numbers : disk[n] \in Device /\ vol[n] \in Volume /\ Fits(disk[n], vol[n])
           /\ \A n \in Numbers : disk = [disk EXCEPT ![n] = disk[n]] /\ vol = [vol EXCEPT ![n] = vol[n]]
  BY ApiTypesIs DEF ApiInv, ApiTypes

-----------------------------------------------------------------------------
(* The system.                                                             *)

LEMMA SOpenFile == ASSUME ApiInv, NEW n \in Numbers, OpenFile(n) PROVE ApiInv'
<1> DEFINE f == disk[n]
           w == [Mounted(n) EXCEPT !.open = TRUE]
<1>1. w \in Volume /\ w.open /\ w.lock = vol[n].lock /\ w.mounted
      /\ w.ro = Mounted(n).ro /\ w.size = Mounted(n).size
  BY Stands, MountedFacts DEF Volume
<1>2. Fits(f, w)
  BY <1>1, Stands, ApiFields, MountedFacts DEF OpenFile, Running, Fits
<1>3. \A o \in Clients : Handled(client[o]) /\ client[o].n = n => Spares(o, disk[n], vol[n], f, w)
  BY MountApiAssumption DEF OpenFile, Spares, Running
<1>4. disk' = [disk EXCEPT ![n] = f] /\ vol' = [vol EXCEPT ![n] = w]
      /\ link' \in [MountPoints -> Numbers \cup {NoNumber}] /\ client' = client
  BY Stands DEF OpenFile
<1>5. f \in Device
  BY Stands
<1> HIDE DEF f, w
<1> QED
  BY <1>1, <1>2, <1>3, <1>4, <1>5, NumberStep

LEMMA SWriteFile == ASSUME ApiInv, NEW n \in Numbers, WriteFile(n) PROVE ApiInv'
<1> DEFINE f == [disk[n] EXCEPT !.modified = TRUE]
           w == vol[n]
<1>1. f \in Device /\ f.state = disk[n].state /\ f.ro = disk[n].ro /\ f.size = disk[n].size
      /\ f.special = disk[n].special
  BY Stands DEF Device
<1>2. Fits(f, w)
  BY <1>1, Stands DEF Fits
<1>3. \A o \in Clients : Handled(client[o]) /\ client[o].n = n => Spares(o, disk[n], vol[n], f, w)
  BY <1>1 DEF WriteFile, Spares, Running
<1>4. disk' = [disk EXCEPT ![n] = f] /\ vol' = [vol EXCEPT ![n] = w]
      /\ link' \in [MountPoints -> Numbers \cup {NoNumber}] /\ client' = client
  BY Stands DEF WriteFile
<1>5. w \in Volume
  BY Stands
<1> HIDE DEF f, w
<1> QED
  BY <1>1, <1>2, <1>3, <1>4, <1>5, NumberStep

LEMMA SUsePagingFile == ASSUME ApiInv, NEW n \in Numbers, UsePagingFile(n) PROVE ApiInv'
<1> DEFINE f == [disk[n] EXCEPT !.special = TRUE]
           w == vol[n]
<1>1. f \in Device /\ f.state = disk[n].state /\ f.ro = disk[n].ro /\ f.size = disk[n].size
      /\ f.modified = disk[n].modified
  BY Stands DEF Device
<1>2. Fits(f, w)
  BY <1>1, Stands DEF Fits, UsePagingFile
<1>3. \A o \in Clients : Handled(client[o]) /\ client[o].n = n => Spares(o, disk[n], vol[n], f, w)
  BY <1>1 DEF UsePagingFile, Spares, Running
<1>4. disk' = [disk EXCEPT ![n] = f] /\ vol' = [vol EXCEPT ![n] = w]
      /\ link' \in [MountPoints -> Numbers \cup {NoNumber}] /\ client' = client
  BY Stands DEF UsePagingFile
<1>5. w \in Volume
  BY Stands
<1> HIDE DEF f, w
<1> QED
  BY <1>1, <1>2, <1>3, <1>4, <1>5, NumberStep

LEMMA SCloseFile == ASSUME ApiInv, NEW n \in Numbers, CloseFile(n) PROVE ApiInv'
<1> DEFINE f == disk[n]
           w == [vol[n] EXCEPT !.open = FALSE]
<1>1. w \in Volume /\ ~w.open /\ w.lock = vol[n].lock /\ w.mounted = vol[n].mounted
      /\ w.ro = vol[n].ro /\ w.size = vol[n].size
  BY Stands DEF Volume
<1>2. Fits(f, w)
  BY <1>1, Stands DEF CloseFile, Fits
<1>3. \A o \in Clients : Handled(client[o]) /\ client[o].n = n => Spares(o, disk[n], vol[n], f, w)
  BY <1>1 DEF CloseFile, Spares, ApiInv, Owns, Own
<1>4. disk' = [disk EXCEPT ![n] = f] /\ vol' = [vol EXCEPT ![n] = w]
      /\ link' \in [MountPoints -> Numbers \cup {NoNumber}] /\ client' = client
  BY Stands DEF CloseFile
<1>5. f \in Device
  BY Stands
<1> HIDE DEF f, w
<1> QED
  BY <1>1, <1>2, <1>3, <1>4, <1>5, NumberStep

LEMMA SRemoveDriveLetter == ASSUME ApiInv, NEW n \in Numbers, RemoveDriveLetter(n) PROVE ApiInv'
<1> DEFINE f == [disk[n] EXCEPT !.letter = NoPoint]
           w == vol[n]
<1>1. f \in Device /\ f.state = disk[n].state /\ f.ro = disk[n].ro /\ f.size = disk[n].size
      /\ f.modified = disk[n].modified /\ f.special = disk[n].special
  BY Stands DEF Device
<1>2. Fits(f, w)
  BY <1>1, Stands DEF Fits
<1>3. \A o \in Clients : Handled(client[o]) /\ client[o].n = n => Spares(o, disk[n], vol[n], f, w)
  BY <1>1 DEF RemoveDriveLetter, Spares
<1>4. disk' = [disk EXCEPT ![n] = f] /\ vol' = [vol EXCEPT ![n] = w]
      /\ link' \in [MountPoints -> Numbers \cup {NoNumber}] /\ client' = client
  BY Stands DEF RemoveDriveLetter
<1>5. w \in Volume
  BY Stands
<1> HIDE DEF f, w
<1> QED
  BY <1>1, <1>2, <1>3, <1>4, <1>5, NumberStep

LEMMA SDeleteDevice == ASSUME ApiInv, NEW n \in Numbers, DeleteDevice(n) PROVE ApiInv'
<1>1. Absent \in Device /\ Unmounted \in Volume /\ Fits(Absent, Unmounted)
  BY NewDevice, NewVolume DEF Fits, MountPoints, Absent, Unmounted
<1>2. \A o \in Clients : ~(Handled(client[o]) /\ client[o].n = n)
  BY DEF DeleteDevice, Handle, ApiInv, Owns, Own
<1>3. disk' = [disk EXCEPT ![n] = Absent] /\ vol' = [vol EXCEPT ![n] = Unmounted]
      /\ link' \in [MountPoints -> Numbers \cup {NoNumber}] /\ client' = client
  BY Stands DEF DeleteDevice
<1> QED
  BY <1>1, <1>2, <1>3, NumberStep

-----------------------------------------------------------------------------
(* The programs.                                                           *)

\* A command that gives up, after a last change of the device.
LEMMA GiveUpStep ==
    ASSUME ApiInv, NEW c \in Clients, NEW n \in Numbers, NEW f \in Device, GiveUp(c),
           disk' = [disk EXCEPT ![n] = f], link' = link,
           \A w \in Volume : Fits(disk[n], w) /\ (vol[n].mounted => w.mounted) /\ (w.mounted => vol[n].mounted)
                                => Fits(f, w),
           \A o \in Clients \ {c}, w \in Volume :
               Handled(client[o]) /\ client[o].n = n /\ Spares(o, disk[n], vol[n], disk[n], w)
                                => Spares(o, disk[n], vol[n], f, w)
    PROVE  ApiInv'
<1>1. ApiTypes
  BY Stands
<1>2. Idle \in Command /\ ~Handled(Idle)
  BY DEF Idle, Command, Order, Stage, Handled
<1> DEFINE given(m) == IF vol[m].lock = c THEN [vol[m] EXCEPT !.lock = NoClient] ELSE vol[m]
<1>3. ASSUME NEW m \in Numbers
      PROVE  /\ given(m) \in Volume /\ given(m).open = vol[m].open
             /\ given(m).mounted = vol[m].mounted /\ given(m).ro = vol[m].ro
             /\ given(m).size = vol[m].size
             /\ given(m).lock \in {vol[m].lock, NoClient}
             /\ vol[m].lock # c => given(m).lock = vol[m].lock
  BY Stands DEF Volume
<1>4. \A m \in Numbers : vol'[m] = given(m)
  BY DEF GiveUp
<1>5. DOMAIN vol' = Numbers /\ vol' = [m \in Numbers |-> vol'[m]]
  BY DEF GiveUp
<1> HIDE DEF given
<1>6. ApiTypes'
  BY <1>1, <1>2, <1>3, <1>4, <1>5 DEF GiveUp, ApiTypes
<1>7. ASSUME NEW m \in Numbers PROVE Fits(disk[m], given(m)) /\ Fits(disk[m], vol[m])
  BY <1>3, Stands DEF Fits
<1>8. \A m \in Numbers : Fits(disk'[m], vol'[m])
  BY <1>1, <1>3, <1>4, <1>7 DEF ApiTypes
<1>9. ASSUME NEW o \in Clients PROVE Owns(o)'
  <2>0. CASE o = c
    BY <1>1, <1>2, <2>0 DEF Owns, ApiTypes, GiveUp
  <2>1. CASE o # c /\ Handled(client[o])
    <3> DEFINE m == client[o].n
    <3>1. m \in Numbers /\ Own(o, client[o], disk[m], vol[m])
      BY <2>1 DEF ApiInv, Owns
    <3>2. Spares(o, disk[m], vol[m], disk[m], given(m))
      BY <1>3, <2>1, <3>1 DEF Own, Spares
    <3>3. Spares(o, disk[m], vol[m], disk'[m], given(m))
      BY <1>1, <1>3, <2>1, <3>1, <3>2 DEF ApiTypes
    <3>4. Own(o, client[o], disk'[m], given(m))
      BY <1>1, <1>3, <1>6, <3>1, <3>3, Spared DEF ApiTypes
    <3>5. client'[o] = client[o]
      BY <1>1, <2>1 DEF GiveUp, ApiTypes
    <3> QED
      BY <1>4, <3>1, <3>4, <3>5 DEF Owns
  <2>2. CASE o # c /\ ~Handled(client[o])
    BY <1>1, <2>2 DEF Owns, ApiTypes, GiveUp
  <2> QED
    BY <2>0, <2>1, <2>2
<1> QED
  BY <1>6, <1>8, <1>9, ApiTypesIs DEF ApiInv

\* A command that gives up and changes nothing else.
LEMMA JustGivesUp ==
    ASSUME ApiInv, NEW c \in Clients, Handled(client[c]), GiveUp(c), UNCHANGED <<disk, link>>
    PROVE  ApiInv'
<1> DEFINE n == client[c].n
<1>1. n \in Numbers /\ disk[n] \in Device /\ disk' = [disk EXCEPT ![n] = disk[n]]
  BY Stands DEF ApiInv, Owns
<1> HIDE DEF n
<1> QED
  BY <1>1, GiveUpStep

\* The opening of a device, for a removal, new flags or an extension.
LEMMA Opens ==
    ASSUME ApiInv, NEW c \in Clients, NEW n \in Numbers,
           NEW cmd \in {"api", "window", "cli", "flags", "extend"},
           NEW mode \in {"full", "attributes"}, NEW q \in {"lock", "grow"},
           NEW p \in MountPoints \cup {NoPoint},
           OpenToRemove(n, mode), Open(c, n, cmd, mode, q, p), UNCHANGED <<disk, link>>
    PROVE  ApiInv'
<1> DEFINE f == disk[n]
           w == IF mode = "full" THEN Mounted(n) ELSE vol[n]
           e == [Idle EXCEPT !.pc = q, !.cmd = cmd, !.n = n, !.mode = mode, !.point = p]
<1>1. e \in Command /\ e.pc = q /\ e.n = n /\ e.mode = mode /\ e.force = FALSE
  BY DEF Command, Idle, Stage, Order, Removals
<1>2. /\ w \in Volume /\ w.open = vol[n].open /\ w.lock = vol[n].lock
      /\ f \in Device /\ f.state = "running"
      /\ w.mounted /\ vol[n].mounted => w.ro = vol[n].ro /\ w.size = vol[n].size
      /\ w.mounted /\ ~vol[n].mounted => /\ w.ro = f.ro /\ w.size = f.size
                                         /\ mode = "full" /\ vol[n].lock = NoClient
  BY Stands, ApiFields, MountedFacts DEF OpenToRemove, OpenFull, Running
<1>3. Fits(f, w)
  BY <1>2, Stands, ApiFields DEF Fits
<1>4. Own(c, e, f, w)
  BY <1>1, <1>2 DEF Own
<1>5. \A o \in Clients \ {c} : Spares(o, disk[n], vol[n], f, w)
  BY <1>2, MountApiAssumption, Stands DEF Spares, Fits
<1>6. disk' = [disk EXCEPT ![n] = f] /\ vol' = [vol EXCEPT ![n] = w]
      /\ link' \in [MountPoints -> Numbers \cup {NoNumber}]
      /\ client' = [client EXCEPT ![c] = e]
  BY Stands DEF OpenToRemove, OpenFull, Open
<1> HIDE DEF f, w, e
<1> QED
  BY <1>1, <1>2, <1>3, <1>4, <1>5, <1>6, ProgramStep

LEMMA POpens ==
    ASSUME ApiInv, NEW c \in Clients,
           \/ RemoveDevice(c) \/ CliRemoveDevice(c) \/ ChangeFlags(c) \/ CliChangeFlags(c)
           \/ ExtendDevice(c) \/ CliExtendDevice(c)
    PROVE  ApiInv'
<1>1. CASE RemoveDevice(c)
  BY <1>1, Opens DEF RemoveDevice
<1>2. CASE CliRemoveDevice(c)
  <2>1. PICK n \in Numbers, p \in MountPoints \cup {NoPoint}, mode \in {"full", "attributes"} :
           /\ OpenToRemove(n, mode)
           /\ Open(c, n, "cli", mode, "lock", IF p = NoPoint THEN disk[n].letter ELSE p)
    BY <1>2 DEF CliRemoveDevice
  <2>2. (IF p = NoPoint THEN disk[n].letter ELSE p) \in MountPoints \cup {NoPoint}
    BY Stands DEF Device, MountPoints
  <2>3. UNCHANGED <<disk, link>>
    BY <1>2 DEF CliRemoveDevice
  <2> QED
    BY <2>1, <2>2, <2>3, Opens
<1>3. ASSUME NEW n \in Numbers, OpenFull(n) PROVE OpenToRemove(n, "full")
  BY <1>3 DEF OpenToRemove
<1>4. NoPoint \in MountPoints \cup {NoPoint}
  OBVIOUS
<1>5. CASE ChangeFlags(c) \/ CliChangeFlags(c)
  BY <1>3, <1>4, <1>5, Opens DEF ChangeFlags, CliChangeFlags
<1>6. CASE ExtendDevice(c) \/ CliExtendDevice(c)
  BY <1>3, <1>4, <1>6, Opens DEF ExtendDevice, CliExtendDevice
<1> QED
  BY <1>1, <1>2, <1>5, <1>6

LEMMA PCreateDevice == ASSUME ApiInv, NEW c \in Clients, CreateDevice(c) PROVE ApiInv'
<1>1. PICK n \in Numbers, p \in MountPoints \cup {NoPoint}, ro \in BOOLEAN :
         /\ disk[n].state = "absent" /\ disk' = [disk EXCEPT ![n] = NewDisk(p, ro)]
         /\ client' = [client EXCEPT ![c] =
                         [Idle EXCEPT !.pc = "link", !.cmd = "create", !.n = n, !.point = p]]
  BY DEF CreateDevice
<1> DEFINE f == NewDisk(p, ro)
           w == vol[n]
           e == [Idle EXCEPT !.pc = "link", !.cmd = "create", !.n = n, !.point = p]
<1>2. e \in Command /\ ~Handled(e)
  BY DEF Command, Idle, Stage, Order, Handled
<1>3. f \in Device /\ ~f.special /\ f.state = "running"
  BY NewDevice
<1>4. w \in Volume /\ Fits(f, w)
  BY <1>1, <1>3, Stands DEF Fits
<1>5. \A o \in Clients : ~(Handled(client[o]) /\ client[o].n = n)
  BY <1>1 DEF ApiInv, Owns, Own
<1>6. disk' = [disk EXCEPT ![n] = f] /\ vol' = [vol EXCEPT ![n] = w]
      /\ link' \in [MountPoints -> Numbers \cup {NoNumber}]
      /\ client' = [client EXCEPT ![c] = e]
  BY <1>1, Stands DEF CreateDevice
<1> HIDE DEF f, w, e
<1> QED
  BY <1>2, <1>3, <1>4, <1>5, <1>6, ProgramStep

LEMMA PNames ==
    ASSUME ApiInv, NEW c \in Clients,
           CreateDriveLetter(c) \/ CreateMountPoint(c) \/ RemoveMountPoint(c)
    PROVE  ApiInv'
<1>1. Idle \in Command /\ ~Handled(Idle)
  BY DEF Idle, Command, Order, Stage, Handled
<1>2. client' = [client EXCEPT ![c] = Idle] /\ UNCHANGED <<disk, vol>>
  BY DEF CreateDriveLetter, CreateMountPoint, RemoveMountPoint
<1>3. client[c].n \in Numbers \cup {NoNumber} /\ client[c].point \in MountPoints \cup {NoPoint}
  BY Stands, ApiFields
<1>4. link' \in [MountPoints -> Numbers \cup {NoNumber}]
  BY <1>3, Stands DEF CreateDriveLetter, CreateMountPoint, RemoveMountPoint, MountPoints
<1> QED
  BY <1>1, <1>2, <1>4, CommandStep

\* What is known of a program that has a device open.
LEMMA Opened ==
    ASSUME ApiInv, NEW c \in Clients, Handled(client[c])
    PROVE  /\ client[c].n \in Numbers /\ client[c] \in Command
           /\ disk[client[c].n] \in Device /\ vol[client[c].n] \in Volume
           /\ Own(c, client[c], disk[client[c].n], vol[client[c].n])
           /\ Fits(disk[client[c].n], vol[client[c].n])
  BY Stands DEF ApiInv, Owns, ApiTypes

\* A step of such a program that moves it on and leaves the device alone.
LEMMA MovesOn ==
    ASSUME ApiInv, NEW c \in Clients, Handled(client[c]), NEW e \in Command, e.n = client[c].n,
           client' = [client EXCEPT ![c] = e], UNCHANGED <<disk, vol, link>>,
           Handled(e) => Own(c, e, disk[client[c].n], vol[client[c].n])
    PROVE  ApiInv'
  BY Opened, Stands, CommandStep

LEMMA PLock == ASSUME ApiInv, NEW c \in Clients, Lock(c) PROVE ApiInv'
<1> DEFINE n == client[c].n
           f == disk[n]
           w == [vol[n] EXCEPT !.lock = c]
           e == [client[c] EXCEPT !.pc = "dismount"]
<1>1. Handled(client[c])
  BY DEF Lock, Handled
<1>2. /\ n \in Numbers /\ f \in Device /\ vol[n] \in Volume /\ client[c] \in Command
      /\ Own(c, client[c], f, vol[n]) /\ Fits(f, vol[n])
  BY <1>1, Opened
<1>3. /\ w \in Volume /\ w.lock = c /\ w.open = vol[n].open /\ w.mounted = vol[n].mounted
      /\ w.ro = vol[n].ro /\ w.size = vol[n].size
  BY <1>2 DEF Volume
<1>4. /\ e \in Command /\ e.pc = "dismount" /\ e.n = n /\ e.mode = client[c].mode
      /\ e.force = client[c].force /\ e.cmd = client[c].cmd
  BY <1>2 DEF Command, Stage
<1>5. ~vol[n].open /\ vol[n].lock = NoClient /\ client[c].mode = "full"
  BY DEF Lock, Lockable
<1>6. Fits(f, w) /\ Own(c, e, f, w)
  BY <1>2, <1>3, <1>4, <1>5 DEF Fits, Own
<1>7. \A o \in Clients \ {c} : Handled(client[o]) /\ client[o].n = n =>
                                  Spares(o, disk[n], vol[n], f, w)
  BY <1>5, MountApiAssumption DEF Spares, ApiInv, Owns, Own
<1>8. disk' = [disk EXCEPT ![n] = f] /\ vol' = [vol EXCEPT ![n] = w]
      /\ link' \in [MountPoints -> Numbers \cup {NoNumber}]
      /\ client' = [client EXCEPT ![c] = e]
  BY <1>2, Stands DEF Lock
<1> HIDE DEF f, w, e, n
<1> QED
  BY <1>2, <1>3, <1>4, <1>6, <1>7, <1>8, ProgramStep

LEMMA PLockFails == ASSUME ApiInv, NEW c \in Clients, LockFails(c) PROVE ApiInv'
<1>1. Handled(client[c]) /\ UNCHANGED <<disk, link>>
  BY DEF LockFails, Handled
<1>2. CASE GiveUp(c)
  BY <1>1, <1>2, JustGivesUp
<1>3. CASE ~GiveUp(c)
  <2> DEFINE e == [client[c] EXCEPT !.pc = "dismount", !.force = TRUE]
  <2>1. /\ e \in Command /\ e.pc = "dismount" /\ e.n = client[c].n /\ e.force
        /\ e.mode = client[c].mode /\ e.cmd = client[c].cmd
    BY <1>1, Opened DEF Command, Stage
  <2>2. client[c].cmd \in Removals /\ client' = [client EXCEPT ![c] = e] /\ vol' = vol
    BY <1>3 DEF LockFails
  <2>3. Own(c, e, disk[client[c].n], vol[client[c].n])
    BY <1>1, <2>1, <2>2, Opened DEF Own
  <2> HIDE DEF e
  <2> QED
    BY <1>1, <2>1, <2>2, <2>3, MovesOn
<1> QED
  BY <1>2, <1>3

\* The others' handles of a volume that is dismounted become stale; the lock, if
\* there is one, is the dismounting program's.
LEMMA PDismount == ASSUME ApiInv, NEW c \in Clients, Dismount(c) PROVE ApiInv'
<1> DEFINE n == client[c].n
           w == [Unmounted EXCEPT !.lock = vol[n].lock]
           e == [client[c] EXCEPT !.pc = AfterDismount(c)]
           stale(o) == [client[o] EXCEPT !.mode = "stale"]
<1>1. Handled(client[c]) /\ client[c].pc = "dismount" /\ client[c].mode = "full"
      /\ vol[n].lock \in {c, NoClient} /\ ~disk[n].special
  BY DEF Dismount, Handled
<1>2. /\ n \in Numbers /\ disk[n] \in Device /\ vol[n] \in Volume /\ client[c] \in Command
      /\ Own(c, client[c], disk[n], vol[n]) /\ Fits(disk[n], vol[n]) /\ ApiTypes
  BY <1>1, Opened, Stands
<1>3. w \in Volume /\ w.lock = vol[n].lock /\ ~w.open /\ ~w.mounted
  BY <1>2, NewVolume DEF Volume
<1>4. AfterDismount(c) \in Stage
  BY DEF AfterDismount, Stage
<1>5. /\ e \in Command /\ e.pc = AfterDismount(c) /\ e.n = n /\ e.mode = "full"
      /\ e.force = client[c].force /\ e.cmd = client[c].cmd
  BY <1>1, <1>2, <1>4 DEF Command
<1>6. ASSUME NEW o \in Clients
      PROVE  /\ stale(o) \in Command /\ stale(o).pc = client[o].pc /\ stale(o).n = client[o].n
             /\ stale(o).force = client[o].force /\ stale(o).asked = client[o].asked
             /\ stale(o).cmd = client[o].cmd /\ stale(o).mode = "stale"
  BY <1>2 DEF ApiTypes, Command
<1>7. Fits(disk[n], w) /\ Own(c, e, disk[n], w)
  BY <1>1, <1>2, <1>3, <1>5 DEF Fits, Own, AfterDismount
<1>8. /\ client'[c] = e
      /\ \A o \in Clients \ {c} :
            client'[o] = IF client[o].n = n /\ client[o].mode = "full" THEN stale(o)
                         ELSE client[o]
      /\ client' = [o \in Clients |-> client'[o]]
      /\ vol' = [vol EXCEPT ![n] = w] /\ disk' = disk /\ link' = link
  BY DEF Dismount
<1> HIDE DEF n, w, e, stale
<1>9. ApiTypes'
  <2>1. \A o \in Clients : client'[o] \in Command
    BY <1>2, <1>5, <1>6, <1>8 DEF ApiTypes
  <2> QED
    BY <1>2, <1>3, <1>8, <2>1 DEF ApiTypes
<1>10. \A m \in Numbers : Fits(disk'[m], vol'[m])
  BY <1>2, <1>7, <1>8, Stands DEF ApiTypes
<1>11. ASSUME NEW o \in Clients PROVE Owns(o)'
  <2>1. CASE o = c
    BY <1>2, <1>5, <1>7, <1>8, <2>1 DEF Owns, ApiTypes
  <2>2. CASE o # c /\ Handled(client[o]) /\ client[o].n = n
    <3>1. Own(o, client[o], disk[n], vol[n]) /\ vol[n].lock # o
      BY <1>1, <2>2, MountApiAssumption DEF ApiInv, Owns
    <3>2. Own(o, client'[o], disk[n], w)
      BY <1>3, <1>6, <1>8, <2>2, <3>1 DEF Own, Removals
    <3> QED
      BY <1>2, <1>6, <1>8, <2>2, <3>2 DEF Owns, ApiTypes, Handled
  <2>3. CASE o # c /\ ~(Handled(client[o]) /\ client[o].n = n)
    BY <1>2, <1>6, <1>8, <2>3 DEF ApiInv, Owns, ApiTypes, Handled
  <2> QED
    BY <2>1, <2>2, <2>3
<1> QED
  BY <1>9, <1>10, <1>11, ApiTypesIs DEF ApiInv

LEMMA PDismountFails == ASSUME ApiInv, NEW c \in Clients, DismountFails(c) PROVE ApiInv'
<1>1. Handled(client[c]) /\ client[c].pc = "dismount" /\ UNCHANGED <<disk, link>>
  BY DEF DismountFails, Handled
<1>2. CASE client[c].cmd \in {"api", "window"} \/ client[c].force
  <2> DEFINE e == [client[c] EXCEPT !.pc = AfterDismount(c)]
  <2>1. AfterDismount(c) \in Stage
    BY DEF AfterDismount, Stage
  <2>2. /\ e \in Command /\ e.pc = AfterDismount(c) /\ e.n = client[c].n
        /\ e.mode = client[c].mode /\ e.force = client[c].force /\ e.cmd = client[c].cmd
    BY <1>1, <2>1, Opened DEF Command
  <2>3. client' = [client EXCEPT ![c] = e] /\ vol' = vol
    BY <1>2 DEF DismountFails
  <2>4. Own(c, e, disk[client[c].n], vol[client[c].n])
    BY <1>1, <1>2, <2>2, Opened DEF Own, AfterDismount, Removals
  <2> HIDE DEF e
  <2> QED
    BY <1>1, <2>2, <2>3, <2>4, MovesOn
<1>3. CASE ~(client[c].cmd \in {"api", "window"} \/ client[c].force)
  BY <1>1, <1>3, JustGivesUp DEF DismountFails
<1> QED
  BY <1>2, <1>3

LEMMA PRelock == ASSUME ApiInv, NEW c \in Clients, Relock(c) PROVE ApiInv'
<1> DEFINE n == client[c].n
           f == disk[n]
           w == IF Lockable(c) THEN [vol[n] EXCEPT !.lock = c] ELSE vol[n]
           q == IF client[c].cmd = "window" THEN "save" ELSE "eject"
           e == [client[c] EXCEPT !.pc = q]
<1>1. Handled(client[c]) /\ client[c].pc = "relock"
  BY DEF Relock, Handled
<1>2. /\ n \in Numbers /\ f \in Device /\ vol[n] \in Volume /\ client[c] \in Command
      /\ Own(c, client[c], f, vol[n]) /\ Fits(f, vol[n])
  BY <1>1, Opened
<1>3. /\ w \in Volume /\ w.open = vol[n].open /\ w.mounted = vol[n].mounted
      /\ w.ro = vol[n].ro /\ w.size = vol[n].size
      /\ w.lock = vol[n].lock \/ (vol[n].lock = NoClient /\ ~vol[n].open)
  BY <1>2 DEF Volume, Lockable
<1>4. /\ e \in Command /\ e.pc \in {"save", "eject"} /\ e.n = n /\ e.mode = client[c].mode
      /\ e.force = client[c].force /\ e.cmd = client[c].cmd
  BY <1>2 DEF Command, Stage
<1>5. Fits(f, w) /\ Own(c, e, f, w)
  BY <1>1, <1>2, <1>3, <1>4 DEF Fits, Own
<1>6. \A o \in Clients \ {c} : Handled(client[o]) /\ client[o].n = n =>
                                  Spares(o, disk[n], vol[n], f, w)
  BY <1>3, MountApiAssumption DEF Spares, ApiInv, Owns, Own
<1>7. disk' = [disk EXCEPT ![n] = f] /\ vol' = [vol EXCEPT ![n] = w]
      /\ link' \in [MountPoints -> Numbers \cup {NoNumber}]
      /\ client' = [client EXCEPT ![c] = e]
  BY <1>2, Stands DEF Relock
<1> HIDE DEF f, w, e, n
<1> QED
  BY <1>2, <1>3, <1>4, <1>5, <1>6, <1>7, ProgramStep

LEMMA PCheckSave == ASSUME ApiInv, NEW c \in Clients, CheckSave(c) PROVE ApiInv'
<1> DEFINE n == client[c].n
<1>1. Handled(client[c]) /\ client[c].pc = "save"
  BY DEF CheckSave, Handled
<1>2. /\ n \in Numbers /\ disk[n] \in Device /\ vol[n] \in Volume /\ client[c] \in Command
      /\ Own(c, client[c], disk[n], vol[n]) /\ Fits(disk[n], vol[n])
  BY <1>1, Opened
<1>3. CASE client' = [client EXCEPT ![c].pc = "eject"] /\ UNCHANGED <<disk, vol, link>>
           /\ ~disk[n].modified
  <2> DEFINE e == [client[c] EXCEPT !.pc = "eject"]
  <2>1. /\ e \in Command /\ e.pc = "eject" /\ e.n = n /\ e.mode = client[c].mode
        /\ e.force = client[c].force /\ e.cmd = client[c].cmd
    BY <1>2 DEF Command, Stage
  <2>2. Own(c, e, disk[n], vol[n])
    BY <1>1, <1>2, <1>3, <2>1 DEF Own
  <2> QED
    BY <1>1, <1>3, <2>1, <2>2, MovesOn
<1>4. CASE client' = [client EXCEPT ![c].pc = "eject", ![c].asked = TRUE]
           /\ UNCHANGED <<disk, vol, link>>
  <2> DEFINE e == [client[c] EXCEPT !.pc = "eject", !.asked = TRUE]
  <2>1. /\ e \in Command /\ e.pc = "eject" /\ e.n = n /\ e.mode = client[c].mode /\ e.asked
        /\ e.force = client[c].force /\ e.cmd = client[c].cmd
    BY <1>2 DEF Command, Stage
  <2>2. Own(c, e, disk[n], vol[n])
    BY <1>1, <1>2, <2>1 DEF Own
  <2>3. client' = [client EXCEPT ![c] = e]
    BY <1>4
  <2> HIDE DEF e
  <2> QED
    BY <1>1, <1>4, <2>1, <2>2, <2>3, MovesOn
<1>5. CASE SaveImage(c)
  <2> DEFINE f == [disk[n] EXCEPT !.modified = FALSE]
             e == [client[c] EXCEPT !.pc = "eject"]
  <2>1. /\ e \in Command /\ e.pc = "eject" /\ e.n = n /\ e.mode = client[c].mode
        /\ e.force = client[c].force /\ e.cmd = client[c].cmd
    BY <1>2 DEF Command, Stage
  <2>2. /\ f \in Device /\ f.state = disk[n].state /\ f.ro = disk[n].ro /\ ~f.modified
        /\ f.size = disk[n].size /\ f.special = disk[n].special
    BY <1>2 DEF Device
  <2>3. Fits(f, vol[n]) /\ Own(c, e, f, vol[n])
    BY <1>1, <1>2, <2>1, <2>2 DEF Fits, Own
  <2>4. \A o \in Clients \ {c} : Handled(client[o]) /\ client[o].n = n =>
                                    Spares(o, disk[n], vol[n], f, vol[n])
    BY <2>2 DEF Spares, ApiInv, Owns, Own
  <2>5. disk' = [disk EXCEPT ![n] = f] /\ vol' = [vol EXCEPT ![n] = vol[n]]
        /\ link' \in [MountPoints -> Numbers \cup {NoNumber}]
        /\ client' = [client EXCEPT ![c] = e]
    BY <1>2, <1>5, Stands DEF CheckSave, SaveImage
  <2> HIDE DEF f, e, n
  <2> QED
    BY <1>2, <2>1, <2>2, <2>3, <2>4, <2>5, ProgramStep
<1>6. CASE GiveUp(c) /\ UNCHANGED <<disk, link>>
  BY <1>1, <1>6, JustGivesUp
<1> QED
  BY <1>3, <1>4, <1>5, <1>6 DEF CheckSave

\* The removal of a device that a program has open, and the program's next step.
LEMMA Removes ==
    ASSUME ApiInv, NEW c \in Clients, Handled(client[c]), client[c].pc = "eject",
           MarkForRemoval(client[c].n), client' = [client EXCEPT ![c].pc = "close"],
           UNCHANGED <<vol, link>>
    PROVE  ApiInv'
<1> DEFINE n == client[c].n
           f == [disk[n] EXCEPT !.state = "removing"]
           w == vol[n]
           e == [client[c] EXCEPT !.pc = "close"]
<1>1. /\ n \in Numbers /\ disk[n] \in Device /\ vol[n] \in Volume /\ client[c] \in Command
      /\ Own(c, client[c], disk[n], vol[n]) /\ Fits(disk[n], vol[n])
  BY Opened
<1>2. /\ e \in Command /\ e.pc = "close" /\ e.n = n /\ e.mode = client[c].mode
      /\ e.force = client[c].force /\ e.cmd = client[c].cmd
  BY <1>1 DEF Command, Stage
<1>3. /\ f \in Device /\ f.state = "removing" /\ f.ro = disk[n].ro
      /\ f.modified = disk[n].modified /\ f.size = disk[n].size /\ f.special = disk[n].special
  BY <1>1 DEF Device
<1>4. Fits(f, w) /\ Own(c, e, f, w)
  BY <1>1, <1>2, <1>3 DEF Fits, Own
<1>5. \A o \in Clients \ {c} : Handled(client[o]) /\ client[o].n = n =>
                                  Spares(o, disk[n], vol[n], f, w)
  BY <1>3 DEF Spares
<1>6. disk' = [disk EXCEPT ![n] = f] /\ vol' = [vol EXCEPT ![n] = w]
      /\ link' \in [MountPoints -> Numbers \cup {NoNumber}]
      /\ client' = [client EXCEPT ![c] = e]
  BY <1>1, Stands DEF MarkForRemoval
<1> HIDE DEF f, w, e, n
<1>7. Handled(e) => e.n = n /\ Own(c, e, f, w)
  BY <1>2, <1>4
<1>8. /\ n \in Numbers /\ f \in Device /\ w \in Volume /\ e \in Command
      /\ Fits(f, w)
  BY <1>1, <1>2, <1>3, <1>4 DEF w
<1> QED
  BY <1>5, <1>6, <1>7, <1>8, ProgramStep, ZenonT(60)

LEMMA PEject == ASSUME ApiInv, NEW c \in Clients, Eject(c) \/ EjectFails(c) PROVE ApiInv'
<1> DEFINE n == client[c].n
           e == [client[c] EXCEPT !.pc = "close"]
<1>1. Handled(client[c]) /\ client[c].pc = "eject" /\ UNCHANGED link
  BY DEF Eject, EjectFails, Handled
<1>2. /\ n \in Numbers /\ disk[n] \in Device /\ vol[n] \in Volume /\ client[c] \in Command
      /\ Own(c, client[c], disk[n], vol[n]) /\ Fits(disk[n], vol[n])
  BY <1>1, Opened
<1>3. CASE /\ MarkForRemoval(n) /\ UNCHANGED vol
           /\ client' = [client EXCEPT ![c].pc = "close"]
  BY <1>1, <1>3, Removes
<1>4. CASE /\ ~Ejectable(c) /\ ~client[c].force /\ UNCHANGED <<disk, vol>>
           /\ client' = [client EXCEPT ![c].pc = "close"]
  \* The volume is locked, so no file of it is open and it has no paging file.
  <2>1. ~Running(n)
    BY <1>1, <1>2, <1>4 DEF Own, Fits, Ejectable, Removable
  <2>2. /\ e \in Command /\ e.pc = "close" /\ e.n = n /\ e.mode = client[c].mode
        /\ e.force = client[c].force /\ e.cmd = client[c].cmd
    BY <1>2 DEF Command, Stage
  <2>3. Own(c, e, disk[n], vol[n])
    BY <1>2, <2>1, <2>2 DEF Own, Running
  <2> QED
    BY <1>1, <1>4, <2>2, <2>3, MovesOn
<1>5. CASE GiveUp(c) /\ UNCHANGED disk
  BY <1>1, <1>5, JustGivesUp
<1> QED
  BY <1>3, <1>4, <1>5 DEF Eject, EjectFails

LEMMA PEmergencyRemove == ASSUME ApiInv, NEW c \in Clients, EmergencyRemove(c) PROVE ApiInv'
<1>1. PICK n \in Numbers : Running(n) /\ MarkForRemoval(n)
  BY DEF EmergencyRemove, Removable
<1> DEFINE f == [disk[n] EXCEPT !.state = "removing"]
<1>2. /\ f \in Device /\ f.state = "removing" /\ f.ro = disk[n].ro
      /\ f.modified = disk[n].modified /\ f.size = disk[n].size /\ f.special = disk[n].special
      /\ vol[n] \in Volume
  BY Stands DEF Device
<1>3. Fits(f, vol[n])
  BY <1>1, <1>2, Stands DEF Fits, Running
<1>4. \A o \in Clients : Handled(client[o]) /\ client[o].n = n =>
                            Spares(o, disk[n], vol[n], f, vol[n])
  BY <1>2 DEF Spares
<1>5. disk' = [disk EXCEPT ![n] = f] /\ vol' = [vol EXCEPT ![n] = vol[n]]
      /\ link' \in [MountPoints -> Numbers \cup {NoNumber}] /\ client' = client
  BY <1>1, Stands DEF MarkForRemoval, EmergencyRemove
<1> HIDE DEF f
<1> QED
  BY <1>2, <1>3, <1>4, <1>5, NumberStep

LEMMA PClose == ASSUME ApiInv, NEW c \in Clients, Close(c) PROVE ApiInv'
<1> DEFINE n == client[c].n
           f == disk[n]
           w == [vol[n] EXCEPT !.lock = IF vol[n].lock = c THEN NoClient ELSE vol[n].lock]
           e == [Idle EXCEPT !.pc = "point", !.cmd = client[c].cmd, !.point = client[c].point]
<1>1. Handled(client[c])
  BY DEF Close, Handled
<1>2. /\ n \in Numbers /\ f \in Device /\ vol[n] \in Volume /\ client[c] \in Command
      /\ Fits(f, vol[n])
  BY <1>1, Opened
<1>3. /\ w \in Volume /\ w.open = vol[n].open /\ w.mounted = vol[n].mounted
      /\ w.ro = vol[n].ro /\ w.size = vol[n].size
      /\ w.lock = vol[n].lock \/ (vol[n].lock = c /\ w.lock = NoClient)
  BY <1>2 DEF Volume
<1>4. e \in Command /\ ~Handled(e)
  BY <1>2 DEF Command, Stage, Order, Idle, Handled
<1>5. Fits(f, w)
  BY <1>2, <1>3 DEF Fits
<1>6. \A o \in Clients \ {c} : Handled(client[o]) /\ client[o].n = n =>
                                  Spares(o, disk[n], vol[n], f, w)
  BY <1>3 DEF Spares, ApiInv, Owns, Own
<1>7. disk' = [disk EXCEPT ![n] = f] /\ vol' = [vol EXCEPT ![n] = w]
      /\ link' \in [MountPoints -> Numbers \cup {NoNumber}]
      /\ client' = [client EXCEPT ![c] = e]
  BY <1>2, Stands DEF Close
<1> HIDE DEF f, w, e, n
<1>8. Handled(e) => e.n = n /\ Own(c, e, f, w)
  BY <1>4
<1>9. n \in Numbers /\ f \in Device /\ w \in Volume /\ e \in Command
  BY <1>2, <1>3, <1>4
<1> QED
  BY <1>5, <1>6, <1>7, <1>8, <1>9, ProgramStep

LEMMA PSetDeviceFlags == ASSUME ApiInv, NEW c \in Clients, SetDeviceFlags(c) PROVE ApiInv'
<1> DEFINE n == client[c].n
           f == IF Running(n) /\ ~disk[n].special THEN [disk[n] EXCEPT !.ro = ~disk[n].ro]
                ELSE disk[n]
<1>1. Handled(client[c]) /\ client[c].pc = "set"
  BY DEF SetDeviceFlags, Handled
<1>2. /\ n \in Numbers /\ disk[n] \in Device /\ Own(c, client[c], disk[n], vol[n])
      /\ disk[n].ro \in BOOLEAN
  BY <1>1, Opened, Stands, ApiFields
<1>3. ~vol[n].mounted
  BY <1>1, <1>2 DEF Own
<1>4. /\ f \in Device /\ f.state = disk[n].state /\ f.modified = disk[n].modified
      /\ f.special = disk[n].special
  BY <1>2 DEF Device
<1>5. disk' = [disk EXCEPT ![n] = f] /\ link' = link /\ GiveUp(c)
  BY <1>2, Stands DEF SetDeviceFlags
<1>6. \A w \in Volume : Fits(disk[n], w) /\ (w.mounted => vol[n].mounted) => Fits(f, w)
  BY <1>3, <1>4 DEF Fits
<1>7. \A o \in Clients \ {c}, w \in Volume :
         Spares(o, disk[n], vol[n], disk[n], w) => Spares(o, disk[n], vol[n], f, w)
  BY <1>4 DEF Spares
<1> HIDE DEF f, n
<1> QED
  BY <1>2, <1>4, <1>5, <1>6, <1>7, GiveUpStep

LEMMA PClearModified == ASSUME ApiInv, NEW c \in Clients, ClearModified(c) PROVE ApiInv'
<1>1. PICK n \in Numbers : OpenFull(n) /\ disk' = [disk EXCEPT ![n].modified = FALSE]
  BY DEF ClearModified
<1> DEFINE f == [disk[n] EXCEPT !.modified = FALSE]
           w == Mounted(n)
<1>2. /\ f \in Device /\ f.state = disk[n].state /\ f.ro = disk[n].ro /\ ~f.modified
      /\ f.size = disk[n].size /\ f.special = disk[n].special
  BY Stands DEF Device
<1>3. /\ w \in Volume /\ w.open = vol[n].open /\ w.lock = vol[n].lock
      /\ vol[n].mounted => w.ro = vol[n].ro /\ w.size = vol[n].size
      /\ ~vol[n].mounted => w.ro = disk[n].ro /\ w.size = disk[n].size
      /\ disk[n].size \in 0 .. MaxSize /\ disk[n].state = "running" /\ vol[n].lock = NoClient
  BY <1>1, Stands, ApiFields, MountedFacts DEF OpenFull, Running
<1>4. Fits(f, w)
  BY <1>2, <1>3, Stands DEF Fits
<1>5. \A o \in Clients : Handled(client[o]) /\ client[o].n = n =>
                            Spares(o, disk[n], vol[n], f, w)
  BY <1>2, <1>3, MountApiAssumption DEF Spares
<1>6. disk' = [disk EXCEPT ![n] = f] /\ vol' = [vol EXCEPT ![n] = w]
      /\ link' \in [MountPoints -> Numbers \cup {NoNumber}] /\ client' = client
  BY <1>1, Stands DEF OpenFull, ClearModified
<1> HIDE DEF f, w
<1> QED
  BY <1>2, <1>3, <1>4, <1>5, <1>6, NumberStep

LEMMA PGrow == ASSUME ApiInv, NEW c \in Clients, Grow(c) PROVE ApiInv'
<1> DEFINE n == client[c].n
           f == [disk[n] EXCEPT !.size = disk[n].size + 1]
           e == [client[c] EXCEPT !.pc = "extend"]
<1>1. Handled(client[c]) /\ client[c].pc = "grow" /\ UNCHANGED link
  BY DEF Grow, Handled
<1>2. /\ n \in Numbers /\ disk[n] \in Device /\ vol[n] \in Volume /\ client[c] \in Command
      /\ Own(c, client[c], disk[n], vol[n]) /\ Fits(disk[n], vol[n])
      /\ disk[n].size \in 0 .. MaxSize /\ vol[n].size \in 0 .. MaxSize
  BY <1>1, Opened, Stands, ApiFields
<1>3. CASE GiveUp(c) /\ UNCHANGED disk
  BY <1>1, <1>3, JustGivesUp
<1>4. CASE ~(GiveUp(c) /\ UNCHANGED disk)
  <2>1. /\ disk[n].size < MaxSize /\ disk' = [disk EXCEPT ![n] = f]
        /\ client' = [client EXCEPT ![c] = e] /\ vol' = vol
    BY <1>4 DEF Grow
  <2>2. disk[n].size + 1 \in 0 .. MaxSize
    BY <1>2, <2>1, MountApiAssumption
  <2>3. /\ f \in Device /\ f.state = disk[n].state /\ f.ro = disk[n].ro
        /\ f.modified = disk[n].modified /\ f.size = disk[n].size + 1
        /\ f.special = disk[n].special
    BY <1>2, <2>2 DEF Device
  <2>4. /\ e \in Command /\ e.pc = "extend" /\ e.n = n /\ e.mode = client[c].mode
        /\ e.force = client[c].force /\ e.cmd = client[c].cmd
    BY <1>2 DEF Command, Stage
  <2>5. Fits(f, vol[n]) /\ Own(c, e, f, vol[n])
    BY <1>2, <2>3, <2>4 DEF Fits, Own
  <2>6. \A o \in Clients \ {c} : Handled(client[o]) /\ client[o].n = n =>
                                    Spares(o, disk[n], vol[n], f, vol[n])
    BY <2>3 DEF Spares, ApiInv, Owns, Own
  <2>7. vol' = [vol EXCEPT ![n] = vol[n]] /\ link' \in [MountPoints -> Numbers \cup {NoNumber}]
    BY <1>1, <1>2, <2>1, Stands
  <2> HIDE DEF f, e, n
  <2> QED
    BY <1>2, <2>1, <2>3, <2>4, <2>5, <2>6, <2>7, ProgramStep
<1> QED
  BY <1>3, <1>4

LEMMA PExtendVolume == ASSUME ApiInv, NEW c \in Clients, ExtendVolume(c) PROVE ApiInv'
<1> DEFINE n == client[c].n
           w == IF vol' = vol THEN vol[n] ELSE [vol[n] EXCEPT !.size = disk[n].size]
<1>1. Handled(client[c])
  BY DEF ExtendVolume, Handled
<1>2. /\ n \in Numbers /\ disk[n] \in Device /\ vol[n] \in Volume
      /\ Fits(disk[n], vol[n]) /\ disk[n].size \in 0 .. MaxSize
  BY <1>1, Opened, Stands, ApiFields
<1>3. Idle \in Command /\ ~Handled(Idle)
  BY DEF Idle, Command, Order, Stage, Handled
<1>4. /\ w \in Volume /\ w.lock = vol[n].lock /\ w.open = vol[n].open
      /\ w.mounted = vol[n].mounted /\ w.ro = vol[n].ro /\ w.size \in {vol[n].size, disk[n].size}
  BY <1>2 DEF Volume
<1>5. Fits(disk[n], w)
  BY <1>2, <1>4 DEF Fits
<1>6. \A o \in Clients \ {c} : Handled(client[o]) /\ client[o].n = n =>
                                  Spares(o, disk[n], vol[n], disk[n], w)
  BY <1>4 DEF Spares, ApiInv, Owns, Own
<1>7. disk' = [disk EXCEPT ![n] = disk[n]] /\ vol' = [vol EXCEPT ![n] = w]
      /\ link' \in [MountPoints -> Numbers \cup {NoNumber}]
      /\ client' = [client EXCEPT ![c] = Idle]
  BY <1>2, Stands DEF ExtendVolume
<1> HIDE DEF w, n
<1> QED
  BY <1>2, <1>3, <1>4, <1>5, <1>6, <1>7, ProgramStep

-----------------------------------------------------------------------------
(* The theorems.                                                           *)

\* The invariant holds at first, and every step keeps it.
LEMMA InitApi == ApiInit => ApiInv
<1> SUFFICES ASSUME ApiInit PROVE ApiInv
  OBVIOUS
<1>1. Idle \in Command /\ ~Handled(Idle)
  BY DEF Idle, Command, Order, Stage, Handled
<1>2. Absent \in Device /\ Unmounted \in Volume /\ Fits(Absent, Unmounted)
  BY NewDevice, NewVolume DEF Fits, MountPoints, Absent, Unmounted
<1>3. ApiTypes
  BY <1>1, <1>2 DEF ApiInit, ApiTypes
<1>4. \A n \in Numbers : Fits(disk[n], vol[n])
  BY <1>2 DEF ApiInit
<1>5. \A c \in Clients : Owns(c)
  BY <1>1 DEF ApiInit, Owns
<1> QED
  BY <1>3, <1>4, <1>5, ApiTypesIs DEF ApiInv

LEMMA StepApi == ApiInv /\ [ApiNext]_apiVars => ApiInv'
<1> SUFFICES ASSUME ApiInv, [ApiNext]_apiVars PROVE ApiInv'
  OBVIOUS
<1>1. CASE UNCHANGED apiVars
  <2>1. ApiTypes'
    BY <1>1, Stands DEF ApiTypes, apiVars
  <2> QED
    BY <1>1, <2>1, ApiTypesIs DEF apiVars, ApiInv, Owns
<1>2. ASSUME NEW n \in Numbers, System(n) PROVE ApiInv'
  BY <1>2, SOpenFile, SWriteFile, SUsePagingFile, SCloseFile, SRemoveDriveLetter, SDeleteDevice
     DEF System
<1>3. ASSUME NEW c \in Clients, Program(c) PROVE ApiInv'
  BY <1>3, POpens, PCreateDevice, PNames, PLock, PLockFails, PDismount, PDismountFails, PRelock,
     PCheckSave, PEject, PEmergencyRemove, PClose, PSetDeviceFlags, PClearModified, PGrow,
     PExtendVolume DEF Program
<1> QED
  BY <1>1, <1>2, <1>3 DEF ApiNext

\* What programs can rely on of the volumes and devices they have open, while
\* others open, remove and change them (cplcore/drvio.c, cli/fscryptdisk.c).
THEOREM ApiInductive == ApiSpec => []ApiInv
  BY InitApi, StepApi, PTL DEF ApiSpec

\* A removal that is going to report success has removed its disk, although an
\* unforced one does not look at the result of its eject (drvio.c:2319).
THEOREM RemovalTold == ApiSpec => []RemoveTold
<1>1. ApiInv => RemoveTold
  BY DEF ApiInv, Owns, Own, Handled, RemoveTold, Running
<1> QED
  BY <1>1, ApiInductive, PTL

\* A mounted file system has the protection of its device and lies within it,
\* since flags are only set behind a dismount and disks only grow.
THEOREM VolumeCurrent == ApiSpec => []VolumeSeesMedia
<1>1. ApiInv => VolumeSeesMedia
  BY DEF ApiInv, Fits, VolumeSeesMedia, Running
<1> QED
  BY <1>1, ApiInductive, PTL

\* A removal that was not forced takes no disk from under an open file, and one
\* with a window no changed disk whose user was not asked.
THEOREM LosesNothing == ApiSpec => NothingLost
<1>1. ASSUME ApiInv, NEW c \in Clients, client[c].pc = "eject", ~client[c].force
      PROVE  /\ ~vol[client[c].n].open
             /\ client[c].cmd = "window" => client[c].asked \/ ~disk[client[c].n].modified
  BY <1>1 DEF ApiInv, Owns, Own, Handled
<1>2. ApiInv /\ [ApiNext]_apiVars =>
        [\A c \in Clients :
           LET n == client[c].n IN
           ( /\ client[c].pc = "eject" /\ client'[c].pc # "eject"
             /\ ~client[c].force
             /\ Running(n) /\ disk'[n].state = "removing")
           => /\ ~vol[n].open
              /\ client[c].cmd = "window" => client[c].asked \/ ~disk[n].modified]_apiVars
  BY <1>1
<1> QED
  BY <1>2, ApiInductive, PTL DEF ApiSpec, NothingLost
=============================================================================
