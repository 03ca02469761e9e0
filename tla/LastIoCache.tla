----------------------------- MODULE LastIoCache -----------------------------
(***************************************************************************)
(* The last I/O buffer of a disk whose image is a file or a proxy          *)
(* (DEVICE_EXTENSION.last_io_data, last_io_offset, last_io_length).  The   *)
(* worker thread moves every transfer through the buffer and then          *)
(* publishes it; FscryptDiskDispatchReadWrite answers a read that the      *)
(* published range contains at once, in the caller's thread.               *)
(*                                                                         *)
(* last_io_lock covers the worker's invalidation and the reader's check    *)
(* and copy.  The reader's test for a NULL buffer, the worker's transfer,  *)
(* its publication of offset and length, and the teardown are outside it.  *)
(* The stores take effect in program order, as on x86 and x64.             *)
(*                                                                         *)
(* The image is an array of cells of two bytes, the unit of the byte swap. *)
(* Requests that the worker gets are a set: it may take them in any order. *)
(***************************************************************************)
EXTENDS Naturals, Sequences, FiniteSets

CONSTANTS Client,   \* threads that read and write, one request at a time each
          None,     \* no client
          Size,     \* cells of the disk
          Byte,     \* the values of a byte
          Payload,  \* the words that are written
          Settings, \* bound: the pairs of byte_swap and shared_image
          Foreign,  \* bound: writes of the image by others, and track formats
          Fill      \* MEDIA_FORMAT_FILL_DATA

ASSUME SizeAssumption == Size \in Nat \ {0}
ASSUME PayloadAssumption == Fill \in Byte /\ Payload \subseteq Byte \X Byte
ASSUME SettingsAssumption == Settings \subseteq BOOLEAN \X BOOLEAN
ASSUME ForeignAssumption == Foreign \in Nat
ASSUME NoneAssumption == None \notin Client

Cell  == 0 .. Size - 1
Word  == Byte \X Byte
Range(off, len) == off .. off + len - 1
Swap(w) == <<w[2], w[1]>>

Zero  == LET b == CHOOSE b \in Byte : TRUE IN <<b, b>>

Null == <<>>   \* a NULL last_io_data; an allocated buffer has at least one word

VARIABLES byte_swap,       \* device_extension->byte_swap
          shared_image,    \* device_extension->shared_image
          image,           \* what the file or the proxy server holds
          image_open,      \* until the teardown closes the image
          terminate_thread,
          last_io_data,    \* Null or a buffer of words
          last_io_offset,
          last_io_length,
          last_io_lock,    \* the client that holds it, or None
          worker,          \* where the worker thread is
          irp,             \* the client it works for
          pc,              \* where each client's request is
          req,             \* the request: op, off, len and the word to write
          result,          \* the words a read returned
          seen,            \* the images since the client's read began
          foreign,         \* changes of the image behind the buffer so far
          formatted        \* the published range, which readers look at, is older than a format

cache   == <<last_io_data, last_io_offset, last_io_length>>
config  == <<byte_swap, shared_image>>
outside == <<foreign, formatted>>
request == <<req, result>>
vars == <<config, outside, image, image_open, terminate_thread, cache, last_io_lock,
          worker, irp, pc, request, seen>>

\* A write stores one word throughout its range.
Request ==
    {r \in [op : {"read"}, off : Cell, len : 1 .. Size, word : {Zero}]
           \cup [op : {"write"}, off : Cell, len : 1 .. Size, word : Payload] :
        r.off + r.len <= Size}
NoRequest == [op |-> "read", off |-> 0, len |-> 1, word |-> Zero]
Words(n) == UNION {[1 .. k -> Word] : k \in 0 .. n}

TypeOK ==
    /\ byte_swap \in BOOLEAN /\ shared_image \in BOOLEAN
    /\ image \in [Cell -> Word] /\ image_open \in BOOLEAN
    /\ terminate_thread \in BOOLEAN
    /\ last_io_data \in Words(Size)
    /\ last_io_offset \in Cell /\ last_io_length \in 0 .. Size
    /\ last_io_lock \in Client \cup {None}
    /\ worker \in {"idle", "invalidate", "allocate", "transfer", "offset",
                   "length"}
    /\ irp \in Client \cup {None}
    /\ pc \in [Client -> {"idle", "lock", "copy", "queued",
                          "done", "failed", "fault"}]
    /\ req \in [Client -> Request]
    /\ result \in [Client -> Words(Size)]
    /\ seen \in [Client -> SUBSET [Cell -> Word]]
    /\ foreign \in 0 .. Foreign /\ formatted \in BOOLEAN

Init ==
    /\ \E s \in Settings : byte_swap = s[1] /\ shared_image = s[2]
    /\ image = [p \in Cell |-> Zero] /\ image_open = TRUE
    /\ terminate_thread = FALSE
    /\ last_io_data = Null /\ last_io_offset = 0 /\ last_io_length = 0
    /\ last_io_lock = None
    /\ worker = "idle" /\ irp = None
    /\ pc = [c \in Client |-> "idle"]
    /\ req = [c \in Client |-> NoRequest]
    /\ result = [c \in Client |-> <<>>]
    /\ seen = [c \in Client |-> {}]
    /\ foreign = 0 /\ formatted = FALSE

\* What a reader sees of a stored word.
View(w) == IF byte_swap THEN Swap(w) ELSE w

\* The clients whose read is under way have now seen the new image too.
Reading(c) == req[c].op = "read" /\ pc[c] \notin {"idle", "done", "failed"}
Observe == seen' = [c \in Client |-> IF Reading(c) THEN seen[c] \cup {image'} ELSE seen[c]]

\* What no step of a transfer touches.
Fixed == UNCHANGED <<config, foreign, image_open, terminate_thread, last_io_lock>>
Frame == Fixed /\ UNCHANGED formatted

-----------------------------------------------------------------------------
(* FscryptDiskDispatchReadWrite, in the client's thread. *)

At(c, from, to) == pc[c] = from /\ pc' = [pc EXCEPT ![c] = to]

\* A request of a disk that is not being removed: a read with a buffer to look
\* at, of an image nobody else writes, tries the buffer; the NULL test has no lock.
Start(c, r) ==
    /\ ~terminate_thread
    /\ At(c, "idle",
          IF r.op = "read" /\ last_io_data # Null /\ ~shared_image THEN "lock" ELSE "queued")
    /\ req' = [req EXCEPT ![c] = r]
    /\ UNCHANGED result
    /\ seen' = [seen EXCEPT ![c] = IF r.op = "read" THEN {image} ELSE {}]
    /\ UNCHANGED <<config, outside, image, image_open, terminate_thread, cache, last_io_lock,
                   worker, irp>>

Hit(r) == /\ r.off >= last_io_offset
          /\ r.off + r.len <= last_io_offset + last_io_length

\* With the lock: a read that the published range contains goes on to the copy and
\* keeps the lock, another one goes to the worker.
CompareRange(c) ==
    /\ last_io_lock = None
    /\ At(c, "lock", IF Hit(req[c]) THEN "copy" ELSE "queued")
    /\ last_io_lock' = IF Hit(req[c]) THEN c ELSE None
    /\ UNCHANGED <<config, outside, image, image_open, terminate_thread, cache, worker, irp,
                   request, seen>>

\* Mutant: the copy starts at the start of the buffer.
CopyFromStart(c) ==
    /\ last_io_data # Null
    /\ At(c, "copy", "done")
    /\ result' = [result EXCEPT ![c] = [i \in 1 .. req[c].len |-> View(last_io_data[i])]]
    /\ last_io_lock' = None
    /\ UNCHANGED <<config, outside, image, image_open, terminate_thread, cache, worker, irp, req, seen>>

\* Of a copy made after a track format nothing is claimed: seen[c] becomes empty.
CopyFromBuffer(c) ==
    /\ last_io_data # Null
    /\ At(c, "copy", "done")
    /\ result' = [result EXCEPT ![c] =
           [i \in 1 .. req[c].len |-> View(last_io_data[req[c].off - last_io_offset + i])]]
    /\ last_io_lock' = None
    /\ seen' = IF formatted THEN [seen EXCEPT ![c] = {}] ELSE seen
    /\ UNCHANGED <<config, outside, image, image_open, terminate_thread, cache, worker, irp, req>>

\* The teardown freed the buffer after the NULL test: the copy faults.
CopyFromNull(c) ==
    /\ last_io_data = Null
    /\ At(c, "copy", "fault")
    /\ UNCHANGED <<config, outside, image, image_open, terminate_thread, cache, last_io_lock,
                   worker, irp, request, seen>>

Return(c) ==
    /\ pc[c] \in {"done", "failed"}
    /\ pc' = [pc EXCEPT ![c] = "idle"]
    /\ seen' = [seen EXCEPT ![c] = {}]
    /\ result' = [result EXCEPT ![c] = <<>>]
    /\ req' = [req EXCEPT ![c] = NoRequest]
    /\ UNCHANGED <<config, outside, image, image_open, terminate_thread, cache, last_io_lock,
                   worker, irp>>

-----------------------------------------------------------------------------
(* FscryptDiskDeviceThreadRead and FscryptDiskDeviceThreadWrite; FscryptDiskFloppyFormat. *)

Goto(from, to) == worker = from /\ worker' = to

TakeRequest(c) ==
    /\ pc[c] = "queued" /\ Goto("idle", "invalidate")
    /\ irp' = c
    /\ UNCHANGED <<config, outside, image, image_open, terminate_thread, cache, last_io_lock,
                   pc, request, seen>>

\* Mutant: the published range stays while the buffer is filled again.
KeepPublished ==
    /\ last_io_lock = None
    /\ Goto("invalidate", "allocate")
    /\ last_io_data' = IF last_io_length < req[irp].len THEN Null ELSE last_io_data
    /\ UNCHANGED <<image, last_io_offset, last_io_length, irp, pc, request, seen>>
    /\ formatted' = FALSE
    /\ Fixed

\* Mutant: the buffer is freed and the range emptied without taking the lock.
InvalidateUnlocked ==
    /\ Goto("invalidate", "allocate")
    /\ last_io_data' = IF last_io_length < req[irp].len THEN Null ELSE last_io_data
    /\ last_io_offset' = 0 /\ last_io_length' = 0
    /\ UNCHANGED <<image, irp, pc, request, seen>>
    /\ formatted' = FALSE
    /\ Fixed

\* Under the lock: a buffer that published less than this length is freed, and
\* nothing is published any more.
Invalidate ==
    /\ last_io_lock = None
    /\ Goto("invalidate", "allocate")
    /\ last_io_data' = IF last_io_length < req[irp].len THEN Null ELSE last_io_data
    /\ last_io_offset' = 0 /\ last_io_length' = 0
    /\ UNCHANGED <<image, irp, pc, request, seen>>
    /\ formatted' = FALSE
    /\ Fixed

\* Mutant: only a new buffer gets the data of the write.
AllocateNewOnly ==
    /\ Goto("allocate", "transfer")
    /\ LET r == req[irp]
       IN last_io_data' =
              IF last_io_data # Null THEN last_io_data
              ELSE [i \in 1 .. r.len |-> IF r.op = "write" THEN r.word ELSE Zero]
    /\ UNCHANGED <<image, last_io_offset, last_io_length, irp, pc, request, seen>>
    /\ Frame

\* A write's data goes into the buffer as it is: byte_swap swaps as many bytes as
\* Irp->IoStatus.Information says, which is 0 in an IRP that is not yet done.
Allocate ==
    /\ Goto("allocate", "transfer")
    /\ LET r == req[irp]
           buffer == IF last_io_data = Null THEN [i \in 1 .. r.len |-> Zero] ELSE last_io_data
       IN last_io_data' = [i \in DOMAIN buffer |->
                              IF r.op = "write" /\ i <= r.len THEN r.word ELSE buffer[i]]
    /\ UNCHANGED <<image, last_io_offset, last_io_length, irp, pc, request, seen>>
    /\ Frame

\* No memory, no change.
AllocateFails ==
    /\ last_io_data = Null
    /\ Goto("allocate", "idle")
    /\ pc' = [pc EXCEPT ![irp] = "failed"]
    /\ irp' = None
    /\ UNCHANGED <<image, cache, request, seen>>
    /\ Frame

\* The image returns the first n cells of the range, fewer than asked where it ends.
ReadImage(n) ==
    /\ Goto("transfer", "offset") /\ image_open
    /\ req[irp].op = "read" /\ n <= req[irp].len
    /\ LET held == [i \in 1 .. n |-> image[req[irp].off + i - 1]]
       IN /\ last_io_data' = [i \in DOMAIN last_io_data |->
                                 IF i <= n THEN held[i] ELSE last_io_data[i]]
          /\ result' = [result EXCEPT ![irp] = [i \in 1 .. n |-> View(held[i])]]
    /\ UNCHANGED <<image, last_io_offset, last_io_length, irp, pc, req, seen>>
    /\ Frame

\* The cells the image takes from the buffer.
Stored(n) ==
    [p \in Cell |-> IF p \in Range(req[irp].off, n)
                    THEN last_io_data[p - req[irp].off + 1] ELSE image[p]]

WriteImage ==
    /\ Goto("transfer", "offset") /\ image_open /\ req[irp].op = "write"
    /\ image' = Stored(req[irp].len)
    /\ Observe
    /\ UNCHANGED <<cache, irp, pc, request>>
    /\ Frame

\* The image refuses, or has been closed; a failed write may have stored the
\* first n cells.  The buffer is freed.
TransferFails ==
    /\ Goto("transfer", "idle")
    /\ \E n \in 0 .. req[irp].len - 1 :
          image' = IF image_open /\ req[irp].op = "write" THEN Stored(n) ELSE image
    /\ Observe
    /\ last_io_data' = Null
    /\ pc' = [pc EXCEPT ![irp] = "failed"]
    /\ irp' = None
    /\ UNCHANGED <<last_io_offset, last_io_length, request>>
    /\ Frame

\* The range is published by two stores without the lock, the offset first.
PublishOffset ==
    /\ Goto("offset", "length")
    /\ last_io_offset' = req[irp].off
    /\ UNCHANGED <<image, last_io_data, last_io_length, irp, pc, request, seen>>
    /\ Frame

\* The length comes last; then the IRP is completed.
PublishLength ==
    /\ Goto("length", "idle")
    /\ last_io_length' = IF req[irp].op = "read" THEN Len(result[irp]) ELSE req[irp].len
    /\ pc' = [pc EXCEPT ![irp] = "done"]
    /\ irp' = None
    /\ UNCHANGED <<image, last_io_data, last_io_offset, request, seen>>
    /\ Frame

\* The worker fills tracks of the image and does not look at the buffer.  A format that
\* fails has filled some of them, and the disk is removed for it.
FormatTracks ==
    /\ worker = "idle" /\ image_open /\ ~terminate_thread
    /\ foreign < Foreign /\ foreign' = foreign + 1
    /\ \E p, q \in Cell : image' = [i \in Cell |-> IF i \in p .. q THEN <<Fill, Fill>> ELSE image[i]]
    /\ Observe
    /\ formatted' = ~shared_image
    /\ terminate_thread' \in BOOLEAN
    /\ UNCHANGED <<config, image_open, last_io_lock, cache, worker, irp, pc, request>>

\* The disk's removal, and the worker's teardown once it finds no request: the
\* buffer is freed without the lock, the published range stays.
RemoveVirtualDisk ==
    /\ ~terminate_thread /\ terminate_thread' = TRUE
    /\ UNCHANGED <<config, outside, image, image_open, cache, last_io_lock, worker, irp, pc,
                   request, seen>>

TearDown ==
    /\ terminate_thread /\ image_open /\ worker = "idle"
    /\ \A c \in Client : pc[c] # "queued"
    /\ image_open' = FALSE
    /\ last_io_data' = Null
    /\ UNCHANGED <<config, outside, image, terminate_thread, last_io_offset, last_io_length,
                   last_io_lock, worker, irp, pc, request, seen>>

\* Another process changes a cell of an image that was opened for shared writing.
ForeignWrite ==
    /\ shared_image
    /\ foreign < Foreign /\ foreign' = foreign + 1
    /\ \E p \in Cell, w \in Payload : image' = [image EXCEPT ![p] = w]
    /\ Observe
    /\ UNCHANGED <<config, formatted, image_open, terminate_thread, cache, last_io_lock, worker, irp,
                   pc, request>>

-----------------------------------------------------------------------------
ClientStep(c) ==
    \/ \E r \in Request : Start(c, r)
    \/ CompareRange(c) \/ CopyFromBuffer(c) \/ CopyFromNull(c)
    \/ Return(c)

WorkerStep ==
    \/ \E c \in Client : TakeRequest(c)
    \/ Invalidate \/ Allocate \/ AllocateFails
    \/ \E n \in 0 .. Size : ReadImage(n)
    \/ WriteImage \/ TransferFails
    \/ PublishOffset \/ PublishLength
    \/ FormatTracks \/ TearDown

Next == (\E c \in Client : ClientStep(c)) \/ WorkerStep \/ RemoveVirtualDisk \/ ForeignWrite

Spec == Init /\ [][Next]_vars

-----------------------------------------------------------------------------
(* Properties. *)

\* What is published is what the image holds, unless others may write the image: no
\* interleaving of reads, writes, failures and the teardown leaves a stale range.  A track
\* format does (floppy.cpp:119), until the worker's next transfer takes the range back.
CacheCoherent ==
    ~shared_image /\ ~formatted /\ last_io_data # Null =>
        \A i \in 1 .. last_io_length :
            last_io_data[i] = image[last_io_offset + i - 1]

\* Every read returns the contents of one image between its start and its end, whether
\* the buffer or the image answered it, and whoever else writes; with the exception of a
\* read that is answered from the buffer after a track format.
FreshReads ==
    \A c \in Client :
        pc[c] = "done" /\ req[c].op = "read" /\ seen[c] # {} =>
            \E m \in seen[c] :
                \A i \in DOMAIN result[c] : result[c][i] = View(m[req[c].off + i - 1])

\* The worker never moves more into the buffer than its allocation holds, and a
\* published range lies within it, although the worker judges the allocation by
\* the length published last.
BufferFits ==
    last_io_data # Null =>
        /\ worker = "transfer" => req[irp].len <= Len(last_io_data)
        /\ last_io_length <= Len(last_io_data)

\* While a reader copies, the worker neither fills nor publishes the buffer, and
\* what the reader checked still holds; only the teardown may take it away.
CopyUndisturbed ==
    \A c \in Client :
        pc[c] = "copy" =>
            /\ Hit(req[c])
            /\ worker \in {"idle", "invalidate"}
            /\ last_io_data = Null => ~image_open

\* The buffer is never used outside its allocation, nor by two threads at once: the
\* worker's reallocation, its fill without the lock and the readers' copies.
BufferSafe == BufferFits /\ CopyUndisturbed

\* A write that succeeds stores what the client gave, as readers will see it, in an
\* image whose bytes are not swapped (with byte_swap it is stored unswapped and
\* reads swap it: see Allocate).
PlainWritesAsGiven ==
    worker \in {"offset", "length"} /\ req[irp].op = "write" /\ ~shared_image /\ ~byte_swap =>
        \A p \in Range(req[irp].off, req[irp].len) : View(image[p]) = req[irp].word
=============================================================================
