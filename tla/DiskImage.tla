----------------------------- MODULE DiskImage -----------------------------
(***************************************************************************)
(* One virtual disk and what stands behind it, from the request that asks  *)
(* for it to its end: FscryptDiskCreateDevice of sys/createdev.cpp, which  *)
(* checks the parameters, opens or creates the image, sets its length,     *)
(* connects a proxy, allocates the memory and makes the device, any of     *)
(* which can fail; the controls of sys/iodisp.cpp and their part in        *)
(* sys/devthrd.cpp that change the disk's size, its write protection and   *)
(* the objects it holds; and the teardown.                                 *)
(*                                                                         *)
(* Sizes are signed integers of a small width.  The disk's data is not in  *)
(* the model, only where requests fall.  A control is checked by the       *)
(* dispatch routine in its caller's thread and served by the worker later, *)
(* with other requests and changes in between.                             *)
(***************************************************************************)
EXTENDS Integers, Sequences

CONSTANTS Max,                     \* the largest signed integer (2^63 - 1)
          Least,                   \* 65536: a disk has to be larger
          Request,                 \* the creation requests considered
          MaxQueue, MaxSpecial     \* bounds: waiting requests, paging files

Kinds   == {"vm", "file", "buffered", "parallel", "awe", "shm", "stream", "direct"}
Proxies == {"shm", "stream", "direct"}
Files   == {"file", "buffered", "parallel", "awe"}       \* FSCRYPTDISK_TYPE_FILE and its file types
Absent  == -1                                \* the length of an image that does not exist

Data == [kind : Kinds, named : BOOLEAN, size : -(Max + 1) .. Max, offset : 0 .. Max,
         ro : BOOLEAN, cd : BOOLEAN, swap : BOOLEAN, sparse : BOOLEAN, geometry : BOOLEAN]

ASSUME SizeAssumption    == Max \in Nat /\ Least \in 0 .. Max
ASSUME RequestAssumption == Request \subseteq Data /\ \A r \in Request : r.size >= 0
ASSUME BoundAssumption   == MaxQueue \in Nat /\ MaxSpecial \in Nat

VARIABLES
    pc,                            \* where the disk's thread is
    d,                             \* the creation data, which the device extension takes over
    image,                         \* the length of the image
    access,                        \* how the image was opened
    held,                          \* what the disk's thread has to give back
    buffer,                        \* bytes of the memory behind a vm disk
    queue,                         \* requests that wait for the worker
    terminate,                     \* terminate_thread
    special                        \* special_file_count

vars == <<pc, d, image, access, held, buffer, queue, terminate, special>>

Held    == {"handle", "proxy", "buffer", "object", "device", "link", "name"}
Control == [op : {"grow"}, by : 0 .. Max]
    \cup [op : {"read", "write"}, end : 1 .. Max]
    \cup [op : {"flush", "verify", "pass"}]

TypeOK ==
    /\ pc \in {"check", "open", "length", "map", "connect", "size", "geometry", "least", "allocate",
               "reference", "create", "link", "publish", "preload", "running", "torn", "refused", "gone"}
    /\ d \in Data /\ image \in Absent .. Max /\ access \in {"none", "read", "write"}
    /\ held \subseteq Held /\ buffer \in 0 .. Max
    /\ queue \in Seq(Control) /\ Len(queue) <= MaxQueue
    /\ terminate \in BOOLEAN /\ special \in 0 .. MaxSpecial

Init ==
    /\ pc = "check" /\ d \in Request /\ image \in Absent .. Max
    /\ d.named \/ image = Absent
    /\ access = "none" /\ held = {} /\ buffer = 0 /\ queue = <<>>
    /\ terminate = FALSE /\ special = 0

-----------------------------------------------------------------------------
(* Creation. *)

\* A sum of 64-bit integers.
Wrap(n) == IF n > Max THEN n - 2 * (Max + 1) ELSE n

\* What is left of an image behind the offset.
Behind == image - d.offset

Opens  == d.named \/ d.kind = "awe"

Unserved == UNCHANGED <<queue, terminate, special>>

\* A failure gives back what the code names there; the buffer for the name frees itself.
Fail(freed) ==
    /\ pc' = "refused" /\ held' = held \ (freed \cup {"name"})
    /\ buffer' = IF "buffer" \in freed THEN 0 ELSE buffer
    /\ UNCHANGED <<d, image, access>> /\ Unserved

Everything == {"handle", "proxy", "buffer", "object", "device", "link"}

Goto(next) == pc' = next /\ Unserved

NameMissing == ~d.named /\ ~(d.kind \in {"vm", "awe"} /\ d.size > Least)
SwapRefused == d.swap /\ d.kind \in Files \ {"buffered"}

\* A number that is too high is refused here as well; numbers are in DeviceList.
CheckParameters ==
    /\ pc = "check"
    /\ \/ Fail({})
       \/ /\ ~NameMissing /\ ~SwapRefused
          /\ Goto(IF Opens THEN "open" ELSE "allocate")
          /\ UNCHANGED <<d, image, access, held, buffer>>

\* Only a file that may be written is made; awefsalloc finds no file to load either time.
MakesFile(r) == image = Absent /\ r.size # 0 /\ ~r.ro /\ r.kind \in Files \ {"awe"}

WantedAccess(r) == IF r.kind \in Proxies \/ (r.kind # "vm" /\ ~r.ro) THEN "write" ELSE "read"

OpenImage ==
    /\ pc = "open"
    /\ \/ Fail({})
       \/ LET r == [d EXCEPT !.ro = @ \/ d.cd] IN
          /\ r.kind \in Proxies \/ image # Absent \/ MakesFile(r) \/ ~r.named
          /\ d' = r /\ access' = WantedAccess(r)
          /\ image' = IF r.kind \in Proxies \/ image # Absent THEN image ELSE 0
          /\ held' = {"handle"} \cup IF d.named THEN {"name"} ELSE {}
          /\ Goto(IF r.kind \in Files /\ ~r.ro THEN "length" ELSE "map")
          /\ UNCHANGED buffer

\* The image gets the disk's length, whatever it was, and may turn out not to be sparse.
SetLength ==
    /\ pc = "length"
    /\ \/ d.size # 0 /\ d.offset = 0 /\ Fail({"handle"})
       \/ /\ \E sparse \in BOOLEAN : d' = [d EXCEPT !.sparse = @ /\ sparse]
          /\ image' = IF d.size # 0 /\ d.offset = 0 THEN d.size ELSE image
          /\ Goto("map") /\ UNCHANGED <<access, held, buffer>>

ReferenceProxy ==
    /\ pc = "map"
    /\ IF d.kind \notin Proxies THEN Goto("size") /\ UNCHANGED <<d, image, access, held, buffer>>
       ELSE \/ Fail({"handle"})
            \/ held' = held \cup {"proxy"} /\ Goto("connect") /\ UNCHANGED <<d, image, access, buffer>>

\* A direct proxy needs no introduction.
ConnectProxy ==
    /\ pc = "connect"
    /\ \/ d.kind # "direct" /\ Fail({"proxy", "handle"})
       \/ Goto("size") /\ UNCHANGED <<d, image, access, held, buffer>>

\* A size of 0 stands for the whole image, or for what the proxy says.
GivenSize(whole) == IF d.size = 0 THEN whole ELSE d.size

ImageSize ==
    /\ pc = "size" /\ d.kind \notin Proxies
    /\ \/ Fail({"handle"})
       \/ LET size == GivenSize(Behind) IN
          /\ d' = [d EXCEPT !.size = size]
          /\ IF d.kind = "vm" THEN size > 0 /\ buffer' = size /\ held' = held \cup {"buffer"}
                              ELSE UNCHANGED <<buffer, held>>
          /\ Goto(IF d.geometry THEN "least" ELSE "geometry")
          /\ UNCHANGED <<image, access>>

\* The proxy's word on its size, its alignment and its write protection.
ProxySize ==
    /\ pc = "size" /\ d.kind \in Proxies
    /\ \/ Fail({"proxy", "handle"})
       \/ \E ro \in BOOLEAN :
             /\ GivenSize(image) > 0
             /\ d' = [d EXCEPT !.size = GivenSize(image), !.ro = @ \/ ro]
             /\ Goto(IF d.geometry THEN "least" ELSE "geometry")
             /\ UNCHANGED <<image, access, held, buffer>>

\* The first sector may tell the geometry; if it cannot be read there are default values.
ReadGeometry ==
    /\ pc = "geometry"
    /\ \/ Fail(IF d.kind \in Proxies THEN {"proxy", "handle"} ELSE {"handle", "buffer"})
       \/ Goto("least") /\ UNCHANGED <<d, image, access, held, buffer>>

CheckLeast ==
    /\ pc = "least"
    /\ IF d.size <= Least THEN Fail({"proxy", "handle", "buffer"})
       ELSE Goto("reference") /\ UNCHANGED <<d, image, access, held, buffer>>

AllocateBlank ==
    /\ pc = "allocate"
    /\ \/ Fail({})
       \/ /\ buffer' = d.size /\ held' = held \cup {"buffer"}
          /\ Goto("reference") /\ UNCHANGED <<d, image, access>>

FillGeometry(r) == [r EXCEPT !.geometry = TRUE]

\* Disks whose requests go to the image's device directly keep its file object.
ReferenceObject ==
    /\ pc = "reference"
    /\ \/ Fail({"proxy", "handle", "buffer"})
       \/ /\ d' = FillGeometry(d)
          /\ held' = IF d.kind \in {"parallel", "awe"} THEN held \cup {"object"} ELSE held
          /\ Goto("create") /\ UNCHANGED <<image, access, buffer>>

\* The buffer for the device's name and the device itself; the object is referenced by now.
IoCreateDevice ==
    /\ pc = "create"
    /\ \/ Fail(Everything)
       \/ /\ held' = held \cup {"device"}
          /\ Goto("link") /\ UNCHANGED <<d, image, access, buffer>>

CreateSymlink ==
    /\ pc = "link"
    /\ \/ Fail(Everything)
       \/ /\ held' = held \cup {"link"}
          /\ Goto("publish") /\ UNCHANGED <<d, image, access, buffer>>

InitExtension ==
    /\ pc = "publish"
    /\ Goto(IF d.kind = "vm" /\ "handle" \in held THEN "preload" ELSE "running")
    /\ UNCHANGED <<d, image, access, held, buffer>>

\* The image of a vm disk is read to the disk's end, which it must reach, and closed.
PreloadImage ==
    /\ pc = "preload"
    /\ pc' = "running" /\ held' = held \ {"handle"}
    /\ terminate' \in {terminate, TRUE}
    /\ Behind < d.size => terminate' = TRUE
    /\ UNCHANGED <<d, image, access, buffer, queue, special>>

-----------------------------------------------------------------------------
(* Requests, as the dispatch routines take them in their callers' threads. *)

Serving == pc \in {"preload", "running"} /\ ~terminate
Idle    == UNCHANGED <<pc, image, access, held, buffer>>

QueueIrp(control) ==
    /\ Len(queue) < MaxQueue /\ queue' = Append(queue, control)
    /\ UNCHANGED <<pc, d, image, access, held, buffer, terminate, special>>

\* A request reaches to "end"; disks with parallel I/O send it on at once.
DispatchTransfer(op, end) ==
    /\ Serving /\ d.kind \notin {"parallel", "awe"}
    /\ op = "write" => ~d.ro
    /\ end <= d.size
    /\ QueueIrp([op |-> op, end |-> end])

DispatchGrow(by) ==
    /\ Serving /\ ~d.ro
    /\ Wrap(d.size + by) >= d.size
    /\ QueueIrp([op |-> "grow", by |-> by])

DispatchFlush  == Serving /\ ~d.ro /\ d.kind \in {"file", "buffered"} /\ QueueIrp([op |-> "flush"])
DispatchVerify == Serving /\ d.kind # "vm" /\ QueueIrp([op |-> "verify"])
DispatchPass   == /\ Serving /\ "handle" \in held /\ d.kind \notin {"parallel", "awe"}
                  /\ QueueIrp([op |-> "pass"])

\* Mutant: the protection is cleared for any kind of disk.
ClearReadOnlyAny(on) ==
    /\ Serving /\ ~d.cd
    /\ IF on /\ special <= 0
       THEN d' = [d EXCEPT !.ro = TRUE]
       ELSE d' = [d EXCEPT !.ro = FALSE]
    /\ Idle /\ UNCHANGED <<queue, terminate, special>>

\* A disk with a paging file is not made read-only, but asked to be, a disk in memory is
\* made writable.  Clearing is for memory only.
SetReadOnly(on) ==
    /\ Serving /\ ~d.cd
    /\ IF on /\ special <= 0
       THEN d' = [d EXCEPT !.ro = TRUE]
       ELSE /\ d.kind = "vm"
            /\ d' = [d EXCEPT !.ro = FALSE]
    /\ Idle /\ UNCHANGED <<queue, terminate, special>>

SetSparse ==
    /\ Serving /\ d.kind \in Files
    /\ d' = [d EXCEPT !.sparse = TRUE]
    /\ Idle /\ UNCHANGED <<queue, terminate, special>>

\* A protected disk counts paging files too: its error status is overwritten (iodisp.cpp:2261).
UsageNotification(change) ==
    /\ Serving /\ special + change \in 0 .. MaxSpecial
    /\ special' = special + change
    /\ Idle /\ UNCHANGED <<d, queue, terminate>>

RemoveDevice ==
    /\ Serving /\ special <= 0
    /\ terminate' = TRUE
    /\ Idle /\ UNCHANGED <<d, queue, special>>

-----------------------------------------------------------------------------
(* The worker. *)

Take(op) == /\ pc = "running" /\ queue # <<>> /\ Head(queue).op = op
            /\ queue' = Tail(queue)
Same     == UNCHANGED <<pc, access, special>>

\* A new size, at which the memory or the image is made to match.
Resize(size) ==
    \/ d.kind = "vm" /\ buffer' = size /\ UNCHANGED image
    \/ d.kind \in Proxies /\ UNCHANGED <<buffer, image>>
    \/ /\ d.kind \in Files /\ d.offset = 0 /\ UNCHANGED buffer
       /\ IF image >= size THEN UNCHANGED image ELSE image' = size

\* Mutant: the worker relies on what the dispatch routine has checked.
ServeGrowUnchecked ==
    /\ Take("grow")
    /\ LET size == Wrap(d.size + Head(queue).by) IN
       \/ /\ d' = [d EXCEPT !.size = size]
          /\ IF size > 0 THEN Resize(size) ELSE d.kind \in Proxies /\ UNCHANGED <<buffer, image>>
       \/ UNCHANGED <<d, buffer, image>>
    /\ UNCHANGED <<held, terminate>> /\ Same

\* The sum is made again: other requests may have come first.
ServeGrow ==
    /\ Take("grow")
    /\ LET size == Wrap(d.size + Head(queue).by) IN
       \/ size > 0 /\ Resize(size) /\ d' = [d EXCEPT !.size = size]
       \/ UNCHANGED <<d, buffer, image>>
    /\ UNCHANGED <<held, terminate>> /\ Same

\* What cannot reach the image any more removes the disk (devthrd.cpp:1259-1273).
MayBeLost == terminate' \in {terminate, terminate \/ d.kind # "vm"}

ServeRead ==
    /\ Take("read") /\ MayBeLost
    /\ UNCHANGED <<d, image, held, buffer>> /\ Same

\* A write behind the end of a file makes it longer.
ServeWrite ==
    /\ Take("write") /\ MayBeLost
    /\ \/ UNCHANGED image
       \/ /\ d.kind \in Files /\ Behind < Head(queue).end /\ d.offset + Head(queue).end <= Max
          /\ image' = d.offset + Head(queue).end
    /\ UNCHANGED <<d, held, buffer>> /\ Same

ServeVerify ==
    /\ Take("verify") /\ MayBeLost
    /\ UNCHANGED <<d, image, held, buffer>> /\ Same

\* The file object is referenced once and kept to the end; a vm disk's handle is gone by now.
ReferenceLate == held' = IF "handle" \in held THEN held \cup {"object"} ELSE held

ServeFlush ==
    /\ Take("flush") /\ MayBeLost
    /\ (held' = held) \/ ReferenceLate
    /\ UNCHANGED <<d, image, buffer>> /\ Same

ServePass ==
    /\ Take("pass") /\ MayBeLost
    /\ held' = held \/ (d.kind # "shm" /\ ReferenceLate)
    /\ UNCHANGED <<d, image, buffer>> /\ Same

\* Mutant: the image's handle is closed and the file object forgotten.
TearDownHandleOnly ==
    /\ pc = "running" /\ queue = <<>> /\ terminate
    /\ pc' = "torn"
    /\ held' = held \ ({"proxy", "name"} \cup IF d.kind = "vm" THEN {"buffer"} ELSE {"handle"})
    /\ buffer' = 0
    /\ UNCHANGED <<d, image, access, queue, terminate, special>>

TearDown ==
    /\ pc = "running" /\ queue = <<>> /\ terminate
    /\ pc' = "torn"
    /\ held' = held \ ({"proxy", "name"} \cup IF d.kind = "vm" THEN {"buffer"} ELSE {"handle", "object"})
    /\ buffer' = 0
    /\ UNCHANGED <<d, image, access, queue, terminate, special>>

\* Without memory for its name the symbolic link stays.
DeleteDevice ==
    /\ pc = "torn"
    /\ pc' = "gone"
    /\ held' \in {held \ {"device", "link"}, held \ {"device"}}
    /\ UNCHANGED <<d, image, access, buffer, queue, terminate, special>>

-----------------------------------------------------------------------------
Create ==
    \/ CheckParameters \/ OpenImage \/ SetLength \/ ReferenceProxy \/ ConnectProxy \/ ImageSize \/ ProxySize
    \/ ReadGeometry \/ CheckLeast \/ AllocateBlank \/ ReferenceObject
    \/ IoCreateDevice \/ CreateSymlink \/ InitExtension \/ PreloadImage

Dispatch ==
    \/ \E op \in {"read", "write"}, end \in 1 .. Max : DispatchTransfer(op, end)
    \/ \E by \in 0 .. Max : DispatchGrow(by)
    \/ DispatchFlush \/ DispatchVerify \/ DispatchPass
    \/ \E on \in BOOLEAN : SetReadOnly(on)
    \/ SetSparse
    \/ \E change \in {-1, 1} : UsageNotification(change)
    \/ RemoveDevice

Serve == ServeGrow \/ ServeRead \/ ServeWrite \/ ServeVerify \/ ServeFlush \/ ServePass

Next == Create \/ Dispatch \/ Serve \/ TearDown \/ DeleteDevice

Spec == Init /\ [][Next]_vars

-----------------------------------------------------------------------------
(* What is promised. *)

Published == pc \in {"preload", "running"}

(* A creation that fails anywhere, and a disk that is removed, leaves no handle, object, connection, memory or
   device behind (createdev.cpp:853-2042, devthrd.cpp:1113-1232); a symbolic link may stay behind a removed disk. *)
NothingKept ==
    /\ pc = "refused" => held = {} /\ buffer = 0
    /\ pc = "gone"    => held \subseteq {"link"} /\ buffer = 0

(* What waits for the worker lies within the disk, and the disk within its memory or, where it may write and takes
   all of the file, within its image, although sizes change after a request was checked (iodisp.cpp:179 and 1266,
   devthrd.cpp:759-933). *)
WithinBacking ==
    Published =>
        /\ \A i \in DOMAIN queue : queue[i].op \in {"read", "write"} => queue[i].end <= d.size
        /\ d.kind = "vm" => buffer = d.size
        /\ d.kind \in Files /\ d.offset = 0 /\ access = "write" => image >= d.size

(* A disk that takes writes has an image that was opened for writing, whatever the requests to protect it or not
   (iodisp.cpp:451-460). *)
WritableAsOpened == Published /\ ~d.ro /\ d.kind # "vm" => access = "write"
=============================================================================
