----------------------------- MODULE DeviceList -----------------------------
(***************************************************************************)
(* The driver's list of device objects: creation of disks, each on a       *)
(* thread of its own that later becomes the disk's worker (sys/create-     *)
(* dev.cpp, sys/devthrd.cpp), the requests to the control device that walk *)
(* the list (sys/iodisp.cpp), and the unloading driver.                    *)
(*                                                                         *)
(* DeviceListLock covers a walk of the list.  It does not cover            *)
(* IoCreateDevice and IoDeleteDevice, which change the list, nor the use   *)
(* of a device object that a walk found.  A walk is a step per object.     *)
(*                                                                         *)
(* A device object is in the list, with a zeroed extension, before its     *)
(* extension is initialised.  When a thread uses an object that is deleted *)
(* or whose event is not initialised, nothing more is said: "undefined"    *)
(* becomes TRUE and the model stops.                                       *)
(***************************************************************************)
EXTENDS Integers, Sequences, FiniteSets, SequencesExt

CONSTANTS Disk,        \* bound: a creation of a disk, and the disk
          Ctl,         \* FscryptDiskCtlDevice
          Caller,      \* threads that send requests to the control device
          None,
          MaxDevices

ASSUME MaxAssumption  == MaxDevices \in Nat \ {0}
ASSUME NoneAssumption == /\ None \notin Disk \cup Caller /\ Ctl \notin Disk \cup Caller \cup {None}
                         /\ Disk \cap Caller = {}

Object == Disk \cup {Ctl}
AutoNumber == -1   \* FSCRYPTDISK_AUTO_DEVICE_NUMBER, and the control device's own number
Number == 0 .. MaxDevices

VARIABLES list,            \* the NextDevice chain, newest object first
          thread,          \* where a disk's thread is
          want,            \* the number its creator asked for
          number,          \* CreateData->DeviceNumber
          opened,          \* disks that hold their image open
          reply,           \* what the creator was told
          terminate_thread,  \* disks with this event set
          special_file,    \* disks with a paging file on them
          lock,            \* the holder of DeviceListLock
          cursor,          \* where a walk is: an object, or None
          pc,              \* where a caller is
          ask,             \* the number it wants removed
          hit,             \* the object it found
          listed,          \* the numbers a list query has found
          there,           \* the disks that were there all through the query
          unload,          \* where FscryptDiskUnload is
          waiting,         \* the disk whose thread it waits for
          undefined

creation == <<thread, want, number, opened, reply>>
calls    == <<pc, ask, hit, listed, there>>
leaving  == <<unload, waiting>>
vars == <<list, creation, terminate_thread, special_file, lock, cursor, calls, leaving, undefined>>

Walker  == Disk \cup Caller \cup {Ctl}   \* Ctl: the unloading driver
Creating == {"auto", "scan", "open", "create", "symlink", "init", "report"}

TypeOK ==
    /\ list \in Seq(Object)
    /\ thread \in [Disk -> Creating \cup {"unused", "running", "delete", "ended"}]
    /\ want \in [Disk -> Number \cup {AutoNumber}] /\ number \in [Disk -> Number]
    /\ opened \in SUBSET Disk
    /\ reply \in [Disk -> {"none", "ok", "failed"}]
    /\ terminate_thread \in SUBSET Disk /\ special_file \in SUBSET Disk
    /\ lock \in Walker \cup {None}
    /\ cursor \in [Walker -> Object \cup {None}]
    /\ pc \in [Caller -> {"idle", "remove", "query", "walk", "list", "set", "removed",
                          "queried"}]
    /\ ask \in [Caller -> Number \cup {AutoNumber}]
    /\ hit \in [Caller -> Object \cup {None}]
    /\ listed \in [Caller -> Seq(Number)]
    /\ there \in [Caller -> SUBSET Disk]
    /\ unload \in {"no", "visit", "wait", "done"}
    /\ waiting \in Disk \cup {None}
    /\ undefined \in BOOLEAN

Init ==
    /\ list = <<Ctl>>
    /\ thread = [d \in Disk |-> "unused"] /\ reply = [d \in Disk |-> "none"]
    /\ want = [d \in Disk |-> 0] /\ number = [d \in Disk |-> 0]
    /\ opened = {} /\ terminate_thread = {} /\ special_file = {}
    /\ lock = None
    /\ cursor = [w \in Walker |-> None]
    /\ pc = [c \in Caller |-> "idle"] /\ ask = [c \in Caller |-> 0]
    /\ hit = [c \in Caller |-> None]
    /\ listed = [c \in Caller |-> <<>>] /\ there = [c \in Caller |-> {}]
    /\ unload = "no" /\ waiting = None /\ undefined = FALSE

-----------------------------------------------------------------------------
(* The list. *)

Listed(o)  == \E i \in DOMAIN list : list[i] = o
NextDevice(o) ==
    LET i == CHOOSE j \in DOMAIN list : list[j] = o
    IN IF i = Len(list) THEN None ELSE list[i + 1]
\* What is left when o is unlinked.
Without(o) == IF Listed(o) THEN RemoveAt(list, CHOOSE i \in DOMAIN list : list[i] = o) ELSE list

\* What the extension holds: its number is 0 until the disk's thread has written it.
Ready(d) == thread[d] \in {"report", "running", "delete"}
DeviceNumber(o) == IF o = Ctl THEN AutoNumber ELSE IF Ready(o) THEN number[o] ELSE 0

\* A walk of w under the lock: its start, a step past a live object, its end.  An
\* object that is deleted while the walk is at it is used all the same.
StartWalk(w) ==
    /\ lock = None /\ lock' = w
    /\ cursor' = [cursor EXCEPT ![w] = Head(list)]

AtLive(w) == ~undefined /\ cursor[w] # None /\ Listed(cursor[w])

WalkOn(w) ==
    /\ cursor' = [cursor EXCEPT ![w] = NextDevice(cursor[w])]
    /\ UNCHANGED lock

EndWalk(w) ==
    /\ lock' = None
    /\ cursor' = [cursor EXCEPT ![w] = None]

UseDeleted(w) ==
    /\ cursor[w] # None /\ ~Listed(cursor[w])
    /\ ~undefined /\ undefined' = TRUE
    /\ UNCHANGED <<list, creation, terminate_thread, special_file, lock, cursor, calls, leaving>>

-----------------------------------------------------------------------------
(* FscryptDiskAddVirtualDisk and the thread it starts. *)

Goto(d, from, to) == ~undefined /\ thread[d] = from /\ thread' = [thread EXCEPT ![d] = to]

\* A creation fails: its thread tells the creator and ends.
Fails(d) ==
    /\ ~undefined
    /\ thread' = [thread EXCEPT ![d] = "ended"]
    /\ reply' = [reply EXCEPT ![d] = "failed"]

\* The I/O manager passes no request on once the driver is being unloaded.
Serving == unload = "no"

AddVirtualDisk(d, n) ==
    /\ Serving
    /\ Goto(d, "unused", IF n = AutoNumber THEN "auto" ELSE "open")
    /\ want' = [want EXCEPT ![d] = n]
    /\ number' = [number EXCEPT ![d] = IF n = AutoNumber THEN 0 ELSE n]
    /\ UNCHANGED <<list, opened, reply, terminate_thread, special_file, lock, cursor, calls,
                   leaving, undefined>>

FindFreeDeviceNumber(d) ==
    /\ Goto(d, "auto", "scan")
    /\ StartWalk(d)
    /\ UNCHANGED <<list, want, number, opened, reply, terminate_thread, special_file, calls,
                   leaving, undefined>>

\* One above the highest number seen so far.
ScanDevice(d) ==
    /\ thread[d] = "scan" /\ AtLive(d)
    /\ LET n == DeviceNumber(cursor[d])
       IN number' = [number EXCEPT ![d] = IF n # AutoNumber /\ n >= @ THEN n + 1 ELSE @]
    /\ WalkOn(d)
    /\ UNCHANGED <<list, thread, want, opened, reply, terminate_thread, special_file, calls,
                   leaving, undefined>>

FreeNumberFound(d) ==
    /\ cursor[d] = None
    /\ Goto(d, "scan", "open")
    /\ EndWalk(d)
    /\ UNCHANGED <<list, want, number, opened, reply, terminate_thread, special_file, calls,
                   leaving, undefined>>

\* A number that is too high is refused; then the image is opened or allocated and
\* looked at, which may fail in many places and leaves nothing open if it does.
OpenImage(d) ==
    /\ \/ /\ number[d] < MaxDevices
          /\ Goto(d, "open", "create")
          /\ opened' = opened \cup {d}
          /\ UNCHANGED reply
       \/ /\ thread[d] = "open"
          /\ Fails(d)
          /\ UNCHANGED opened
    /\ UNCHANGED <<list, want, number, terminate_thread, special_file, lock, cursor, calls,
                   leaving, undefined>>

NameTaken(d) == \E e \in Disk \ {d} : Listed(e) /\ number[e] = number[d]

\* IoCreateDevice refuses a name that exists, and may run out of memory.
CreateWith(d, left) ==
    /\ \/ /\ ~NameTaken(d)
          /\ Goto(d, "create", "symlink")
          /\ list' = <<d>> \o list
          /\ UNCHANGED <<opened, reply>>
       \/ /\ thread[d] = "create"
          /\ Fails(d)
          /\ opened' = left
          /\ UNCHANGED list
    /\ UNCHANGED <<want, number, terminate_thread, special_file, lock, cursor, calls, leaving,
                   undefined>>

\* Mutant: a creation that fails leaves its image open.
CreateLeaveOpen(d) == CreateWith(d, opened)

IoCreateDevice(d) == CreateWith(d, opened \ {d})

CreateSymlink(d) ==
    /\ \/ Goto(d, "symlink", "init") /\ UNCHANGED <<list, opened, reply>>
       \/ /\ thread[d] = "symlink"
          /\ Fails(d)
          /\ list' = Without(d)
          /\ opened' = opened \ {d}
    /\ UNCHANGED <<want, number, terminate_thread, special_file, lock, cursor, calls, leaving,
                   undefined>>

\* The extension is zeroed, its events are made, its number is written.
InitExtension(d) ==
    /\ Goto(d, "init", "report")
    /\ terminate_thread' = terminate_thread \ {d}
    /\ UNCHANGED <<list, want, number, opened, reply, special_file, lock, cursor, calls,
                   leaving, undefined>>

\* Mutant: the events are made once the disk is known to everybody.
ReportInitEvents(d) ==
    /\ Goto(d, "report", "running")
    /\ reply' = [reply EXCEPT ![d] = "ok"]
    /\ terminate_thread' = terminate_thread \ {d}
    /\ UNCHANGED <<list, want, number, opened, special_file, lock, cursor, calls, leaving,
                   undefined>>

\* The creator is told; the thread goes on as the worker of the disk.
ReportCreated(d) ==
    /\ Goto(d, "report", "running")
    /\ reply' = [reply EXCEPT ![d] = "ok"]
    /\ UNCHANGED <<list, want, number, opened, terminate_thread, special_file, lock, cursor,
                   calls, leaving, undefined>>

\* The connection to the image is lost: the worker asks for its own removal.
LoseImage(d) ==
    /\ ~undefined
    /\ thread[d] = "running"
    /\ terminate_thread' = terminate_thread \cup {d}
    /\ UNCHANGED <<list, creation, special_file, lock, cursor, calls, leaving, undefined>>

\* The worker's teardown, and then the device object; no handle is open.
TearDown(d) ==
    /\ d \in terminate_thread
    /\ Goto(d, "running", "delete")
    /\ opened' = opened \ {d}
    /\ UNCHANGED <<list, want, number, reply, terminate_thread, special_file, lock, cursor,
                   calls, leaving, undefined>>

DeleteDevice(d) ==
    /\ Goto(d, "delete", "ended")
    /\ list' = Without(d)
    /\ there' = [c \in Caller |-> there[c] \ {d}]
    /\ UNCHANGED <<want, number, opened, reply, terminate_thread, special_file, lock, cursor,
                   pc, ask, hit, listed, leaving, undefined>>

\* IRP_MN_DEVICE_USAGE_NOTIFICATION: a paging file comes to the disk or goes.
UsageNotification(d) ==
    /\ ~undefined
    /\ thread[d] = "running" /\ d \notin terminate_thread
    /\ special_file' = IF d \in special_file THEN special_file \ {d} ELSE special_file \cup {d}
    /\ UNCHANGED <<list, creation, terminate_thread, lock, cursor, calls, leaving, undefined>>

-----------------------------------------------------------------------------
(* Requests to the control device. *)

At(c, from, to) == ~undefined /\ pc[c] = from /\ pc' = [pc EXCEPT ![c] = to]
Return(c) ==
    /\ hit' = [hit EXCEPT ![c] = None]
    /\ listed' = [listed EXCEPT ![c] = <<>>]
    /\ there' = [there EXCEPT ![c] = {}]
    /\ ask' = [ask EXCEPT ![c] = 0]

RemoveDevice(c, n) ==
    /\ Serving
    /\ At(c, "idle", "remove")
    /\ ask' = [ask EXCEPT ![c] = n]
    /\ UNCHANGED <<list, creation, terminate_thread, special_file, lock, cursor, hit, listed,
                   there, leaving, undefined>>

RemoveWalk(c) ==
    /\ At(c, "remove", "walk")
    /\ StartWalk(c)
    /\ UNCHANGED <<list, creation, terminate_thread, special_file, ask, hit, listed, there,
                   leaving, undefined>>

PassDevice(c) ==
    /\ pc[c] = "walk" /\ AtLive(c) /\ DeviceNumber(cursor[c]) # ask[c]
    /\ WalkOn(c)
    /\ UNCHANGED <<list, creation, terminate_thread, special_file, calls, leaving, undefined>>

NotFound(c) ==
    /\ cursor[c] = None
    /\ At(c, "walk", "idle")
    /\ EndWalk(c) /\ Return(c)
    /\ UNCHANGED <<list, creation, terminate_thread, special_file, leaving, undefined>>

Found(c, o) ==
    /\ IF o \in special_file THEN At(c, "walk", "idle") /\ Return(c)
       ELSE /\ At(c, "walk", "set")
            /\ hit' = [hit EXCEPT ![c] = o]
            /\ UNCHANGED <<ask, listed, there>>
    /\ EndWalk(c)
    /\ UNCHANGED <<list, creation, terminate_thread, special_file, leaving, undefined>>

\* Mutant: the early return for a paging file forgets the lock.
FindKeepLock(c) ==
    /\ AtLive(c) /\ DeviceNumber(cursor[c]) = ask[c]
    /\ cursor[c] \in special_file
    /\ At(c, "walk", "idle") /\ Return(c)
    /\ UNCHANGED <<list, creation, terminate_thread, special_file, lock, cursor, leaving, undefined>>

\* The device with the number that was asked for, unless it holds a paging file.
FindDevice(c) ==
    /\ AtLive(c) /\ DeviceNumber(cursor[c]) = ask[c]
    /\ Found(c, cursor[c])

\* The lock is released; the object that was found is asked to go.  The control device,
\* which has the number -1, has no initialised event either.
SetTerminate(c) ==
    /\ At(c, "set", "removed")
    /\ LET o == hit[c]
           usable == o # Ctl /\ Listed(o) /\ Ready(o)
       IN /\ undefined' = ~usable
          /\ terminate_thread' = IF usable THEN terminate_thread \cup {o} ELSE terminate_thread
    /\ UNCHANGED <<list, creation, special_file, lock, cursor, ask, hit, listed, there, leaving>>

\* IOCTL_FSCRYPTDISK_QUERY_DRIVER with a buffer that holds all the numbers.
QueryDriver(c) ==
    /\ Serving
    /\ At(c, "idle", "query")
    /\ UNCHANGED <<list, creation, terminate_thread, special_file, lock, cursor, ask, hit, listed,
                   there, leaving, undefined>>

QueryWalk(c) ==
    /\ At(c, "query", "list")
    /\ StartWalk(c)
    /\ there' = [there EXCEPT ![c] = {d \in Disk : Listed(d) /\ Ready(d)}]
    /\ UNCHANGED <<list, creation, terminate_thread, special_file, ask, hit, listed, leaving,
                   undefined>>

\* Mutant: the device with the number 0 is taken for a free entry.
ListNonzero(c) ==
    /\ pc[c] = "list" /\ AtLive(c)
    /\ LET n == DeviceNumber(cursor[c])
       IN listed' = [listed EXCEPT ![c] = IF n \in {AutoNumber, 0} THEN @ ELSE Append(@, n)]
    /\ WalkOn(c)
    /\ UNCHANGED <<list, creation, terminate_thread, special_file, pc, ask, hit, there, leaving,
                   undefined>>

ListDevice(c) ==
    /\ pc[c] = "list" /\ AtLive(c)
    /\ LET n == DeviceNumber(cursor[c])
       IN listed' = [listed EXCEPT ![c] = IF n = AutoNumber THEN @ ELSE Append(@, n)]
    /\ WalkOn(c)
    /\ UNCHANGED <<list, creation, terminate_thread, special_file, pc, ask, hit, there, leaving,
                   undefined>>

EndList(c) ==
    /\ cursor[c] = None
    /\ At(c, "list", "queried")
    /\ EndWalk(c)
    /\ UNCHANGED <<list, creation, terminate_thread, special_file, ask, hit, listed, there,
                   leaving, undefined>>

ReturnToCaller(c) ==
    /\ ~undefined
    /\ pc[c] \in {"removed", "queried"}
    /\ pc' = [pc EXCEPT ![c] = "idle"]
    /\ Return(c)
    /\ UNCHANGED <<list, creation, terminate_thread, special_file, lock, cursor, leaving,
                   undefined>>

-----------------------------------------------------------------------------
(* FscryptDiskUnload, which the I/O manager calls when no handle of the control device
   is open, so no request and no creation is under way. *)

Unload ==
    /\ ~undefined
    /\ unload = "no" /\ unload' = "visit"
    /\ \A c \in Caller : pc[c] = "idle"
    /\ \A d \in Disk : thread[d] \notin Creating
    /\ cursor' = [cursor EXCEPT ![Ctl] = Head(list)]
    /\ UNCHANGED <<list, creation, terminate_thread, special_file, lock, calls, waiting, undefined>>

VisitDisk(d, next) ==
    /\ ~undefined
    /\ unload = "visit" /\ cursor[Ctl] = d /\ Listed(d)
    /\ cursor' = [cursor EXCEPT ![Ctl] = NextDevice(d)]
    /\ terminate_thread' = terminate_thread \cup {d}
    /\ waiting' = d /\ unload' = next
    /\ UNCHANGED <<list, creation, special_file, lock, calls, undefined>>

\* Mutant: the thread is not waited for.
UnloadDiskOnly(d) == VisitDisk(d, "visit")

\* The next object is noted before the disk is asked to go.
UnloadDisk(d) == VisitDisk(d, "wait")

UnloadNext ==
    /\ ~undefined
    /\ unload = "wait" /\ thread[waiting] = "ended"
    /\ unload' = "visit" /\ waiting' = None
    /\ UNCHANGED <<list, creation, terminate_thread, special_file, lock, cursor, calls, undefined>>

UnloadCtl ==
    /\ ~undefined
    /\ unload = "visit" /\ cursor[Ctl] = Ctl
    /\ cursor' = [cursor EXCEPT ![Ctl] = NextDevice(Ctl)]
    /\ list' = Without(Ctl)
    /\ UNCHANGED <<creation, terminate_thread, special_file, lock, calls, leaving, undefined>>

UnloadEnds ==
    /\ ~undefined
    /\ unload = "visit" /\ cursor[Ctl] = None
    /\ unload' = "done"
    /\ UNCHANGED <<list, creation, terminate_thread, special_file, lock, cursor, calls, waiting,
                   undefined>>

-----------------------------------------------------------------------------
CreationStep(d) ==
    \/ FindFreeDeviceNumber(d) \/ ScanDevice(d) \/ FreeNumberFound(d)
    \/ OpenImage(d) \/ IoCreateDevice(d) \/ CreateSymlink(d)
    \/ InitExtension(d) \/ ReportCreated(d)
    \/ TearDown(d) \/ DeleteDevice(d)

CallerStep(c) ==
    \/ RemoveWalk(c) \/ PassDevice(c) \/ NotFound(c) \/ FindDevice(c) \/ SetTerminate(c)
    \/ QueryWalk(c) \/ ListDevice(c) \/ EndList(c)
    \/ ReturnToCaller(c)

UnloadStep == (\E d \in Disk : UnloadDisk(d)) \/ UnloadNext \/ UnloadCtl \/ UnloadEnds

Request(c) ==
    \/ QueryDriver(c)
    \/ \E n \in Number \cup {AutoNumber} : RemoveDevice(c, n)

Outside(d) ==
    \/ LoseImage(d) \/ UsageNotification(d)
    \/ \E n \in Number \cup {AutoNumber} : AddVirtualDisk(d, n)

Next ==
    \/ \E d \in Disk : CreationStep(d) \/ Outside(d)
    \/ \E c \in Caller : CallerStep(c) \/ Request(c)
    \/ Unload \/ UnloadStep
    \/ \E w \in Walker : UseDeleted(w)

\* Every thread of the driver runs when it can, and the queued spin lock goes to those who
\* wait for it in their order; what comes from outside may not come.
Spec ==
    /\ Init /\ [][Next]_vars
    /\ \A d \in Disk : SF_vars(CreationStep(d))
    /\ \A c \in Caller : SF_vars(CallerStep(c))
    /\ WF_vars(UnloadStep)
    /\ \A w \in Walker : WF_vars(UseDeleted(w))

-----------------------------------------------------------------------------
(* Properties. *)

\* The creator is told the truth: a success is a device of its own number in the list, with
\* its image open, unless somebody has had it removed; a failure leaves neither a device nor an
\* open image behind, whichever of the steps failed.
CreatorToldTruth ==
    \A d \in Disk :
        /\ reply[d] = "ok" /\ d \notin terminate_thread =>
              Listed(d) /\ Ready(d) /\ d \in opened /\ want[d] \in {AutoNumber, number[d]}
        /\ reply[d] = "failed" => ~Listed(d) /\ d \notin opened

\* The number of the device that a removal hit.
HitNumber(c) == number[hit[c]]
Removed(c)   == pc[c] = "removed" /\ ~undefined

\* A removal that succeeded hit the device with the number that was asked for, unless that is
\* 0, although its object was used after the lock was released; and the device has its event
\* set for good, or is gone.
RemovedIsAsked ==
    \A c \in Caller :
        Removed(c) =>
            /\ ask[c] # 0 => HitNumber(c) = ask[c]
            /\ hit[c] \in terminate_thread \/ ~Listed(hit[c])

\* A list query lists every disk that was there from its beginning to its end, once, while
\* other disks come and go; only a 0 may be listed again, for a disk that is being created.
QueryComplete ==
    \A c \in Caller :
        pc[c] = "queried" =>
            \A d \in there[c] :
                LET entries == {i \in DOMAIN listed[c] : listed[c][i] = number[d]}
                IN /\ entries # {}
                   /\ number[d] # 0 => Cardinality(entries) = 1

\* When the driver has been unloaded no device, no thread and no open image is left.
UnloadLeavesNothing ==
    unload = "done" =>
        list = <<>> /\ opened = {} /\ \A d \in Disk : thread[d] \in {"unused", "ended"}

\* Everybody gets an answer: nobody waits for the list lock or a thread forever, and the
\* unloading driver comes to its end.
CallsReturn ==
    /\ \A c \in Caller : pc[c] # "idle" ~> (pc[c] = "idle" \/ undefined)
    /\ \A d \in Disk : thread[d] \in Creating ~> (reply[d] # "none" \/ undefined)
    /\ unload = "visit" ~> (unload = "done" \/ undefined)
=============================================================================
