----------------------------- MODULE DiskDevice -----------------------------
(***************************************************************************)
(* One virtual disk of the driver: the worker thread FscryptDiskDevice-    *)
(* Thread (sys/devthrd.cpp), the dispatch routines that hand IRPs to it    *)
(* (sys/iodisp.cpp), and its removal (FscryptDiskRemoveVirtualDisk).       *)
(*                                                                         *)
(* The threads share a list of IRPs guarded by a spin lock and two         *)
(* notification events, request_event and terminate_thread, which no lock  *)
(* ties to the list.  One action is what a thread does between two         *)
(* accesses to that shared state.  The I/O manager is external: it counts  *)
(* the open handles in ReferenceCount, raises the count before it sends    *)
(* IRP_MJ_CREATE, and keeps a handle's count while the handle has an IRP   *)
(* that is not completed.                                                  *)
(***************************************************************************)
EXTENDS Naturals, Sequences, FiniteSets

CONSTANTS Client,     \* openers of the disk; each has at most one IRP at a time
          None        \* no IRP in the worker's hands

ASSUME NoneAssumption == None \notin Client
ASSUME ClientAssumption == IsFiniteSet(Client)

\* How the image is reached: a buffer in memory, a file, a proxy server behind a
\* stream (a pipe or a socket), or a proxy server behind shared memory.
Proxies == {"stream", "shm"}
Kinds   == {"vm", "file"} \cup Proxies

VARIABLES kind,              \* vm_disk, use_proxy and the proxy's connection_type
          read_only,         \* device_extension->read_only
          queue,             \* device_extension->list_head
          request_event,     \* notification event: look at the list
          terminate_thread,  \* notification event: the disk is to go
          worker,            \* where FscryptDiskDeviceThread is
          irp,               \* the client whose IRP the worker holds
          backing,           \* "open" until the teardown released the image
          device,            \* the device object, until IoDeleteDevice
          handle,            \* a client's handle
          thread,            \* where a client's thread is in the dispatch routines
          outstanding,       \* clients whose IRP is not completed
          answer             \* the status of a client's last completed IRP

workerVars == <<worker, irp, backing, device>>
clientVars == <<handle, thread, outstanding, answer>>
constVars  == <<kind, read_only>>
vars == <<constVars, queue, request_event, terminate_thread, workerVars, clientVars>>

WorkerAt == {"preload", "clear", "remove", "wait", "recheck", "teardown",
             "refcheck", "delete", "service", "lost", "complete", "ended", "fault"}
Answer   == {"none", "ok", "error", "gone"}
Op       == {"read", "write", "flush", "control"}

TypeOK ==
    /\ kind \in Kinds /\ read_only \in BOOLEAN
    /\ queue \in Seq(Client)
    /\ request_event \in BOOLEAN /\ terminate_thread \in BOOLEAN
    /\ worker \in WorkerAt
    /\ irp \in Client \cup {None}
    /\ backing \in {"open", "released"}
    /\ device \in {"present", "deleted"}
    /\ handle \in [Client -> {"closed", "opening", "open"}]
    /\ thread \in [Client -> {"out", "dispatch", "insert", "signal"}]
    /\ outstanding \in SUBSET Client
    /\ answer \in [Client -> Answer]

\* A memory disk may first have to be filled from an image file.
Init ==
    /\ kind \in Kinds /\ read_only \in BOOLEAN
    /\ queue = <<>>
    /\ request_event = FALSE /\ terminate_thread = FALSE
    /\ worker \in {"clear"} \cup IF kind = "vm" THEN {"preload"} ELSE {}
    /\ irp = None
    /\ backing = "open" /\ device = "present"
    /\ handle = [c \in Client |-> "closed"]
    /\ thread = [c \in Client |-> "out"]
    /\ outstanding = {}
    /\ answer = [c \in Client |-> "none"]

\* The I/O manager's DeviceObject->ReferenceCount.
ReferenceCount == Cardinality({c \in Client : handle[c] # "closed"})

-----------------------------------------------------------------------------
(* The clients and the I/O manager. *)

\* The I/O manager finds the device by name and counts the new file object.
OpenStart(c) ==
    /\ device = "present" /\ handle[c] = "closed" /\ thread[c] = "out"
    /\ handle' = [handle EXCEPT ![c] = "opening"]
    /\ UNCHANGED <<constVars, queue, request_event, terminate_thread, workerVars,
                   thread, outstanding, answer>>

\* Mutant: the create handler does not look at terminate_thread.
DispatchCreateAlways(c) ==
    /\ handle[c] = "opening"
    /\ handle' = [handle EXCEPT ![c] = "open"]
    /\ UNCHANGED <<constVars, queue, request_event, terminate_thread, workerVars,
                   thread, outstanding, answer>>

\* IRP_MJ_CREATE: refused once the disk is being removed.
DispatchCreate(c) ==
    /\ handle[c] = "opening"
    /\ handle' = [handle EXCEPT ![c] = IF terminate_thread THEN "closed" ELSE "open"]
    /\ UNCHANGED <<constVars, queue, request_event, terminate_thread, workerVars,
                   thread, outstanding, answer>>

\* The last reference to the file object goes.  Another thread of the client
\* may close the handle of an overlapped request as soon as that request is
\* completed, before the dispatch routine that queued it has returned.
Close(c) ==
    /\ handle[c] = "open" /\ c \notin outstanding
    /\ handle' = [handle EXCEPT ![c] = "closed"]
    /\ UNCHANGED <<constVars, queue, request_event, terminate_thread, workerVars,
                   thread, outstanding, answer>>

Issue(c) ==
    /\ handle[c] = "open" /\ thread[c] = "out" /\ c \notin outstanding
    /\ thread' = [thread EXCEPT ![c] = "dispatch"]
    /\ outstanding' = outstanding \cup {c}
    /\ UNCHANGED <<constVars, queue, request_event, terminate_thread, workerVars, handle, answer>>

\* A dispatch routine completes the IRP itself, with status s.
CompleteInline(c, s) ==
    /\ thread' = [thread EXCEPT ![c] = "out"]
    /\ outstanding' = outstanding \ {c}
    /\ answer' = [answer EXCEPT ![c] = s]

\* Every dispatch routine first refuses the IRP of a disk that is being removed.
DispatchRefuse(c) ==
    /\ thread[c] = "dispatch" /\ terminate_thread
    /\ CompleteInline(c, "gone")
    /\ UNCHANGED <<constVars, queue, request_event, terminate_thread, workerVars, handle>>

\* Requests whose status the dispatch routine knows without the worker: a write
\* or a flush of a read-only disk, a flush of an image that has none, and, as
\* inputs, a transfer of no byte or past the end, a read that the last I/O
\* buffer holds, and an I/O control that only looks at the device extension.
Protected(op) == read_only /\ op \in {"write", "flush"}
Immediate(op) == op \in {"read", "write", "control"} \/ kind \in {"vm"} \cup Proxies

DispatchImmediate(c, op) ==
    /\ thread[c] = "dispatch" /\ ~terminate_thread
    /\ \/ Protected(op) /\ CompleteInline(c, "error")
       \/ ~Protected(op) /\ Immediate(op) /\ CompleteInline(c, "ok")
    /\ UNCHANGED <<constVars, queue, request_event, terminate_thread, workerVars, handle>>

\* The IRP is one for the worker: terminate_thread will not be read again.
DispatchQueue(c, op) ==
    /\ thread[c] = "dispatch" /\ ~terminate_thread
    /\ ~Protected(op)
    /\ op = "flush" => kind = "file"
    /\ thread' = [thread EXCEPT ![c] = "insert"]
    /\ UNCHANGED <<constVars, queue, request_event, terminate_thread, workerVars,
                   handle, outstanding, answer>>

\* FscryptDiskQueueIrp: first the list, under its lock, ...
QueueInsert(c) ==
    /\ thread[c] = "insert"
    /\ queue' = Append(queue, c)
    /\ thread' = [thread EXCEPT ![c] = "signal"]
    /\ UNCHANGED <<constVars, request_event, terminate_thread, workerVars,
                   handle, outstanding, answer>>

\* Mutant: the event is set only for the first IRP of the list.
QueueSignalFirst(c) ==
    /\ thread[c] = "signal"
    /\ request_event' = (request_event \/ Len(queue) = 1)
    /\ thread' = [thread EXCEPT ![c] = "out"]
    /\ UNCHANGED <<constVars, queue, terminate_thread, workerVars, handle, outstanding, answer>>

\* ... then the event.  The worker may have completed the IRP in between.
QueueSignal(c) ==
    /\ thread[c] = "signal"
    /\ request_event' = TRUE
    /\ thread' = [thread EXCEPT ![c] = "out"]
    /\ UNCHANGED <<constVars, queue, terminate_thread, workerVars, handle, outstanding, answer>>

\* FscryptDiskRemoveVirtualDisk on behalf of IOCTL_FSCRYPTDISK_REMOVE_DEVICE, an
\* eject or the unloading driver.
RemoveVirtualDisk ==
    /\ device = "present"
    /\ terminate_thread' = TRUE
    /\ UNCHANGED <<constVars, queue, request_event, workerVars, clientVars>>

-----------------------------------------------------------------------------
(* FscryptDiskDeviceThread. *)

Goto(from, to) == worker = from /\ worker' = to

\* Reads the image file into the memory disk; failure asks for removal and goes
\* on into the loop.
PreloadImage ==
    /\ Goto("preload", "clear")
    /\ terminate_thread' \in {terminate_thread, TRUE}
    /\ UNCHANGED <<constVars, queue, request_event, irp, backing, device, clientVars>>

ClearRequestEvent ==
    /\ Goto("clear", "remove")
    /\ request_event' = FALSE
    /\ UNCHANGED <<constVars, queue, terminate_thread, irp, backing, device, clientVars>>

\* Mutant: the head is looked at, not removed.
PeekHead ==
    /\ queue # <<>>
    /\ Goto("remove", "service")
    /\ irp' = Head(queue)
    /\ UNCHANGED <<constVars, queue, request_event, terminate_thread, backing, device, clientVars>>

\* Mutant: the list itself is taken for the IRP.
RemoveList ==
    /\ queue # <<>>
    /\ Goto("remove", "service")
    /\ irp' = queue
    /\ queue' = <<>>
    /\ UNCHANGED <<constVars, request_event, terminate_thread, backing, device, clientVars>>

RemoveHead ==
    /\ queue # <<>>
    /\ Goto("remove", "service")
    /\ irp' = Head(queue)
    /\ queue' = Tail(queue)
    /\ UNCHANGED <<constVars, request_event, terminate_thread, backing, device, clientVars>>

FindNoRequest ==
    /\ queue = <<>>
    /\ Goto("remove", "wait")
    /\ UNCHANGED <<constVars, queue, request_event, terminate_thread, irp, backing, device, clientVars>>

\* Mutant: the worker sleeps on request_event alone.
WaitForRequestEvent ==
    /\ request_event
    /\ Goto("wait", "recheck")
    /\ UNCHANGED <<constVars, queue, request_event, terminate_thread, irp, backing, device, clientVars>>

\* KeWaitForMultipleObjects(request_event, terminate_thread, WaitAny)
WaitForEvent ==
    /\ request_event \/ terminate_thread
    /\ Goto("wait", "recheck")
    /\ UNCHANGED <<constVars, queue, request_event, terminate_thread, irp, backing, device, clientVars>>

RecheckRequestEvent ==
    /\ Goto("recheck", IF request_event THEN "clear" ELSE "teardown")
    /\ UNCHANGED <<constVars, queue, request_event, terminate_thread, irp, backing, device, clientVars>>

\* Closes the proxy, frees the memory image or closes the image file.
TearDown ==
    /\ Goto("teardown", "refcheck")
    /\ backing' = "released"
    /\ UNCHANGED <<constVars, queue, request_event, terminate_thread, irp, device, clientVars>>

\* Mutants: the device is deleted under its users; the thread exits without it.
IgnoreReferenceCount ==
    /\ Goto("refcheck", "delete")
    /\ UNCHANGED <<constVars, queue, request_event, terminate_thread, irp, backing, device, clientVars>>
ExitWithReferences ==
    /\ Goto("refcheck", IF ReferenceCount # 0 THEN "ended" ELSE "delete")
    /\ UNCHANGED <<constVars, queue, request_event, terminate_thread, irp, backing, device, clientVars>>

\* With references left the thread sleeps, then goes round the loop again.
CheckReferenceCount ==
    /\ Goto("refcheck", IF ReferenceCount # 0 THEN "clear" ELSE "delete")
    /\ UNCHANGED <<constVars, queue, request_event, terminate_thread, irp, backing, device, clientVars>>

DeleteDevice ==
    /\ Goto("delete", "ended")
    /\ device' = "deleted"
    /\ UNCHANGED <<constVars, queue, request_event, terminate_thread, irp, backing, clientVars>>

\* What the statuses of a request become: the connection-lost statuses remove the
\* disk before the IRP is completed.
ServiceResult(c, s) ==
    /\ answer' = [answer EXCEPT ![c] = s]
    /\ worker' = IF s = "gone" THEN "lost" ELSE "complete"
    /\ UNCHANGED <<constVars, queue, request_event, terminate_thread, irp, backing, device,
                   handle, thread, outstanding>>

\* The image answers.  Only an image behind a handle can be lost; a stream or
\* shared memory connection that fails always counts as lost.
ServiceAnswered ==
    /\ worker = "service" /\ backing = "open"
    /\ \E s \in {"ok", "error", "gone"} :
          /\ s = "gone" => kind # "vm"
          /\ ServiceResult(irp, s)

\* A proxy call gives up when terminate_thread is set: waiting on the shared
\* memory server, or before and during each transfer of a stream.
ServiceCancelled ==
    /\ worker = "service" /\ backing = "open"
    /\ kind \in Proxies /\ terminate_thread
    /\ ServiceResult(irp, "gone")

\* An IRP that reaches the worker after the teardown: a closed file handle and
\* a cancelled stream fail, the image buffer and the shared memory are NULL.
ServiceReleased ==
    /\ worker = "service" /\ backing = "released"
    /\ \/ kind = "file" /\ ServiceResult(irp, "error")
       \/ kind = "stream" /\ ServiceResult(irp, "gone")
       \/ /\ kind \in {"vm", "shm"}
          /\ worker' = "fault"
          /\ UNCHANGED <<constVars, queue, request_event, terminate_thread, irp, backing,
                         device, clientVars>>

\* Mutant: the IRP of a lost disk is completed without asking for its removal.
KeepLostDisk ==
    /\ Goto("lost", "complete")
    /\ UNCHANGED <<constVars, queue, request_event, terminate_thread, irp, backing, device, clientVars>>

\* The connection is lost: FscryptDiskRemoveVirtualDisk by the worker itself.
RemoveLostDisk ==
    /\ Goto("lost", "complete")
    /\ terminate_thread' = TRUE
    /\ UNCHANGED <<constVars, queue, request_event, irp, backing, device, clientVars>>

CompleteIrp ==
    /\ Goto("complete", "clear")
    /\ outstanding' = outstanding \ {irp}
    /\ irp' = None
    /\ UNCHANGED <<constVars, queue, request_event, terminate_thread, backing, device,
                   handle, thread, answer>>

-----------------------------------------------------------------------------
ClientStep(c) ==
    \/ DispatchCreate(c) \/ DispatchRefuse(c)
    \/ \E op \in Op : DispatchImmediate(c, op) \/ DispatchQueue(c, op)
    \/ QueueInsert(c) \/ QueueSignal(c)

Request(c) == OpenStart(c) \/ Close(c) \/ Issue(c)

\* The steps of the worker that wait for nobody outside the driver.
WorkerStep ==
    \/ PreloadImage \/ ClearRequestEvent \/ RemoveHead \/ FindNoRequest
    \/ WaitForEvent \/ RecheckRequestEvent
    \/ TearDown \/ CheckReferenceCount \/ DeleteDevice
    \/ ServiceCancelled \/ ServiceReleased
    \/ RemoveLostDisk \/ CompleteIrp

\* A fault in a system thread stops the machine.  The model lets the clients go
\* on, which adds behaviours and takes none away.
Running == worker # "fault"

Next ==
    \/ \E c \in Client : Request(c) \/ ClientStep(c)
    \/ RemoveVirtualDisk
    \/ WorkerStep
    \/ ServiceAnswered

Spec == Init /\ [][Next]_vars

\* Threads that can run do run.  A memory image or a file answers every request;
\* a proxy server is another process and may never answer.
Fairness ==
    /\ \A c \in Client : WF_vars(ClientStep(c))
    /\ WF_vars(WorkerStep)
    /\ WF_vars(kind \notin Proxies /\ ServiceAnswered)

FairSpec == Spec /\ Fairness

-----------------------------------------------------------------------------
(* Safety. *)

\* No lost wake-up: while the worker sleeps on its events with an IRP in the
\* list, the event is set or a dispatch thread has still to set it.  The worker
\* clears the event before it looks at the list, the dispatch routine sets it
\* after the insertion, and no lock covers the two.
NoLostWakeup ==
    worker = "wait" /\ queue # <<>> =>
        request_event \/ \E c \in Client : thread[c] = "signal"

\* Where client c's IRP can be.
InDispatch(c) == thread[c] \in {"dispatch", "insert"}
Places(c) == (IF InDispatch(c) THEN {<<"dispatch", 0>>} ELSE {})
             \cup {<<"list", i>> : i \in {j \in DOMAIN queue : queue[j] = c}}
             \cup (IF irp = c THEN {<<"worker", 0>>} ELSE {})

\* No IRP is dropped and none is completed twice: one that is not completed is
\* in one place only, with its dispatch routine, once in the list or with the
\* worker, and one that is completed is nowhere.
OneOwner ==
    \A c \in Client : Cardinality(Places(c)) = IF c \in outstanding THEN 1 ELSE 0

\* When the device object goes no IRP and no handle is left behind, although
\* clients open and send while the worker tears the disk down.
NothingLeftBehind ==
    device = "deleted" =>
        /\ outstanding = {} /\ queue = <<>>
        /\ \A c \in Client : handle[c] # "open"

\* A client that was told the disk does not exist will not be let in again: the
\* removal is asked for before the IRP is completed.
GoneIsFinal ==
    \A c \in Client : answer[c] = "gone" /\ c \notin outstanding => terminate_thread

\* The disk keeps the contract of DiskContract.
disk == IF device = "deleted" THEN "gone"
        ELSE IF terminate_thread THEN "removing" ELSE "present"
user == [c \in Client |-> IF c \in outstanding THEN "waiting"
                          ELSE IF handle[c] = "open" THEN "open" ELSE "closed"]
Contract == INSTANCE DiskContract
ContractSpec == Contract!Spec

(* Liveness, under FairSpec. *)

\* Every IRP is completed, unless the machine stops.  A proxy server may leave a
\* request unanswered; asking for the removal of its disk frees the IRP.
IrpsComplete ==
    \A c \in Client :
        (c \in outstanding /\ (kind \notin Proxies \/ terminate_thread))
            ~> (c \notin outstanding \/ ~Running)

\* A disk whose removal was asked for goes away once nobody holds it open.
RemovalFinishes ==
    <>[](terminate_thread /\ \A c \in Client : handle[c] = "closed")
        => <>(device = "deleted")

(* A statement of a comment that the code does not keep. *)

\* devthrd.cpp:1168-1170: IRPs that are outstanding at the teardown are done by going
\* on with the loop.  The image buffer and the shared memory view are NULL by then.
OutstandingIrpsDone == Running
=============================================================================
