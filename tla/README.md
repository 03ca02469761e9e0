# FscryptDisk: a TLA+ verification project

FscryptDisk is a virtual disk driver for Windows. A disk's image is a buffer in
memory, a file, or a *proxy*: a server in another process that is reached through
a stream (a pipe, a TCP connection over a service), through shared memory or
through a driver of its own. This directory holds TLA+ modules of the parts of it
where several threads, processes or failures meet, configurations that
model-check them with TLC, and proofs that TLAPS checks. `PROJECT.json` lists
components, runs, mutants, hazards, findings and theorems, and maps every
definition that models code to the lines it models.

Contents: [the system](#the-system), [plan](#plan), [modules](#the-modules),
[runs](#the-runs), [proofs](#the-proofs), [what only TLC
checks](#what-is-only-model-checked), [where code and documents
differ](#where-code-and-documents-differ), [not modelled](#not-modelled).

## The system

### Components

| component | state | operations | meets others through |
|---|---|---|---|
| disk worker thread, `sys/devthrd.cpp` | list of IRPs, `request_event`, `terminate_thread`, image handle, buffer or proxy, last I/O buffer | the loop of `FscryptDiskDeviceThread`, one handler per IRP kind, teardown, `FscryptDiskRemoveVirtualDisk` | list and events from the dispatch routines, reference count from the I/O manager, proxy, image file |
| dispatch routines, `sys/iodisp.cpp` | none of their own | create, close, read/write, I/O control, flush, PnP; `FscryptDiskQueueIrp` | run in the callers' threads beside the worker |
| last I/O buffer, `sys/devthrd.cpp`, `sys/iodisp.cpp` | `last_io_data`, `last_io_offset`, `last_io_length`, `last_io_lock` | publish and invalidate (worker), copy from it (dispatch), free (teardown) | the two threads share it, partly without the lock |
| creation, `sys/createdev.cpp` | the request's parameters, what has been opened so far | checks, open or create, length, proxy, geometry, memory, device, link | image file, proxy, the disk's thread |
| list and unload, `sys/createdev.cpp`, `sys/fscryptdisk.cpp` | the driver object's chain of device objects, `DeviceListLock`, `MaxDevices` | add, remove by number, list, unload, choice of a number | every disk's thread, the control device, the unloading driver |
| start-up and settings, `sys/fscryptdisk.cpp`, `cplcore/drvio.c` | `LoadDevices` and five registry values per number | load, save, remove | programs, the driver, the helper service |
| proxy client, `sys/proxy.cpp`, `sys/commonio.cpp` | `PROXY_CONNECTION`: stream or shared memory and its two events | call (request, wait, answer), connect, query, read, write, unmap, zero, close | the server process |
| lower device I/O, `sys/lowerdev.cpp` | requests sent in parallel to the image file's device | send, complete, publish the buffer | completion routines on any thread |
| floppy controls, `sys/floppy.cpp` | geometry | format tracks | the image, from the worker |
| device I/O driver, `deviodrv/` | table of files, one server and one client each, four lists of IRPs | open, create, close, exchange of requests, two cancel paths | server and client processes |
| AWE memory driver, `awefsalloc/` | list of physical blocks, mapped page contexts, a try-lock | read, write, set size, close | concurrent requests to one file |
| storage server, `devio/` | image file, VHD tables | read, write, info, close over shared memory, stream or deviodrv | the driver |
| helper service, `svc/` | one session per connection | connect, hand over, wait, close | driver and server |
| mount API, `cplcore/drvio.c` (also `cpl/`), with `cli/` and `cpl/` | volume handles during one command | create, lock, flush, dismount, eject, change flags, extend, mount points | the driver's I/O controls, file systems, other programs |
| `.NET` API and devio services, `FscryptDiskNet/` | service thread, provider | start, serve, stop | the driver, over shared memory or TCP |

Installation files, translations and prebuilt binaries hold no logic.

### What is hard in it, and what makes each part correct

* **Worker and dispatch.** The list has a lock, the events have none, and removal
  is a third event. Correct is: no wake-up is lost, no IRP is lost, left or done
  twice, the device outlives its users, every IRP and every removal ends.
* **Last I/O buffer.** A reader in the caller's thread copies from a buffer that
  the worker fills, publishes and frees with a lock around only some of this.
  Correct is: a read returns the contents of the disk at some moment between its
  start and its end, and no transfer exceeds the allocation.
* **Creation and controls.** Some fifteen steps of a creation can fail after
  others succeeded; controls are checked in one thread and served in another.
  Correct is: a failure keeps nothing, requests stay within the image.
* **Shared memory proxy.** The turn of the two processes is kept by two auto-reset
  events; a request that is given up is still served. Correct is: neither touches
  the memory in the other's turn, large and short transfers add up, a call ends.
* **Stream proxy.** Only the lengths in the headers separate messages, and the
  connection is owned by three programs. Correct is: no call starts in the middle
  of another's words, and the connection ends with the disk.
* **Device list.** Creation puts a device into the list before it is complete, and
  walkers use devices after they let go of the lock. Correct is: who is told of a
  success or a failure is told the truth, lists are complete, unload leaves
  nothing behind and ends.
* **deviodrv.** Cancellation against forwarding, tags that are addresses. Correct
  is: each IRP is completed once, an answer goes to the request it was given for.
* **AWE driver.** Requests exchange mapped pages. Correct is: a read returns what
  was written last to its offset, a freed block is not mapped.
* **VHD writer of devio.** The table is written before the block. Correct is: a
  stop or a failure between two writes loses at most the data being written.
* **Mount API.** Lock, dismount and eject are separate calls. Correct is: an
  unforced removal takes no disk from under an open file, and reports the truth.
* **Settings.** A disk's settings are six registry writes. Correct is: what a user
  was told to be saved or removed is so after the next start.
* **Lower device I/O.** Completions come in any order. Correct is the same as for
  the last I/O buffer.

`hazards` in `PROJECT.json` has each with its line and the properties that cover
it, or why none does.

## Plan

Done, in this order:

1. `DiskContract` (abstract) and `DiskDevice` (implements it), `DiskDevice_proofs`.
2. `LastIoCache`: the data path that `DiskDevice` abstracts to a result.
3. `ShmProxy`: what is behind one `ServiceAnswered` or `ServiceCancelled` of a
   disk with a shared memory proxy.
4. `DeviceList`: many disks; here a disk is only its creation, life and removal.
5. `DevIoDrv`: table of files and request forwarding, with its server.
6. `MemoryFile` (abstract) and `AweAlloc` (implements it).
7. `VhdImage`: the VHD writer with a failure or a stop between any two writes.
8. `DiskImage`: what is one step `OpenImage` in `DeviceList`, and the controls.
9. `MountApi`: lock, dismount, eject and the names, against a disk and a volume.
10. `Settings`: what survives a restart.
11. `StreamProxy`: the other proxy, with the service and two kinds of server.

12. Proofs of every safety property of the runs (below).

Left, in this order:

1. `ParallelIo`: `sys/lowerdev.cpp` with the last I/O buffer.
2. An abstract service of images that `ShmProxy` and `StreamProxy` both implement.
3. Zero, trim and unmap requests along their whole way, once a server offers them.

## The modules

### `DiskContract` and `DiskDevice`

`DiskContract` is what users of a disk may rely on: it opens until its removal is
asked for, each request is answered once, it vanishes after the last user has left.

`DiskDevice` is one disk. `Client` are openers with at most one outstanding IRP each.

| module | code |
|---|---|
| `queue`, `request_event`, `terminate_thread` | `list_head` and the two events of `DEVICE_EXTENSION` |
| `worker` | the place in the loop of `FscryptDiskDeviceThread`; one value per access to shared state |
| `backing` | whether the teardown freed the image |
| `thread[c]` | where a dispatch routine is: before its check of `terminate_thread`, before the insertion, before `KeSetEvent` |
| `handle`, `outstanding` | the I/O manager's file objects and IRPs (external) |
| `DispatchRefuse`, `DispatchImmediate`, `DispatchQueue` | the dispatch routines: refused, completed at once, pended |
| `QueueInsert`, `QueueSignal` | the two steps of `FscryptDiskQueueIrp` |
| `ClearRequestEvent`, `RemoveHead`, `WaitForEvent`, `RecheckRequestEvent`, `TearDown`, `CheckReferenceCount`, `DeleteDevice`, `ServiceAnswered`, `ServiceCancelled`, `ServiceReleased`, `RemoveLostDisk`, `CompleteIrp` | the worker's loop in its order |

Data are left out: a request is one of four kinds, a status one of `ok`, `error`
and `gone` (connection-lost statuses, and the status of a disk that is being
removed). `ReferenceCount` counts handles that are open or being opened; a handle
stays while its IRP is outstanding, as file objects do. `FAULT`: an IRP that
reaches the worker after the teardown of a memory or shared memory disk uses a
NULL pointer; the machine stops, the model lets the others go on, which only adds
behaviours.

### `LastIoCache`

A disk of `Size` cells; a cell is two bytes, which is what the byte swap exchanges.
Clients read and write ranges. `image` is the file, `last_io_*` the fields of the
same name, `seen[c]` a history variable: all contents the disk had since client
`c`'s read began. The worker's actions are the stages of
`FscryptDiskDeviceThreadRead` and `FscryptDiskDeviceThreadWrite`: `Invalidate`
under the lock, `Allocate` (or not), the transfer with a short count or an error,
`PublishOffset`, `PublishLength` (not under the lock). The reader's are
`FscryptDiskDispatchReadWrite`: the unlocked NULL test, `CompareRange`,
`CopyFromBuffer` under the lock. `TearDown` frees the buffer. `FormatTracks` is
`FscryptDiskFloppyFormat`, which writes the image and not the buffer; the history
variable `formatted` marks a published range as older than that. `ForeignWrite`
(external) changes an image that was opened shared. Stores take effect in program
order: true of x86 and x64, not of ARM64, for which the driver is built too.
The worker takes queued requests in any order, more than the list allows.

### `ShmProxy`

Both sides of a shared memory proxy. The header is three words, because that is
what the protocol overlays: a request is code, offset, length; an answer puts its
error number and length over the first two. Driver: `SendRequest`,
`SetRequestEvent`, `WaitResponse` or `WaitCancelled`, `ReadResponse` are
`FscryptDiskCallProxy`, with the loops of `FscryptDiskReadProxy` and
`FscryptDiskWriteProxy` over several calls in `SendRequest` and `ReadResponse`;
`WriteClose`, `SignalClose` are `FscryptDiskCloseProxy`. The first call asks for
the size of the image and has no cancel event. Server: `ServerWait` to
`ServerSignal` are the loop of devio with `read_data` and `write_data`. A write may
store less than was asked, and says so. A read that got less is answered as a whole
one, since `read_data` clears its buffer, only logs a short `logical_read` and answers
with the full length: what was not got is zero. The server may fail, or be killed at any
time. Two history variables: `abandoned`, a call was given up while the server owed its
answer, and `unread`, the cells of the request under way that the server answered
without having read them.

### `StreamProxy`

A disk over TCP from its creation to its end. Connection: `OpenPipe`,
`SendConnect`, `ReadConnect`, `Claim`, `CloseProxy` are `FscryptDiskConnectProxy`
and `FscryptDiskCloseProxy`; `Connect`, `ReferenceHandle`, `SendAnswer`, `CleanUp`
a session of the service. `objects` is the record in `ReferencedObjects` by which
the connection's file object gets from the service to the driver. Calls: `Send`,
`ReadHeader`, `ReadData` are `FscryptDiskCallProxy` over `FscryptDiskSafeIOStream`,
any number of words at a time; `CheckAnswer` is the callers' part. Two servers:
devio, which reads a whole write and grows its buffer for reads (not for writes),
and DevioNet's `DevioTcpService`, which reads a write's data once, takes what is
there and stores that. A read of devio may be short as in `ShmProxy`, with `unread` for
the cells that it did not get; DevioNet answers with what its provider read, and a read
that is not whole is then refused. `up` and `down` are the words under way.

The pieces are words, not bytes, and a header is two or three of them; a transfer
may stop between any two. Answers of no server in the repository are left out.

What DevioNet has not read of a write stays in the stream and is taken for the next
requests (`DevioTcpService.vb:199`). The write itself was short and fails, and the disk is
removed for it; but a larger image and payload make a request for other cells out of what
is left, and the server may store there before the connection ends. `TransfersWhole` says
so: with devio a write under way changes no cell outside its range, with DevioNet this is
claimed of writes that succeed. A proof that had to hold for every size showed it; the
sizes of the run are too small for it.

### `DeviceList`

`list` is the chain of device objects, newest first. Each disk's `thread` goes
through number choice (a walk, one step per object), image opening,
`IoCreateDevice`, symbolic link, initialisation, report to the creator, running,
teardown, deletion. Failures take back what was done. Callers send a removal by
number or a list query to the control device; the unloading driver asks each disk
to go and waits for its thread. `DeviceListLock` is a queued spin lock.

Until `InitExtension` an object's number reads 0, since the extension is zeroed.
Using an object that has been deleted, or setting an event that was never
initialised (the control device's) makes `undefined` TRUE and ends the behaviour:
nothing is claimed about what follows. `there[c]` is a history variable: the disks
that were present from the beginning of a query.

The pages of `sys/createdev.cpp` that open the image are one step, `OpenImage`,
that succeeds or fails: they touch no state the other threads can see.

### `DiskImage`

Those pages, for one disk. `d` is the creation data, which the code changes as it
goes and which becomes the extension's; `image` the length of the file, `held` what
has to be given back. `CheckParameters` to `PreloadImage` follow
`FscryptDiskCreateDevice` and the start of the thread; each may end in `refused`
after giving back what the code gives back there. Sizes are signed integers of a
small width and wrap (`Wrap`). The controls are split as in the code: `DispatchGrow`,
`DispatchTransfer` and the others check in the caller's thread and put a record
into `queue`; `ServeGrow`, `ServeRead`, `ServeWrite` do what the worker does when it
gets there. `SetReadOnly` is `IOCTL_FSCRYPTDISK_SET_DEVICE_FLAGS`,
`UsageNotification` a paging file that comes or goes.

### `DevIoDrv`

One file of the device I/O driver. `handle[f]` is where an open or a close of file
object `f` is between holds of `FileTableListLock`; `rpc[r]` where a client's IRP is,
`xpc[w]` and `mpc[w]` the exchange IRP and the memory IRP of server thread `w`;
`received`, `sent`, `requests`, `memory` are the four lists. A step is one hold of
`IrpListLock`, or what a thread does between two. Tags are addresses (`Addr`), which
`entry[r]` takes and gives back, so that they are used again; `buffer[w]` is the
shared buffer with the request it is *about*, a history component that `OwnAnswer`
reads. A list entry may get any address that is free. `IoCancelIrp` and `ServerIrpCancelRoutine` are the I/O manager's cancellation
and the driver's routine for it. Completing an IRP twice makes `undefined` TRUE.

### `MemoryFile` and `AweAlloc`

`MemoryFile` is what a file's users may rely on: reads return part by part what was
written last, writes change the cells they name, sizes keep what is below both ends.

`AweAlloc` is the driver: `chain` the linked blocks, `bytes` their memory, `page[t]`
the page context of a request, `Latest` the one that was kept
(`LatestPageContext`), `ActiveReaders` and `ActiveWriters` the tried lock. A request
goes through `upgrade`, `size`, `map`, `copy`, `release`, each under one
hold of `IOLock`; `Create` may load an image first. `File == INSTANCE MemoryFile WITH ...` maps the chain to contents,
and `FileSpec` is the refinement.

### `VhdImage`

`bat` is the block table, `file` the sectors behind it. `Write` is a request with its
range check; `WriteTable`, `WriteBlock`, `WriteData`, `WriteBitmap` are the writes of
`vhd_write` in their order, which is repeated for each block of the request; `Read`
is `vhd_read` as an operator. `Fails`, `BlockFails` are a write that fails or is cut
short, `Stop` a server that is stopped and started again. `may` is a history
variable: what each sector may hold according to requests and answers.

### `MountApi`

Several programs. `disk[n]` is the driver's device, `vol[n]` the file system on it
with its lock and whether files are open, `link` the names. `client[c]` is a
program's place in a command: `RemoveDevice` (`FscryptDiskRemoveDevice`, with and
without a window), `CliRemoveDevice`, `ChangeFlags`, `ExtendDevice` and their
command-line forms, with the lock, dismount, second lock, question, eject,
emergency removal and mount point as actions of their own. Between any two of them
applications open, write and close files (external).

### `Settings`

`load` is `LoadDevices`, `value` the five values per number. `ReadLoad`, `WriteLoad`,
`WriteValue` are `FscryptDiskSaveRegistrySettings`, `ReadLowered`, `LowerLoad`,
`DeleteValue` `FscryptDiskRemoveRegistrySettings`, one registry call each; `DriverEntry`
and `DeviceThread` are the start-up; `Restart` is the machine going down at any point,
which keeps the registry and nothing else.

A call that fails ends the edit, and the user is told, with two exceptions in the code:
the result of `RegDeleteValue` is looked at nowhere, neither in a removal nor where a
saving deletes a value that the disk does not have, and a saving takes a `LoadDevices`
that it cannot read for one that is not there. `ReadSettings` is what the driver gets:
an image name that is longer than its buffer (`LongNames`) counts as missing.

Three history variables: `kept` is what a user was last told about a number, `left` the
fields of a number whose deletion failed, until they are written or deleted, `cut` the
numbers that a `LoadDevices` had counted which a saving could not read, until it counts
them again.

## The runs

| run | shows |
|---|---|
| `disk_device` | all safety properties of `DiskDevice`, that it implements `DiskContract`, and, with fairness, `IrpsComplete` and `RemovalFinishes` |
| `disk_device_done` | **finding**: IRPs after the teardown of a memory or shared memory disk use NULL pointers |
| `last_io_cache` | `CacheCoherent`, `FreshReads`, `BufferSafe`; writes are stored as given if the image is not byte-swapped |
| `shm_proxy` | `TurnTaking`, `TransfersWhole`, `CallEnds`, `CloseReachesServer` |
| `stream_proxy` | `InStep`, `TransfersWhole`, `ServerReleased` |
| `device_list` | `CreatorToldTruth`, `RemovedIsAsked`, `QueryComplete`, `UnloadLeavesNothing`, `CallsReturn` |
| `disk_image` | `NothingKept`, `WithinBacking`, `WritableAsOpened` |
| `dev_io_drv` | `OwnAnswer`, `BufferReady`, `TableTruthful`, `AnsweredWhileConnected` |
| `awe_alloc` | `MappingsLive`, and that `AweAlloc` implements `MemoryFile` (`FileSpec`) |
| `vhd_image` | `ReadsBack`, `ImageWhole` |
| `mount_api` | `NothingLost`, `RemoveTold`, `VolumeSeesMedia` |
| `settings` | `SettingsKept`, for one program |

Runs with `CHECK_DEADLOCK FALSE` are those of systems that really end: a deleted
disk, a closed proxy or file, an unloaded driver, a refused creation; in
`LastIoCache` clients of a disk that was torn down may all have faulted or been
refused, in `AweAlloc` the file is closed. `VhdImage`, `MountApi` and `Settings`
never stop and are checked for deadlock.

Each module has a `TypeOK`. It is a property of the run `disk_device`, where the
proof uses it; in the others the run's properties are about more, and `TypeOK`
documents the variables.

Limits that are in the properties and not hidden in the model:

* `FreshReads` is about reads that were answered; one that copies from the freed
  buffer faults (`CopyFromNull`), and `BufferSafe` says that only the teardown can
  cause it. After a track format nothing is claimed of reads from the buffer until
  the worker's next transfer (`formatted`), and `CacheCoherent` holds again then.
* In `ShmProxy` `TurnTaking`, `CloseReachesServer` and what `TransfersWhole` says of
  contents hold until a call was given up: the driver does not tell the server, so
  a late answer can be taken for that of the next request. That no more is copied
  than the caller's buffer holds is claimed without this condition.
* In both proxies `TransfersWhole` says of a read that succeeds that it has the image's
  contents but for zeros in the cells of `unread`: exactly those that devio did not get
  from its image. The caller cannot tell them from the image's own zeros.
* In `StreamProxy` `InStep` is about disks that are not being removed: a call that
  fails half-way leaves the stream out of step, and it is right only because the
  disk is removed for it.
* `RemovedIsAsked` leaves out number 0, which a disk that is being created has too,
  and `QueryComplete` allows it to be listed twice. The properties of `DeviceList`
  and `DevIoDrv` say nothing after `undefined`.
* `TableTruthful` counts references whose close gave up (`leaked`);
  `AnsweredWhileConnected` claims nothing of requests under way when the server goes.
* `ReadsBack` and `ImageWhole` claim nothing after a new block's table entry was
  stored and the block was not (`torn`), and the run does not go on behind that
  (`NotTorn`): two blocks may then share their place.
* `SettingsKept` excepts what the code does not notice: fields whose deletion failed
  (`left`), with what they make the driver load; numbers that a saving did not read
  `LoadDevices` to have counted (`cut`); image names the driver has no room for. So a
  removed disk may come back, and a saved one stay away, for these reasons and for no
  others. A second edit of the same number mends what the first left, and the property
  holds in full again.
* `SettingsKept` is checked with one program, and proved for any number of programs that
  keep apart (`EditsApart`): those that edit at the same time edit different numbers, and
  no two are between reading and writing `LoadDevices`. Nothing in the code sees to it;
  otherwise the one that writes `LoadDevices` last can undo what the other has counted,
  and a disk that was saved with success does not come back.

### Bounds, and why they are enough

* `DiskDevice`: two clients. A race for the event or the reference count needs a
  client that has passed the check beside another that has not or that opens;
  the list then holds up to two IRPs. Every kind of image, read-only or not. The
  safety part is proved for every finite number of clients.
* `LastIoCache`: two clients, two cells, two-valued bytes, one change of the image
  behind the buffer (a write from outside or a track format). A range inside, equal
  to, larger than and beside the published one all occur, the buffer is grown from
  one cell to two, and a payload exists that a byte swap changes and one it does not.
  The run leaves out the image that is byte-swapped and shared too: readers of a
  shared image skip the buffer, and the worker's swap is there without sharing.
* `ShmProxy`: an image of three cells, a buffer of two. A transfer takes one call or
  two, the second shorter; short writes make it up to three, and a short read gets any
  of the cells it was asked for.
* `StreamProxy`: an image of three cells, devio's buffer of two, so that a read grows
  it and a write of three ends the server; calls of up to six words, cut into pieces
  at every place. One connection: the next disk has another one.
* `DeviceList`: two disks, one caller, two numbers (so the limit is reached, and a
  disk may be refused for it), removals of every number and of -1. A disk is
  created while the other one is created, used, removed or deleted.
* `DiskImage`: sizes 0 to 4 and 1 as the least, so a disk grows twice before the sum
  overflows; two waiting requests, so that one was checked before the other took
  effect; one paging file. Every kind with every combination of parameters that the
  programs let through.
* `DevIoDrv`: one server thread, as devio has it, a client that writes and one opener
  that wants the attributes or is a second client; two requests, of which one is too
  long for the first buffer, two addresses, so that a tag is used again.
* `AweAlloc`: two requests at a time; pages of two cells, a file of up to three, blocks
  of up to four: requests across two pages, sizes inside a page, two blocks at most.
* `VhdImage`: three blocks of two sectors, the last half outside the disk; requests of
  up to four sectors touch one to three blocks; two values.
* `MountApi`: two programs, one number (which is used again), one letter, one directory.
* `Settings`: two numbers, so that `LoadDevices` counts a number with settings and one
  without; one program; a disk of each kind that start-up treats in its own way, one with
  a long name and one that the driver refuses. Calls fail at every place, but one at a
  time: `Bounded` keeps to states with at most one failure that was told (a number whose
  `kept` is `Unknown`) or unnoticed (in `left` or `cut`); after an edit has mended it the
  next may happen. The theorem is about any number of failures, programs, disks and
  numbers.

### Fairness

* `DiskDevice`: weak fairness for the worker and each client's dispatch routine:
  threads that are never blocked are scheduled. An image in memory or a file
  answers; a proxy server need not, so `IrpsComplete` promises a proxy disk's IRP
  only once the removal was asked for. Opening, closing, sending and removing are
  not fair.
* `ShmProxy`: weak fairness for each process. A killed server has no enabled step.
* `StreamProxy`: weak fairness for the driver's, the service's and the server's
  threads. Removing, stopping, killing and want of memory are not fair.
* `DevIoDrv`: one weak condition for all threads inside the driver and for a server
  that is not killed. Each file is opened, used and closed once, so every behaviour
  is finite, and no thread can be passed over for ever by the others.
* `DeviceList`: the lock is taken with `KeAcquireInStackQueuedSpinLock`, which serves
  waiting threads in their order, hence strong fairness for threads that take it:
  one that wants the lock again and again finds it free again and again and gets
  it. Weak fairness for the unloading driver, which nobody overtakes for ever.
* The other modules have safety properties only.

## The proofs

Eight modules hold theorems. Each is named after the module it is about, and three go on
with a second one, with which they share nothing: `DiskDevice_proofs` with `VhdImage`,
`LastIoCache_proofs` with `MountApi`, `ShmProxy_proofs` with `Settings`. These second
modules give their specifications names of their own (`VhdSpec`, `ApiSpec`,
`SettingsSpec`), so that both can be extended.

Every theorem holds for all values of the constants that satisfy the named assumptions of
the module; what a run shows at its bounds is thereby shown for every number of clients,
disks, threads or requests and for every size. The argument is the same in all of them:
the properties are not inductive, a conjunction `IInv` of named parts is; TLC checks
`IInv` on the run's configuration; one lemma per part and action, or group of actions,
shows `IInv /\ [Next]_vars => IInv'`; the theorem `Inductive` (`Invariance` in
`DiskDevice_proofs`; `VhdInductive`, `ApiInductive`, `SettingsInductive` for the second
modules' `VhdInv`, `ApiInv`, `SettingsInv`) follows, and each property from it. Every
safety property that a run checks is proved.

| module | theorems | about | assumptions |
|---|---|---|---|
| `DiskDevice_proofs` | `TypeCorrect`, `WakeupNeverLost`, `OneOwnerAlways`, `DeletedIsEmpty`, `GoneMeansRemoval`, `KeepsContract` | `TypeOK`, `NoLostWakeup`, `OneOwner`, `NothingLeftBehind`, `GoneIsFinal`, `ContractSpec` | finitely many clients; the mark for "no IRP" is none of them |
| (`VhdImage`) | `VhdReadsBack`, `VhdStaysWhole` | `ReadsBack`, `ImageWhole` | blocks have a sector, the disk has one and its blocks reach over it; footer and bitmap are no data |
| `LastIoCache_proofs` | `NoUnsafeUse`, `Coherent`, `ReadsAreFresh`, `WritesAreAsGiven` | `BufferSafe`, `CacheCoherent`, `FreshReads`, `PlainWritesAsGiven` | a disk has a cell; payloads are words |
| (`MountApi`) | `RemovalTold`, `VolumeCurrent`, `LosesNothing` | `RemoveTold`, `VolumeSeesMedia`, `NothingLost` | disks may have a size; "no number", "no point" and "no program" are none |
| `ShmProxy_proofs` | `TakesTurns`, `MovesWhole` | `TurnTaking`, `TransfersWhole` | image and buffer have a cell |
| (`Settings`) | `KeepsSettings` | `SettingsKept`, if `EditsApart` | "no value", "no disk" and "unknown" are no values, numbers or disks |
| `StreamProxy_proofs` | `KeepsStep`, `MovesWhole` | `InStep`, `TransfersWhole` | image and devio's buffer have a cell; payloads are not 0 |
| `DeviceList_proofs` | `CreatorInformed`, `RemovalHits`, `QueryLists`, `UnloadsClean` | `CreatorToldTruth`, `RemovedIsAsked`, `QueryComplete`, `UnloadLeavesNothing` | disks, callers, the control device and "none" differ |
| `DiskImage_proofs` | `LeavesNothing`, `StaysWithin`, `OpenedForWriting` | `NothingKept`, `WithinBacking`, `WritableAsOpened` | requested sizes are not negative, as the programs leave them |
| `DevIoDrv_proofs` | `CountTrue`, `MemoryThere`, `EveryOneItsAnswer` | `TableTruthful`, `BufferReady`, `OwnAnswer` | finitely many openers; names differ |
| `AweAlloc_proofs` | `MappingsSound`, `ImplementsFile` | `MappingsLive`, `FileSpec` | finitely many threads; a block holds whole pages |

Finiteness is what `Cardinality` needs: a counter of the code is compared with the number
of those it counts.

### Disk and contract

`IInv` of `DiskDevice` is `TypeOK /\ NoLostWakeup /\ OwnerInv /\ HandleInv /\ WorkerInv /\
AnswerInv`.

* `OwnerInv` restates `OneOwner` without cardinalities: queued and served IRPs are
  outstanding, the list has no duplicates, the worker's IRP and those in dispatch
  are not in the list.
* `HandleInv`: a client with an outstanding IRP has an open handle. With
  `WorkerInv` this is why deletion leaves nothing: the worker deletes only after
  it saw no handle, and by then `terminate_thread` is set, so a handle that is
  opened later is refused.
* `WorkerInv`: where the worker is tells whether it has an IRP, whether the removal
  was asked for (teardown is reached only through the wait with `request_event`
  clear, so through `terminate_thread`) and, between check and deletion, that no
  client has a handle in use.
* `AnswerInv`: `gone` is told with `terminate_thread` set, or the worker is still in
  the step that sets it.

`KeepsContract` maps `Init` to `Init` and each step to a step of the contract or a
stutter: `RemoveVirtualDisk`, `RemoveLostDisk` and a failed `PreloadImage` are `Remove`
the first time, `DispatchCreate` is `Open` or a stutter, `CompleteIrp` and
`CompleteInline` are `Answer`, `DeleteDevice` is `Vanish`.

### Last I/O buffer

`IInv` has `RangeInv` (a published range is on the disk and in the buffer), `WorkerInv`
(from the invalidation to the end of the transfer nothing is published), `CopyInv` (who
copies has the lock and a published range, and then the worker has not begun to change
the buffer), `CoherentInv`, `SeenInv` and `WordInv`. The heart is `CopyInv`: the length is
cleared under the lock, so that a reader that still holds it keeps the worker out, and one
that comes later finds no range; this is why publication needs no lock. `SeenInv` ties
what a reader has copied to an image of the time of its read.

### The two proxies

`ShmProxy`: `TurnInv` says that during a call one of three things is so: the request is
there and the server waits, the server works, the answer is there and the server waits.
`CallInv` says what header and buffer mean in each of them, `ContentInv` what the calls
that are over have moved, `LoopInv` how far the request is. All but `LoopInv` hold until a
call was given up; the bounds on what is copied hold always.

`StreamProxy`: the words of a call on their way (`Rest`) and those of its answer (`Got`)
are the same sequences however the transfers are cut; sending and reading change neither.
`CallInv` says that a call is `Waiting` (the server has taken the first words of it and
nothing is answered), `Answered` (all has been taken and one answer that fits is there) or
`Spoiled` (DevioNet has answered a write before it read all of it, and the answer is one
that is refused). `QuietInv` says that between calls the stream is empty and the server
waits for a code, `DriverInv` and `ServerInv` how many words each has, `DataInv` what
result and image hold. A call that ends early sets `terminate_thread` with the same step;
without this `QuietInv` is lost, which is the mutant of `InStep`.

### Device list

`NumberInv` (disks in the list have different numbers) rests on `DiskInv` (what is open
and known at each stage of a creation) and `ListInv`. `WalkInv` and `RemoveInv` are about
a device that is used after the lock was released: it is still one whose number is the one
that was asked for, or it had none yet. `Queried` splits the disks of a query into those
ahead of the walk, which are not listed, and those behind it, listed once; objects are put
in before the walk only, and an object the walk stands on that was unlinked ends every
claim. `UnloadInv` says that what the unloading driver has passed is gone.

### Disk image

`KeepInv` says at each step of a creation what is held, so that each failure exit can be
compared with what it gives back; `SizeInv` that queued requests stay within the disk and
the disk within its image, across a growth that was checked before another took effect;
`AccessInv` how the image was opened. The sums of sizes wrap; the lemmas about them show
that the code's comparisons are enough for every width.

### Device I/O driver

`PlaceInv`: a client IRP is in the list or the hands its state says, and nowhere else.
`TagInv`: while the server is there, a tag that a buffer carries is the address of the
entry of the request the buffer is about, and nobody else has this address; once the
server has gone a tag may be used again, but then no answer is looked up any more. Both
rest on `CancelInv` (a cancel routine that runs belongs to an IRP that no thread works
on), `EntryInv` and `ServerInv`. `MemoryInv` is about the memory IRP, `CountInv` about the
count of references.

### AWE memory driver

`ChainInv`: blocks lie behind one another without gaps at multiples of the page size, and
reach over the file. `MapInv`: every mapping, those in use and the one that is kept, is
that of its page in the chain as it is now. `LockInv`: the counters are the numbers of
requests that have the lock, and one that changes the size is alone; `PhaseInv` says what
a request has and needs at each of its steps. That is why a block is dropped only when no
other request has a page of it mapped. `ImplementsFile` maps the chain to the contents of
the file (`contentBar`) and a thread's request to what is left of it (`askBar`): copying a
piece of a request is a step of `MemoryFile`, a change of the size is one, mapping,
locking and adding a block are stutters.

### VHD image

`TableInv`: the blocks that are stored have places that do not overlap and lie before the
footer, which ends the file; other blocks have none, and one whose entry is there while
the block is about to be written has the footer's. `ContentInv` is `ReadsBack` for single
sectors. `StoredInv` counts: the server adds up what its writes return and promises
contents only if the sum is the whole request, so the sum is at most what it asked for,
and when it is equal all sectors of the parts that are over hold the new value.
Distinct sectors have distinct places and none that of a bitmap (`SpotsApart`), so that a
write of data changes the sectors of the request alone (`DataStored`), one of a bitmap none
(`BitmapStored`), and neither does a new block, which reads as zero as before. Where
sectors lie (`SectorPlace`, `NextPlace`) needs that a division has one result.
`VhdInv` claims nothing once `torn` is set, and it stays set.

### Mount and dismount API

`ApiInv` has two parts. `Fits` relates a device and its volume: while a volume is locked no
file is open, a paging file is one that is open, and what is mounted has the protection of
its device and lies within it. `Own` relates a program's command to the device it has open:
on a way that is not forced the lock is the program's own from the dismount to the eject,
so that nobody opens a file in between. A device's number is not used again while the
device is open, so what a program found out is about the disk it ejects. `RemoveTold`
holds although the eject's result is not looked at, because an eject by the owner of the
lock cannot be refused.

### Settings

`Progress` says of an edit that each disk that `LoadDevices` counts is counted by what the
program is about to write, or is in `cut` (`load`); that a removal lowers the value it read
(`set`); that the values before the one it is at are `Done` (`write`, `delete`), that is as
they should be, or still there in `left`; and that the number it writes values for is one
that start-up reads. `Holds` says what the registry must hold for a number to come back as
its user was told, with the same exceptions, and what the user was told changes only when
the last step of an edit succeeds. The first two need that nobody else writes
`LoadDevices` in between, and the third that nobody else edits the number, which the
programs do nothing to ensure: `EditsApart` is a hypothesis of the theorem, `SettingsSpec
/\ []EditsApart => []SettingsKept`, without which the first is lost. Behaviours that
satisfy it are those in which programs change different disks' settings and do not meet in
`LoadDevices`; all other steps may interleave, and restarts, failures, the service, the
driver and programs that are not editing are free.

### What was changed in the models for the proofs

`StreamProxy`'s `TransfersWhole` was false for larger sizes and says
now what holds (above). Lists take elements out with `RemoveAt` and `SubSeq` where they
used filters that are defined by recursion; `DevIoDrv` lets a list entry have any free
address instead of one chosen for it; `AweAlloc` has no bound on the number of blocks but
that of their names. Overlapping guards of two `CASE` expressions, of which TLC takes the
first and TLA+ any, were made exclusive. Assumptions that the proofs need were named.
`VhdImage`, `MountApi` and `Settings` gave their specifications the names above. In
`Settings` the mark for "no value" is no number either, and a program does not save a disk
with neither an image nor a size, which the driver refuses (`sys/createdev.cpp:487`); the
run now offers it such a disk.

## What is only model-checked

* `IrpsComplete`, `RemovalFinishes`, `CallEnds`, `CloseReachesServer`, `ServerReleased`,
  `AnsweredWhileConnected`, `CallsReturn`: liveness under fairness is out of reach of the
  prover used.

Every invariant and every other action property of the runs is proved.

## Where code and documents differ

Met while modelling. The first is a run of its own; the modules do the others as the
code does, and their properties leave them out as said above.

* `sys/devthrd.cpp:1168` promises to let IRPs be done after the teardown, which has
  set the pointers they need to NULL (`disk_device_done`).
* "Along with -d or -D, existing such settings for the removed virtual disk are also
  removed from registry" (`cli/fscryptdisk.c:351`): no result of `RegDeleteValue`
  (`cplcore/drvio.c:3494` and after) is looked at, and the removal reports success with
  settings left in place; the driver then creates the disk again.
* "Along with -a, saves registry settings for re-creating the same virtual disk
  automatically when driver is loaded" (`cli/fscryptdisk.c:349`): an image name that is
  longer than the driver's buffer is saved and then taken for a missing one
  (`sys/fscryptdisk.cpp:644`), and the disk is not created.
* The same sentence: `LoadDevices` is read and written without a lock
  (`cplcore/drvio.c:3198`, `3234`), so that of two disks saved at the same time one may not
  be counted.
* `devio/devio.c:1029` logs a partial read and answers it as a whole one. No document says
  what a caller is told of it; a disk that ends early reads as zeros.
* Writes to a byte-swapped image are not swapped (`sys/devthrd.cpp:290` uses a length
  that is still 0), reads are; `sys/fscryptdsksys.h:165` says that image I/O should
  swap.
* The buffer "for fast re-reads" (`sys/fscryptdsksys.h:189`) is not taken back by a
  track format (`sys/floppy.cpp:119`).
* "Number of the FscryptDisk device to remove" (`inc/fscryptdisk.h:1121`): a removal of
  0 can find a disk that is being created with another number.
* "Automatically select first free" (`inc/fscryptdisk.h:252`): it is one above the
  highest in use.
* "New values for the flags" (`inc/fscryptdisk.h:1150`): asked to protect a memory disk
  with a paging file, `sys/iodisp.cpp:441` makes it writable.
* The comment at `devio/devio.c:826` says that new blocks of zeroes are not stored; the
  loop that looks for another value ends before its first comparison, and they are.
* "Detach a virtual disk from the system and release all resources" (the command's
  help, `cli/fscryptdisk.c:112`): a letter that is linked when its disk is already
  being removed stays (`sys/fscryptdisk.cpp:1008`), and so does a directory after a
  removal by number.
* "If indicating that proxy connection died we can do nothing else but remove this
  device" (`sys/devthrd.cpp:1259`): an unmap request over a stream that fails half-way
  is reported as a device error (`sys/devthrd.cpp:742`), and the disk stays.

## Not modelled

* `sys/lowerdev.cpp`: parallel requests below a file. What they leave undone, the last
  I/O buffer, is a hazard in the list.
* Unmap, zero and trim: no server in the repository offers them. `.VHDX` and other
  formats of the .NET providers: they are in libraries.
* Disk geometry, partition detection and the answers to queries about them: they are
  computed once and change no shared state.
* PnP requests other than the usage notification, power IRPs, the control device's
  other requests.
* In `deviodrv`: direct output buffers, zero and trim controls, file information. In
  `awefsalloc`: queries and controls, unload. In the service: connect requests that
  are forwarded to a server, installation.
* Weak memory (ARM64): every store takes effect in program order.
* Option parsing, dialogs, messages, the query functions of the API, building of image
  files, test programs, installation files.
