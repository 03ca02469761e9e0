------------------------------ MODULE MountApi ------------------------------
(***************************************************************************)
(* The programs that create, remove and change virtual disks: the          *)
(* functions of cplcore/drvio.c, the commands of cli/fscryptdisk.c and the *)
(* question of cpl/fscryptdisk.cpp whether a changed memory disk is to be  *)
(* saved.  Several of them run at a time.  What they call is here only as  *)
(* far as they depend on it: the driver's device per number, the file      *)
(* system mounted on it with the files that applications have open, the    *)
(* volume lock, and the names (drive letters, directories) that point to   *)
(* numbers.                                                                *)
(***************************************************************************)
EXTENDS Naturals

CONSTANTS Clients,      \* the running programs
          Numbers,      \* device numbers
          Letters,      \* drive letters
          Directories,  \* directories that may become mount points
          MaxSize,      \* bound: how large a disk is grown
          NoNumber, NoPoint, NoClient

MountPoints == Letters \cup Directories

ASSUME MountApiAssumption ==
    /\ MaxSize \in Nat \ {0}
    /\ NoNumber \notin Numbers
    /\ NoPoint \notin MountPoints
    /\ NoClient \notin Clients

VARIABLES disk,     \* per number: the driver's device
          vol,      \* per number: the file system on it, its open files, its lock
          link,     \* per mount point: the number it points to
          client    \* per program: where it is in its command

apiVars == <<disk, vol, link, client>>

Absent    == [state |-> "absent", ro |-> FALSE, size |-> 0, modified |-> FALSE,
              special |-> FALSE, letter |-> NoPoint]
Unmounted == [mounted |-> FALSE, ro |-> FALSE, size |-> 0, open |-> FALSE,
              lock |-> NoClient]
Idle      == [pc |-> "idle", cmd |-> "none", n |-> NoNumber, mode |-> "none",
              force |-> FALSE, asked |-> FALSE, point |-> NoPoint]

Removals == {"api", "window", "cli"}

ApiTypeOK ==
    /\ disk \in [Numbers -> [state : {"absent", "running", "removing"}, ro : BOOLEAN,
                             size : 0 .. MaxSize, modified : BOOLEAN,
                             special : BOOLEAN, letter : Letters \cup {NoPoint}]]
    /\ vol \in [Numbers -> [mounted : BOOLEAN, ro : BOOLEAN, size : 0 .. MaxSize,
                            open : BOOLEAN, lock : Clients \cup {NoClient}]]
    /\ link \in [MountPoints -> Numbers \cup {NoNumber}]
    /\ client \in [Clients ->
         [pc : {"idle", "link", "lock", "dismount", "relock", "save", "eject",
                "close", "point", "set", "grow", "extend"},
          cmd : Removals \cup {"none", "create", "flags", "extend"},
          n : Numbers \cup {NoNumber}, mode : {"none", "full", "attributes", "stale"},
          force : BOOLEAN, asked : BOOLEAN, point : MountPoints \cup {NoPoint}]]

ApiInit ==
    /\ disk = [n \in Numbers |-> Absent]
    /\ vol = [n \in Numbers |-> Unmounted]
    /\ link = [p \in MountPoints |-> NoNumber]
    /\ client = [c \in Clients |-> Idle]

Running(n) == disk[n].state = "running"

\* A mount reads the media's size and write protection once and keeps them.
Mounted(n) ==
    IF vol[n].mounted THEN vol[n]
    ELSE [vol[n] EXCEPT !.mounted = TRUE, !.ro = disk[n].ro, !.size = disk[n].size]

\* Some program has the device open.
Handle(n) == \E c \in Clients : client[c].n = n /\ client[c].mode # "none"

-----------------------------------------------------------------------------
(* The system around them.                                                 *)

\* An application opens a file, which mounts the volume; not while it is locked.
OpenFile(n) ==
    /\ Running(n)
    /\ vol[n].lock = NoClient
    /\ ~vol[n].open
    /\ vol' = [vol EXCEPT ![n] = [Mounted(n) EXCEPT !.open = TRUE]]
    /\ UNCHANGED <<disk, link, client>>

WriteFile(n) ==
    /\ Running(n)
    /\ vol[n].open
    /\ ~vol[n].ro
    /\ disk' = [disk EXCEPT ![n].modified = TRUE]
    /\ UNCHANGED <<vol, link, client>>

\* The file becomes a paging file; the driver counts it (special_file_count).
UsePagingFile(n) ==
    /\ Running(n)
    /\ vol[n].open
    /\ ~disk[n].ro
    /\ disk' = [disk EXCEPT ![n].special = TRUE]
    /\ UNCHANGED <<vol, link, client>>

CloseFile(n) ==
    /\ vol[n].open
    /\ ~disk[n].special
    /\ vol' = [vol EXCEPT ![n].open = FALSE]
    /\ UNCHANGED <<disk, link, client>>

\* The worker of a device that is to go takes the letter's name away, whatever
\* that name points to by then.
RemoveDriveLetter(n) ==
    /\ disk[n].state = "removing"
    /\ disk[n].letter # NoPoint
    /\ link' = [link EXCEPT ![disk[n].letter] = NoNumber]
    /\ disk' = [disk EXCEPT ![n].letter = NoPoint]
    /\ UNCHANGED <<vol, client>>

\* It deletes the device when nobody has it open any longer.
DeleteDevice(n) ==
    /\ disk[n].state = "removing"
    /\ disk[n].letter = NoPoint
    /\ ~vol[n].open
    /\ ~Handle(n)
    /\ disk' = [disk EXCEPT ![n] = Absent]
    /\ vol' = [vol EXCEPT ![n] = Unmounted]
    /\ UNCHANGED <<link, client>>

-----------------------------------------------------------------------------
(* Creation.                                                               *)

\* What the program asks the driver for: a mount point that is a letter is the
\* driver's business, any other one the program's own.
NewDisk(p, ro) ==
    [Absent EXCEPT !.state = "running", !.ro = ro, !.size = 1,
                   !.letter = IF p \in Letters THEN p ELSE NoPoint]

\* The control code that creates the device; the answer holds its number.  The
\* driver, or a service that the kind of disk needs, may be missing or refuse to
\* start; the command then ends before this step and has changed nothing.
CreateDevice(c) ==
    /\ client[c].pc = "idle"
    /\ \E n \in Numbers, p \in MountPoints \cup {NoPoint}, ro \in BOOLEAN :
         /\ disk[n].state = "absent"
         /\ disk' = [disk EXCEPT ![n] = NewDisk(p, ro)]
         /\ client' = [client EXCEPT ![c] =
                         [Idle EXCEPT !.pc = "link", !.cmd = "create", !.n = n,
                                      !.point = p]]
    /\ UNCHANGED <<vol, link>>

\* The letter is linked by the creator's thread after the device's own thread
\* is in service; a name that exists stays as it is and nobody is told.
CreateDriveLetter(c) ==
    /\ client[c].pc = "link"
    /\ client[c].point \in Letters
    /\ link' = IF link[client[c].point] = NoNumber
               THEN [link EXCEPT ![client[c].point] = client[c].n]
               ELSE link
    /\ client' = [client EXCEPT ![c] = Idle]
    /\ UNCHANGED <<disk, vol>>

\* A directory's reparse point is set, over an older one too, or cannot be set.
CreateMountPoint(c) ==
    /\ client[c].pc = "link"
    /\ client[c].point \notin Letters
    /\ \/ UNCHANGED link
       \/ /\ client[c].point \in Directories
          /\ link' = [link EXCEPT ![client[c].point] = client[c].n]
    /\ client' = [client EXCEPT ![c] = Idle]
    /\ UNCHANGED <<disk, vol>>

-----------------------------------------------------------------------------
(* Opening.                                                                *)

\* Where a number or a mount point leads; a letter and a directory are followed
\* in the same way.
Target(n, p) == IF p = NoPoint THEN n \in Numbers ELSE link[p] = n

\* Access for reading and writing goes through the file system, which mounts
\* and which refuses while the volume is locked.
OpenFull(n) ==
    /\ Running(n)
    /\ vol[n].lock = NoClient
    /\ vol' = [vol EXCEPT ![n] = Mounted(n)]

\* Removals that are refused it, or that lack the right, try for the attributes
\* only, which reaches the device past the file system.
OpenToRemove(n, mode) ==
    IF mode = "full" THEN OpenFull(n) ELSE Running(n) /\ UNCHANGED vol

Open(c, n, cmd, mode, pc, p) ==
    client' = [client EXCEPT ![c] = [Idle EXCEPT !.pc = pc, !.cmd = cmd, !.n = n,
                                                 !.mode = mode, !.point = p]]

\* FscryptDiskRemoveDevice, with or without a window to ask the user in.
RemoveDevice(c) ==
    /\ client[c].pc = "idle"
    /\ \E cmd \in {"api", "window"}, n \in Numbers, p \in MountPoints \cup {NoPoint},
          mode \in {"full", "attributes"} :
         /\ Target(n, p)
         /\ OpenToRemove(n, mode)
         /\ Open(c, n, cmd, mode, "lock", p)
    /\ UNCHANGED <<disk, link>>

\* The command line asks the device for its letter when it was given a number.
CliRemoveDevice(c) ==
    /\ client[c].pc = "idle"
    /\ \E n \in Numbers, p \in MountPoints \cup {NoPoint},
          mode \in {"full", "attributes"} :
         /\ Target(n, p)
         /\ OpenToRemove(n, mode)
         /\ Open(c, n, "cli", mode, "lock", IF p = NoPoint THEN disk[n].letter ELSE p)
    /\ UNCHANGED <<disk, link>>

\* The API changes the flags of a number or a letter, not of a directory.
ChangeFlags(c) ==
    /\ client[c].pc = "idle"
    /\ \E n \in Numbers, p \in Letters \cup {NoPoint} :
         Target(n, p) /\ OpenFull(n) /\ Open(c, n, "flags", "full", "lock", NoPoint)
    /\ UNCHANGED <<disk, link>>

CliChangeFlags(c) ==
    /\ client[c].pc = "idle"
    /\ \E n \in Numbers, p \in MountPoints \cup {NoPoint} :
         Target(n, p) /\ OpenFull(n) /\ Open(c, n, "flags", "full", "lock", NoPoint)
    /\ UNCHANGED <<disk, link>>

\* The API extends the disk of a number only.
ExtendDevice(c) ==
    /\ client[c].pc = "idle"
    /\ \E n \in Numbers :
         OpenFull(n) /\ Open(c, n, "extend", "full", "grow", NoPoint)
    /\ UNCHANGED <<disk, link>>

CliExtendDevice(c) ==
    /\ client[c].pc = "idle"
    /\ \E n \in Numbers, p \in MountPoints \cup {NoPoint} :
         Target(n, p) /\ OpenFull(n) /\ Open(c, n, "extend", "full", "grow", NoPoint)
    /\ UNCHANGED <<disk, link>>

\* A command that gives up closes its handle, and with it its lock goes.
GiveUp(c) ==
    /\ client' = [client EXCEPT ![c] = Idle]
    /\ vol' = [n \in Numbers |->
                 IF vol[n].lock = c THEN [vol[n] EXCEPT !.lock = NoClient] ELSE vol[n]]

-----------------------------------------------------------------------------
(* Lock and dismount.                                                      *)

\* The file system grants the lock to a handle of its own when no file and no
\* other handle of the volume is open.
Lockable(c) ==
    LET n == client[c].n IN
    /\ client[c].mode = "full"
    /\ vol[n].lock = NoClient
    /\ ~vol[n].open
    /\ \A d \in Clients \ {c} : ~(client[d].n = n /\ client[d].mode = "full")

Lock(c) ==
    /\ client[c].pc = "lock"
    /\ Lockable(c)
    /\ vol' = [vol EXCEPT ![client[c].n].lock = c]
    /\ client' = [client EXCEPT ![c].pc = "dismount"]
    /\ UNCHANGED <<disk, link>>

\* Mutant: the lock is asked for and its failure not looked at.
LockFailsGoOn(c) ==
    /\ client[c].pc = "lock"
    /\ ~Lockable(c)
    /\ client' = [client EXCEPT ![c].pc = "dismount"]
    /\ UNCHANGED <<disk, vol, link>>

\* Without the lock a removal goes on only if it is forced: by the API's flag,
\* by the user's answer, by the command's -D.
LockFails(c) ==
    /\ client[c].pc = "lock"
    /\ ~Lockable(c)
    /\ \/ GiveUp(c)
       \/ /\ client[c].cmd \in Removals
          /\ client' = [client EXCEPT ![c].pc = "dismount", ![c].force = TRUE]
          /\ UNCHANGED vol
    /\ UNCHANGED <<disk, link>>

AfterDismount(c) ==
    IF client[c].cmd = "flags" THEN "set"
    ELSE IF client[c].force THEN "relock"
    ELSE IF client[c].cmd = "window" THEN "save" ELSE "eject"

\* The handles that were opened through the file system end with the volume;
\* the one that asked still reaches the device.
Dismount(c) ==
    LET n == client[c].n IN
    /\ client[c].pc = "dismount"
    /\ client[c].mode = "full"
    /\ vol[n].lock \in {c, NoClient}
    /\ ~disk[n].special
    /\ vol' = [vol EXCEPT ![n] = [Unmounted EXCEPT !.lock = vol[n].lock]]
    /\ client' = [d \in Clients |->
                    CASE d = c -> [client[c] EXCEPT !.pc = AfterDismount(c)]
                      [] d # c /\ client[d].n = n /\ client[d].mode = "full"
                           -> [client[d] EXCEPT !.mode = "stale"]
                      [] OTHER -> client[d]]
    /\ UNCHANGED <<disk, link>>

\* Mutant: the flags are set on a volume that could not be dismounted.
DismountFailsGoOn(c) ==
    /\ client[c].pc = "dismount"
    /\ client' = [client EXCEPT ![c].pc = AfterDismount(c)]
    /\ UNCHANGED <<disk, vol, link>>

\* The API removes on without a dismount; the command line only if forced; to
\* change flags both need it.
DismountFails(c) ==
    /\ client[c].pc = "dismount"
    /\ IF client[c].cmd \in {"api", "window"} \/ client[c].force
       THEN /\ client' = [client EXCEPT ![c].pc = AfterDismount(c)]
            /\ UNCHANGED vol
       ELSE GiveUp(c)
    /\ UNCHANGED <<disk, link>>

\* A forced removal tries the lock once more and does not look at the result.
Relock(c) ==
    /\ client[c].pc = "relock"
    /\ vol' = IF Lockable(c) THEN [vol EXCEPT ![client[c].n].lock = c] ELSE vol
    /\ client' = [client EXCEPT ![c].pc =
                    IF client[c].cmd = "window" THEN "save" ELSE "eject"]
    /\ UNCHANGED <<disk, link>>

-----------------------------------------------------------------------------
(* Removal.                                                                *)

\* The image is read through the handle into a file, and its mark cleared.
SaveImage(c) ==
    /\ client[c].mode = "full"
    /\ disk' = [disk EXCEPT ![client[c].n].modified = FALSE]
    /\ client' = [client EXCEPT ![c].pc = "eject"]
    /\ UNCHANGED <<vol, link>>

\* With a window the user of a changed memory disk is asked.
CheckSave(c) ==
    LET n == client[c].n IN
    /\ client[c].pc = "save"
    /\ \/ /\ ~disk[n].modified
          /\ client' = [client EXCEPT ![c].pc = "eject"]
          /\ UNCHANGED <<disk, vol, link>>
       \/ /\ disk[n].modified           \* "No"
          /\ client' = [client EXCEPT ![c].pc = "eject", ![c].asked = TRUE]
          /\ UNCHANGED <<disk, vol, link>>
       \/ disk[n].modified /\ SaveImage(c)
       \/ /\ disk[n].modified \/ ~Running(n)    \* "Cancel", or a step that fails
          /\ GiveUp(c)
          /\ UNCHANGED <<disk, link>>

\* The driver removes a device unless it has paging files; a request to one
\* that is going is refused.
Removable(n) == Running(n) /\ ~disk[n].special

MarkForRemoval(n) == disk' = [disk EXCEPT ![n].state = "removing"]

\* Ejecting needs a handle with read access.
Ejectable(c) == client[c].mode = "full" /\ Removable(client[c].n)

Eject(c) ==
    /\ client[c].pc = "eject"
    /\ Ejectable(c)
    /\ MarkForRemoval(client[c].n)
    /\ client' = [client EXCEPT ![c].pc = "close"]
    /\ UNCHANGED <<vol, link>>

\* Mutant: a forced removal does not look at what the control device says.
EjectFailsGoOn(c) ==
    /\ client[c].pc = "eject"
    /\ ~Ejectable(c)
    /\ client' = [client EXCEPT ![c].pc = "close"]
    /\ IF client[c].force /\ Removable(client[c].n)
       THEN MarkForRemoval(client[c].n)
       ELSE UNCHANGED disk
    /\ UNCHANGED <<vol, link>>

\* When it fails, a forced removal asks the control device for the number; one
\* that is not forced goes on as if it had succeeded.
EjectFails(c) ==
    /\ client[c].pc = "eject"
    /\ ~Ejectable(c)
    /\ IF ~client[c].force
       THEN /\ client' = [client EXCEPT ![c].pc = "close"]
            /\ UNCHANGED <<disk, vol>>
       ELSE \/ /\ Removable(client[c].n)
               /\ MarkForRemoval(client[c].n)
               /\ client' = [client EXCEPT ![c].pc = "close"]
               /\ UNCHANGED vol
            \/ /\ ~Removable(client[c].n)
               /\ GiveUp(c)
               /\ UNCHANGED disk
    /\ UNCHANGED link

\* The command's -R: no lock, no dismount, no handle of the device.
EmergencyRemove(c) ==
    /\ client[c].pc = "idle"
    /\ \E n \in Numbers : Removable(n) /\ MarkForRemoval(n)
    /\ UNCHANGED <<vol, link, client>>

Close(c) ==
    /\ client[c].pc = "close"
    /\ client' = [client EXCEPT ![c] =
                    [Idle EXCEPT !.pc = "point", !.cmd = client[c].cmd,
                                 !.point = client[c].point]]
    /\ vol' = [vol EXCEPT ![client[c].n].lock = IF @ = c THEN NoClient ELSE @]
    /\ UNCHANGED <<disk, link>>

\* The name goes whatever it points to by then; failures are only reported.
RemoveMountPoint(c) ==
    /\ client[c].pc = "point"
    /\ link' = IF client[c].point = NoPoint THEN link
               ELSE [link EXCEPT ![client[c].point] = NoNumber]
    /\ client' = [client EXCEPT ![c] = Idle]
    /\ UNCHANGED <<disk, vol>>

-----------------------------------------------------------------------------
(* Changes.                                                                *)

SetDeviceFlags(c) ==
    LET n == client[c].n IN
    /\ client[c].pc = "set"
    /\ disk' = IF Running(n) /\ ~disk[n].special
               THEN [disk EXCEPT ![n].ro = ~@] ELSE disk
    /\ GiveUp(c)
    /\ UNCHANGED link

\* The option "saved" touches neither protection nor removability: no lock.
ClearModified(c) ==
    /\ client[c].pc = "idle"
    /\ \E n \in Numbers :
         /\ OpenFull(n)
         /\ disk' = [disk EXCEPT ![n].modified = FALSE]
    /\ UNCHANGED <<link, client>>

\* The disk grows under the mounted file system ...
Grow(c) ==
    LET n == client[c].n IN
    /\ client[c].pc = "grow"
    /\ \/ /\ client[c].mode = "full" /\ Running(n) /\ disk[n].size < MaxSize
          /\ disk' = [disk EXCEPT ![n].size = @ + 1]
          /\ client' = [client EXCEPT ![c].pc = "extend"]
          /\ UNCHANGED vol
       \/ GiveUp(c) /\ UNCHANGED disk
    /\ UNCHANGED link

\* ... which is then told the new length, as the device gives it.
ExtendVolume(c) ==
    LET n == client[c].n IN
    /\ client[c].pc = "extend"
    /\ client' = [client EXCEPT ![c] = Idle]
    /\ \/ UNCHANGED vol
       \/ /\ client[c].mode = "full" /\ vol[n].mounted
          /\ vol' = [vol EXCEPT ![n].size = disk[n].size]
    /\ UNCHANGED <<disk, link>>

-----------------------------------------------------------------------------
System(n) ==
    \/ OpenFile(n) \/ WriteFile(n) \/ UsePagingFile(n) \/ CloseFile(n)
    \/ RemoveDriveLetter(n) \/ DeleteDevice(n)

Program(c) ==
    \/ CreateDevice(c) \/ CreateDriveLetter(c) \/ CreateMountPoint(c)
    \/ RemoveDevice(c) \/ CliRemoveDevice(c)
    \/ ChangeFlags(c) \/ CliChangeFlags(c) \/ ExtendDevice(c) \/ CliExtendDevice(c)
    \/ Lock(c) \/ LockFails(c) \/ Dismount(c) \/ DismountFails(c) \/ Relock(c)
    \/ CheckSave(c) \/ Eject(c) \/ EjectFails(c) \/ EmergencyRemove(c)
    \/ Close(c) \/ RemoveMountPoint(c)
    \/ SetDeviceFlags(c) \/ ClearModified(c) \/ Grow(c) \/ ExtendVolume(c)

ApiNext ==
    \/ \E n \in Numbers : System(n)
    \/ \E c \in Clients : Program(c)

ApiSpec == ApiInit /\ [][ApiNext]_apiVars

-----------------------------------------------------------------------------
\* A removal that its user did not force takes no disk from under an open
\* file, and one with a window no changed disk whose user was not asked: from
\* the lock to the eject nobody gets in between.
NothingLost ==
    [][\A c \in Clients :
         LET n == client[c].n IN
         ( /\ client[c].pc = "eject" /\ client'[c].pc # "eject"
           /\ ~client[c].force
           /\ Running(n) /\ disk'[n].state = "removing")
         => /\ ~vol[n].open
            /\ client[c].cmd = "window" => client[c].asked \/ ~disk[n].modified]_apiVars

\* A removal on its way to report success has removed its disk, though it does
\* not look at the result of an eject that was not forced.
RemoveTold ==
    \A c \in Clients : client[c].pc = "close" => ~Running(client[c].n)

\* A mounted file system works with the write protection and within the size
\* that the device has now: changes are made where none is mounted, or it is told.
VolumeSeesMedia ==
    \A n \in Numbers :
        vol[n].mounted /\ Running(n) => /\ vol[n].ro = disk[n].ro
                                        /\ vol[n].size <= disk[n].size
=============================================================================
