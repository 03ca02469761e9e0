------------------------------ MODULE Settings ------------------------------
(***************************************************************************)
(* Persistent disks.  A program that creates a disk with the option -P     *)
(* writes its parameters to the registry, value by value; one that removes *)
(* it with -P deletes them (cplcore/drvio.c, called by cli/fscryptdisk.c). *)
(* When the driver is loaded it reads how many devices to load and their   *)
(* values, and starts a thread for each that creates the device            *)
(* (sys/fscryptdisk.cpp).  An edit may fail at any value, and the machine  *)
(* may go down between any two.  A deletion that fails is not noticed at   *)
(* all, and neither is a LoadDevices that cannot be read when a disk is    *)
(* saved.  The driver and the helper service for some proxy disks may have *)
(* to be started first.                                                    *)
(***************************************************************************)
EXTENDS Integers, FiniteSets

CONSTANTS Programs,
          MaxNumber,    \* bound: the highest device number
          Values,       \* names, sizes, flags, letters and offsets
          LongNames,    \* names the driver has no room to read
          Disks,        \* what disks are created with: [Fields -> Values \cup {NoValue}]
          MemoryTypes,  \* flags of disks in memory
          HelperTypes,  \* flags of proxy disks that need the helper service
          Disallowed,   \* DisallowedDriveLetters, as the administrator wrote it
          NoValue, NoDisk, Unknown

Numbers == 0 .. MaxNumber

\* The values of a device in the order in which they are written and deleted.
Field  == <<"ImageFileName", "Size", "Flags", "DriveLetter", "ImageOffset">>
Fields == {Field[i] : i \in 1 .. 5}

ASSUME SettingsAssumption ==
    /\ MaxNumber \in Nat
    /\ LongNames \subseteq Values
    /\ Disks \subseteq [Fields -> Values \cup {NoValue}]
    /\ NoValue \notin Values \cup (0 .. MaxNumber + 1)
    /\ NoDisk \notin [Fields -> Values \cup {NoValue}]
    /\ Unknown \notin [Fields -> Values \cup {NoValue}] \cup {NoDisk}

VARIABLES load,      \* the value LoadDevices, or NoValue
          value,     \* the values of each number
          loaded,    \* the driver is in memory
          helper,    \* the helper service: "ready" when its pipe is there
          starting,  \* numbers whose threads the driver has started by itself
          devices,   \* the numbers of the devices there are
          program,   \* where each program is in its edit
          kept,      \* what users have been told is kept, per number
          left,      \* history: per number, the fields an edit failed to delete
          cut        \* history: numbers LoadDevices was not read to have counted

settingsVars == <<load, value, loaded, helper, starting, devices, program, kept, left, cut>>

Data == [Fields -> Values \cup {NoValue}]
None == [f \in Fields |-> NoValue]
Idle == [pc |-> "idle", n |-> 0, data |-> NoDisk, load |-> 0, at |-> 0]

SettingsTypeOK ==
    /\ load \in (0 .. MaxNumber + 1) \cup {NoValue}
    /\ value \in [Numbers -> Data]
    /\ loaded \in BOOLEAN
    /\ helper \in {"stopped", "starting", "ready"}
    /\ starting \subseteq Numbers
    /\ devices \subseteq Numbers
    /\ program \in [Programs ->
         [pc : {"idle", "services", "wait", "create", "read", "load", "write",
                "lower", "set", "delete", "eject"},
          n : Numbers, data : Data \cup {NoDisk}, load : 0 .. MaxNumber + 1,
          at : 0 .. 5]]
    /\ kept \in [Numbers -> Data \cup {NoDisk, Unknown}]
    /\ left \in [Numbers -> SUBSET Fields]
    /\ cut \subseteq Numbers

SettingsInit ==
    /\ load = NoValue
    /\ value = [n \in Numbers |-> None]
    /\ loaded = FALSE
    /\ helper = "stopped"
    /\ starting = {}
    /\ devices = {}
    /\ program = [p \in Programs |-> Idle]
    /\ kept = [n \in Numbers |-> NoDisk]
    /\ left = [n \in Numbers |-> {}]
    /\ cut = {}

-----------------------------------------------------------------------------
(* The driver.                                                             *)

\* The buffer for the disallowed letters holds three and the end of the string;
\* a longer value cannot be read, and then none is disallowed.
DisallowedDriveLetters == IF Cardinality(Disallowed) <= 3 THEN Disallowed ELSE {}

\* How many devices to load: none when the value cannot be read.
DevicesToLoad == IF load = NoValue THEN 0 ELSE load

\* What the driver reads for a number: a value that is missing counts as empty, and
\* so does a name that its buffer has no room for.
ReadSettings(n) ==
    [value[n] EXCEPT !["ImageFileName"] = IF @ \in LongNames THEN NoValue ELSE @]

\* Only a disk in memory can do without a file, and it needs a size; without flags
\* a disk that has no file is one in memory.
Valid(data) ==
    \/ data["ImageFileName"] # NoValue
    \/ data["Flags"] \in MemoryTypes \cup {NoValue} /\ data["Size"] # NoValue

Loadable == {n \in Numbers : n < DevicesToLoad /\ Valid(ReadSettings(n))}

\* The driver starts a thread per number; memory may be short for some, and
\* one whose settings make no disk ends without having created one.
AddVirtualDisks == starting' \in SUBSET Loadable

DriverEntry ==
    /\ ~loaded
    /\ loaded' = TRUE
    /\ AddVirtualDisks
    /\ UNCHANGED <<load, value, helper, devices, program, kept, left, cut>>

\* Such a thread creates its device from what was read if the number is free and
\* nothing else goes wrong (a server's helper may not be there yet); nobody waits
\* for it, and the letter is not checked.
DeviceThread(n) ==
    /\ n \in starting
    /\ starting' = starting \ {n}
    /\ devices' \in {devices, devices \cup {n}}
    /\ UNCHANGED <<load, value, loaded, helper, program, kept, left, cut>>

\* A proxy disk is connected through the helper's pipe, which must be there.
NeedsHelper(data) == data["Flags"] \in HelperTypes
Connects(data) == NeedsHelper(data) => helper = "ready"

\* A program's request is checked before its device is created.
AddVirtualDisk(n, data) ==
    /\ Valid(data)
    /\ data["DriveLetter"] \notin DisallowedDriveLetters
    /\ n \notin devices
    /\ Connects(data)
    /\ devices' = devices \cup {n}

\* A program is between the first and the last step of an edit for a number.
Edits(p, n) ==
    /\ program[p].n = n
    /\ program[p].pc \in {"read", "load", "write", "lower", "set", "delete"}

\* The driver is unloaded, and all disks with it, when nobody has it open: a
\* program that saves has closed it.
Unload ==
    /\ loaded
    /\ \A p \in Programs : program[p].pc \in {"idle", "read", "load", "write"}
    /\ loaded' = FALSE
    /\ starting' = {}
    /\ devices' = {}
    /\ UNCHANGED <<load, value, helper, program, kept, left, cut>>

\* The machine goes down: an edit under way has got as far as it has.
Restart ==
    /\ loaded' = FALSE
    /\ starting' = {}
    /\ devices' = {}
    /\ kept' = [n \in Numbers |->
                  IF \E p \in Programs : Edits(p, n) THEN Unknown ELSE kept[n]]
    /\ program' = [p \in Programs |-> Idle]
    /\ helper' = "stopped"
    /\ UNCHANGED <<load, value, left, cut>>

-----------------------------------------------------------------------------
(* Creating.                                                               *)

\* The program opens the driver, which the service manager starts if it is not
\* there; if it cannot be started the program ends.
StartDriver(p) == program[p].pc = "idle" /\ DriverEntry

OpenDriver(p) ==
    /\ program[p].pc = "idle"
    /\ loaded
    /\ \E data \in Disks :
         program' = [program EXCEPT ![p] =
                       [Idle EXCEPT !.pc = IF NeedsHelper(data) THEN "services" ELSE "create",
                                    !.data = data]]
    /\ UNCHANGED <<load, value, loaded, helper, starting, devices, kept, left, cut>>

\* A helper that is not there is started, which may fail ...
StartHelper(p) ==
    /\ program[p].pc = "services"
    /\ \/ /\ helper = "stopped"
          /\ helper' = "starting"
          /\ program' = [program EXCEPT ![p].pc = "wait"]
       \/ /\ helper = "stopped"
          /\ program' = [program EXCEPT ![p] = Idle]
          /\ UNCHANGED helper
       \/ /\ helper = "starting"       \* the service manager: it runs already
          /\ program' = [program EXCEPT ![p].pc = "wait"]
          /\ UNCHANGED helper
       \/ /\ helper = "ready"
          /\ program' = [program EXCEPT ![p].pc = "create"]
          /\ UNCHANGED helper
    /\ UNCHANGED <<load, value, loaded, starting, devices, kept, left, cut>>

\* ... and waited for, for as long as its pipe is not there.
WaitNamedPipe(p) ==
    /\ program[p].pc = "wait"
    /\ helper = "ready"
    /\ program' = [program EXCEPT ![p].pc = "create"]
    /\ UNCHANGED <<load, value, loaded, helper, starting, devices, kept, left, cut>>

HelperStarts ==
    /\ helper = "starting"
    /\ helper' = "ready"
    /\ UNCHANGED <<load, value, loaded, starting, devices, program, kept, left, cut>>

HelperStops ==
    /\ helper # "stopped"
    /\ helper' = "stopped"
    /\ UNCHANGED <<load, value, loaded, starting, devices, program, kept, left, cut>>

\* The driver refuses or creates the disk, with the number it was asked for or
\* one of its choice; the user wanted it kept or not.
CreateDevice(p) ==
    LET data == program[p].data IN
    /\ program[p].pc = "create"
    /\ \/ \E n \in Numbers, save \in BOOLEAN :
            /\ AddVirtualDisk(n, data)
            /\ program' = [program EXCEPT ![p] =
                 IF save THEN [Idle EXCEPT !.pc = "read", !.n = n, !.data = data]
                 ELSE Idle]
       \/ /\ program' = [program EXCEPT ![p] = Idle]
          /\ UNCHANGED devices
    /\ UNCHANGED <<load, value, loaded, helper, starting, kept, left, cut>>

-----------------------------------------------------------------------------
(* Saving.                                                                 *)

\* A failure is printed ("Registry edit failed"), what was written stays.
EditFails(p) ==
    /\ program' = [program EXCEPT ![p] = Idle]
    /\ kept' = [kept EXCEPT ![program[p].n] = Unknown]
    /\ UNCHANGED <<load, value, left, cut>>

\* Mutant: LoadDevices is the highest number, not the number of devices.
NewLoadCount(n) == IF load = NoValue \/ load < n THEN n ELSE load

\* LoadDevices is read, ...
NewLoad(n) == IF load = NoValue \/ load < n + 1 THEN n + 1 ELSE load

\* ... and one that cannot be read is taken for one that is not there, ...
ReadLoad(p) ==
    LET n == program[p].n IN
    /\ program[p].pc = "read"
    /\ \/ /\ program' = [program EXCEPT ![p].pc = "load", ![p].load = NewLoad(n)]
          /\ UNCHANGED cut
       \/ /\ program' = [program EXCEPT ![p].pc = "load", ![p].load = n + 1]
          /\ cut' = cut \cup {m \in Numbers : n < m /\ m < DevicesToLoad}
    /\ UNCHANGED <<load, value, loaded, helper, starting, devices, kept, left>>

\* ... and written, ...
WriteLoad(p) ==
    /\ program[p].pc = "load"
    /\ \/ /\ load' = program[p].load
          /\ cut' = {m \in cut : program[p].load <= m}
          /\ program' = [program EXCEPT ![p].pc = "write", ![p].at = 1]
          /\ UNCHANGED <<value, kept, left>>
       \/ EditFails(p)
    /\ UNCHANGED <<loaded, helper, starting, devices>>

\* Nobody looks at whether RegDeleteValue has deleted the value.
RegDeleteValue(n, f) ==
    \/ /\ value' = [value EXCEPT ![n][f] = NoValue]
       /\ left' = [left EXCEPT ![n] = @ \ {f}]
    \/ /\ value[n][f] # NoValue
       /\ left' = [left EXCEPT ![n] = @ \cup {f}]
       /\ UNCHANGED value

\* ... then each value is set, or deleted when the disk has none.
SetValue(n, f, v) ==
    \/ /\ v # NoValue
       /\ value' = [value EXCEPT ![n][f] = v]
       /\ left' = [left EXCEPT ![n] = @ \ {f}]
    \/ v = NoValue /\ RegDeleteValue(n, f)

WriteValue(p) ==
    LET n == program[p].n  i == program[p].at IN
    /\ program[p].pc = "write"
    /\ \/ /\ SetValue(n, Field[i], program[p].data[Field[i]])
          /\ IF i < 5
             THEN /\ program' = [program EXCEPT ![p].at = i + 1]
                  /\ UNCHANGED kept
             ELSE /\ program' = [program EXCEPT ![p] = Idle]
                  /\ kept' = [kept EXCEPT ![n] = program[p].data]
          /\ UNCHANGED <<load, cut>>
       \/ EditFails(p)
    /\ UNCHANGED <<loaded, helper, starting, devices>>

-----------------------------------------------------------------------------
(* Removing.                                                               *)

\* Without -P the settings stay.
RemoveDevice(p) ==
    /\ program[p].pc = "idle"
    /\ \E n \in devices : devices' = devices \ {n}
    /\ UNCHANGED <<load, value, loaded, helper, starting, program, kept, left, cut>>

\* With -P they go first: the device is opened and asked for its number.
StartRemove(p) ==
    /\ program[p].pc = "idle"
    /\ \E n \in devices :
         program' = [program EXCEPT ![p] = [Idle EXCEPT !.pc = "lower", !.n = n]]
    /\ UNCHANGED <<load, value, loaded, helper, starting, devices, kept, left, cut>>

\* The removal goes on whether or not the edit is complete.
GoOn(p, n, result) ==
    /\ program' = [program EXCEPT ![p] = [Idle EXCEPT !.pc = "eject", !.n = n]]
    /\ kept' = [kept EXCEPT ![n] = result]

\* LoadDevices is read, and lowered by one if the device is the last one.
ReadLowered(p) ==
    LET n == program[p].n IN
    /\ program[p].pc = "lower"
    /\ \/ /\ load # NoValue
          /\ program' = [program EXCEPT ![p].pc = IF load = n + 1 THEN "set" ELSE "delete",
                                        ![p].at = 1]
          /\ UNCHANGED kept
       \/ GoOn(p, n, Unknown)
    /\ UNCHANGED <<load, value, loaded, helper, starting, devices, left, cut>>

LowerLoad(p) ==
    LET n == program[p].n IN
    /\ program[p].pc = "set"
    /\ \/ /\ load' = n
          /\ program' = [program EXCEPT ![p].pc = "delete"]
          /\ UNCHANGED kept
       \/ /\ GoOn(p, n, Unknown)
          /\ UNCHANGED load
    /\ UNCHANGED <<value, loaded, helper, starting, devices, left, cut>>

\* The values are deleted one by one; only for the want of memory for a value's
\* name is the user told of a failure.
DeleteValue(p) ==
    LET n == program[p].n  i == program[p].at IN
    /\ program[p].pc = "delete"
    /\ \/ /\ RegDeleteValue(n, Field[i])
          /\ IF i < 5 THEN /\ program' = [program EXCEPT ![p].at = i + 1]
                           /\ UNCHANGED kept
             ELSE GoOn(p, n, NoDisk)
       \/ /\ GoOn(p, n, Unknown)
          /\ UNCHANGED <<value, left>>
    /\ UNCHANGED <<load, loaded, helper, starting, devices, cut>>

\* The volume is locked and the device removed, or the volume is in use and the
\* device stays, its settings gone all the same.
Eject(p) ==
    /\ program[p].pc = "eject"
    /\ program' = [program EXCEPT ![p] = Idle]
    /\ devices' \in {devices, devices \ {program[p].n}}
    /\ UNCHANGED <<load, value, loaded, helper, starting, kept, left, cut>>

SettingsNext ==
    \/ DriverEntry
    \/ Unload
    \/ Restart
    \/ HelperStarts \/ HelperStops
    \/ \E n \in Numbers : DeviceThread(n)
    \/ \E p \in Programs :
         \/ StartDriver(p) \/ OpenDriver(p) \/ StartHelper(p) \/ WaitNamedPipe(p)
         \/ CreateDevice(p) \/ ReadLoad(p) \/ WriteLoad(p) \/ WriteValue(p)
         \/ RemoveDevice(p) \/ StartRemove(p) \/ ReadLowered(p) \/ LowerLoad(p)
         \/ DeleteValue(p) \/ Eject(p)

SettingsSpec == SettingsInit /\ [][SettingsNext]_settingsVars

-----------------------------------------------------------------------------
(* Properties.                                                             *)

Edited(n) == \E p \in Programs : Edits(p, n)

\* Programs do nothing to keep out of each other's way, but those that edit at the
\* same time edit different numbers, and no two are between the reading and the
\* writing of LoadDevices.
EditsApart ==
    \A p, q \in Programs : p # q =>
      /\ \A n \in Numbers : ~(Edits(p, n) /\ Edits(q, n))
      /\ ~(program[p].pc \in {"load", "set"} /\ program[q].pc \in {"load", "set"})

\* What a user was last told about a number holds of the registry, whatever was
\* saved and removed for other numbers since, whatever failed and however often the
\* machine went down: each field the driver reads is what was told, but for those
\* whose deletion failed unnoticed and a name the driver has no room for; a disk
\* whose settings were saved is loaded, but for such a name, flags left of another
\* disk, or a LoadDevices that another saving could not read; one whose settings were
\* removed is not, but for values that were left.  This is so as long as EditsApart:
\* LoadDevices is read, and written later, with no lock (drvio.c:3198, 3234).
SettingsKept ==
    \A n \in Numbers : kept[n] # Unknown /\ ~Edited(n) =>
      LET told == IF kept[n] = NoDisk THEN None ELSE kept[n] IN
      /\ \A f \in Fields \ left[n] :
           \/ ReadSettings(n)[f] = told[f]
           \/ told[f] \in LongNames /\ ReadSettings(n)[f] = NoValue
      /\ \/ kept[n] = NoDisk \/ told["ImageFileName"] \in LongNames
         \/ "Flags" \in left[n] \/ n \in cut \/ n \in Loadable
      /\ kept[n] = NoDisk /\ left[n] = {} => n \notin Loadable
=============================================================================
