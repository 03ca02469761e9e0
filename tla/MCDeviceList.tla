---------------------------- MODULE MCDeviceList ----------------------------
(* Two disks, at most two numbers and one caller, for TLC: a disk that is being
   created beside one that is being used or deleted is the case that matters.  The
   disks and the callers may be exchanged; the symmetry is only used for invariants. *)
EXTENDS DeviceList, TLC

Symmetry == Permutations(Disk) \cup Permutations(Caller)
=============================================================================
