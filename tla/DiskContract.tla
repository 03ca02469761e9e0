---------------------------- MODULE DiskContract ----------------------------
(***************************************************************************)
(* What a virtual disk promises to its users, whatever its threads and     *)
(* events do: it can be opened until its removal is asked for, a request   *)
(* is answered exactly once, and the disk disappears only after its        *)
(* removal was asked for and the last user has gone.                       *)
(***************************************************************************)
CONSTANT Client

VARIABLES disk,   \* "present", "removing" or "gone"
          user    \* each client: "closed", "open" or "waiting" for an answer

contractVars == <<disk, user>>

TypeOK == /\ disk \in {"present", "removing", "gone"}
          /\ user \in [Client -> {"closed", "open", "waiting"}]

Init == disk = "present" /\ user = [c \in Client |-> "closed"]

Move(c, from, to) == user[c] = from /\ user' = [user EXCEPT ![c] = to]

\* Nobody gets a handle to a disk that is being removed.
Open(c) == disk = "present" /\ Move(c, "closed", "open") /\ UNCHANGED disk

Ask(c) == Move(c, "open", "waiting") /\ UNCHANGED disk

Answer(c) == Move(c, "waiting", "open") /\ UNCHANGED disk

\* A handle with an unanswered request stays.
Leave(c) == Move(c, "open", "closed") /\ UNCHANGED disk

Remove == disk = "present" /\ disk' = "removing" /\ UNCHANGED user

\* The disk outlives every handle.
Vanish ==
    /\ disk = "removing" /\ \A c \in Client : user[c] = "closed"
    /\ disk' = "gone" /\ UNCHANGED user

Next == \/ \E c \in Client : Open(c) \/ Ask(c) \/ Answer(c) \/ Leave(c)
        \/ Remove \/ Vanish

Spec == Init /\ [][Next]_contractVars
=============================================================================
