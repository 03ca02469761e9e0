----------------------------- MODULE MCDevIoDrv -----------------------------
(* One thread of the server, as devio has it; one client that writes, and one opener
   that comes for the attributes or as a second client; two requests of which one
   writes and one is too long for the first buffer.  The address of the first request's
   list entry can be that of the second's. *)
EXTENDS DevIoDrv, TLC

CONSTANTS c1, c2
MCWants == c1 :> {"write"} @@ c2 :> {"attributes", "read"}
=============================================================================
