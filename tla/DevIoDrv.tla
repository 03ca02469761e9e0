------------------------------ MODULE DevIoDrv ------------------------------
(***************************************************************************)
(* One file of the device I/O driver: the table entry with its count of    *)
(* references (deviodrv/filetable.cpp), the dispatch routines              *)
(* (deviodrv/dispatch.cpp), and the forwarding of client requests to the   *)
(* server's exchange IRPs through a buffer that a memory IRP keeps locked  *)
(* (deviodrv/irpfwd.cpp), with the server of devio/devio.c.                *)
(*                                                                         *)
(* A step is what runs under one hold of FileTableListLock or of           *)
(* IrpListLock, or between two.  An exchange IRP and a memory IRP are named *)
(* by the server thread that sends them, a client IRP by its request.      *)
(* Completing an IRP twice makes "undefined" TRUE and the model stops.     *)
(***************************************************************************)
EXTENDS Naturals, Sequences, FiniteSets, SequencesExt

CONSTANTS Server,   \* the file object that creates the file
          Opener,   \* file objects that open it
          Wants,    \* bound: what each may be opened for
          Worker,   \* threads of the server
          Req,      \* bound: the client IRPs
          Write,    \* those that write
          Long,     \* those that do not fit the server's first buffer
          Addr,     \* bound: addresses for list entries
          None

ASSUME FileAssumption == Server \notin Opener /\ None \notin Opener \cup Req \cup Addr \cup {Server}
ASSUME OpenerAssumption == IsFiniteSet(Opener)
ASSUME WantsAssumption == Wants \in [Opener -> SUBSET {"attributes", "read", "write"}]
ASSUME KindAssumption == Write \subseteq Req /\ Long \subseteq Req

File == Opener \cup {Server}
IRP  == Worker \X {"exchange", "memory"}
X(w) == <<w, "exchange">>
M(w) == <<w, "memory">>

VARIABLES tableLock,   \* the holder of FileTableListLock
          exists,      \* the context is in FileTable
          RefCount, server, client,   \* its fields
          known,       \* FileSize has been set by an info request
          flags,       \* ServiceFlags
          handle,      \* where a file object is
          access,      \* what it was opened for
          refNumber,   \* ref_number in its open
          leaked,      \* references whose close gave up
          rpc, origin,                \* where a client IRP is, the file object it is for
          entry, result,              \* its list entry; the request its answer is about
          received, sent,             \* ClientReceivedIrpList, ClientSentIrpList
          xpc, mpc,                   \* where the two IRPs of a server thread are
          requests, memory,           \* ServerRequestIrpList, ServerMemoryIrpList
          target,                     \* the client IRP an exchange deals with
          buffer, large,              \* the shared buffer, and whether it has grown
          killed,                     \* the server process is being ended
          cancelled, armed, firing,   \* Irp->Cancel; cancel routine set; taken by IoCancelIrp
          undefined

table  == <<tableLock, exists, RefCount, client, handle, access, refNumber, leaked>>
info   == <<known, flags>>
reqs   == <<rpc, origin, entry, result, received, sent>>
irps   == <<xpc, mpc, requests, memory, target, buffer, large>>
cancel == <<killed, cancelled, armed, firing, undefined>>
vars   == <<table, server, info, reqs, irps, cancel>>

Code == {"null", "info", "request", "ok", "error", "bad", "close"}
NoMessage == [tag |-> None, code |-> "null", about |-> None]

TypeOK ==
    /\ tableLock \in File \cup {None} /\ exists \in BOOLEAN
    /\ RefCount \in 0 .. Cardinality(File)
    /\ server \in {Server, None} /\ client \in File \cup {None}
    /\ known \in BOOLEAN /\ flags \in SUBSET {"ro", "keep_open"}
    /\ handle \in [File -> {"none", "find", "check", "undo", "undoing", "open", "cancel",
                            "close", "closing", "gone"}]
    /\ access \in [File -> {"none", "attributes", "read", "write"}]
    /\ refNumber \in [File -> 0 .. Cardinality(File)]
    /\ leaked \in 0 .. Cardinality(Opener)
    /\ rpc \in [Req -> {"none", "lock", "received", "send", "sent", "answer", "done"}]
    /\ origin \in [Req -> File \cup {None}] /\ entry \in [Req -> Addr \cup {None}]
    /\ result \in [Req -> Req \cup {"none", "failed"}]
    /\ received \in Seq(Req) /\ sent \in Seq(Req)
    /\ xpc \in [Worker -> {"out", "ready", "serve", "grow", "stop", "reserve", "lookup",
                           "answer", "ask", "queued", "taken", "insert", "putback",
                           "deliver", "complete"}]
    /\ mpc \in [Worker -> {"none", "listed", "held"}]
    /\ requests \in Seq(Worker) /\ memory \in Seq(Worker)
    /\ target \in [Worker -> Req \cup {None}]
    /\ buffer \in [Worker -> [tag : Addr \cup {None}, code : Code, about : Req \cup {None}]]
    /\ large \in [Worker -> BOOLEAN]
    /\ cancelled \in SUBSET IRP /\ armed \in SUBSET IRP /\ firing \in SUBSET IRP
    /\ killed \in BOOLEAN /\ undefined \in BOOLEAN

Init ==
    /\ tableLock = None /\ exists = FALSE /\ RefCount = 0
    /\ server = None /\ client = None /\ known = FALSE /\ flags = {}
    /\ handle = [f \in File |-> "none"] /\ access = [f \in File |-> "none"]
    /\ refNumber = [f \in File |-> 0] /\ leaked = 0
    /\ rpc = [r \in Req |-> "none"] /\ origin = [r \in Req |-> None] /\ entry = [r \in Req |-> None]
    /\ result = [r \in Req |-> "none"]
    /\ received = <<>> /\ sent = <<>>
    /\ xpc = [w \in Worker |-> "out"] /\ mpc = [w \in Worker |-> "none"]
    /\ requests = <<>> /\ memory = <<>>
    /\ target = [w \in Worker |-> None]
    /\ buffer = [w \in Worker |-> NoMessage] /\ large = [w \in Worker |-> FALSE]
    /\ killed = FALSE /\ cancelled = {} /\ armed = {} /\ firing = {} /\ undefined = FALSE

-----------------------------------------------------------------------------
(* The table of files.  A busy table refuses; only the closing of a handle
   comes back, until it succeeds. *)

CreateFileTableEntry ==
    /\ handle[Server] = "none" /\ tableLock = None /\ ~exists
    /\ exists' = TRUE /\ RefCount' = 1 /\ server' = Server
    /\ handle' = [handle EXCEPT ![Server] = "open"]
    /\ access' = [access EXCEPT ![Server] = "write"]
    /\ UNCHANGED <<tableLock, client, refNumber, leaked, info, reqs, irps, cancel>>

LockTable(f, from, to) ==
    /\ handle[f] = from /\ tableLock = None /\ tableLock' = f
    /\ handle' = [handle EXCEPT ![f] = to]

OpenEnter(f, a) ==
    /\ f \in Opener /\ a \in Wants[f] /\ LockTable(f, "none", "find")
    /\ access' = [access EXCEPT ![f] = a]
    /\ UNCHANGED <<exists, RefCount, client, refNumber, leaked, server, info, reqs, irps, cancel>>

\* The second reference, whoever takes it, becomes the file's client.
TakeReference(f) ==
    /\ handle[f] = "find" /\ tableLock' = None
    /\ IF exists
       THEN /\ RefCount' = RefCount + 1
            /\ refNumber' = [refNumber EXCEPT ![f] = RefCount + 1]
            /\ client' = IF RefCount = 1 THEN f ELSE client
            /\ handle' = [handle EXCEPT ![f] = "check"]
            /\ UNCHANGED access
       ELSE /\ handle' = [handle EXCEPT ![f] = "gone"]
            /\ access' = [access EXCEPT ![f] = "none"]
            /\ UNCHANGED <<RefCount, refNumber, client>>
    /\ UNCHANGED <<exists, leaked, server, info, reqs, irps, cancel>>

MayOpen(f) ==
    /\ access[f] = "attributes" => known
    /\ access[f] # "attributes" => refNumber[f] = 2
    /\ access[f] = "write" => "ro" \notin flags

CheckOpen(f) ==
    /\ handle[f] = "check"
    /\ handle' = [handle EXCEPT ![f] = IF MayOpen(f) THEN "open" ELSE "undo"]
    /\ access' = [access EXCEPT ![f] = IF MayOpen(f) THEN @ ELSE "none"]
    /\ refNumber' = [refNumber EXCEPT ![f] = 0]
    /\ UNCHANGED <<tableLock, exists, RefCount, client, leaked, server, info,
                   reqs, irps, cancel>>

\* Mutant: A failed open forgets its reference.
UndoNothing(f) ==
    /\ handle[f] = "undo" /\ handle' = [handle EXCEPT ![f] = "gone"]
    /\ UNCHANGED <<tableLock, exists, RefCount, client, access, refNumber, leaked, server, info,
                   reqs, irps, cancel>>

\* A failed open gives its reference back, once: when the table is busy it stays.
UndoOpen(f) ==
    /\ \/ LockTable(f, "undo", "undoing") /\ UNCHANGED leaked
       \/ /\ handle[f] = "undo" /\ tableLock # None
          /\ handle' = [handle EXCEPT ![f] = "gone"]
          /\ leaked' = leaked + 1
          /\ UNCHANGED tableLock
    /\ UNCHANGED <<exists, RefCount, client, access, refNumber, server, info, reqs, irps, cancel>>

\* A file object is closed when its last IRP is completed.
Outstanding(w) == xpc[w] \in {"reserve", "lookup", "answer", "ask", "queued", "taken", "insert",
                              "putback", "deliver", "complete"}
Idle(f) == /\ f = Server => \A w \in Worker : ~Outstanding(w) /\ mpc[w] = "none"
           /\ \A r \in Req : origin[r] = f => rpc[r] = "done"

EnterClose(f) ==
    /\ Idle(f) /\ LockTable(f, "close", "closing")
    /\ UNCHANGED <<exists, RefCount, client, access, refNumber, leaked, server, info, reqs, irps,
                   cancel>>

CloseFileTableEntry(f) ==
    /\ handle[f] \in {"closing", "undoing"} /\ tableLock' = None
    /\ server' = IF f = server THEN None ELSE server
    /\ client' = IF f = client /\ f # server THEN None ELSE client
    /\ RefCount' = RefCount - 1
    /\ exists' = (RefCount # 1)
    /\ handle' = [handle EXCEPT ![f] = "gone"]
    /\ access' = [access EXCEPT ![f] = "none"]
    /\ UNCHANGED <<refNumber, leaked, info, reqs, irps, cancel>>

-----------------------------------------------------------------------------
(* The end of a handle, and DevIoDrvCancelAll. *)

Pending(i) == \E w \in Worker : \/ i = X(w) /\ Outstanding(w)
                                \/ i = M(w) /\ mpc[w] # "none"

\* The server closes its file when it stops; a process that is killed has its pending
\* IRPs cancelled before its handles are closed, and does not wait for them for ever.
MayClose ==
    \/ ~killed /\ \E w \in Worker : xpc[w] = "stop"
    \/ /\ killed /\ firing = {} /\ {i \in IRP : Pending(i)} \subseteq cancelled
       /\ \A w \in Worker : xpc[w] \notin {"reserve", "lookup", "answer", "ask"}

Cleanup(f) ==
    /\ handle[f] = "open" /\ (f = Server => MayClose)
    /\ IF f = server \/ ("keep_open" \notin flags /\ access[f] # "attributes")
       THEN server' = None /\ handle' = [handle EXCEPT ![f] = "cancel"]
       ELSE handle' = [handle EXCEPT ![f] = "close"] /\ UNCHANGED server
    /\ UNCHANGED <<tableLock, exists, RefCount, client, access, refNumber, leaked, info, reqs,
                   irps, cancel>>

InList(w, list) == \E i \in DOMAIN list : list[i] = w
Without(list, w) ==
    IF InList(w, list) THEN RemoveAt(list, CHOOSE i \in DOMAIN list : list[i] = w) ELSE list

\* Everything in the four lists is completed.  The return of IoSetCancelRoutine is not
\* looked at, so that an IRP whose cancel routine has been taken is completed as well.
CancelAll(f) ==
    /\ handle[f] = "cancel"
    /\ handle' = [handle EXCEPT ![f] = "close"]
    /\ received' = <<>> /\ sent' = <<>> /\ requests' = <<>> /\ memory' = <<>>
    /\ rpc' = [r \in Req |-> IF rpc[r] \in {"received", "sent"} THEN "done" ELSE rpc[r]]
    /\ result' = [r \in Req |-> IF rpc[r] \in {"received", "sent"} THEN "failed" ELSE result[r]]
    /\ entry' = [r \in Req |-> IF rpc[r] \in {"received", "sent"} THEN None ELSE entry[r]]
    /\ xpc' = [w \in Worker |-> IF InList(w, requests) THEN "serve" ELSE xpc[w]]
    /\ mpc' = [w \in Worker |-> IF InList(w, memory) THEN "none" ELSE mpc[w]]
    /\ buffer' = [w \in Worker |-> IF InList(w, memory)
                                   THEN [buffer[w] EXCEPT !.tag = None, !.code = "close"]
                                   ELSE buffer[w]]
    /\ armed' = {}
    /\ UNCHANGED <<tableLock, exists, RefCount, client, access, refNumber, leaked, server, info,
                   origin, target, large, killed, cancelled, firing, undefined>>

\* The process ends: its pending IRPs are cancelled before its handles are closed.
Kill ==
    /\ handle[Server] = "open" /\ ~killed /\ killed' = TRUE
    /\ UNCHANGED <<table, server, info, reqs, irps, cancelled, armed, firing, undefined>>

IoCancelIrp(i) ==
    /\ killed /\ i \notin cancelled /\ Pending(i)
    /\ cancelled' = cancelled \cup {i}
    /\ IF i \in armed THEN firing' = firing \cup {i} /\ armed' = armed \ {i}
                      ELSE UNCHANGED <<firing, armed>>
    /\ UNCHANGED <<table, server, info, reqs, irps, killed, undefined>>

\* The routine completes its IRP whether or not it found it in its list.
ServerIrpCancelRoutine(i) ==
    /\ i \in firing /\ firing' = firing \ {i}
    /\ undefined' = ~Pending(i)
    /\ IF i[2] = "exchange"
       THEN /\ requests' = Without(requests, i[1])
            /\ xpc' = [xpc EXCEPT ![i[1]] = "stop"]
            /\ UNCHANGED <<memory, mpc>>
       ELSE /\ memory' = Without(memory, i[1])
            /\ mpc' = [mpc EXCEPT ![i[1]] = "none"]
            /\ UNCHANGED <<requests, xpc>>
    /\ UNCHANGED <<table, server, info, reqs, target, buffer, large, killed, cancelled, armed>>

-----------------------------------------------------------------------------
(* A client's request. *)

\* The checks of the dispatch routines, made without a lock.
Issue(r, f) ==
    /\ rpc[r] = "none" /\ handle[f] = "open" /\ f # Server /\ access[f] # "attributes"
    /\ r \in Write => access[f] = "write"
    /\ origin' = [origin EXCEPT ![r] = f]
    /\ IF server = None \/ (r \in Write /\ "ro" \in flags) \/ client # f
       THEN /\ rpc' = [rpc EXCEPT ![r] = "done"]
            /\ result' = [result EXCEPT ![r] = "failed"]
            /\ UNCHANGED entry
       ELSE /\ rpc' = [rpc EXCEPT ![r] = "lock"]
            /\ \E a \in Addr \ Range(entry) : entry' = [entry EXCEPT ![r] = a]
            /\ UNCHANGED result
    /\ UNCHANGED <<received, sent, table, server, info, irps, cancel>>

\* A completed client IRP, whose list entry is freed.
Completing(r, about) ==
    /\ rpc' = [rpc EXCEPT ![r] = "done"]
    /\ result' = [result EXCEPT ![r] = about]
    /\ entry' = [entry EXCEPT ![r] = None]

\* The first request of the server that is not cancelled; those before it are dropped.
FirstWaiting(i) == /\ i \in DOMAIN requests /\ X(requests[i]) \notin cancelled
                   /\ \A j \in DOMAIN requests : j < i => X(requests[j]) \in cancelled

DispatchClientRequest(r) ==
    /\ rpc[r] = "lock"
    /\ \/ server = None /\ Completing(r, "failed") /\ UNCHANGED <<received, xpc, requests, target, armed>>
       \/ /\ server # None /\ \A i \in DOMAIN requests : X(requests[i]) \in cancelled
          /\ requests' = <<>>
          /\ received' = Append(received, r)
          /\ rpc' = [rpc EXCEPT ![r] = "received"]
          /\ UNCHANGED <<entry, result, xpc, target, armed>>
       \/ /\ server # None
          /\ \E i \in DOMAIN requests :
                LET w == requests[i]
                IN /\ FirstWaiting(i)
                   /\ requests' = SubSeq(requests, i + 1, Len(requests))
                   /\ xpc' = [xpc EXCEPT ![w] = "taken"]
                   /\ target' = [target EXCEPT ![w] = r]
                   /\ armed' = armed \ {X(w)}
          /\ rpc' = [rpc EXCEPT ![r] = "send"]
          /\ UNCHANGED <<entry, result, received>>
    /\ UNCHANGED <<origin, sent, mpc, memory, buffer, large, table, server, info, killed, cancelled,
                   firing, undefined>>

\* The memory IRP with the exchange's key, unless it is not there or cancelled.
Reservable(w) == InList(w, memory) /\ M(w) \notin cancelled
Reserve(w) ==
    /\ memory' = Without(memory, w)
    /\ mpc' = [mpc EXCEPT ![w] = "held"]

\* DevIoDrvSendClientRequestToServer up to the lists.
Fill(w, r) ==
    IF r \in Long /\ ~large[w]
    THEN /\ buffer' = [buffer EXCEPT ![w].tag = entry[r]]
         /\ xpc' = [xpc EXCEPT ![w] = "putback"]
    ELSE /\ buffer' = [buffer EXCEPT ![w] = [tag |-> entry[r], code |-> "request", about |-> r]]
         /\ xpc' = [xpc EXCEPT ![w] = "insert"]

SendFromClient(w) ==
    /\ xpc[w] = "taken"
    /\ IF Reservable(w)
       THEN /\ Reserve(w) /\ Fill(w, target[w])
            /\ armed' = armed \ {M(w)}
            /\ UNCHANGED <<rpc, result, entry>>
       ELSE /\ Completing(target[w], "failed")
            /\ xpc' = [xpc EXCEPT ![w] = "stop"]
            /\ UNCHANGED <<memory, mpc, buffer, armed>>
    /\ UNCHANGED <<origin, received, sent, requests, target, large, table, server, info, killed,
                   cancelled, firing, undefined>>

\* CancelAll may have emptied the lists since the request was taken.
InsertSent(w) ==
    /\ xpc[w] = "insert" /\ xpc' = [xpc EXCEPT ![w] = "deliver"]
    /\ sent' = Append(sent, target[w])
    /\ rpc' = [rpc EXCEPT ![target[w]] = "sent"]
    /\ UNCHANGED <<origin, entry, result, received, mpc, requests, memory, target, buffer, large,
                   table, server, info, cancel>>

\* Mutant: A request that is too long is answered to the server only.
PutBackDropped(w) ==
    /\ xpc[w] = "putback" /\ xpc' = [xpc EXCEPT ![w] = "grow"]
    /\ mpc' = [mpc EXCEPT ![w] = "none"]
    /\ UNCHANGED <<reqs, requests, memory, target, buffer, large, table, server, info, cancel>>

\* A request that is too long for the buffer goes back to the head of its list, and both
\* IRPs of the server are completed.
PutBack(w) ==
    /\ xpc[w] = "putback" /\ xpc' = [xpc EXCEPT ![w] = "grow"]
    /\ received' = <<target[w]>> \o received
    /\ rpc' = [rpc EXCEPT ![target[w]] = "received"]
    /\ mpc' = [mpc EXCEPT ![w] = "none"]
    /\ UNCHANGED <<origin, entry, result, sent, requests, memory, target, buffer, large, table,
                   server, info, cancel>>

QueueMemoryIrp(w) ==
    /\ memory' = Append(memory, w)
    /\ mpc' = [mpc EXCEPT ![w] = "listed"]

\* Mutant: CompleteIrpQueueItem completes the exchange first.
CompleteThenQueue(w) ==
    \/ /\ xpc[w] = "deliver" /\ xpc' = [xpc EXCEPT ![w] = "serve"]
       /\ UNCHANGED <<memory, mpc, armed>>
       /\ UNCHANGED <<reqs, requests, target, buffer, large, table, server, info, killed,
                      cancelled, firing, undefined>>
    \/ /\ xpc[w] # "deliver" /\ mpc[w] = "held" /\ xpc[w] \in {"serve", "ready", "reserve"}
       /\ QueueMemoryIrp(w) /\ armed' = armed \cup {M(w)} /\ UNCHANGED xpc
       /\ UNCHANGED <<reqs, requests, target, buffer, large, table, server, info, killed,
                      cancelled, firing, undefined>>

\* The memory IRP is back in its list before the exchange is completed.
Deliver(w) ==
    /\ xpc[w] = "deliver" /\ xpc' = [xpc EXCEPT ![w] = "complete"]
    /\ QueueMemoryIrp(w) /\ armed' = armed \cup {M(w)}
    /\ target' = [target EXCEPT ![w] = None]
    /\ UNCHANGED <<reqs, requests, buffer, large, table, server, info, killed, cancelled, firing,
                   undefined>>

CompleteExchange(w) ==
    /\ xpc[w] = "complete" /\ xpc' = [xpc EXCEPT ![w] = "serve"]
    /\ UNCHANGED <<reqs, mpc, requests, memory, target, buffer, large, table, server, info, cancel>>

-----------------------------------------------------------------------------
(* The server's requests. *)

\* A new, zeroed buffer, twice as large when it is not the first.
AllocDrvBuffer(w, first) ==
    /\ buffer' = [buffer EXCEPT ![w] = [NoMessage EXCEPT !.code = IF first THEN "info" ELSE "null"]]
    /\ large' = [large EXCEPT ![w] = ~first]

LockMemory(w, first) ==
    /\ ~killed /\ handle[Server] = "open" /\ server = Server /\ mpc[w] = "none"
    /\ xpc[w] = IF first THEN "out" ELSE "grow"
    /\ AllocDrvBuffer(w, first)
    /\ xpc' = [xpc EXCEPT ![w] = "ready"]
    /\ QueueMemoryIrp(w) /\ armed' = armed \cup {M(w)}
    /\ UNCHANGED <<reqs, requests, target, table, server, info, killed, cancelled, firing, undefined>>

\* A refused request makes the server end.
Refused(w) ==
    /\ ~killed /\ handle[Server] = "open" /\ server # Server
    /\ xpc[w] \in {"out", "ready", "grow"}
    /\ xpc' = [xpc EXCEPT ![w] = "stop"]
    /\ UNCHANGED <<reqs, mpc, requests, memory, target, buffer, large, table, server, info, cancel>>

Exchange(w) ==
    /\ ~killed /\ handle[Server] = "open" /\ xpc[w] = "ready" /\ server = Server
    /\ xpc' = [xpc EXCEPT ![w] = "reserve"]
    /\ UNCHANGED <<reqs, mpc, requests, memory, target, buffer, large, table, server, info, cancel>>

ReserveOwn(w) ==
    /\ xpc[w] = "reserve"
    /\ IF Reservable(w)
       THEN /\ Reserve(w) /\ armed' = armed \ {M(w)}
            /\ xpc' = [xpc EXCEPT ![w] = IF buffer[w].tag # None THEN "lookup" ELSE "ask"]
            /\ IF buffer[w].tag = None /\ buffer[w].code = "info"
               THEN known' = TRUE /\ flags' \in {{}, {"ro"}, {"keep_open"}}
               ELSE UNCHANGED info
       ELSE /\ xpc' = [xpc EXCEPT ![w] = "stop"]
            /\ UNCHANGED <<memory, mpc, armed, info>>
    /\ UNCHANGED <<reqs, requests, target, buffer, large, table, server, killed, cancelled, firing,
                   undefined>>

\* Mutant: The request found by its tag stays in ClientSentIrpList.
GetSentKeep(w) ==
    /\ xpc[w] = "lookup" /\ \E i \in DOMAIN sent : entry[sent[i]] = buffer[w].tag
    /\ LET r == CHOOSE r \in Range(sent) : entry[r] = buffer[w].tag
       IN /\ rpc' = [rpc EXCEPT ![r] = "answer"]
          /\ target' = [target EXCEPT ![w] = r]
          /\ xpc' = [xpc EXCEPT ![w] = "answer"]
    /\ UNCHANGED <<origin, entry, result, received, sent, mpc, requests, memory, buffer, large,
                   table, server, info, cancel>>

\* The tag is the address of a list entry in ClientSentIrpList.
GetSentClientRequest(w) ==
    /\ xpc[w] = "lookup"
    /\ IF \E i \in DOMAIN sent : entry[sent[i]] = buffer[w].tag
       THEN LET r == CHOOSE r \in Range(sent) : entry[r] = buffer[w].tag
            IN /\ sent' = Without(sent, r)
               /\ rpc' = [rpc EXCEPT ![r] = "answer"]
               /\ target' = [target EXCEPT ![w] = r]
               /\ xpc' = [xpc EXCEPT ![w] = "answer"]
       ELSE xpc' = [xpc EXCEPT ![w] = "stop"] /\ UNCHANGED <<sent, rpc, target>>
    /\ UNCHANGED <<origin, entry, result, received, mpc, requests, memory, buffer, large, table,
                   server, info, cancel>>

AnswerClient(w) ==
    /\ xpc[w] = "answer"
    /\ Completing(target[w], IF buffer[w].code = "ok" THEN buffer[w].about ELSE "failed")
    /\ xpc' = [xpc EXCEPT ![w] = IF buffer[w].code \in {"ok", "error"} THEN "ask" ELSE "stop"]
    /\ UNCHANGED <<origin, received, sent, mpc, requests, memory, target, buffer, large, table,
                   server, info, cancel>>

\* Where an exchange failed the memory IRP is queued again after its completion.
QueueMemoryLate(w) ==
    /\ xpc[w] = "stop" /\ mpc[w] = "held"
    /\ QueueMemoryIrp(w) /\ armed' = armed \cup {M(w)}
    /\ UNCHANGED <<reqs, xpc, requests, target, buffer, large, table, server, info, killed,
                   cancelled, firing, undefined>>

\* No request: both IRPs are queued, whatever became of the file or of them meanwhile.
Ask(w) ==
    /\ xpc[w] = "ask"
    /\ IF received = <<>>
       THEN /\ QueueMemoryIrp(w)
            /\ requests' = Append(requests, w)
            /\ armed' = armed \cup {X(w), M(w)}
            /\ xpc' = [xpc EXCEPT ![w] = "queued"]
            /\ UNCHANGED <<received, rpc, target, buffer>>
       ELSE /\ received' = Tail(received)
            /\ rpc' = [rpc EXCEPT ![Head(received)] = "send"]
            /\ target' = [target EXCEPT ![w] = Head(received)]
            /\ Fill(w, Head(received))
            /\ UNCHANGED <<memory, mpc, requests, armed>>
    /\ UNCHANGED <<origin, entry, result, sent, large, table, server, info, killed, cancelled,
                   firing, undefined>>

\* The server looks at what it was handed and writes its answer over it.
Serve(w) ==
    /\ ~killed /\ xpc[w] = "serve"
    /\ IF buffer[w].code = "request"
       THEN /\ \E c \in {"ok", "error", "bad"} : buffer' = [buffer EXCEPT ![w].code = c]
            /\ xpc' = [xpc EXCEPT ![w] = "ready"]
       ELSE xpc' = [xpc EXCEPT ![w] = "stop"] /\ UNCHANGED buffer
    /\ UNCHANGED <<reqs, mpc, requests, memory, target, large, table, server, info, cancel>>

-----------------------------------------------------------------------------
TableStep ==
    \/ CreateFileTableEntry
    \/ \E f \in File :
         \/ \E a \in {"attributes", "read", "write"} : OpenEnter(f, a)
         \/ TakeReference(f) \/ CheckOpen(f) \/ UndoOpen(f)
         \/ Cleanup(f) \/ CancelAll(f) \/ EnterClose(f) \/ CloseFileTableEntry(f)

CancelStep == Kill \/ \E i \in IRP : IoCancelIrp(i) \/ ServerIrpCancelRoutine(i)

ClientStep == \E r \in Req : DispatchClientRequest(r) \/ \E f \in Opener : Issue(r, f)

Forward(w) == \/ SendFromClient(w) \/ InsertSent(w) \/ PutBack(w) \/ Deliver(w)
              \/ CompleteExchange(w)
InKernel(w) == \/ ReserveOwn(w) \/ GetSentClientRequest(w) \/ AnswerClient(w) \/ Ask(w)
               \/ QueueMemoryLate(w)
InServer(w) == \/ \E first \in BOOLEAN : LockMemory(w, first)
               \/ Exchange(w) \/ Refused(w) \/ Serve(w)

Next ==
    /\ ~undefined
    /\ TableStep \/ CancelStep \/ ClientStep
       \/ \E w \in Worker : Forward(w) \/ InKernel(w) \/ InServer(w)

\* Threads inside the driver run on, so does a server that is not killed, and it closes
\* its file when it stops.  Nobody has to open, issue, close a client handle or kill.
\* All behaviours are finite, so that one condition does for each of these threads.
Scheduled ==
    /\ ~undefined
    /\ \/ \E w \in Worker : Forward(w) \/ InKernel(w) \/ InServer(w)
       \/ \E r \in Req : DispatchClientRequest(r)
       \/ \E i \in IRP : IoCancelIrp(i) \/ ServerIrpCancelRoutine(i)
       \/ Cleanup(Server)

Spec == Init /\ [][Next]_vars /\ WF_vars(Scheduled)

-----------------------------------------------------------------------------
Times(list, e) == Cardinality({i \in DOMAIN list : list[i] = e})
Handling(r) == {w \in Worker : target[w] = r /\ xpc[w] \in {"taken", "insert", "putback", "answer"}}

(* A client's IRP is in one of the lists or in the hands of one thread from its
   dispatch to its completion, and what it is completed with was made for it, although
   buffers and list addresses, which are the tags, serve one request after another. *)
OwnAnswer ==
    \A r \in Req :
      /\ Times(received, r) + Times(sent, r) + Cardinality(Handling(r)) =
           IF rpc[r] \in {"none", "lock", "done"} THEN 0 ELSE 1
      /\ result[r] \in {"none", "failed", r}

(* A connected server's exchange finds its locked memory: DevIoDrvCompleteIrpQueueItem
   has queued it before the server could come back. *)
BufferReady ==
    \A w \in Worker : xpc[w] = "reserve" /\ server = Server /\ M(w) \notin cancelled
                        => Reservable(w)

Attached(f) == handle[f] \in {"check", "undo", "undoing", "open", "cancel", "close", "closing"}
Connected(f) == f # Server /\ handle[f] = "open" /\ access[f] # "attributes"

(* The count of references is that of the file objects that have the context, and of
   those whose failed open could not give theirs back; the context is in the table just
   as long.  While the server is there one client at most is connected. *)
TableTruthful ==
    /\ RefCount = Cardinality({f \in File : Attached(f)}) + leaked
    /\ exists <=> RefCount > 0
    /\ server = Server => \A f, g \in File : Connected(f) /\ Connected(g) => f = g

(* While the server stays connected every request that the dispatch routine lets
   through is answered.  Of those that are under way when the server goes one may be
   left in a list that DevIoDrvCancelAll has already emptied (irpfwd.cpp:729), and
   waits until its sender gives up. *)
AnsweredWhileConnected ==
    \A r \in Req : (rpc[r] = "lock") ~> (rpc[r] = "done" \/ server = None \/ undefined)
=============================================================================
