------------------------------ MODULE ShmProxy ------------------------------
(***************************************************************************)
(* A disk whose image is behind a shared memory proxy: the driver's side   *)
(* (FscryptDiskCallProxy and its callers in sys/proxy.cpp, on the worker   *)
(* thread of the disk) and the server's side (devio/devio.c).              *)
(*                                                                         *)
(* The two share a header of three words, a buffer of Chunk cells behind   *)
(* it and two auto-reset events.  A request puts code, offset and length   *)
(* into the header, an answer puts error and length over the first two     *)
(* words.  Nothing in the header says which request an answer is for.      *)
(*                                                                         *)
(* The driver gives a request up when terminate_thread is set; the server  *)
(* is not told and goes on.  The server may also be killed at any time.    *)
(***************************************************************************)
EXTENDS Naturals, Sequences

CONSTANTS Size,    \* cells of the image
          Chunk,   \* cells of the shared buffer
          Value,   \* contents of a cell
          Payload  \* the values that are written

ASSUME SizeAssumption  == Size \in Nat \ {0} /\ Chunk \in Nat \ {0}
ASSUME ValueAssumption == Value # {} /\ Payload \subseteq Value

\* FSCRYPTDPROXY_REQ, and two values of errno: EIO of an image that fails, ENODEV
\* for any other request.
InfoReq   == 1
ReadReq   == 2
WriteReq  == 3
CloseReq  == 5
EIO       == 5
ENODEV    == 6

Cell   == 0 .. Size - 1
Blank  == CHOOSE v \in Value : TRUE   \* zero
Least(a, b) == IF a <= b THEN a ELSE b

VARIABLES terminate_thread,  \* the CancelEvent of every call but the first
          header,            \* Proxy->shared_memory: three words
          data,              \* the cells behind the header
          request_event,     \* auto-reset events, made by the server
          response_event,
          image,             \* the server's image
          worker,            \* where the driver's thread is
          irp,               \* its request: code, off, len and the word to write
          length_done,
          result,            \* the cells read so far
          server,            \* where the server is
          req_block,         \* its copy of the request header
          resp_block,        \* the answer it will give; both are locals of its handlers
          disk,              \* the image when the current IRP began
          unread,            \* cells of the IRP that the server answered without having read them
          abandoned          \* a call was given up while the server owed an answer

shared    == <<header, data, request_event, response_event>>
driver    == <<worker, irp, length_done, result>>
serverVars == <<server, req_block, resp_block>>
vars == <<terminate_thread, shared, image, driver, serverVars, disk, unread, abandoned>>

\* A write stores one value throughout its range.
Irp == {r \in [code : {ReadReq}, off : Cell, len : 1 .. Size, word : {Blank}]
              \cup [code : {WriteReq}, off : Cell, len : 1 .. Size, word : Payload] :
           r.off + r.len <= Size}
Query == [code |-> InfoReq, off |-> 0, len |-> 1, word |-> Blank]
NoIrp == [code |-> 0, off |-> 0, len |-> 0, word |-> Blank]

HeaderWord == 0 .. Size + ENODEV
Header     == HeaderWord \X HeaderWord \X HeaderWord

TypeOK ==
    /\ terminate_thread \in BOOLEAN /\ abandoned \in BOOLEAN
    /\ header \in Header /\ req_block \in Header
    /\ data \in [1 .. Chunk -> Value]
    /\ request_event \in BOOLEAN /\ response_event \in BOOLEAN
    /\ image \in [Cell -> Value] /\ disk \in [Cell -> Value] /\ unread \subseteq Cell
    /\ worker \in {"idle", "request", "signal", "wait", "response", "done",
                   "close", "closing", "closed"}
    /\ irp \in Irp \cup {Query, NoIrp}
    /\ length_done \in 0 .. Size
    /\ result \in UNION {[1 .. n -> Value] : n \in 0 .. Size}
    /\ server \in {"wait", "request", "transfer", "respond", "signal", "exited"}
    /\ resp_block \in Seq(HeaderWord)

\* The server waits for its first request and the driver, creating the disk, asks for
\* the size of the image.
Init ==
    /\ terminate_thread = FALSE /\ abandoned = FALSE
    /\ header = <<0, 0, 0>> /\ req_block = <<0, 0, 0>> /\ resp_block = <<>>
    /\ data = [i \in 1 .. Chunk |-> Blank]
    /\ request_event = FALSE /\ response_event = FALSE
    /\ image = [p \in Cell |-> Blank] /\ disk = image /\ unread = {}
    /\ worker = "request" /\ irp = Query
    /\ length_done = 0 /\ result = <<>>
    /\ server = "wait"

-----------------------------------------------------------------------------
(* The driver. *)

Goto(from, to) == worker = from /\ worker' = to

\* The worker takes an IRP; it does so as well after terminate_thread was set.
TakeIrp(r) ==
    /\ Goto("idle", "request")
    /\ irp' = r
    /\ disk' = IF abandoned THEN disk ELSE image
    /\ UNCHANGED <<terminate_thread, shared, image, length_done, result, serverVars,
                   unread, abandoned>>

\* What the next call asks for: at most what the shared buffer holds.
ToDo == Least(irp.len - length_done, Chunk)
Fill(n) == [i \in 1 .. Chunk |-> IF i <= n THEN irp.word ELSE data[i]]

RequestHeader(off, len) ==
    /\ Goto("request", "signal")
    /\ header' = IF irp.code = InfoReq THEN <<InfoReq, header[2], header[3]>>
                 ELSE <<irp.code, off, len>>
    /\ data' = IF irp.code = WriteReq THEN Fill(ToDo) ELSE data
    /\ UNCHANGED <<terminate_thread, request_event, response_event, image, irp,
                   length_done, result, serverVars, disk, unread, abandoned>>

\* Mutant: every call asks for the start of the range.
SendSameOffset == RequestHeader(irp.off, ToDo)

SendRequest == RequestHeader(irp.off + length_done, ToDo)

SetRequestEvent ==
    /\ Goto("signal", "wait")
    /\ request_event' = TRUE
    /\ UNCHANGED <<terminate_thread, header, data, response_event, image, irp,
                   length_done, result, serverVars, disk, unread, abandoned>>

\* Mutant: an event that stays set.
WaitManualReset ==
    /\ response_event
    /\ Goto("wait", "response")
    /\ UNCHANGED <<terminate_thread, shared, image, irp, length_done, result,
                   serverVars, disk, unread, abandoned>>

\* KeWaitForMultipleObjects(response_event, CancelEvent, WaitAny): with both set the
\* first one is taken.
WaitResponse ==
    /\ response_event /\ response_event' = FALSE
    /\ Goto("wait", "response")
    /\ UNCHANGED <<terminate_thread, header, data, request_event, image, irp,
                   length_done, result, serverVars, disk, unread, abandoned>>

\* A failed call fails the IRP, and the disk with it.
Fail ==
    /\ worker' = IF irp.code = InfoReq THEN "close" ELSE "idle"
    /\ irp' = NoIrp /\ length_done' = 0 /\ result' = <<>> /\ unread' = {}
    /\ terminate_thread' = TRUE

\* Mutant: the wait looks at the response only.
WaitUntilAnswered == FALSE /\ UNCHANGED vars

WaitCancelled ==
    /\ worker = "wait" /\ irp.code # InfoReq
    /\ terminate_thread /\ ~response_event
    /\ Fail
    /\ abandoned' = TRUE
    /\ disk' = [p \in Cell |-> Blank]
    /\ UNCHANGED <<shared, image, serverVars>>

Advance(n, cells) ==
    /\ length_done' = length_done + n
    /\ result' = result \o cells
    /\ UNCHANGED <<terminate_thread, irp, unread>>

\* The answer to a read may be short; an empty one ends the loop.
ReadAnswer(error, n) ==
    IF n > ToDo \/ error # 0 THEN Fail
    ELSE /\ Advance(n, SubSeq(data, 1, n))
         /\ worker' = IF n = 0 \/ length_done + n >= irp.len THEN "done" ELSE "request"

WriteAnswer(error, n) ==
    IF error # 0 \/ n # ToDo THEN Fail
    ELSE /\ Advance(n, <<>>)
         /\ worker' = IF length_done + n >= irp.len THEN "done" ELSE "request"

\* The size is word 1, the alignment word 2; an alignment of 0 is not supported.
InfoAnswer(alignment) ==
    IF alignment = 0 THEN Fail ELSE Advance(0, <<>>) /\ worker' = "done"

Answer(read, write, info) ==
    /\ worker = "response"
    /\ \/ irp.code = ReadReq /\ read
       \/ irp.code = WriteReq /\ write
       \/ irp.code = InfoReq /\ info
    /\ UNCHANGED <<shared, image, serverVars, disk, abandoned>>

ReadResponse ==
    Answer(ReadAnswer(header[1], header[2]), WriteAnswer(header[1], header[2]),
           InfoAnswer(header[2]))

CompleteIrp ==
    /\ Goto("done", "idle")
    /\ irp' = NoIrp /\ length_done' = 0 /\ result' = <<>> /\ unread' = {}
    /\ UNCHANGED <<terminate_thread, shared, image, serverVars, disk, abandoned>>

\* Somebody removes the disk.
RemoveVirtualDisk ==
    /\ ~terminate_thread /\ terminate_thread' = TRUE
    /\ UNCHANGED <<shared, image, driver, serverVars, disk, unread, abandoned>>

\* The teardown, once no IRP is left: first the request code, then the event.
TearDown ==
    /\ terminate_thread /\ Goto("idle", "close")
    /\ UNCHANGED <<terminate_thread, shared, image, irp, length_done, result, serverVars,
                   disk, unread, abandoned>>

WriteClose ==
    /\ Goto("close", "closing")
    /\ header' = <<CloseReq, header[2], header[3]>>
    /\ UNCHANGED <<terminate_thread, data, request_event, response_event, image, irp,
                   length_done, result, serverVars, disk, unread, abandoned>>

\* Mutant: nobody wakes the server.
CloseUnsignalled ==
    /\ Goto("closing", "closed")
    /\ UNCHANGED <<terminate_thread, shared, image, irp, length_done, result, serverVars,
                   disk, unread, abandoned>>

SignalClose ==
    /\ Goto("closing", "closed")
    /\ request_event' = TRUE
    /\ UNCHANGED <<terminate_thread, header, data, response_event, image, irp,
                   length_done, result, serverVars, disk, unread, abandoned>>

-----------------------------------------------------------------------------
(* The server: the request loop of do_comm with the shared memory calls. *)

At(from, to) == server = from /\ server' = to

ServerWait ==
    /\ request_event /\ request_event' = FALSE
    /\ At("wait", "request")
    /\ UNCHANGED <<terminate_thread, header, data, response_event, image, driver, req_block,
                   resp_block, disk, unread, abandoned>>

\* The request is copied.  A write that the buffer does not hold ends the server.
ServerRequest ==
    LET code == header[1]
    IN /\ At("request",
             IF code = CloseReq \/ (code = WriteReq /\ header[3] > Chunk) THEN "exited"
             ELSE IF code \in {ReadReq, WriteReq} THEN "transfer" ELSE "respond")
       /\ req_block' = header
       /\ resp_block' = IF code = InfoReq THEN <<Size, 1, 0>>
                        ELSE IF server' = "respond" THEN <<ENODEV>> ELSE <<>>
       /\ UNCHANGED <<terminate_thread, shared, image, driver, disk, unread, abandoned>>

Asked == Least(req_block[3], Chunk)
Target(n) == req_block[2] .. req_block[2] + n - 1

\* A read fills the buffer, which was cleared first.  A short read is logged and answered
\* as a whole one, with zeros for the cells that were not got.
ServerRead ==
    /\ At("transfer", "respond") /\ req_block[1] = ReadReq
    /\ \E got \in SUBSET (Target(Asked) \cap Cell), error \in {0, EIO} :
          /\ data' = [i \in 1 .. Chunk |->
                IF i > Asked THEN data[i]
                ELSE IF req_block[2] + i - 1 \in got THEN image[req_block[2] + i - 1]
                ELSE Blank]
          /\ resp_block' = <<error, IF error = 0 THEN Asked ELSE 0>>
          /\ unread' = IF abandoned THEN {}
                       ELSE (unread \cup (Target(Asked) \cap Cell)) \ got
    /\ UNCHANGED <<terminate_thread, header, request_event, response_event, image, driver,
                   req_block, disk, abandoned>>

\* A write stores what the buffer holds now: all of it, or the first n cells, which is a
\* short write or an error.
ServerWrite ==
    /\ At("transfer", "respond") /\ req_block[1] = WriteReq
    /\ \E n \in 0 .. Asked :
          /\ image' = [p \in Cell |->
                IF p \in Target(n) THEN data[p - req_block[2] + 1] ELSE image[p]]
          /\ resp_block' \in {<<0, n>>} \cup IF n < Asked THEN {<<EIO, 0>>} ELSE {}
    /\ UNCHANGED <<terminate_thread, shared, driver, req_block, disk, unread, abandoned>>

ServerRespond ==
    /\ At("respond", "signal")
    /\ header' = [i \in 1 .. 3 |-> IF i \in DOMAIN resp_block THEN resp_block[i] ELSE header[i]]
    /\ UNCHANGED <<terminate_thread, data, request_event, response_event, image, driver,
                   req_block, resp_block, disk, unread, abandoned>>

ServerSignal ==
    /\ At("signal", "wait")
    /\ response_event' = TRUE
    /\ req_block' = <<0, 0, 0>> /\ resp_block' = <<>>
    /\ UNCHANGED <<terminate_thread, header, data, request_event, image, driver, disk,
                   unread, abandoned>>

ServerKilled ==
    /\ server # "exited" /\ server' = "exited"
    /\ req_block' = <<0, 0, 0>> /\ resp_block' = <<>>
    /\ UNCHANGED <<terminate_thread, shared, image, driver, disk, unread, abandoned>>

-----------------------------------------------------------------------------
DriverStep ==
    \/ SendRequest \/ SetRequestEvent \/ WaitResponse \/ WaitCancelled
    \/ ReadResponse \/ CompleteIrp
    \/ WriteClose \/ SignalClose

ServerStep ==
    \/ ServerWait \/ ServerRequest \/ ServerRead \/ ServerWrite
    \/ ServerRespond \/ ServerSignal

Next ==
    \/ DriverStep \/ ServerStep
    \/ \E r \in Irp : TakeIrp(r)
    \/ TearDown \/ RemoveVirtualDisk \/ ServerKilled

\* Both threads run when they can; nobody has to send IRPs, to remove the disk or to
\* kill the server.
Spec == Init /\ [][Next]_vars /\ WF_vars(DriverStep) /\ WF_vars(ServerStep)

-----------------------------------------------------------------------------
(* Properties. *)

\* The two sides take turns with the shared memory, which no lock protects: while the
\* driver writes a request or reads an answer the server waits, and never are both
\* events set.  This ends when a call was given up.
TurnTaking ==
    ~abandoned =>
        /\ worker \notin {"wait", "closed"} =>
              server \in {"wait", "exited"} /\ ~request_event /\ ~response_event
        /\ ~(request_event /\ response_event)

\* What the server answers for a cell: zero when it could not read it.
Told(p) == IF p \in unread THEN Blank ELSE image[p]

\* A read that succeeds returned what the image holds, all of it, however many calls it
\* took, until a call was given up; only where the server's own reading was cut short, and
\* nowhere else, there are zeros.
ReadsMatch ==
    worker = "done" /\ irp.code = ReadReq /\ ~abandoned =>
        result = [i \in 1 .. irp.len |-> Told(irp.off + i - 1)]

\* A write changes its range only, and one that succeeds has changed all of it, until a
\* call was given up: a short write by the server is not a success.
WritesContained ==
    ~abandoned /\ worker \in {"request", "signal", "wait", "response", "done"} =>
        \A p \in Cell :
            LET inRange == irp.code = WriteReq /\ p \in irp.off .. irp.off + irp.len - 1
            IN IF worker = "done" /\ inRange THEN image[p] = irp.word
               ELSE image[p] = disk[p] \/ (inRange /\ image[p] = irp.word)

\* Whatever answer is in the header, that of another request included, the driver never
\* copies more than the caller's buffer holds.
NoOverrun ==
    /\ length_done <= irp.len
    /\ irp.code = ReadReq => Len(result) = length_done

\* A transfer is whole and stays within its range, in the image and in the caller's
\* buffer, through any number of calls, short answers and refusals; what a short read of
\* the server left out is zero.
TransfersWhole == ReadsMatch /\ WritesContained /\ NoOverrun

\* The driver does not wait forever for a server that runs, nor after the removal.
CallEnds ==
    /\ worker = "wait" ~> (worker # "wait" \/ server = "exited")
    /\ (worker = "wait" /\ terminate_thread /\ irp.code # InfoReq) ~> worker # "wait"

\* The teardown of the disk ends the server, unless a call was given up.
CloseReachesServer == (worker = "closed" /\ ~abandoned) ~> server = "exited"
=============================================================================
