---------------------------- MODULE StreamProxy ----------------------------
(***************************************************************************)
(* A disk whose image is behind a stream: a TCP connection or a serial     *)
(* line to a server.  The driver asks the helper service for the           *)
(* connection (sys/proxy.cpp, svc/fscryptdsksvc.cpp): the service makes    *)
(* it, has the driver reference its file object (sys/iodisp.cpp), tells    *)
(* the driver the object's address and keeps its handle for as long as     *)
(* the driver keeps the pipe.  From then on driver and server              *)
(* (devio/devio.c or DevioNet's DevioTcpService.vb) talk over the stream,  *)
(* where nothing but the lengths in the headers says where a request or    *)
(* an answer ends.                                                         *)
(*                                                                         *)
(* A stream is a sequence of words; a write or a read moves any number of  *)
(* them (sys/commonio.cpp) and may fail at each for want of memory.  The   *)
(* disk may be removed, and the server or the service end, at any time.    *)
(***************************************************************************)
EXTENDS Naturals, Sequences

CONSTANTS Size,        \* cells of the image
          Payload,     \* the values that are written
          BufferSize   \* cells in devio's buffer when it starts

ASSUME SizeAssumption ==
    Size \in Nat \ {0} /\ BufferSize \in Nat \ {0} /\ Payload \subseteq Nat \ {0}

\* FSCRYPTDPROXY_REQ, and values of errno for a failed transfer and an unknown request.
InfoReq  == 1
ReadReq  == 2
WriteReq == 3
CloseReq == 5
EIO      == 5
ENODEV   == 6

Cell == 0 .. Size - 1
Least(a, b) == IF a <= b THEN a ELSE b

VARIABLES terminate_thread,
          pipe,         \* the driver's handle to the service: "none", "open", "closed"
          asked,        \* the connect request is in the pipe
          answer,       \* the answer in the pipe: "none", "ok" or "refused"
          device,       \* Proxy->device: "none", "pipe" or "target"
          objects,      \* the connection's file object is in ReferencedObjects
          session,      \* where the service's thread is
          hTarget,      \* the service's handle of the connection is open
          link,         \* the connection: "none", "open" or "cut"
          up, down,     \* words on their way to the server and back
          worker,       \* where the driver's thread is
          irp,          \* its request
          out,          \* words of the call that are still to be written
          in,           \* words of the answer read so far
          length_done,
          result,       \* cells read for the request
          kind,         \* "devio" or "net"
          server, req_block,
          buf,          \* the words of a write
          buffer_size,  \* of devio: it grows for reads
          image,
          disk,         \* the image when the request began
          unread        \* cells of the request that devio answered without having read them

connecting == <<pipe, asked, answer, device, objects, session, hTarget>>
stream     == <<link, up, down>>
driver     == <<worker, irp, out, in, length_done, result>>
serverVars == <<kind, server, req_block, buf, buffer_size>>
vars == <<terminate_thread, connecting, stream, driver, serverVars, image, disk, unread>>

Irp == {r \in [code : {ReadReq}, off : Cell, len : 1 .. Size, word : {0}]
              \cup [code : {WriteReq}, off : Cell, len : 1 .. Size, word : Payload] :
           r.off + r.len <= Size}
Query == [code |-> InfoReq, off |-> 0, len |-> 0, word |-> 0]
NoIrp == [code |-> 0, off |-> 0, len |-> 0, word |-> 0]

TypeOK ==
    /\ terminate_thread \in BOOLEAN /\ asked \in BOOLEAN /\ objects \in BOOLEAN
    /\ pipe \in {"none", "open", "closed"} /\ answer \in {"none", "ok", "refused"}
    /\ device \in {"none", "pipe", "target"}
    /\ session \in {"accept", "reference", "answer", "relay", "exited"} /\ hTarget \in BOOLEAN
    /\ link \in {"none", "open", "cut"} /\ up \in Seq(Nat) /\ down \in Seq(Nat)
    /\ worker \in {"open", "connect", "answer", "claim", "send", "header", "data", "check",
                    "done", "idle", "close", "gone"}
    /\ irp \in Irp \cup {Query, NoIrp} /\ out \in Seq(Nat) /\ in \in Seq(Nat)
    /\ length_done \in 0 .. Size /\ result \in Seq(Nat)
    /\ kind \in {"devio", "net"} /\ req_block \in Seq(Nat) /\ buf \in Seq(Nat)
    /\ server \in {"listen", "code", "rest", "payload", "transfer", "answer", "exited"}
    /\ buffer_size \in BufferSize .. BufferSize + Size
    /\ image \in [Cell -> Nat] /\ disk \in [Cell -> Nat] /\ unread \subseteq Cell

\* A disk is about to be created; a server of either kind listens.
Init ==
    /\ terminate_thread = FALSE
    /\ pipe = "none" /\ asked = FALSE /\ answer = "none" /\ device = "none"
    /\ objects = FALSE /\ session = "accept" /\ hTarget = FALSE
    /\ link = "none" /\ up = <<>> /\ down = <<>>
    /\ worker = "open" /\ irp = NoIrp /\ out = <<>> /\ in = <<>>
    /\ length_done = 0 /\ result = <<>>
    /\ kind \in {"devio", "net"} /\ server = "listen" /\ req_block = <<>> /\ buf = <<>>
    /\ buffer_size = BufferSize
    /\ image = [p \in Cell |-> 0] /\ disk = image /\ unread = {}

-----------------------------------------------------------------------------
(* The connection: the driver.                                             *)

Goto(from, to) == worker = from /\ worker' = to

\* The pipe of the service is opened, and its file object referenced.
OpenPipe ==
    /\ IF session = "accept"
       THEN /\ Goto("open", "connect")
            /\ pipe' = "open" /\ device' = "pipe"
       ELSE Goto("open", "gone") /\ UNCHANGED <<pipe, device>>
    /\ UNCHANGED <<terminate_thread, asked, answer, objects, session, hTarget, stream,
                   irp, out, in, length_done, result, serverVars, image, disk, unread>>

\* A creation that fails closes what it has: the reference, then the handle.
GiveUp == worker' = "close"

SendConnect ==
    /\ worker = "connect"
    /\ \/ session = "accept" /\ worker' = "answer" /\ asked' = TRUE
       \/ GiveUp /\ UNCHANGED asked
    /\ UNCHANGED <<terminate_thread, pipe, answer, device, objects, session, hTarget, stream,
                   irp, out, in, length_done, result, serverVars, image, disk, unread>>

\* An answer, or the end of the pipe when the service has gone.  One that refuses ends
\* the creation.
ReadConnect ==
    /\ worker = "answer"
    /\ \/ answer = "ok" /\ worker' = "claim"
       \/ (answer # "none" \/ session = "exited") /\ GiveUp
    /\ UNCHANGED <<terminate_thread, connecting, stream, irp, out, in, length_done, result,
                   serverVars, image, disk, unread>>

\* IOCTL_FSCRYPTDISK_GET_REFERENCED_HANDLE: the object must be in the list, and leaves it.
GetReferencedHandle == objects /\ objects' = FALSE

\* It takes the place of the pipe, whose handle stays open.
Claim ==
    /\ worker = "claim"
    /\ \/ /\ GetReferencedHandle
          /\ device' = "target"
          /\ worker' = "send" /\ irp' = Query /\ out' = <<InfoReq>>
       \/ GiveUp /\ UNCHANGED <<objects, device, irp, out>>
    /\ UNCHANGED <<terminate_thread, pipe, asked, answer, session, hTarget, stream, in,
                   length_done, result, serverVars, image, disk, unread>>

\* The creation failed or the disk is torn down.
CloseProxy ==
    /\ Goto("close", "gone")
    /\ device' = "none" /\ pipe' = "closed"
    /\ UNCHANGED <<terminate_thread, asked, answer, objects, session, hTarget, stream, irp,
                   out, in, length_done, result, serverVars, image, disk, unread>>

-----------------------------------------------------------------------------
(* The connection: the service.                                            *)

Session(from, to) == session = from /\ session' = to

\* The session takes the request and connects, or finds that it cannot.  A request that
\* does not come in whole ends it.
Connect ==
    /\ session = "accept"
    /\ \/ /\ asked /\ asked' = FALSE
          /\ \/ /\ server = "listen" /\ server' = "code"
                /\ session' = "reference" /\ hTarget' = TRUE /\ link' = "open"
                /\ UNCHANGED answer
             \/ /\ session' = "exited" /\ answer' = "refused"
                /\ UNCHANGED <<server, hTarget, link>>
       \/ /\ pipe = "closed" /\ ~asked
          /\ session' = "exited"
          /\ UNCHANGED <<asked, answer, server, hTarget, link>>
    /\ UNCHANGED <<terminate_thread, pipe, device, objects, up, down, driver, kind,
                   req_block, buf, buffer_size, image, disk, unread>>

\* IOCTL_FSCRYPTDISK_REFERENCE_HANDLE, through the control device, which may not open.
ReferenceHandle ==
    /\ session = "reference"
    /\ \/ /\ session' = "answer" /\ objects' = TRUE
          /\ UNCHANGED <<answer, hTarget, link>>
       \/ /\ session' = "exited" /\ answer' = "refused"
          /\ hTarget' = FALSE /\ link' = "cut"
          /\ UNCHANGED objects
    /\ UNCHANGED <<terminate_thread, pipe, asked, device, up, down, driver, serverVars,
                   image, disk, unread>>

SendAnswer ==
    /\ Session("answer", "relay")
    /\ answer' = "ok"
    /\ UNCHANGED <<terminate_thread, pipe, asked, device, objects, hTarget, stream, driver,
                   serverVars, image, disk, unread>>

\* Mutant: the handle is forgotten.
CleanUpNothing ==
    /\ Session("relay", "exited") /\ pipe = "closed"
    /\ UNCHANGED <<terminate_thread, pipe, asked, answer, device, objects, hTarget, stream,
                   driver, serverVars, image, disk, unread>>

\* The pipe is read for its end; then the connection's last handle is closed, and the
\* connection with it, whoever still references the object.
CleanUp ==
    /\ Session("relay", "exited") /\ pipe = "closed"
    /\ hTarget' = FALSE /\ link' = "cut"
    /\ UNCHANGED <<terminate_thread, pipe, asked, answer, device, objects, up, down, driver,
                   serverVars, image, disk, unread>>

\* The service is stopped: its process ends, and its handles are closed.
ServiceStops ==
    /\ session # "exited" /\ session' = "exited"
    /\ hTarget' = FALSE /\ link' = IF hTarget THEN "cut" ELSE link
    /\ UNCHANGED <<terminate_thread, pipe, asked, answer, device, objects, up, down, driver,
                   serverVars, image, disk, unread>>

-----------------------------------------------------------------------------
(* The requests: the driver.                                               *)

\* A call writes its code, offset and length, and the data of a write.
CallWords(r, done) ==
    <<r.code, r.off + done, r.len - done>>
    \o IF r.code = WriteReq THEN [i \in 1 .. r.len |-> r.word] ELSE <<>>

\* The worker takes an IRP.  After terminate_thread was set it still does, but the call
\* ends before anything is written.
TakeIrp(r) ==
    /\ ~terminate_thread
    /\ Goto("idle", "send")
    /\ irp' = r /\ out' = CallWords(r, 0)
    /\ disk' = image
    /\ UNCHANGED <<terminate_thread, connecting, stream, in, length_done, result, serverVars,
                   image, unread>>

\* A call that fails fails the IRP, and the disk with it (STATUS_DEVICE_DOES_NOT_EXIST);
\* while the disk is being created it ends the creation.
EndCall ==
    /\ worker' = IF irp.code = InfoReq THEN "close" ELSE "idle"
    /\ irp' = NoIrp /\ out' = <<>> /\ in' = <<>> /\ length_done' = 0 /\ result' = <<>>
    /\ unread' = {}

\* Mutant: the request fails, the disk stays.
FailIrpOnly == EndCall /\ UNCHANGED terminate_thread

Fail == EndCall /\ terminate_thread' = TRUE

\* What ends a transfer: the connection is gone, or the disk is removed (there is no
\* cancel event yet while it is created).  What was moved before has been moved.
Broken == link = "cut" \/ (terminate_thread /\ irp.code # InfoReq)

\* FscryptDiskSafeIOStream: some words are written, ...
Send ==
    /\ worker = "send"
    /\ \/ /\ link = "open"
          /\ \E n \in 1 .. Len(out) :
                /\ up' = up \o SubSeq(out, 1, n)
                /\ out' = SubSeq(out, n + 1, Len(out))
          /\ worker' = IF out' = <<>> THEN "header" ELSE "send"
          /\ UNCHANGED <<terminate_thread, irp, in, length_done, result, unread>>
       \/ Broken /\ Fail /\ UNCHANGED up
    /\ UNCHANGED <<connecting, link, down, serverVars, image, disk>>

\* ... or read, of those that are there; ...
ReadWords(limit, then) ==
    \E n \in 1 .. Least(limit, Len(down)) :
       /\ in' = in \o SubSeq(down, 1, n)
       /\ down' = SubSeq(down, n + 1, Len(down))
       /\ worker' = IF n = limit THEN then ELSE worker
       /\ UNCHANGED <<terminate_thread, irp, out, length_done, result, unread>>

\* ... or there is no memory for the next part of a transfer.
OutOfMemory ==
    /\ worker \in {"send", "header", "data"}
    /\ Fail
    /\ UNCHANGED <<connecting, stream, serverVars, image, disk>>

\* The header of an answer, and the data whose length it gives.  More data than was asked
\* for is an error of the device.
HeaderSize == IF irp.code = InfoReq THEN 3 ELSE 2
ToDo       == irp.len - length_done
DataSize   == IF irp.code = ReadReq THEN in[2] ELSE 0

ReadHeader ==
    /\ worker = "header"
    /\ \/ ReadWords(HeaderSize - Len(in), "data")
       \/ Broken /\ Fail /\ UNCHANGED down
    /\ UNCHANGED <<connecting, link, up, serverVars, image, disk>>

ReadData ==
    /\ worker = "data"
    /\ \/ /\ 0 < DataSize /\ DataSize <= ToDo
          /\ ReadWords(2 + DataSize - Len(in), "check")
       \/ /\ DataSize = 0
          /\ worker' = "check"
          /\ UNCHANGED <<terminate_thread, irp, out, in, down, length_done, result,
                          unread>>
       \/ /\ DataSize > ToDo \/ (DataSize > 0 /\ Broken)
          /\ Fail
          /\ UNCHANGED down
    /\ UNCHANGED <<connecting, link, up, serverVars, image, disk>>

\* The callers: a read may be short and is then continued, an empty one ends it; ...
Continue(n, cells) ==
    /\ length_done' = length_done + n
    /\ result' = result \o cells
    /\ in' = <<>>
    /\ LET more == irp.code = ReadReq /\ 0 < n /\ n < ToDo
       IN /\ worker' = IF more THEN "send" ELSE "done"
          /\ out' = IF more THEN CallWords(irp, length_done + n) ELSE <<>>
    /\ UNCHANGED <<terminate_thread, irp, unread>>

\* Mutant: a short write counts as done.
RefusedError == in[1] # 0 /\ irp.code # InfoReq

\* ... a write must be whole; an alignment of 0 is not supported.
Refused ==
    \/ irp.code = InfoReq /\ in[2] = 0
    \/ irp.code # InfoReq /\ in[1] # 0
    \/ irp.code = WriteReq /\ in[2] # irp.len

\* A read that is to be continued finds out first that the disk is being removed.
CheckAnswer ==
    /\ worker = "check"
    /\ IF Refused \/ (irp.code = ReadReq /\ terminate_thread /\ 0 < in[2] /\ in[2] < ToDo)
       THEN Fail
       ELSE IF irp.code = ReadReq THEN Continue(in[2], SubSeq(in, 3, Len(in)))
       ELSE Continue(irp.len, <<>>)
    /\ UNCHANGED <<connecting, stream, serverVars, image, disk>>

CompleteIrp ==
    /\ Goto("done", "idle")
    /\ irp' = NoIrp /\ length_done' = 0 /\ result' = <<>> /\ unread' = {}
    /\ UNCHANGED <<terminate_thread, connecting, stream, out, in, serverVars, image, disk>>

\* Somebody removes the disk; the worker tears it down once no IRP is left.
RemoveVirtualDisk ==
    /\ device = "target" /\ irp.code # InfoReq
    /\ ~terminate_thread /\ terminate_thread' = TRUE
    /\ UNCHANGED <<connecting, stream, driver, serverVars, image, disk, unread>>

TearDown ==
    /\ terminate_thread /\ Goto("idle", "close")
    /\ UNCHANGED <<terminate_thread, connecting, stream, irp, out, in, length_done, result,
                   serverVars, image, disk, unread>>

-----------------------------------------------------------------------------
(* The requests: the server.                                               *)

At(from, to) == server = from /\ server' = to

\* The server has what it needs of the stream, or the stream has ended short of it.
Takes(n) ==
    /\ Len(up) >= n
    /\ up' = SubSeq(up, n + 1, Len(up))

Ended(n) == link = "cut" /\ Len(up) < n

EndOfStream ==
    /\ \/ server = "code" /\ Ended(1)
       \/ server = "rest" /\ Ended(2)
       \/ server = "payload" /\ Ended(IF kind = "devio" THEN req_block[3] ELSE 1)
    /\ server' = "exited"
    /\ UNCHANGED <<terminate_thread, connecting, stream, driver, kind, req_block, buf,
                   buffer_size, image, disk, unread>>

\* The request code decides.  DevioNet ends the connection over one it does not know.
ServerCode ==
    LET code == Head(up) IN
    /\ server = "code" /\ Takes(1)
    /\ server' = IF code \in {ReadReq, WriteReq} THEN "rest"
                 ELSE IF code = InfoReq \/ (code # CloseReq /\ kind = "devio") THEN "answer"
                 ELSE "exited"
    /\ req_block' = <<code>>
    /\ buf' = IF server' # "answer" THEN <<>>
              ELSE IF code = InfoReq THEN <<Size, 1, 0>> ELSE <<ENODEV>>
    /\ UNCHANGED <<terminate_thread, connecting, link, down, driver, kind, buffer_size, image,
                   disk, unread>>

\* Offset and length.  A write that devio's buffer does not hold ends the server.
ServerRest ==
    LET code == req_block[1]  len == up[2] IN
    /\ server = "rest" /\ Takes(2)
    /\ req_block' = <<code, up[1], len>>
    /\ server' = IF code = ReadReq THEN "transfer"
                 ELSE IF kind = "devio" /\ len > buffer_size THEN "exited" ELSE "payload"
    /\ UNCHANGED <<terminate_thread, connecting, link, down, driver, kind, buf, buffer_size,
                   image, disk, unread>>

\* devio reads all the data of a write; DevioNet reads once, and takes what is there.
ServerPayload ==
    /\ At("payload", "transfer")
    /\ \E n \in 1 .. req_block[3] :
          /\ kind = "devio" => n = req_block[3]
          /\ Takes(n)
          /\ buf' = SubSeq(up, 1, n)
    /\ UNCHANGED <<terminate_thread, connecting, link, down, driver, kind, req_block,
                   buffer_size, image, disk, unread>>

\* The first n cells of the request, those that there are.
Target(n) == Cell \cap (req_block[2] .. req_block[2] + n - 1)

\* For a larger read devio gets a larger buffer.  (Its length is set before the memory is
\* there and stays when there is none, which nothing defined follows from.)
Grown(len) == IF len > buffer_size THEN len ELSE buffer_size

\* A read of devio fills a buffer that was cleared first and answers with all of it: what a
\* short read did not get is zero.  DevioNet answers with what its provider read.
ServerRead ==
    LET off == req_block[2]  len == req_block[3] IN
    /\ At("transfer", "answer") /\ req_block[1] = ReadReq
    /\ buffer_size' = IF kind = "net" THEN buffer_size ELSE Grown(len)
    /\ \/ \E n \in 0 .. len, got \in SUBSET Target(len) :
             /\ IF kind = "net" THEN got = Target(n) ELSE n = len
             /\ buf' = <<0, n>> \o [i \in 1 .. n |-> IF off + i - 1 \in got
                                                     THEN image[off + i - 1] ELSE 0]
             /\ unread' = IF irp.code = ReadReq THEN (unread \cup Target(n)) \ got ELSE {}
       \/ buf' = <<EIO, 0>> /\ UNCHANGED unread
    /\ UNCHANGED <<terminate_thread, connecting, stream, driver, kind, req_block, image, disk>>

\* A write stores what was read of it, or only its first cells.
ServerWrite ==
    /\ At("transfer", "answer") /\ req_block[1] = WriteReq
    /\ \E n \in 0 .. Len(buf) :
          /\ image' = [p \in Cell |->
                IF p \in req_block[2] .. req_block[2] + n - 1 THEN buf[p - req_block[2] + 1]
                ELSE image[p]]
          /\ buf' \in {<<0, n>>} \cup IF n < Len(buf) THEN {<<EIO, 0>>} ELSE {}
    /\ UNCHANGED <<terminate_thread, connecting, stream, driver, kind, req_block, buffer_size,
                   disk, unread>>

ServerAnswer ==
    /\ server = "answer"
    /\ IF link = "open"
       THEN server' = "code" /\ down' = down \o buf
       ELSE server' = "exited" /\ UNCHANGED down
    /\ req_block' = <<>> /\ buf' = <<>>
    /\ UNCHANGED <<terminate_thread, connecting, link, up, driver, kind, buffer_size, image,
                   disk, unread>>

\* A server that ends, by itself or not, closes its end of the connection.
ServerCloses ==
    /\ server = "exited" /\ link = "open" /\ link' = "cut"
    /\ UNCHANGED <<terminate_thread, connecting, up, down, driver, serverVars, image,
                   disk, unread>>

ServerKilled ==
    /\ server # "exited" /\ server' = "exited"
    /\ UNCHANGED <<terminate_thread, connecting, stream, driver, kind, req_block, buf,
                   buffer_size, image, disk, unread>>

-----------------------------------------------------------------------------
DriverStep ==
    \/ OpenPipe \/ SendConnect \/ ReadConnect \/ Claim \/ CloseProxy
    \/ Send \/ ReadHeader \/ ReadData \/ CheckAnswer \/ CompleteIrp \/ TearDown

ServiceStep == Connect \/ ReferenceHandle \/ SendAnswer \/ CleanUp

ServerStep ==
    \/ EndOfStream \/ ServerCode \/ ServerRest \/ ServerPayload
    \/ ServerRead \/ ServerWrite \/ ServerAnswer \/ ServerCloses

Next ==
    \/ DriverStep \/ ServiceStep \/ ServerStep
    \/ \E r \in Irp : TakeIrp(r)
    \/ OutOfMemory \/ RemoveVirtualDisk \/ ServiceStops \/ ServerKilled

\* The three programs' threads run when they can; nobody has to send IRPs, to remove the
\* disk, to stop or to kill anything, and memory need not be short.
Spec ==
    /\ Init /\ [][Next]_vars
    /\ WF_vars(DriverStep) /\ WF_vars(ServiceStep) /\ WF_vars(ServerStep)

-----------------------------------------------------------------------------
(* Properties.                                                             *)

\* Whenever a call is about to be made for a disk that is not being removed, nothing of an
\* earlier exchange is left in the stream and the server waits for a request code: however
\* the transfers were cut into pieces and whichever of them failed.
InStep ==
    /\ device = "target" /\ ~terminate_thread
    /\ worker = "idle" \/ (worker = "send" /\ out = CallWords(irp, length_done))
    => up = <<>> /\ down = <<>> /\ server \in {"code", "exited"}

\* What the server answers for a cell.
Told(p) == IF p \in unread THEN 0 ELSE image[p]

\* A read that succeeds returned what the image holds, up to where the server stopped, and
\* zeros only where devio's own reading was cut short; a write that succeeds has stored all
\* its cells and changed no others, and with devio one under way changes no others either.
\* What DevioNet does not read of a write it takes for the next requests
\* (DevioTcpService.vb:199); such a write fails, but may store elsewhere.
TransfersWhole ==
    /\ worker = "done" /\ irp.code = ReadReq =>
          result = [i \in 1 .. Len(result) |-> Told(irp.off + i - 1)]
    /\ irp.code = WriteReq =>
          \A p \in Cell :
             IF p \in irp.off .. irp.off + irp.len - 1
             THEN worker = "done" => image[p] = irp.word
             ELSE worker = "done" \/ kind = "devio" => image[p] = disk[p]

\* The connection is let go of with the disk, or with its failed creation: the pipe's end
\* reaches the service, the connection's end the server.
ServerReleased ==
    terminate_thread \/ worker = "close" ~> server \in {"listen", "exited"}
=============================================================================
