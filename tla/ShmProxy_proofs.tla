--------------------------- MODULE ShmProxy_proofs ---------------------------
(***************************************************************************)
(* Proofs about ShmProxy, for every size of the image and of the shared    *)
(* buffer: the two sides take turns, and what a transfer returns or stores *)
(* is whole, until a call is given up.  Then proofs about Settings, for    *)
(* every number of programs, device numbers and disks.  The two share      *)
(* nothing.                                                                *)
(***************************************************************************)
EXTENDS ShmProxy, Settings, TLAPS

-----------------------------------------------------------------------------
(* The inductive invariant. *)

\* An IRP is served from "request" to "done", and its calls stop when nothing is left.
LoopInv ==
    /\ worker \in {"request", "signal", "wait", "response"} =>
          irp \in Irp \cup {Query} /\ length_done < irp.len
    /\ worker = "done" => irp \in Irp \cup {Query}
    /\ worker \in {"idle", "close", "closing", "closed"} =>
          irp = NoIrp /\ length_done = 0 /\ result = <<>>
    /\ irp.code # ReadReq => result = <<>>
    /\ NoOverrun

\* Whose turn it is.  During a call one of three things is so: the request is there and the server
\* waits, the server works, or the answer is there and the server waits.
TurnInv == ~abandoned =>
    /\ worker \notin {"wait", "closed"} =>
          server \in {"wait", "exited"} /\ ~request_event /\ ~response_event
    /\ worker \in {"wait", "closed"} =>
          /\ ~(request_event /\ response_event)
          /\ request_event \/ response_event => server \in {"wait", "exited"}
          /\ ~request_event /\ ~response_event => server # "wait"
    /\ worker \in {"closing", "closed"} => header[1] = CloseReq
    /\ worker = "closed" => ~response_event /\ server \in {"wait", "request", "exited"}

\* The request of the call under way, in the shared header or in the server's copy of it, with the
\* data of a write in the shared buffer.
Asks(h) ==
    /\ h[1] = irp.code
    /\ irp.code # InfoReq => h[2] = irp.off + length_done /\ h[3] = ToDo
    /\ irp.code = WriteReq => \A i \in 1 .. ToDo : data[i] = irp.word

\* An answer without an error: a read is in the shared buffer, as long as it was asked for; of a
\* write n cells are in the image.
Answers(error, n) ==
    error = 0 =>
        /\ irp.code = ReadReq =>
              /\ n = ToDo
              /\ \A i \in 1 .. ToDo : data[i] = Told(irp.off + length_done + i - 1)
        /\ irp.code = WriteReq =>
              /\ n <= ToDo
              /\ \A i \in 1 .. n : image[irp.off + length_done + i - 1] = irp.word

CallInv == ~abandoned =>
    /\ worker = "signal" \/ (worker = "wait" /\ (request_event \/ server = "request")) =>
          Asks(header)
    /\ server = "transfer" => irp.code # InfoReq /\ Asks(req_block)
    /\ server = "respond" /\ irp.code # InfoReq =>
          Len(resp_block) = 2 /\ Answers(resp_block[1], resp_block[2])
    /\ worker = "response" \/ (worker = "wait" /\ (response_event \/ server = "signal")) =>
          Answers(header[1], header[2])

Busy == worker \in {"request", "signal", "wait", "response", "done"}

\* What the calls that are over have moved, and what the image is beside it.
ContentInv == ~abandoned /\ Busy =>
    /\ irp.code = ReadReq => \A i \in 1 .. length_done : result[i] = Told(irp.off + i - 1)
    /\ irp.code = WriteReq => \A i \in 1 .. length_done : image[irp.off + i - 1] = irp.word
    /\ \A p \in Cell : \/ image[p] = disk[p]
                       \/ /\ irp.code = WriteReq /\ p \in irp.off .. irp.off + irp.len - 1
                          /\ image[p] = irp.word
    /\ worker = "done" /\ irp.code # InfoReq => length_done = irp.len

IInv == TypeOK /\ LoopInv /\ TurnInv /\ CallInv /\ ContentInv

-----------------------------------------------------------------------------
(* Requests, headers and the shared buffer. *)

LEMMA BlankType == Blank \in Value
  BY ValueAssumption DEF Blank

LEMMA IrpFacts ==
    ASSUME irp \in Irp \cup {Query, NoIrp}
    PROVE  /\ irp.code \in {0, InfoReq, ReadReq, WriteReq}
           /\ irp.off \in Nat /\ irp.len \in Nat /\ irp.off + irp.len <= Size /\ irp.len <= Size
           /\ irp.word \in Value
           /\ irp \in Irp \cup {Query} => irp.len > 0 /\ irp.code # 0
           /\ irp.code = 0 => irp = NoIrp
           /\ irp.code = InfoReq => irp = Query
  BY SizeAssumption, ValueAssumption, BlankType
  DEF Irp, Query, NoIrp, Cell, InfoReq, ReadReq, WriteReq

LEMMA TakenFacts == \A r \in Irp : r \in Irp \cup {Query} /\ r.len \in Nat /\ r.len > 0
  BY SizeAssumption DEF Irp, Cell

LEMMA HeaderFacts ==
    /\ \A h \in Header : h[1] \in HeaderWord /\ h[2] \in HeaderWord /\ h[3] \in HeaderWord
    /\ \A a, b, c \in HeaderWord : <<a, b, c>> \in Header
    /\ {0, 1, InfoReq, ReadReq, WriteReq, CloseReq, EIO, ENODEV} \subseteq HeaderWord
    /\ \A n \in 0 .. Size : n \in HeaderWord
  BY SizeAssumption
  DEF Header, HeaderWord, InfoReq, ReadReq, WriteReq, CloseReq, EIO, ENODEV

\* What the next call asks for fits the buffer and what is left of the IRP.
LEMMA ToDoFacts ==
    ASSUME TypeOK, length_done <= irp.len
    PROVE  /\ ToDo \in Nat /\ ToDo <= Chunk /\ length_done + ToDo <= irp.len
           /\ length_done < irp.len => ToDo > 0
           /\ ToDo \in 0 .. Size /\ length_done \in Nat
           /\ irp.off + length_done \in 0 .. Size
<1>1. irp.off \in Nat /\ irp.len \in Nat /\ irp.off + irp.len <= Size /\ irp.len <= Size
  BY IrpFacts DEF TypeOK
<1>2. length_done \in Nat /\ Size \in Nat /\ Chunk \in Nat /\ Chunk > 0
  BY SizeAssumption DEF TypeOK
<1>3. ToDo = irp.len - length_done \/ ToDo = Chunk
  BY DEF ToDo, Least
<1>4. ToDo <= irp.len - length_done /\ ToDo <= Chunk
  BY <1>1, <1>2 DEF ToDo, Least
<1> QED
  BY <1>1, <1>2, <1>3, <1>4

LEMMA AskedFacts ==
    ASSUME TypeOK
    PROVE  Asked \in Nat /\ Asked <= Chunk /\ Asked <= req_block[3] /\ req_block[2] \in Nat
           /\ Asked \in HeaderWord
  BY SizeAssumption, HeaderFacts DEF Asked, Least, TypeOK, HeaderWord, ENODEV

LEMMA SeqFacts ==
    ASSUME NEW n \in Nat, NEW f \in [1 .. n -> Value]
    PROVE  f \in Seq(Value) /\ Len(f) = n /\ DOMAIN f = 1 .. n
  OBVIOUS

LEMMA ResultFacts ==
    ASSUME NEW f
    PROVE  f \in UNION {[1 .. n -> Value] : n \in 0 .. Size} <=> f \in Seq(Value) /\ Len(f) <= Size
<1>1. ASSUME f \in UNION {[1 .. n -> Value] : n \in 0 .. Size}
      PROVE  f \in Seq(Value) /\ Len(f) <= Size
  <2>1. PICK n \in 0 .. Size : f \in [1 .. n -> Value]
    BY <1>1
  <2> QED
    BY <2>1, SizeAssumption
<1>2. ASSUME f \in Seq(Value), Len(f) <= Size
      PROVE  f \in UNION {[1 .. n -> Value] : n \in 0 .. Size}
  <2>1. Len(f) \in 0 .. Size /\ f \in [1 .. Len(f) -> Value]
    BY <1>2
  <2> QED
    BY <2>1
<1> QED
  BY <1>1, <1>2

LEMMA EmptyResult ==
    /\ <<>> \in UNION {[1 .. n -> Value] : n \in 0 .. Size}
    /\ <<>> \in Seq(HeaderWord) /\ <<>> \in Seq(Value) /\ Len(<<>>) = 0
<1>1. <<>> \in Seq(Value) /\ Len(<<>>) = 0 /\ <<>> \in Seq(HeaderWord)
  OBVIOUS
<1>2. Len(<<>>) <= Size
  BY <1>1, SizeAssumption
<1> QED
  BY <1>1, <1>2, ResultFacts

\* A part of the shared buffer, and cells put behind the cells read so far.
LEMMA PartFacts ==
    ASSUME NEW s \in Seq(Value), NEW n \in Nat, n <= Len(s)
    PROVE  /\ SubSeq(s, 1, n) \in Seq(Value) /\ Len(SubSeq(s, 1, n)) = n
           /\ \A i \in 1 .. n : SubSeq(s, 1, n)[i] = s[i]
  OBVIOUS

LEMMA ConcatFacts ==
    ASSUME NEW s \in Seq(Value), NEW t \in Seq(Value)
    PROVE  /\ s \o t \in Seq(Value) /\ Len(s \o t) = Len(s) + Len(t)
           /\ \A i \in 1 .. Len(s) : (s \o t)[i] = s[i]
           /\ \A i \in 1 .. Len(t) : (s \o t)[Len(s) + i] = t[i]
  OBVIOUS

\* Every step is one of these.
LEMMA StepCases ==
    ASSUME Next
    PROVE  \/ SendRequest \/ SetRequestEvent \/ WaitResponse \/ WaitCancelled
           \/ ReadResponse \/ CompleteIrp \/ WriteClose \/ SignalClose
           \/ ServerWait \/ ServerRequest \/ ServerRead \/ ServerWrite
           \/ ServerRespond \/ ServerSignal \/ ServerKilled
           \/ \E r \in Irp : TakeIrp(r)
           \/ TearDown \/ RemoveVirtualDisk
  BY DEF Next, DriverStep, ServerStep

\* How a response ends: the IRP fails, or n cells more are done.
LEMMA ResponseCases ==
    ASSUME TypeOK, LoopInv, ReadResponse
    PROVE  /\ UNCHANGED <<shared, image, serverVars, disk, abandoned>> /\ worker = "response"
           /\ irp \in Irp \cup {Query} /\ length_done < irp.len
           /\ \/ Fail
              \/ /\ irp.code = ReadReq /\ header[1] = 0 /\ header[2] \in 0 .. ToDo
                 /\ Advance(header[2], SubSeq(data, 1, header[2]))
                 /\ worker' = IF header[2] = 0 \/ length_done + header[2] >= irp.len
                              THEN "done" ELSE "request"
              \/ /\ irp.code = WriteReq /\ header[1] = 0 /\ header[2] = ToDo
                 /\ Advance(header[2], <<>>)
                 /\ worker' = IF length_done + header[2] >= irp.len THEN "done" ELSE "request"
              \/ irp.code = InfoReq /\ Advance(0, <<>>) /\ worker' = "done"
<1>1. header[2] \in Nat /\ ToDo \in Nat
  BY HeaderFacts, ToDoFacts DEF TypeOK, HeaderWord, LoopInv, NoOverrun
<1> QED
  BY <1>1 DEF ReadResponse, Answer, ReadAnswer, WriteAnswer, InfoAnswer, LoopInv

-----------------------------------------------------------------------------
(* Type correctness. *)

LEMMA InitType == Init => TypeOK
<1> SUFFICES ASSUME Init PROVE TypeOK
  OBVIOUS
<1>1. <<0, 0, 0>> \in Header
  BY HeaderFacts
<1>2. result \in UNION {[1 .. n -> Value] : n \in 0 .. Size} /\ resp_block \in Seq(HeaderWord)
  BY EmptyResult DEF Init
<1>3. irp \in Irp \cup {Query, NoIrp} /\ length_done \in 0 .. Size
  BY SizeAssumption DEF Init
<1>4. data \in [1 .. Chunk -> Value] /\ image \in [Cell -> Value] /\ disk \in [Cell -> Value]
  BY BlankType DEF Init
<1> QED
  BY <1>1, <1>2, <1>3, <1>4 DEF Init, TypeOK

LEMMA AdvanceType ==
    ASSUME TypeOK, LoopInv, NEW n \in Nat, n <= ToDo, length_done < irp.len,
           \/ irp.code = ReadReq /\ Advance(n, SubSeq(data, 1, n))
           \/ irp.code # ReadReq /\ Advance(n, <<>>)
    PROVE  /\ length_done' = length_done + n /\ length_done' <= irp.len
           /\ result' \in Seq(Value) /\ Len(result') <= Size
           /\ irp.code = ReadReq =>
                 /\ Len(result') = length_done'
                 /\ \A i \in 1 .. length_done : result'[i] = result[i]
                 /\ \A i \in 1 .. n : result'[length_done + i] = data[i]
           /\ irp.code # ReadReq => result' = <<>>
           /\ length_done' \in 0 .. Size /\ UNCHANGED <<terminate_thread, irp, unread>>
<1>1. /\ ToDo \in Nat /\ ToDo <= Chunk /\ length_done + ToDo <= irp.len /\ length_done \in Nat
      /\ irp.len \in Nat /\ irp.len <= Size
  BY ToDoFacts, IrpFacts DEF LoopInv, NoOverrun, TypeOK
<1>2. result \in Seq(Value) /\ Len(result) <= Size
  BY ResultFacts DEF TypeOK
<1>3. CASE irp.code = ReadReq /\ Advance(n, SubSeq(data, 1, n))
  <2> DEFINE part == SubSeq(data, 1, n)
  <2>1. data \in Seq(Value) /\ Len(data) = Chunk
    BY SeqFacts, SizeAssumption DEF TypeOK
  <2>2. part \in Seq(Value) /\ Len(part) = n /\ \A i \in 1 .. n : part[i] = data[i]
    BY <1>1, <2>1, PartFacts
  <2>3. Len(result) = length_done /\ result' = result \o part /\ length_done' = length_done + n
        /\ UNCHANGED <<terminate_thread, irp, unread>>
    BY <1>3 DEF Advance, LoopInv, NoOverrun
  <2> HIDE DEF part
  <2>4. /\ result' \in Seq(Value) /\ Len(result') = length_done + n
        /\ \A i \in 1 .. length_done : result'[i] = result[i]
        /\ \A i \in 1 .. n : result'[length_done + i] = part[i]
    BY <1>2, <2>2, <2>3, ConcatFacts
  <2>5. length_done + n <= irp.len /\ length_done + n \in 0 .. Size
    BY <1>1, SizeAssumption
  <2> QED
    BY <1>3, <2>2, <2>3, <2>4, <2>5, SMTT(30)
<1>4. CASE irp.code # ReadReq /\ Advance(n, <<>>)
  <2>1. result = <<>>
    BY <1>4 DEF LoopInv
  <2>2. result' = <<>>
    BY <1>4, <2>1, EmptyResult DEF Advance
  <2>3. length_done + n <= irp.len /\ length_done + n \in 0 .. Size
    BY <1>1, SizeAssumption
  <2> QED
    BY <1>4, <2>2, <2>3, EmptyResult, SizeAssumption DEF Advance
<1> QED
  BY <1>3, <1>4

LEMMA FailType ==
    ASSUME Fail
    PROVE  /\ terminate_thread' \in BOOLEAN /\ irp' \in Irp \cup {Query, NoIrp}
           /\ worker' \in {"idle", "close"} /\ length_done' \in 0 .. Size
           /\ result' \in UNION {[1 .. n -> Value] : n \in 0 .. Size} /\ unread' = {}
<1>1. result' = <<>>
  BY DEF Fail
<1>2. result' \in UNION {[1 .. n -> Value] : n \in 0 .. Size}
  BY <1>1, EmptyResult
<1> QED
  BY <1>2, SizeAssumption DEF Fail

LEMMA StepType == TypeOK /\ LoopInv /\ [Next]_vars => TypeOK'
<1> SUFFICES ASSUME TypeOK, LoopInv, [Next]_vars PROVE TypeOK'
  OBVIOUS
<1> USE DEF shared, driver, serverVars
<1>1. CASE UNCHANGED vars
  BY <1>1 DEF vars, TypeOK
<1>2. CASE SendRequest
  <2>1. ToDo \in 0 .. Size /\ irp.off + length_done \in 0 .. Size /\ irp.word \in Value
    BY ToDoFacts, IrpFacts DEF LoopInv, NoOverrun, TypeOK
  <2>2. irp.code \in HeaderWord
    BY IrpFacts, HeaderFacts DEF TypeOK
  <2>3. header' \in Header
    <3>1. <<InfoReq, header[2], header[3]>> \in Header
      BY HeaderFacts DEF TypeOK
    <3>2. <<irp.code, irp.off + length_done, ToDo>> \in Header
      BY <2>1, <2>2, HeaderFacts
    <3> QED
      BY <1>2, <3>1, <3>2 DEF SendRequest, RequestHeader
  <2>4. data' \in [1 .. Chunk -> Value]
    BY <1>2, <2>1 DEF SendRequest, RequestHeader, Fill, TypeOK
  <2> QED
    BY <1>2, <2>3, <2>4 DEF SendRequest, RequestHeader, Goto, TypeOK
<1>3. CASE SetRequestEvent \/ WaitResponse \/ SignalClose
  BY <1>3 DEF SetRequestEvent, WaitResponse, SignalClose, Goto, TypeOK
<1>4. CASE WaitCancelled
  <2>1. disk' \in [Cell -> Value]
    BY <1>4, BlankType DEF WaitCancelled
  <2>2. Fail /\ abandoned' = TRUE /\ UNCHANGED <<shared, image, serverVars>>
    BY <1>4 DEF WaitCancelled
  <2> QED
    BY <2>1, <2>2, FailType DEF TypeOK
<1>5. CASE ReadResponse
  <2>1. UNCHANGED <<shared, image, serverVars, disk, abandoned>>
    BY <1>5, ResponseCases
  <2>2. ASSUME Fail PROVE TypeOK'
    BY <2>1, <2>2, FailType DEF TypeOK
  <2>3. ASSUME NEW n \in Nat, n <= ToDo, length_done < irp.len,
               \/ irp.code = ReadReq /\ Advance(n, SubSeq(data, 1, n))
               \/ irp.code # ReadReq /\ Advance(n, <<>>),
               worker' \in {"done", "request"}
        PROVE  TypeOK'
    <3>1. /\ length_done' \in 0 .. Size /\ UNCHANGED <<terminate_thread, irp, unread>>
          /\ result' \in UNION {[1 .. k -> Value] : k \in 0 .. Size}
      BY <2>3, AdvanceType, ResultFacts
    <3> QED
      BY <2>1, <2>3, <3>1 DEF TypeOK
  <2>4. ToDo \in Nat
    BY ToDoFacts DEF LoopInv, NoOverrun
  <2> QED
    BY <1>5, <2>2, <2>3, <2>4, ResponseCases DEF ReadReq, WriteReq, InfoReq
<1>6. CASE CompleteIrp
  BY <1>6, EmptyResult, SizeAssumption, SMTT(30) DEF CompleteIrp, Goto, TypeOK
<1>7. CASE WriteClose
  <2>1. header' \in Header
    BY <1>7, HeaderFacts DEF WriteClose, TypeOK
  <2> QED
    BY <1>7, <2>1 DEF WriteClose, Goto, TypeOK
<1>8. CASE ServerWait \/ TearDown \/ RemoveVirtualDisk
  BY <1>8, ZenonT(60) DEF ServerWait, At, TearDown, RemoveVirtualDisk, Goto, TypeOK
<1>9. CASE ServerRequest
  <2>1. resp_block' \in Seq(HeaderWord)
    <3>1. Size \in HeaderWord /\ 1 \in HeaderWord /\ 0 \in HeaderWord /\ ENODEV \in HeaderWord
      BY HeaderFacts, SizeAssumption
    <3>2. <<Size, 1, 0>> \in Seq(HeaderWord) /\ <<ENODEV>> \in Seq(HeaderWord)
      BY <3>1
    <3> QED
      BY <1>9, <3>2, EmptyResult DEF ServerRequest
  <2> QED
    BY <1>9, <2>1 DEF ServerRequest, At, TypeOK
<1>10. CASE ServerRead
  <2>1. data' \in [1 .. Chunk -> Value]
    <3>1. PICK got \in SUBSET (Target(Asked) \cap Cell) : data' = [i \in 1 .. Chunk |->
                IF i > Asked THEN data[i]
                ELSE IF req_block[2] + i - 1 \in got THEN image[req_block[2] + i - 1]
                ELSE Blank]
      BY <1>10 DEF ServerRead
    <3> QED
      BY <3>1, BlankType DEF TypeOK
  <2>2. resp_block' \in Seq(HeaderWord)
    <3>1. <<0, Asked>> \in Seq(HeaderWord) /\ <<EIO, 0>> \in Seq(HeaderWord)
      BY AskedFacts, HeaderFacts
    <3> QED
      BY <1>10, <3>1 DEF ServerRead
  <2>3. unread' \subseteq Cell
    BY <1>10 DEF ServerRead, TypeOK
  <2> QED
    BY <1>10, <2>1, <2>2, <2>3 DEF ServerRead, At, TypeOK
<1>11. CASE ServerWrite
  <2>1. PICK n \in 0 .. Asked :
            /\ image' = [p \in Cell |->
                  IF p \in Target(n) THEN data[p - req_block[2] + 1] ELSE image[p]]
            /\ resp_block' \in {<<0, n>>} \cup IF n < Asked THEN {<<EIO, 0>>} ELSE {}
    BY <1>11 DEF ServerWrite
  <2>2. ASSUME NEW p \in Cell, p \in Target(n) PROVE data[p - req_block[2] + 1] \in Value
    <3>1. p - req_block[2] + 1 \in 1 .. Chunk
      BY <2>1, <2>2, AskedFacts, SizeAssumption DEF Target, Cell
    <3> QED
      BY <3>1 DEF TypeOK
  <2>3. image' \in [Cell -> Value]
    BY <2>1, <2>2 DEF TypeOK
  <2>4. resp_block' \in Seq(HeaderWord)
    <3>0. 0 \in HeaderWord /\ EIO \in HeaderWord
      BY HeaderFacts
    <3>1. n \in HeaderWord /\ 0 \in HeaderWord /\ EIO \in HeaderWord
      BY <2>1, <3>0, AskedFacts, SizeAssumption DEF HeaderWord, ENODEV
    <3>2. <<0, n>> \in Seq(HeaderWord) /\ <<EIO, 0>> \in Seq(HeaderWord)
      BY <3>1
    <3> QED
      BY <2>1, <3>2
  <2> QED
    BY <1>11, <2>3, <2>4 DEF ServerWrite, At, TypeOK
<1>12. CASE ServerRespond
  <2>1. header' \in Header
    <3> DEFINE w(i) == IF i \in DOMAIN resp_block THEN resp_block[i] ELSE header[i]
    <3>1. w(1) \in HeaderWord /\ w(2) \in HeaderWord /\ w(3) \in HeaderWord
      BY HeaderFacts DEF TypeOK
    <3>2. header' = <<w(1), w(2), w(3)>>
      BY <1>12 DEF ServerRespond
    <3> QED
      BY <3>1, <3>2, HeaderFacts
  <2> QED
    BY <1>12, <2>1 DEF ServerRespond, At, TypeOK
<1>13. CASE ServerSignal \/ ServerKilled
  <2>1. <<0, 0, 0>> \in Header
    BY HeaderFacts
  <2> QED
    BY <1>13, <2>1, EmptyResult DEF ServerSignal, ServerKilled, At, TypeOK
<1>14. ASSUME NEW r \in Irp, TakeIrp(r) PROVE TypeOK'
  BY <1>14 DEF TakeIrp, Goto, TypeOK
<1> QED
  BY StepCases, <1>1, <1>2, <1>3, <1>4, <1>5, <1>6, <1>7, <1>8, <1>9, <1>10, <1>11, <1>12,
     <1>13, <1>14

-----------------------------------------------------------------------------
(* The loop over an IRP, and the turns. *)

LEMMA NoIrpFacts ==
    /\ NoIrp.code = 0 /\ NoIrp.len = 0 /\ 0 # ReadReq
    /\ Query.code = InfoReq /\ InfoReq # ReadReq /\ InfoReq # WriteReq /\ ReadReq # WriteReq
  BY DEF NoIrp, Query, ReadReq, WriteReq, InfoReq

\* A response that does not fail the IRP moves n cells of it, n at most what was asked for.
LEMMA ResponseAdvances ==
    ASSUME TypeOK, LoopInv, ReadResponse, ~Fail
    PROVE  /\ worker = "response" /\ irp \in Irp \cup {Query} /\ length_done < irp.len
           /\ UNCHANGED <<shared, image, serverVars, disk, unread, abandoned, irp>>
           /\ worker' \in {"done", "request"}
           /\ result' \in Seq(Value) /\ Len(result') <= Size
           /\ length_done' \in 0 .. Size /\ length_done' <= irp.len
           /\ worker' = "request" => length_done' < irp.len
           /\ irp.code # ReadReq => result' = <<>>
           /\ irp.code = ReadReq =>
                 /\ header[1] = 0 /\ header[2] \in 0 .. ToDo
                 /\ length_done' = length_done + header[2] /\ Len(result') = length_done'
                 /\ \A i \in 1 .. length_done : result'[i] = result[i]
                 /\ \A i \in 1 .. header[2] : result'[length_done + i] = data[i]
                 /\ worker' = "done" => header[2] = 0 \/ length_done' = irp.len
           /\ irp.code = WriteReq =>
                 /\ header[1] = 0 /\ header[2] = ToDo
                 /\ length_done' = length_done + header[2]
                 /\ worker' = "done" => length_done' = irp.len
<1>1. /\ UNCHANGED <<shared, image, serverVars, disk, abandoned>> /\ worker = "response"
      /\ irp \in Irp \cup {Query} /\ length_done < irp.len
  BY ResponseCases
<1>2. ToDo \in Nat /\ length_done \in Nat /\ irp.len \in Nat
  BY ToDoFacts, IrpFacts DEF LoopInv, NoOverrun, TypeOK
<1>3. CASE /\ irp.code = ReadReq /\ header[1] = 0 /\ header[2] \in 0 .. ToDo
           /\ Advance(header[2], SubSeq(data, 1, header[2]))
           /\ worker' = IF header[2] = 0 \/ length_done + header[2] >= irp.len
                        THEN "done" ELSE "request"
  <2>1. header[2] \in Nat /\ header[2] <= ToDo
    BY <1>2, <1>3
  <2> QED
    BY <1>1, <1>2, <1>3, <2>1, AdvanceType, NoIrpFacts
<1>4. CASE /\ irp.code = WriteReq /\ header[1] = 0 /\ header[2] = ToDo
           /\ Advance(header[2], <<>>)
           /\ worker' = IF length_done + header[2] >= irp.len THEN "done" ELSE "request"
  BY <1>1, <1>2, <1>4, AdvanceType, NoIrpFacts
<1>5. CASE irp.code = InfoReq /\ Advance(0, <<>>) /\ worker' = "done"
  BY <1>1, <1>2, <1>5, AdvanceType, NoIrpFacts
<1> QED
  BY <1>3, <1>4, <1>5, ResponseCases

LEMMA StepLoop == TypeOK /\ LoopInv /\ [Next]_vars => LoopInv'
<1> SUFFICES ASSUME TypeOK, LoopInv, [Next]_vars PROVE LoopInv'
  OBVIOUS
<1> USE DEF shared, driver, serverVars
<1>1. CASE UNCHANGED vars
  BY <1>1 DEF vars, LoopInv, NoOverrun
<1>2. CASE SendRequest \/ SetRequestEvent \/ WaitResponse
  BY <1>2 DEF SendRequest, RequestHeader, SetRequestEvent, WaitResponse, Goto, LoopInv, NoOverrun
<1>3. CASE Fail
  BY <1>3, NoIrpFacts DEF Fail, LoopInv, NoOverrun
<1>4. CASE WaitCancelled
  BY <1>3, <1>4 DEF WaitCancelled
<1>5. CASE ReadResponse /\ ~Fail
  <2>1. /\ irp \in Irp \cup {Query} /\ irp' = irp /\ worker' \in {"done", "request"}
        /\ length_done' <= irp.len /\ (worker' = "request" => length_done' < irp.len)
        /\ irp.code # ReadReq => result' = <<>>
        /\ irp.code = ReadReq => Len(result') = length_done'
    BY <1>5, ResponseAdvances
  <2> QED
    BY <2>1 DEF LoopInv, NoOverrun
<1>6. CASE CompleteIrp
  BY <1>6, NoIrpFacts DEF CompleteIrp, Goto, LoopInv, NoOverrun
<1>7. CASE WriteClose \/ SignalClose \/ TearDown \/ RemoveVirtualDisk
  BY <1>7 DEF WriteClose, SignalClose, TearDown, RemoveVirtualDisk, Goto, LoopInv, NoOverrun
<1>8. CASE ServerWait \/ ServerRequest \/ ServerRead \/ ServerWrite
           \/ ServerRespond \/ ServerSignal \/ ServerKilled
  BY <1>8 DEF ServerWait, ServerRequest, ServerRead, ServerWrite, ServerRespond, ServerSignal,
              ServerKilled, LoopInv, NoOverrun
<1>9. ASSUME NEW r \in Irp, TakeIrp(r) PROVE LoopInv'
  <2>1. length_done = 0 /\ result = <<>> /\ UNCHANGED <<length_done, result>>
        /\ irp' = r /\ worker' = "request"
    BY <1>9 DEF TakeIrp, Goto, LoopInv
  <2>2. irp' \in Irp \cup {Query} /\ 0 < irp'.len /\ 0 <= irp'.len
    BY <2>1, TakenFacts
  <2>3. length_done' = 0 /\ result' = <<>> /\ Len(result') = 0
    BY <2>1, EmptyResult
  <2> QED
    BY <2>1, <2>2, <2>3 DEF LoopInv, NoOverrun
<1> QED
  BY StepCases, <1>1, <1>2, <1>3, <1>4, <1>5, <1>6, <1>7, <1>8, <1>9

LEMMA StepTurn == TypeOK /\ LoopInv /\ TurnInv /\ [Next]_vars => TurnInv'
<1> SUFFICES ASSUME TypeOK, LoopInv, TurnInv, [Next]_vars PROVE TurnInv'
  OBVIOUS
<1> USE DEF shared, driver, serverVars
<1>1. CASE UNCHANGED vars
  BY <1>1 DEF vars, TurnInv
<1>2. CASE SendRequest \/ SetRequestEvent \/ WaitResponse \/ WaitCancelled \/ CompleteIrp
  BY <1>2 DEF SendRequest, RequestHeader, SetRequestEvent, WaitResponse, WaitCancelled,
              CompleteIrp, Goto, TurnInv
<1>3. CASE ReadResponse
  <2>1. /\ UNCHANGED <<shared, serverVars, abandoned>> /\ worker = "response"
        /\ worker' \in {"idle", "close", "done", "request"}
    BY <1>3, ResponseAdvances, ResponseCases DEF Fail
  <2> QED
    BY <2>1 DEF TurnInv
<1>4. CASE WriteClose
  BY <1>4 DEF WriteClose, Goto, TurnInv
<1>5. CASE SignalClose \/ TearDown \/ RemoveVirtualDisk
  BY <1>5 DEF SignalClose, TearDown, RemoveVirtualDisk, Goto, TurnInv
<1>6. CASE ServerWait \/ ServerRead \/ ServerWrite \/ ServerSignal \/ ServerKilled
  BY <1>6 DEF ServerWait, ServerRead, ServerWrite, ServerSignal, ServerKilled, At, TurnInv
<1>7. CASE ServerRequest
  BY <1>7 DEF ServerRequest, At, TurnInv
<1>8. CASE ServerRespond
  BY <1>8 DEF ServerRespond, At, TurnInv
<1>9. ASSUME NEW r \in Irp, TakeIrp(r) PROVE TurnInv'
  BY <1>9 DEF TakeIrp, Goto, TurnInv
<1> QED
  BY StepCases, <1>1, <1>2, <1>3, <1>4, <1>5, <1>6, <1>7, <1>8, <1>9

-----------------------------------------------------------------------------
(* The call under way. *)

\* While a call is not given up, only the side whose turn it is changes header and data.
LEMMA StepCall == TypeOK /\ LoopInv /\ TurnInv /\ CallInv /\ [Next]_vars => CallInv'
<1> SUFFICES ASSUME TypeOK, LoopInv, TurnInv, CallInv, [Next]_vars, ~abandoned'
             PROVE  CallInv'
  BY DEF CallInv
<1> USE DEF shared, driver, serverVars
<1>1. CASE UNCHANGED vars
  BY <1>1 DEF vars, CallInv, Asks, Answers, Told, ToDo
<1>0. ASSUME UNCHANGED <<irp, length_done>> PROVE ToDo' = ToDo
  BY <1>0 DEF ToDo
<1>2. CASE SendRequest
  <2>1. /\ worker' = "signal" /\ server' = server /\ server \in {"wait", "exited"}
        /\ UNCHANGED <<irp, length_done, abandoned>>
    BY <1>2 DEF SendRequest, RequestHeader, Goto, TurnInv
  <2>2. Asks(header)'
    <3>1. irp.code \in {InfoReq, ReadReq, WriteReq} /\ ToDo' = ToDo
      BY <1>0, <1>2, <2>1, IrpFacts DEF SendRequest, RequestHeader, Goto, LoopInv
    <3>2. ToDo \in Nat /\ ToDo <= Chunk
      BY ToDoFacts DEF LoopInv, NoOverrun
    <3>3. header'[1] = irp.code
          /\ (irp.code # InfoReq => header'[2] = irp.off + length_done /\ header'[3] = ToDo)
      BY <1>2 DEF SendRequest, RequestHeader
    <3>4. irp.code = WriteReq => \A i \in 1 .. ToDo : data'[i] = irp.word
      BY <1>2, <3>2, SizeAssumption DEF SendRequest, RequestHeader, Fill
    <3> QED
      BY <2>1, <3>1, <3>3, <3>4 DEF Asks
  <2> QED
    BY <2>1, <2>2 DEF CallInv
<1>3. CASE SetRequestEvent
  BY <1>0, <1>3 DEF SetRequestEvent, Goto, CallInv, TurnInv, Asks, Answers, Told
<1>4. CASE WaitResponse
  BY <1>0, <1>4 DEF WaitResponse, Goto, CallInv, TurnInv, Asks, Answers, Told
<1>5. CASE WaitCancelled
  BY <1>5 DEF WaitCancelled
<1>6. CASE ReadResponse
  <2>1. /\ UNCHANGED <<shared, serverVars, abandoned>> /\ worker = "response"
        /\ worker' \in {"idle", "close", "done", "request"}
    BY <1>6, ResponseAdvances, ResponseCases DEF Fail
  <2> QED
    BY <2>1 DEF TurnInv, CallInv
<1>7. CASE CompleteIrp \/ WriteClose \/ SignalClose \/ TearDown
  BY <1>7 DEF CompleteIrp, WriteClose, SignalClose, TearDown, Goto, CallInv, TurnInv
<1>8. CASE RemoveVirtualDisk
  BY <1>0, <1>8 DEF RemoveVirtualDisk, CallInv, Asks, Answers, Told
<1>9. CASE ServerWait
  BY <1>0, <1>9 DEF ServerWait, At, CallInv, TurnInv, Asks, Answers, Told
<1>10. CASE ServerRequest
  <2>1. /\ UNCHANGED <<terminate_thread, shared, image, driver, disk, unread, abandoned>>
        /\ server = "request" /\ worker \in {"wait", "closed"} /\ req_block' = header
        /\ ~response_event
    BY <1>10 DEF ServerRequest, At, TurnInv
  <2>2. CASE worker = "closed"
    BY <1>10, <2>1, <2>2 DEF ServerRequest, At, TurnInv, CallInv
  <2>3. CASE worker = "wait"
    <3>1. Asks(header) /\ ToDo' = ToDo
      BY <1>0, <2>1, <2>3 DEF CallInv
    <3>2. irp.code \in {InfoReq, ReadReq, WriteReq}
      BY <2>3, IrpFacts DEF LoopInv
    <3>3. /\ server' = "transfer" => header[1] \in {ReadReq, WriteReq}
          /\ server' = "respond" => header[1] \notin {ReadReq, WriteReq}
          /\ server' \in {"transfer", "respond", "exited"}
      BY <1>10 DEF ServerRequest, At, ReadReq, WriteReq
    <3>4. Asks(req_block)'
      BY <2>1, <3>1 DEF Asks
    <3> QED
      BY <2>1, <2>3, <3>1, <3>2, <3>3, <3>4, NoIrpFacts DEF CallInv, Asks
  <2> QED
    BY <2>1, <2>2, <2>3
<1>11. CASE ServerRead
  <2>1. /\ UNCHANGED <<terminate_thread, header, request_event, response_event, image, driver,
                       req_block, disk, abandoned>>
        /\ server = "transfer" /\ server' = "respond" /\ worker = "wait"
        /\ ~request_event /\ ~response_event
    BY <1>11 DEF ServerRead, At, TurnInv
  <2>2. /\ Asks(req_block) /\ irp.code = ReadReq /\ ToDo' = ToDo
        /\ req_block[2] = irp.off + length_done /\ req_block[3] = ToDo
    BY <1>0, <1>11, <2>1, NoIrpFacts DEF CallInv, Asks, ServerRead
  <2>3. /\ ToDo \in Nat /\ ToDo <= Chunk /\ length_done + ToDo <= irp.len
        /\ length_done \in Nat /\ irp.off \in Nat /\ irp.len \in Nat /\ irp.off + irp.len <= Size
    BY ToDoFacts, IrpFacts DEF TypeOK, LoopInv, NoOverrun
  <2>4. Asked = ToDo
    BY <2>2, <2>3, SizeAssumption DEF Asked, Least
  <2>5. PICK got \in SUBSET (Target(Asked) \cap Cell), error \in {0, EIO} :
          /\ data' = [i \in 1 .. Chunk |->
                IF i > Asked THEN data[i]
                ELSE IF req_block[2] + i - 1 \in got THEN image[req_block[2] + i - 1]
                ELSE Blank]
          /\ resp_block' = <<error, IF error = 0 THEN Asked ELSE 0>>
          /\ unread' = IF abandoned THEN {}
                       ELSE (unread \cup (Target(Asked) \cap Cell)) \ got
    BY <1>11 DEF ServerRead
  <2>6. Len(resp_block') = 2 /\ (resp_block'[1] = 0 => resp_block'[2] = ToDo)
    BY <2>4, <2>5 DEF EIO
  <2>7. ASSUME NEW i \in 1 .. ToDo PROVE data'[i] = Told(irp.off + length_done + i - 1)'
    <3> DEFINE p == irp.off + length_done + i - 1
    <3>1. i \in 1 .. Chunk /\ ~(i > Asked) /\ p \in Cell /\ p = req_block[2] + i - 1
          /\ p \in Target(Asked)
      BY <2>2, <2>3, <2>4, SizeAssumption DEF Cell, Target
    <3> HIDE DEF p
    <3>2. data'[i] = IF p \in got THEN image[p] ELSE Blank
      BY <2>5, <3>1
    <3>3. p \in unread' <=> p \notin got
      BY <2>1, <2>5, <3>1
    <3>4. data'[i] = IF p \in unread' THEN Blank ELSE image'[p]
      BY <2>1, <3>2, <3>3
    <3> QED
      BY <2>1, <3>4 DEF Told, p
  <2>8. Answers(resp_block[1], resp_block[2])'
    BY <2>1, <2>2, <2>6, <2>7, NoIrpFacts DEF Answers, Told
  <2> QED
    BY <2>1, <2>6, <2>8 DEF CallInv
<1>12. CASE ServerWrite
  <2>1. /\ UNCHANGED <<terminate_thread, shared, driver, req_block, disk, abandoned>>
        /\ server = "transfer" /\ server' = "respond" /\ worker = "wait"
        /\ ~request_event /\ ~response_event
    BY <1>12 DEF ServerWrite, At, TurnInv
  <2>2. /\ Asks(req_block) /\ irp.code = WriteReq /\ ToDo' = ToDo
        /\ req_block[2] = irp.off + length_done /\ req_block[3] = ToDo
        /\ \A i \in 1 .. ToDo : data[i] = irp.word
    BY <1>0, <1>12, <2>1, NoIrpFacts DEF CallInv, Asks, ServerWrite, WriteReq, InfoReq
  <2>3. /\ ToDo \in Nat /\ ToDo <= Chunk /\ length_done + ToDo <= irp.len
        /\ length_done \in Nat /\ irp.off \in Nat /\ irp.len \in Nat /\ irp.off + irp.len <= Size
    BY ToDoFacts, IrpFacts DEF TypeOK, LoopInv, NoOverrun
  <2>4. Asked = ToDo
    BY <2>2, <2>3, SizeAssumption DEF Asked, Least
  <2>5. PICK n \in 0 .. Asked :
            /\ image' = [p \in Cell |->
                  IF p \in Target(n) THEN data[p - req_block[2] + 1] ELSE image[p]]
            /\ resp_block' \in {<<0, n>>} \cup IF n < Asked THEN {<<EIO, 0>>} ELSE {}
    BY <1>12 DEF ServerWrite
  <2>6. Len(resp_block') = 2 /\ (resp_block'[1] = 0 => resp_block'[2] = n)
    BY <2>5 DEF EIO
  <2>7. ASSUME NEW i \in 1 .. n PROVE image'[irp.off + length_done + i - 1] = irp.word
    <3> DEFINE p == irp.off + length_done + i - 1
    <3>1. p \in Cell /\ p \in Target(n) /\ p - req_block[2] + 1 = i /\ i \in 1 .. ToDo
      <4>1. i \in 1 .. ToDo /\ i <= n /\ i \in Nat /\ i >= 1 /\ n \in Nat
        BY <2>3, <2>4, <2>5
      <4>2. p = req_block[2] + i - 1 /\ req_block[2] \in Nat
        BY <2>2, <2>3
      <4>3. p \in Cell
        BY <2>3, <4>1, SizeAssumption DEF Cell
      <4>4. p \in Target(n) /\ p - req_block[2] + 1 = i
        BY <4>1, <4>2 DEF Target
      <4> QED
        BY <4>1, <4>3, <4>4
    <3> HIDE DEF p
    <3>2. image'[p] = data[p - req_block[2] + 1]
      BY <2>5, <3>1
    <3> QED
      BY <2>2, <3>1, <3>2 DEF p
  <2>8. Answers(resp_block[1], resp_block[2])'
    <3>1. n \in Nat /\ n <= ToDo /\ irp' = irp /\ length_done' = length_done
      BY <2>1, <2>3, <2>4, <2>5 DEF driver
    <3>2. irp'.code # ReadReq
      BY <2>2, <3>1 DEF ReadReq, WriteReq
    <3>3. n <= ToDo' /\ \A i \in 1 .. n : image'[irp'.off + length_done' + i - 1] = irp'.word
      BY <2>2, <2>7, <3>1
    <3> QED
      BY <2>6, <3>2, <3>3 DEF Answers
  <2> QED
    BY <2>1, <2>6, <2>8 DEF CallInv
<1>13. CASE ServerRespond
  <2>1. /\ UNCHANGED <<terminate_thread, data, request_event, response_event, image, driver,
                       req_block, resp_block, disk, unread, abandoned>>
        /\ server = "respond" /\ server' = "signal" /\ worker = "wait"
        /\ ~request_event /\ ~response_event
    BY <1>13 DEF ServerRespond, At, TurnInv
  <2>2. CASE irp.code = InfoReq
    BY <2>1, <2>2, NoIrpFacts DEF CallInv, Answers, Told
  <2>3. CASE irp.code # InfoReq
    <3>1. Len(resp_block) = 2 /\ Answers(resp_block[1], resp_block[2]) /\ ToDo' = ToDo
      BY <1>0, <2>1, <2>3 DEF CallInv
    <3>2. header'[1] = resp_block[1] /\ header'[2] = resp_block[2]
      BY <1>13, <3>1 DEF ServerRespond, TypeOK
    <3>3. ASSUME NEW i \in 1 .. ToDo
          PROVE  Told(irp.off + length_done + i - 1)' = Told(irp.off + length_done + i - 1)
      BY <2>1 DEF Told
    <3>4. ASSUME header'[1] = 0, irp.code = ReadReq, NEW i \in 1 .. ToDo
          PROVE  data'[i] = Told(irp.off + length_done + i - 1)'
      BY <2>1, <3>1, <3>2, <3>3, <3>4 DEF Answers
    <3>5. ASSUME header'[1] = 0, irp.code = ReadReq PROVE header'[2] = ToDo
      BY <3>1, <3>2, <3>5 DEF Answers
    <3>6. ASSUME header'[1] = 0, irp.code = WriteReq
          PROVE  /\ header'[2] <= ToDo
                 /\ \A i \in 1 .. header'[2] : image'[irp.off + length_done + i - 1] = irp.word
      BY <2>1, <3>1, <3>2, <3>6 DEF Answers
    <3>7. Answers(header[1], header[2])'
      BY <2>1, <3>1, <3>4, <3>5, <3>6 DEF Answers
    <3> QED
      BY <2>1, <3>7 DEF CallInv
  <2> QED
    BY <2>2, <2>3
<1>14. CASE ServerSignal
  BY <1>0, <1>14 DEF ServerSignal, At, CallInv, TurnInv, Asks, Answers, Told
<1>15. CASE ServerKilled
  BY <1>0, <1>15 DEF ServerKilled, CallInv, TurnInv, Asks, Answers, Told
<1>16. ASSUME NEW r \in Irp, TakeIrp(r) PROVE CallInv'
  BY <1>16 DEF TakeIrp, Goto, CallInv, TurnInv
<1> QED
  BY StepCases, <1>1, <1>2, <1>3, <1>4, <1>5, <1>6, <1>7, <1>8, <1>9, <1>10, <1>11, <1>12,
     <1>13, <1>14, <1>15, <1>16

-----------------------------------------------------------------------------
(* What is moved. *)

LEMMA StepContent ==
    TypeOK /\ LoopInv /\ TurnInv /\ CallInv /\ ContentInv /\ [Next]_vars => ContentInv'
<1> SUFFICES ASSUME TypeOK, LoopInv, TurnInv, CallInv, ContentInv, [Next]_vars,
                    ~abandoned', Busy'
             PROVE  ContentInv'
  BY DEF ContentInv
<1> USE DEF shared, driver, serverVars
<1>1. CASE UNCHANGED vars
  BY <1>1 DEF vars, ContentInv, Busy, Told
<1>2. CASE SendRequest \/ SetRequestEvent \/ WaitResponse \/ RemoveVirtualDisk
  <2>1. UNCHANGED <<irp, length_done, result, image, disk, unread, abandoned>>
        /\ (worker' = "done" => worker = "done") /\ Busy
    BY <1>2 DEF SendRequest, RequestHeader, SetRequestEvent, WaitResponse, RemoveVirtualDisk,
                Goto, Busy
  <2> QED
    BY <2>1 DEF ContentInv, Told
<1>3. CASE WaitCancelled \/ CompleteIrp \/ WriteClose \/ SignalClose \/ TearDown
  BY <1>3 DEF WaitCancelled, CompleteIrp, WriteClose, SignalClose, TearDown, Goto, Busy
<1>4. CASE ReadResponse
  <2>1. ~Fail
    BY DEF Fail, Busy
  <2>2. /\ worker = "response" /\ irp \in Irp \cup {Query} /\ length_done < irp.len
        /\ UNCHANGED <<image, disk, unread, abandoned, irp>> /\ length_done' <= irp.len
        /\ Busy /\ Answers(header[1], header[2])
    BY <1>4, <2>1, ResponseAdvances DEF CallInv, Busy
  <2>3. /\ ToDo \in Nat /\ ToDo > 0 /\ length_done \in Nat /\ irp.len \in Nat /\ irp.off \in Nat
    BY <2>2, ToDoFacts, IrpFacts DEF TypeOK, LoopInv, NoOverrun
  <2>4. CASE irp.code = ReadReq
    <3>0. header[1] = 0 /\ header[2] = ToDo
          /\ \A i \in 1 .. ToDo : data[i] = Told(irp.off + length_done + i - 1)
      BY <1>4, <2>1, <2>2, <2>4, ResponseAdvances DEF Answers
    <3>1. /\ length_done' = length_done + ToDo
          /\ \A i \in 1 .. length_done : result'[i] = result[i]
          /\ \A i \in 1 .. ToDo : result'[length_done + i] = data[i]
          /\ worker' = "done" => length_done' = irp.len
      BY <1>4, <2>1, <2>3, <2>4, <3>0, ResponseAdvances
    <3>2. ASSUME NEW i \in 1 .. length_done'
          PROVE  result'[i] = Told(irp.off + i - 1)'
      <4>0. Told(irp.off + i - 1)' = Told(irp.off + i - 1)
        BY <2>2 DEF Told
      <4>1. CASE i \in 1 .. length_done
        BY <2>2, <2>4, <3>1, <4>0, <4>1 DEF ContentInv
      <4>2. CASE i \notin 1 .. length_done
        <5> DEFINE j == i - length_done
        <5>1. j \in 1 .. ToDo /\ i = length_done + j
              /\ irp.off + length_done + j - 1 = irp.off + i - 1
          BY <2>3, <3>1, <4>2
        <5> HIDE DEF j
        <5> QED
          BY <2>2, <3>0, <3>1, <4>0, <5>1
      <4> QED
        BY <4>1, <4>2
    <3> QED
      BY <2>2, <2>4, <3>1, <3>2, NoIrpFacts DEF ContentInv
  <2>5. CASE irp.code = WriteReq
    <3>1. /\ header[2] = ToDo /\ length_done' = length_done + ToDo
          /\ \A i \in 1 .. ToDo : image[irp.off + length_done + i - 1] = irp.word
          /\ worker' = "done" => length_done' = irp.len
      BY <1>4, <2>1, <2>2, <2>3, <2>5, ResponseAdvances DEF Answers
    <3>2. ASSUME NEW i \in 1 .. length_done'
          PROVE  image'[irp'.off + i - 1] = irp'.word
      <4>1. CASE i \in 1 .. length_done
        BY <2>2, <2>5, <3>1, <4>1 DEF ContentInv
      <4>2. CASE i \notin 1 .. length_done
        <5> DEFINE j == i - length_done
        <5>1. j \in 1 .. ToDo /\ irp.off + length_done + j - 1 = irp.off + i - 1
          BY <2>3, <3>1, <4>2
        <5> HIDE DEF j
        <5> QED
          BY <2>2, <3>1, <5>1
      <4> QED
        BY <4>1, <4>2
    <3> QED
      BY <2>2, <2>5, <3>1, <3>2, NoIrpFacts DEF ContentInv
  <2>6. CASE irp.code = InfoReq
    BY <2>2, <2>6, NoIrpFacts DEF ContentInv
  <2> QED
    BY <2>2, <2>4, <2>5, <2>6, IrpFacts
<1>5. CASE ServerWait \/ ServerRequest \/ ServerRespond \/ ServerSignal \/ ServerKilled
  <2>1. UNCHANGED <<irp, length_done, result, image, disk, unread, abandoned, worker>> /\ Busy
    BY <1>5 DEF ServerWait, ServerRequest, ServerRespond, ServerSignal, ServerKilled, Busy
  <2> QED
    BY <2>1 DEF ContentInv, Told
<1>8. CASE ServerRead
  <2>1. /\ UNCHANGED <<irp, length_done, result, image, disk, abandoned, worker>>
        /\ worker = "wait" /\ Busy /\ server = "transfer"
    BY <1>8 DEF ServerRead, At, TurnInv, Busy
  <2>2. irp.code = ReadReq /\ req_block[2] = irp.off + length_done
    BY <1>8, <2>1, NoIrpFacts DEF CallInv, Asks, ServerRead
  <2>3. length_done \in Nat /\ irp.off \in Nat
    BY ToDoFacts, IrpFacts DEF TypeOK, LoopInv, NoOverrun
  <2>4. PICK got \in SUBSET (Target(Asked) \cap Cell) :
            unread' = (unread \cup (Target(Asked) \cap Cell)) \ got
    BY <1>8, <2>1 DEF ServerRead
  <2>5. ASSUME NEW i \in 1 .. length_done
        PROVE  Told(irp.off + i - 1)' = Told(irp.off + i - 1)
    <3> DEFINE p == irp.off + i - 1
    <3>1. p \notin Target(Asked)
      BY <2>2, <2>3 DEF Target
    <3> HIDE DEF p
    <3>2. p \in unread' <=> p \in unread
      BY <2>4, <3>1
    <3> QED
      BY <2>1, <3>2 DEF Told, p
  <2> QED
    BY <2>1, <2>2, <2>5, NoIrpFacts DEF ContentInv
<1>6. CASE ServerWrite
  <2>1. /\ UNCHANGED <<driver, disk, abandoned>> /\ worker = "wait" /\ Busy
        /\ server = "transfer"
    BY <1>6 DEF ServerWrite, At, TurnInv, Busy
  <2>2. /\ irp.code = WriteReq /\ req_block[2] = irp.off + length_done /\ req_block[3] = ToDo
        /\ \A i \in 1 .. ToDo : data[i] = irp.word
    BY <1>6, <2>1, NoIrpFacts DEF CallInv, Asks, ServerWrite
  <2>3. /\ ToDo \in Nat /\ ToDo <= Chunk /\ length_done + ToDo <= irp.len
        /\ length_done \in Nat /\ irp.off \in Nat /\ irp.len \in Nat /\ irp.off + irp.len <= Size
    BY ToDoFacts, IrpFacts DEF TypeOK, LoopInv, NoOverrun
  <2>4. Asked = ToDo
    BY <2>2, <2>3, SizeAssumption DEF Asked, Least
  <2>5. PICK n \in 0 .. Asked :
            image' = [p \in Cell |->
                  IF p \in Target(n) THEN data[p - req_block[2] + 1] ELSE image[p]]
    BY <1>6 DEF ServerWrite
  <2>6. ASSUME NEW p \in Cell, p \in Target(n)
        PROVE  /\ image'[p] = irp.word
               /\ p >= irp.off + length_done /\ p <= irp.off + irp.len - 1
    <3>1. p - req_block[2] + 1 \in 1 .. ToDo
          /\ p >= irp.off + length_done /\ p <= irp.off + irp.len - 1
      <4>1. n \in Nat /\ n <= ToDo /\ p \in Nat
        BY <2>3, <2>4, <2>5, SizeAssumption DEF Cell
      <4>2. p >= irp.off + length_done /\ p <= irp.off + length_done + n - 1
        BY <2>2, <2>3, <2>6, <4>1 DEF Target
      <4> QED
        BY <2>2, <2>3, <4>1, <4>2
    <3> QED
      BY <2>2, <2>5, <2>6, <3>1
  <2>7. ASSUME NEW p \in Cell, p \notin Target(n) PROVE image'[p] = image[p]
    BY <2>5, <2>7
  <2>8. ASSUME NEW i \in 1 .. length_done PROVE image'[irp.off + i - 1] = irp.word
    <3> DEFINE p == irp.off + i - 1
    <3>1. p \in Cell /\ p < irp.off + length_done
      BY <2>3, SizeAssumption DEF Cell, LoopInv, NoOverrun
    <3>2. image[p] = irp.word
      BY <2>1, <2>2 DEF ContentInv
    <3> HIDE DEF p
    <3>3. image'[p] = irp.word
      BY <2>3, <2>6, <2>7, <3>1, <3>2
    <3> QED
      BY <3>3 DEF p
  <2>9. ASSUME NEW p \in Cell
        PROVE  \/ image'[p] = disk[p]
               \/ p \in irp.off .. irp.off + irp.len - 1 /\ image'[p] = irp.word
    <3>1. CASE p \in Target(n)
      <4>1. p \in Nat /\ p >= irp.off
        BY <2>3, <2>6, <3>1, SizeAssumption DEF Cell
      <4> QED
        BY <2>3, <2>6, <3>1, <4>1
    <3>2. CASE p \notin Target(n)
      BY <2>1, <2>7, <3>2 DEF ContentInv
    <3> QED
      BY <3>1, <3>2
  <2> QED
    BY <2>1, <2>2, <2>8, <2>9, NoIrpFacts DEF ContentInv
<1>7. ASSUME NEW r \in Irp, TakeIrp(r) PROVE ContentInv'
  <2>1. length_done' = 0 /\ disk' = image /\ image' = image /\ worker' = "request"
    BY <1>7 DEF TakeIrp, Goto, LoopInv
  <2> QED
    BY <2>1 DEF ContentInv
<1> QED
  BY StepCases, <1>1, <1>2, <1>3, <1>4, <1>5, <1>6, <1>7, <1>8

-----------------------------------------------------------------------------
(* The theorems. *)

LEMMA InitInv == Init => IInv
<1> SUFFICES ASSUME Init PROVE IInv
  OBVIOUS
<1>1. TypeOK
  BY InitType
<1>2. irp = Query /\ Query.len = 1 /\ Query.code = InfoReq /\ InfoReq # ReadReq
      /\ InfoReq # WriteReq
  BY DEF Init, Query, InfoReq, ReadReq, WriteReq
<1>3. LoopInv
  BY <1>2, EmptyResult DEF Init, LoopInv, NoOverrun
<1>4. TurnInv /\ CallInv /\ ContentInv
  BY <1>2 DEF Init, TurnInv, CallInv, ContentInv
<1> QED
  BY <1>1, <1>3, <1>4 DEF IInv

LEMMA StepInv == IInv /\ [Next]_vars => IInv'
  BY StepType, StepLoop, StepTurn, StepCall, StepContent DEF IInv

\* The inductive invariant: everything the two sides know of each other, beside TypeOK.
THEOREM Inductive == Spec => []IInv
  BY InitInv, StepInv, PTL DEF Spec

\* For every image and every buffer, FscryptDiskCallProxy and the request loop of devio take turns
\* with the shared memory, as long as no call is given up: while the driver writes a request or
\* reads an answer the server waits, and the two events are never both set.
THEOREM TakesTurns == Spec => []TurnTaking
<1>1. IInv => TurnTaking
  BY DEF IInv, TurnInv, TurnTaking
<1> QED
  BY <1>1, Inductive, PTL

LEMMA InvReads == IInv => ReadsMatch
<1> SUFFICES ASSUME IInv, worker = "done", irp.code = ReadReq, ~abandoned
             PROVE  result = [i \in 1 .. irp.len |-> Told(irp.off + i - 1)]
  BY DEF ReadsMatch
<1>1. /\ length_done = irp.len /\ Len(result) = irp.len
      /\ \A i \in 1 .. irp.len : result[i] = Told(irp.off + i - 1)
  BY NoIrpFacts DEF IInv, ContentInv, Busy, LoopInv, NoOverrun
<1>2. result \in Seq(Value)
  BY ResultFacts DEF IInv, TypeOK
<1> QED
  BY <1>1, <1>2

LEMMA InvWrites == IInv => WritesContained
<1> SUFFICES ASSUME IInv, ~abandoned, Busy, NEW p \in Cell
             PROVE  LET inRange == irp.code = WriteReq /\ p \in irp.off .. irp.off + irp.len - 1
                    IN IF worker = "done" /\ inRange THEN image[p] = irp.word
                       ELSE image[p] = disk[p] \/ (inRange /\ image[p] = irp.word)
  BY DEF WritesContained, Busy
<1>1. ASSUME worker = "done", irp.code = WriteReq, p \in irp.off .. irp.off + irp.len - 1
      PROVE  image[p] = irp.word
  <2> DEFINE i == p - irp.off + 1
  <2>1. length_done = irp.len
    BY <1>1, NoIrpFacts DEF IInv, ContentInv
  <2>2. irp.off \in Nat /\ irp.len \in Nat
    BY IrpFacts DEF IInv, TypeOK
  <2>3. i \in 1 .. length_done /\ irp.off + i - 1 = p
    BY <1>1, <2>1, <2>2
  <2> HIDE DEF i
  <2> QED
    BY <1>1, <2>3 DEF IInv, ContentInv
<1>2. image[p] = disk[p] \/ (/\ irp.code = WriteReq /\ p \in irp.off .. irp.off + irp.len - 1
                             /\ image[p] = irp.word)
  BY DEF IInv, ContentInv
<1> QED
  BY <1>1, <1>2

\* For every image and every buffer, a transfer of FscryptDiskReadProxy and FscryptDiskWriteProxy
\* is whole and within its range, through any number of calls, short answers, refusals and a kill
\* of the server, as long as no call is given up: a read returns the image, but zeros for exactly
\* the cells whose reading the server cut short (read_data answers those as read).  That no answer
\* makes the driver copy more than the caller's buffer holds needs no such condition.
THEOREM MovesWhole == Spec => []TransfersWhole
<1>1. IInv => TransfersWhole
  BY InvReads, InvWrites DEF IInv, LoopInv, TransfersWhole
<1> QED
  BY <1>1, Inductive, PTL

-----------------------------------------------------------------------------
(* Settings, for every number of programs, device numbers and disks.       *)

\* The steps of a program, and a program at one of them.
Step == {"idle", "services", "wait", "create", "read", "load", "write", "lower", "set", "delete",
         "eject"}

Edit == [pc : Step, n : Numbers, data : Data \cup {NoDisk}, load : 0 .. MaxNumber + 1, at : 0 .. 5]

\* A program is between the first and the last step of an edit, or between the reading
\* and the writing of LoadDevices.
Editing(e) == e.pc \in {"read", "load", "write", "lower", "set", "delete"}
Counting(e) == e.pc \in {"load", "set"}

\* The driver starts a device of this number, or would if LoadDevices had been read.
Loads(l, n) == l # NoValue /\ n < l
Counts(l, c, n) == Loads(l, n) \/ n \in c

\* A field is as it is in d, or it was to be deleted and that failed.
Done(v, lost, d, f) == v[f] = d[f] \/ (d[f] = NoValue /\ f \in lost)

\* A program's edit against LoadDevices and the values of its number: what it read
\* of LoadDevices is still true, and the values before the one it is at are done.
Progress(e, l, c, v, lost) ==
    /\ e.pc \in {"services", "wait", "create", "read", "load", "write"} => e.data \in Disks
    /\ e.pc \in {"read", "load", "write"} => Valid(e.data)
    /\ e.pc = "load" => /\ e.n < e.load
                        /\ \A m \in Numbers : Loads(l, m) => m < e.load \/ m \in c
    /\ e.pc = "set" => l = e.n + 1 /\ e.at = 1
    /\ e.pc = "write" => Counts(l, c, e.n)
    /\ e.pc \in {"write", "delete"} => e.at \in 1 .. 5
    /\ e.pc = "write" => \A j \in 1 .. e.at - 1 : Done(v, lost, e.data, Field[j])
    /\ e.pc = "delete" => \A j \in 1 .. e.at - 1 : Done(v, lost, None, Field[j])

\* What the registry has to hold of a number for a user to have been told k.
Holds(k, l, c, n, v, lost) ==
    /\ \A f \in Fields : Done(v, lost, IF k = NoDisk THEN None ELSE k, f)
    /\ k # NoDisk => Valid(k) /\ Counts(l, c, n)

\* The inductive invariant.
SettingsInv ==
    /\ SettingsTypeOK
    /\ \A p \in Programs :
         Progress(program[p], load, cut, value[program[p].n], left[program[p].n])
    /\ \A n \in Numbers :
         kept[n] # Unknown /\ ~Edited(n) => Holds(kept[n], load, cut, n, value[n], left[n])

\* SettingsTypeOK in two parts, of which the edits change the first only.
SettingsTypes ==
    /\ load \in (0 .. MaxNumber + 1) \cup {NoValue}
    /\ value \in [Numbers -> Data]
    /\ program \in [Programs -> Edit]
    /\ kept \in [Numbers -> Data \cup {NoDisk, Unknown}]
    /\ left \in [Numbers -> SUBSET Fields]
    /\ cut \in SUBSET Numbers

System ==
    /\ loaded \in BOOLEAN
    /\ helper \in {"stopped", "starting", "ready"}
    /\ starting \subseteq Numbers
    /\ devices \subseteq Numbers

LEMMA SettingsTypesAre ==
    /\ SettingsTypeOK <=> SettingsTypes /\ System
    /\ SettingsTypeOK' <=> SettingsTypes' /\ System'
  BY DEF SettingsTypeOK, SettingsTypes, System, Edit, Step

\* What tells values, disks and answers apart.
LEMMA ApartFacts ==
    /\ NoDisk \notin Data /\ Unknown \notin Data /\ Unknown # NoDisk
    /\ None \in Data
    /\ NoValue \notin 0 .. MaxNumber + 1 /\ MaxNumber \in Nat /\ Disks \subseteq Data
    /\ NoValue \notin LongNames
    /\ 0 \in Numbers
  BY SettingsAssumption DEF Data, None, Numbers

LEMMA NameFacts ==
    /\ {"ImageFileName", "Size", "Flags"} \subseteq Fields
    /\ \A f \in Fields : None[f] = NoValue
    /\ ~Valid(None)
<1>1. "ImageFileName" \in Fields /\ "Size" \in Fields /\ "Flags" \in Fields
  <2>1. /\ Field[1] = "ImageFileName" /\ Field[2] = "Size" /\ Field[3] = "Flags"
        /\ 1 \in 1 .. 5 /\ 2 \in 1 .. 5 /\ 3 \in 1 .. 5
    BY DEF Field
  <2> QED
    BY <2>1 DEF Fields
<1> QED
  BY <1>1 DEF None, Valid

LEMMA IdleEdit == Idle \in Edit /\ ~Editing(Idle) /\ Idle.pc = "idle"
  BY ApartFacts DEF Edit, Idle, Step, Editing

\* The fields are numbered from 1 to 5.
LEMMA FieldFacts ==
    /\ \A i \in 1 .. 5 : Field[i] \in Fields
    /\ \A i, j \in 1 .. 5 : Field[i] = Field[j] => i = j
    /\ \A f \in Fields : \E i \in 1 .. 5 : f = Field[i]
<1>1. \A i \in 1 .. 5 : i = 1 \/ i = 2 \/ i = 3 \/ i = 4 \/ i = 5
  OBVIOUS
<1>2. /\ Field[1] = "ImageFileName" /\ Field[2] = "Size" /\ Field[3] = "Flags"
      /\ Field[4] = "DriveLetter" /\ Field[5] = "ImageOffset"
  BY DEF Field
<1>3. \A i, j \in 1 .. 5 : Field[i] = Field[j] => i = j
  BY <1>1, <1>2
<1> QED
  BY <1>3 DEF Fields

\* A step that leaves the registry, and the edits that are under way, alone; LoadDevices
\* may prove unreadable.
LEMMA Quiet ==
    ASSUME SettingsInv, NEW p \in Programs, NEW e \in Edit, UNCHANGED <<load, value, kept, left>>,
           program' = [program EXCEPT ![p] = e], System',
           NEW c \in SUBSET Numbers, cut' = c, cut \subseteq c,
           Progress(e, load, c, value[e.n], left[e.n]),
           Editing(program[p]) => Editing(e) /\ e.n = program[p].n
    PROVE  SettingsInv'
<1>1. SettingsTypes /\ SettingsTypes'
  BY SettingsTypesAre DEF SettingsInv, SettingsTypes
<1>2. SettingsTypeOK'
  BY <1>1, SettingsTypesAre
<1>3. \A q \in Programs : program'[q] = IF q = p THEN e ELSE program[q]
  BY <1>1 DEF SettingsTypes
<1>4. ASSUME NEW q \in Programs
      PROVE  Progress(program[q], load, cut, value[program[q].n], left[program[q].n])'
  <2>1. CASE q = p
    BY <1>3, <2>1 DEF Progress, Counts, Loads, Done
  <2>2. CASE q # p
    <3>1. program'[q] = program[q] /\ Progress(program[q], load, cut, value[program[q].n], left[program[q].n])
      BY <1>3, <2>2 DEF SettingsInv
    <3> QED
      BY <3>1 DEF Progress, Counts, Loads, Done
  <2> QED
    BY <2>1, <2>2
<1>5. ASSUME NEW n \in Numbers, Edited(n) PROVE Edited(n)'
  BY <1>3, <1>5 DEF Edited, Edits, Editing
<1>6. \A n \in Numbers : kept'[n] # Unknown /\ ~Edited(n)'
                           => Holds(kept[n], load, cut, n, value[n], left[n])'
  BY <1>5 DEF SettingsInv, Holds, Counts, Loads, Done
<1> QED
  BY <1>2, <1>4, <1>6 DEF SettingsInv

\* A step of a program that edits: it goes on with its edit, or it ends it and what it
\* tells its user holds.  It changes LoadDevices only if it has read it.
LEMMA EditStep ==
    ASSUME SettingsInv, EditsApart, NEW p \in Programs, Editing(program[p]), NEW e \in Edit,
           NEW n \in Numbers, n = program[p].n, NEW l \in (0 .. MaxNumber + 1) \cup {NoValue},
           NEW c \in SUBSET Numbers, NEW v \in Data, NEW lost \in SUBSET Fields,
           NEW k \in Data \cup {NoDisk, Unknown},
           program' = [program EXCEPT ![p] = e], load' = l, cut' = c,
           value' = [value EXCEPT ![n] = v], left' = [left EXCEPT ![n] = lost],
           kept' = [kept EXCEPT ![n] = k], UNCHANGED <<loaded, helper, starting, devices>>,
           e.n = n \/ e.pc = "idle",
           e.n = n => Progress(e, l, c, v, lost),
           \/ Editing(e) /\ e.n = n
           \/ ~Editing(e) /\ (k # Unknown => Holds(k, l, c, n, v, lost)),
           Counting(program[p]) \/ (l = load /\ c = cut),
           \A m \in Numbers \ {n} : Counts(load, cut, m) => Counts(l, c, m)
    PROVE  SettingsInv'
<1>1. SettingsTypes /\ SettingsTypes' /\ System'
  BY SettingsTypesAre DEF SettingsInv, SettingsTypes, System
<1>2. SettingsTypeOK'
  BY <1>1, SettingsTypesAre
<1>3. /\ \A q \in Programs : program'[q] = IF q = p THEN e ELSE program[q]
      /\ \A m \in Numbers : /\ value'[m] = IF m = n THEN v ELSE value[m]
                            /\ left'[m] = IF m = n THEN lost ELSE left[m]
                            /\ kept'[m] = IF m = n THEN k ELSE kept[m]
  BY <1>1 DEF SettingsTypes
<1>4. ASSUME NEW q \in Programs
      PROVE  Progress(program[q], load, cut, value[program[q].n], left[program[q].n])'
  <2>1. CASE q = p
    <3>1. program'[q] = e
      BY <1>3, <2>1
    <3>2. CASE e.n = n
      <4>1. value'[e.n] = v /\ left'[e.n] = lost
        BY <1>3, <3>2
      <4> QED
        BY <3>1, <3>2, <4>1 DEF Progress, Counts, Loads, Done
    <3>3. CASE e.pc = "idle"
      BY <3>1, <3>3 DEF Progress
    <3> QED
      BY <3>2, <3>3
  <2>2. CASE q # p
    <3> DEFINE d == program[q]
    <3>1. program'[q] = d /\ d \in Edit /\ d.n \in Numbers
      BY <1>1, <1>3, <2>2 DEF SettingsTypes, Edit
    <3>2. Progress(d, load, cut, value[d.n], left[d.n])
      BY DEF SettingsInv
    <3>3. CASE ~Editing(d)
      <4> HIDE DEF d
      <4> QED
        BY <3>1, <3>2, <3>3 DEF Progress, Editing
    \* Another program that edits has another number.
    <3>4. CASE Editing(d)
      <4>1. d.n # n
        BY <2>2, <3>1, <3>4 DEF EditsApart, Edits, Editing
      <4>2. value'[d.n] = value[d.n] /\ left'[d.n] = left[d.n] /\ d.n \in Numbers \ {n}
        BY <1>3, <3>1, <4>1
      <4>3. Counting(d) => l = load /\ c = cut
        BY <2>2 DEF EditsApart, Counting
      <4> HIDE DEF d
      <4>4. Progress(d, l, c, value[d.n], left[d.n])
        BY <3>2, <4>2, <4>3 DEF Progress, Counting
      <4> QED
        BY <3>1, <4>2, <4>4 DEF Progress, Counts, Loads, Done
    <3> QED
      BY <3>3, <3>4
  <2> QED
    BY <2>1, <2>2
<1>5. ASSUME NEW m \in Numbers, kept'[m] # Unknown, ~Edited(m)'
      PROVE  Holds(kept'[m], load', cut', m, value'[m], left'[m])
  <2>1. CASE m = n
    <3>1. ~(Editing(e) /\ e.n = n)
      BY <1>3, <1>5, <2>1 DEF Edited, Edits, Editing
    <3> QED
      BY <1>3, <1>5, <2>1, <3>1
  <2>2. CASE m # n
    <3>1. ~Edited(m)
      BY <1>3, <1>5, <2>2 DEF Edited, Edits
    <3>2. /\ Holds(kept[m], load, cut, m, value[m], left[m]) /\ kept'[m] = kept[m]
          /\ value'[m] = value[m] /\ left'[m] = left[m]
      BY <1>3, <1>5, <2>2, <3>1 DEF SettingsInv
    <3> QED
      BY <2>2, <3>2 DEF Holds
  <2> QED
    BY <2>1, <2>2
<1> QED
  BY <1>2, <1>4, <1>5 DEF SettingsInv, Holds, Counts, Loads, Done

\* What is known of the invariant's parts.
LEMMA SettingsStand ==
    ASSUME SettingsInv
    PROVE  /\ SettingsTypes /\ System
           /\ \A p \in Programs :
                /\ program[p] \in Edit /\ program[p].n \in Numbers
                /\ value[program[p].n] \in Data /\ left[program[p].n] \in SUBSET Fields
                /\ Progress(program[p], load, cut, value[program[p].n], left[program[p].n])
           /\ \A n \in Numbers : /\ value = [value EXCEPT ![n] = value[n]]
                                 /\ left = [left EXCEPT ![n] = left[n]]
                                 /\ kept = [kept EXCEPT ![n] = kept[n]]
                                 /\ kept[n] \in Data \cup {NoDisk, Unknown} /\ value[n] \in Data
                                 /\ left[n] \in SUBSET Fields
  BY SettingsTypesAre DEF SettingsInv, SettingsTypes, Edit

\* A step that leaves both alone.
LEMMA Still ==
    ASSUME SettingsInv, NEW p \in Programs, NEW e \in Edit, UNCHANGED <<load, value, kept, left, cut>>,
           program' = [program EXCEPT ![p] = e], System',
           Progress(e, load, cut, value[e.n], left[e.n]),
           Editing(program[p]) => Editing(e) /\ e.n = program[p].n
    PROVE  SettingsInv'
<1>1. cut \in SUBSET Numbers /\ cut \subseteq cut /\ UNCHANGED <<load, value, kept, left>>
  BY SettingsStand DEF SettingsTypes
<1> QED
  BY <1>1, Quiet

-----------------------------------------------------------------------------
(* The steps.                                                              *)

\* The driver and the helper service.
LEMMA SSystem ==
    ASSUME SettingsInv,
           DriverEntry \/ Unload \/ HelperStarts \/ HelperStops \/ \E n \in Numbers : DeviceThread(n)
    PROVE  SettingsInv'
<1>1. System'
  BY SettingsStand DEF System, DriverEntry, AddVirtualDisks, Loadable, Unload, HelperStarts,
                       HelperStops, DeviceThread
<1>2. UNCHANGED <<load, value, program, kept, left, cut>>
  BY DEF DriverEntry, Unload, HelperStarts, HelperStops, DeviceThread
<1>3. SettingsTypeOK'
  BY <1>1, <1>2, SettingsStand, SettingsTypesAre DEF SettingsTypes
<1> QED
  BY <1>2, <1>3 DEF SettingsInv, Progress, Holds, Counts, Loads, Done, Edited, Edits

\* The machine goes down: nobody is told anything of an edit under way.
LEMMA SRestart == ASSUME SettingsInv, Restart PROVE SettingsInv'
<1>1. program' = [p \in Programs |-> Idle] /\ UNCHANGED <<load, value, left, cut>>
      /\ kept' = [n \in Numbers |-> IF \E p \in Programs : Edits(p, n) THEN Unknown ELSE kept[n]]
  BY DEF Restart
<1>2. SettingsTypes'
  BY <1>1, SettingsStand, IdleEdit DEF SettingsTypes
<1>3. System'
  BY DEF System, Restart
<1>4. \A p \in Programs : Progress(program[p], load, cut, value[program[p].n], left[program[p].n])'
  BY <1>1, IdleEdit DEF Progress
<1>5. ASSUME NEW n \in Numbers, kept'[n] # Unknown
      PROVE  Holds(kept'[n], load', cut', n, value'[n], left'[n])
  BY <1>1, <1>5 DEF SettingsInv, Edited, Holds
<1> QED
  BY <1>2, <1>3, <1>4, <1>5, SettingsTypesAre DEF SettingsInv, Holds, Counts, Loads, Done

LEMMA SOpenDriver == ASSUME SettingsInv, NEW p \in Programs, OpenDriver(p) PROVE SettingsInv'
<1>1. PICK given \in Disks :
         program' = [program EXCEPT ![p] =
                       [Idle EXCEPT !.pc = IF NeedsHelper(given) THEN "services" ELSE "create",
                                    !.data = given]]
  BY DEF OpenDriver
<1> DEFINE e == [Idle EXCEPT !.pc = IF NeedsHelper(given) THEN "services" ELSE "create",
                             !.data = given]
<1>2. ASSUME NEW u \in Edit, NEW q \in {"services", "create"}
      PROVE  LET d == [u EXCEPT !.pc = q, !.data = given]
             IN  d \in Edit /\ d.pc = q /\ d.data = given
  BY ApartFacts DEF Edit, Step
<1>3. e \in Edit /\ e.pc \in {"services", "create"} /\ e.data = given
  BY <1>2, IdleEdit
<1>4. program' = [program EXCEPT ![p] = e] /\ program[p].pc = "idle"
      /\ UNCHANGED <<load, value, kept, left, cut, loaded, helper, starting, devices>>
  BY <1>1 DEF OpenDriver
<1> HIDE DEF e
<1>5. Progress(e, load, cut, value[e.n], left[e.n]) /\ ~Editing(program[p])
  BY <1>3, <1>4 DEF Progress, Editing
<1>6. System'
  BY <1>4, SettingsStand DEF System
<1> QED
  BY <1>3, <1>4, <1>5, <1>6, Still

\* A program goes on to a step that is not one of an edit, or gives up.
LEMMA Waits ==
    ASSUME SettingsInv, NEW p \in Programs, program[p].pc \in {"services", "wait", "create", "eject"},
           UNCHANGED <<load, value, kept, left, cut>>, System',
           \/ /\ program[p].pc # "eject"
              /\ \E q \in {"wait", "create"} : program' = [program EXCEPT ![p].pc = q]
           \/ program' = [program EXCEPT ![p] = Idle]
    PROVE  SettingsInv'
<1>1. CASE program' = [program EXCEPT ![p] = Idle]
  BY <1>1, IdleEdit, Still DEF Progress, Editing
<1>2. CASE program[p].pc # "eject" /\ \E q \in {"wait", "create"} : program' = [program EXCEPT ![p].pc = q]
  <2>1. PICK q \in {"wait", "create"} : program' = [program EXCEPT ![p].pc = q]
    BY <1>2
  <2> DEFINE e == [program[p] EXCEPT !.pc = q]
  <2>2. e \in Edit /\ e.pc = q /\ e.data = program[p].data
    BY SettingsStand DEF Edit, Step
  <2>3. program' = [program EXCEPT ![p] = e]
    BY <2>1
  <2>4. program[p].data \in Disks
    BY <1>2, SettingsStand DEF Progress
  <2> HIDE DEF e
  <2>5. Progress(e, load, cut, value[e.n], left[e.n]) /\ ~Editing(program[p])
    BY <2>2, <2>4 DEF Progress, Editing
  <2> QED
    BY <2>2, <2>3, <2>5, Still
<1> QED
  BY <1>1, <1>2

LEMMA SHelper ==
    ASSUME SettingsInv, NEW p \in Programs, StartHelper(p) \/ WaitNamedPipe(p) \/ Eject(p)
    PROVE  SettingsInv'
<1>1. System'
  BY SettingsStand DEF System, StartHelper, WaitNamedPipe, Eject
<1> QED
  BY <1>1, Waits DEF StartHelper, WaitNamedPipe, Eject

LEMMA SCreateDevice == ASSUME SettingsInv, NEW p \in Programs, CreateDevice(p) PROVE SettingsInv'
<1> DEFINE given == program[p].data
<1>1. program[p].pc = "create" /\ UNCHANGED <<load, value, kept, left, cut, loaded, helper, starting>>
  BY DEF CreateDevice
<1>2. System'
  BY <1>1, SettingsStand DEF System, CreateDevice, AddVirtualDisk
<1>3. CASE program' = [program EXCEPT ![p] = Idle]
  BY <1>1, <1>2, <1>3, Waits
<1>4. CASE program' # [program EXCEPT ![p] = Idle]
  <2>1. PICK n \in Numbers :
           /\ AddVirtualDisk(n, given)
           /\ program' = [program EXCEPT ![p] = [Idle EXCEPT !.pc = "read", !.n = n, !.data = given]]
    BY <1>4 DEF CreateDevice
  <2> DEFINE e == [Idle EXCEPT !.pc = "read", !.n = n, !.data = given]
  <2>2. given \in Disks /\ Valid(given) /\ given \in Data \cup {NoDisk}
    BY <1>1, <2>1, SettingsStand, ApartFacts DEF Progress, AddVirtualDisk
  <2>a. ASSUME NEW u \in Edit, NEW g \in Data \cup {NoDisk}
        PROVE  LET x == [u EXCEPT !.pc = "read", !.n = n, !.data = g]
               IN  x \in Edit /\ x.pc = "read" /\ x.n = n /\ x.data = g
    BY DEF Edit, Step
  <2>3. e \in Edit /\ e.pc = "read" /\ e.n = n /\ e.data = given
    BY <2>2, <2>a, IdleEdit
  <2>4. program' = [program EXCEPT ![p] = e]
    BY <2>1
  <2> HIDE DEF e
  <2>5. Progress(e, load, cut, value[e.n], left[e.n]) /\ ~Editing(program[p])
    BY <1>1, <2>2, <2>3 DEF Progress, Editing
  <2> QED
    BY <1>1, <1>2, <2>3, <2>4, <2>5, Still
<1> QED
  BY <1>3, <1>4

LEMMA SRemove ==
    ASSUME SettingsInv, NEW p \in Programs, RemoveDevice(p) \/ StartRemove(p)
    PROVE  SettingsInv'
<1>1. System'
  BY SettingsStand DEF System, RemoveDevice, StartRemove
<1>2. CASE RemoveDevice(p)
  <2>1. UNCHANGED <<load, value, kept, program, left, cut>>
    BY <1>2 DEF RemoveDevice
  <2>2. SettingsTypeOK'
    BY <1>1, <2>1, SettingsStand, SettingsTypesAre DEF SettingsTypes
  <2> QED
    BY <2>1, <2>2 DEF SettingsInv, Progress, Holds, Counts, Loads, Done, Edited, Edits
<1>3. CASE StartRemove(p)
  <2>1. PICK n \in devices : program' = [program EXCEPT ![p] = [Idle EXCEPT !.pc = "lower", !.n = n]]
    BY <1>3 DEF StartRemove
  <2>2. n \in Numbers
    BY SettingsStand DEF System
  <2> DEFINE e == [Idle EXCEPT !.pc = "lower", !.n = n]
  <2>3. ASSUME NEW u \in Edit
        PROVE  LET d == [u EXCEPT !.pc = "lower", !.n = n] IN d \in Edit /\ d.pc = "lower"
    BY <2>2 DEF Edit, Step
  <2>4. e \in Edit /\ e.pc = "lower" /\ program' = [program EXCEPT ![p] = e]
    BY <2>1, <2>3, IdleEdit
  <2>5. program[p].pc = "idle" /\ UNCHANGED <<load, value, kept, left, cut>>
    BY <1>3 DEF StartRemove
  <2> HIDE DEF e
  <2>6. Progress(e, load, cut, value[e.n], left[e.n]) /\ ~Editing(program[p])
    BY <2>4, <2>5 DEF Progress, Editing
  <2> QED
    BY <1>1, <2>4, <2>5, <2>6, Still
<1> QED
  BY <1>2, <1>3

LEMMA SReadLoad == ASSUME SettingsInv, NEW p \in Programs, ReadLoad(p) PROVE SettingsInv'
<1> DEFINE n == program[p].n
           e(l) == [program[p] EXCEPT !.pc = "load", !.load = l]
<1>1. PICK l, c :
        /\ program' = [program EXCEPT ![p] = e(l)] /\ cut' = c
        /\ \/ l = NewLoad(n) /\ c = cut
           \/ l = n + 1 /\ c = cut \cup {m \in Numbers : n < m /\ m < DevicesToLoad}
  BY DEF ReadLoad
<1>2. program[p].pc = "read" /\ UNCHANGED <<load, value, loaded, helper, starting, devices, kept, left>>
  BY DEF ReadLoad
<1>3. /\ n \in Numbers /\ cut \in SUBSET Numbers /\ load \in (0 .. MaxNumber + 1) \cup {NoValue}
      /\ Progress(program[p], load, cut, value[n], left[n]) /\ program[p] \in Edit
  BY SettingsStand DEF SettingsTypes
<1>4. l \in 0 .. MaxNumber + 1 /\ c \in SUBSET Numbers /\ cut \subseteq c /\ n < l
  BY <1>1, <1>3, ApartFacts DEF NewLoad, Numbers
<1>5. \A m \in Numbers : Loads(load, m) => m < l \/ m \in c
  BY <1>1, <1>3, ApartFacts DEF NewLoad, Numbers, Loads, DevicesToLoad
<1>6. ASSUME NEW u \in Edit, NEW h \in 0 .. MaxNumber + 1
      PROVE  LET x == [u EXCEPT !.pc = "load", !.load = h]
             IN  x \in Edit /\ x.pc = "load" /\ x.n = u.n /\ x.load = h /\ x.data = u.data
  BY DEF Edit, Step
<1>7. e(l) \in Edit /\ e(l).pc = "load" /\ e(l).n = n /\ e(l).load = l /\ e(l).data = program[p].data
  BY <1>3, <1>4, <1>6
<1>8. System'
  BY <1>2, SettingsStand DEF System
<1> DEFINE f == e(l)
<1>9. program' = [program EXCEPT ![p] = f] /\ n = program[p].n
  BY <1>1
<1>10. f \in Edit /\ f.pc = "load" /\ f.n = n /\ f.load = l /\ f.data = program[p].data
  BY <1>7
<1> HIDE DEF e, f, n
<1>11. Progress(f, load, c, value[f.n], left[f.n]) /\ Editing(f)
  BY <1>2, <1>3, <1>4, <1>5, <1>10 DEF Progress, Editing
<1> QED
  BY <1>1, <1>2, <1>4, <1>8, <1>9, <1>10, <1>11, Quiet

\* An edit that failed: the user is told so.
LEMMA SEditFails ==
    ASSUME SettingsInv, EditsApart, NEW p \in Programs, Editing(program[p]), EditFails(p),
           UNCHANGED <<loaded, helper, starting, devices>>
    PROVE  SettingsInv'
<1> DEFINE n == program[p].n
<1>1. /\ n \in Numbers /\ value[n] \in Data /\ load \in (0 .. MaxNumber + 1) \cup {NoValue}
      /\ left[n] \in SUBSET Fields /\ cut \in SUBSET Numbers
      /\ value' = [value EXCEPT ![n] = value[n]] /\ left' = [left EXCEPT ![n] = left[n]]
  BY SettingsStand DEF EditFails, SettingsTypes
<1>2. /\ program' = [program EXCEPT ![p] = Idle] /\ kept' = [kept EXCEPT ![n] = Unknown]
      /\ load' = load /\ cut' = cut
  BY DEF EditFails
<1>3. Progress(Idle, load, cut, value[n], left[n])
  BY IdleEdit DEF Progress
<1>4. n = program[p].n
  OBVIOUS
<1> HIDE DEF n
<1> QED
  BY <1>1, <1>2, <1>3, <1>4, IdleEdit, EditStep

LEMMA SWriteLoad == ASSUME SettingsInv, EditsApart, NEW p \in Programs, WriteLoad(p) PROVE SettingsInv'
<1> DEFINE n == program[p].n
           l == program[p].load
           e == [program[p] EXCEPT !.pc = "write", !.at = 1]
           c == {m \in cut : l <= m}
           v == value[n]
           lost == left[n]
           k == kept[n]
<1>1. /\ program[p].pc = "load" /\ Editing(program[p]) /\ Counting(program[p])
      /\ UNCHANGED <<loaded, helper, starting, devices>>
  BY DEF WriteLoad, Editing, Counting
<1>2. CASE EditFails(p)
  BY <1>1, <1>2, SEditFails
<1>3. CASE ~EditFails(p)
  <2>1. /\ program' = [program EXCEPT ![p] = e] /\ load' = l /\ cut' = c
        /\ UNCHANGED <<value, kept, left>>
    BY <1>3 DEF WriteLoad
  <2>2. /\ n \in Numbers /\ value[n] \in Data /\ l \in 0 .. MaxNumber + 1
        /\ left[n] \in SUBSET Fields /\ c \in SUBSET Numbers
        /\ kept[n] \in Data \cup {NoDisk, Unknown}
        /\ Progress(program[p], load, cut, value[n], left[n])
        /\ value' = [value EXCEPT ![n] = value[n]] /\ left' = [left EXCEPT ![n] = left[n]]
        /\ kept' = [kept EXCEPT ![n] = kept[n]]
    BY <2>1, SettingsStand DEF Edit, SettingsTypes
  <2>3. ASSUME NEW u \in Edit, NEW i \in 0 .. 5
        PROVE  LET x == [u EXCEPT !.pc = "write", !.at = i]
               IN  x \in Edit /\ x.pc = "write" /\ x.n = u.n /\ x.at = i /\ x.data = u.data
    BY DEF Edit, Step
  <2>4. e \in Edit /\ e.pc = "write" /\ e.n = n /\ e.at = 1 /\ e.data = program[p].data
    <3>1. program[p] \in Edit /\ 1 \in 0 .. 5
      BY SettingsStand
    <3> QED
      BY <2>3, <3>1, ZenonT(30)
  <2>5. n < l /\ \A m \in Numbers : Loads(load, m) => m < l \/ m \in cut
    BY <1>1, <2>2 DEF Progress
  <2>6. Counts(l, c, n) /\ \A m \in Numbers : Counts(load, cut, m) => Counts(l, c, m)
    BY <2>2, <2>5, SettingsStand, ApartFacts DEF Counts, Loads, SettingsTypes, Numbers
  <2>7. n = program[p].n
    OBVIOUS
  <2>8. /\ v \in Data /\ lost \in SUBSET Fields /\ k \in Data \cup {NoDisk, Unknown}
        /\ value' = [value EXCEPT ![n] = v] /\ left' = [left EXCEPT ![n] = lost]
        /\ kept' = [kept EXCEPT ![n] = k]
    BY <2>2
  <2> HIDE DEF e, n, l, c, v, lost, k
  <2>9. Progress(e, l, c, v, lost) /\ Editing(e)
    BY <1>1, <2>2, <2>4, <2>6 DEF Progress, Editing
  <2>10. /\ l \in (0 .. MaxNumber + 1) \cup {NoValue}
         /\ \A m \in Numbers \ {n} : Counts(load, cut, m) => Counts(l, c, m)
    BY <2>2, <2>6
  <2>11. /\ program' = [program EXCEPT ![p] = e] /\ load' = l /\ cut' = c
         /\ n \in Numbers /\ c \in SUBSET Numbers
    BY <2>1, <2>2
  <2> QED
    BY <1>1, <2>4, <2>7, <2>8, <2>9, <2>10, <2>11, EditStep
<1> QED
  BY <1>2, <1>3

\* One more field is as it is to be, and the others are as they were.
Achieved(n, d, f, v, lost) ==
    /\ Done(v, lost, d, f)
    /\ \A g \in Fields \ {f} : v[g] = value[n][g] /\ (g \in left[n] => g \in lost)

LEMMA Deleted ==
    ASSUME SettingsTypes, NEW n \in Numbers, NEW f \in Fields, RegDeleteValue(n, f),
           NEW d, d[f] = NoValue
    PROVE  \E v \in Data, lost \in SUBSET Fields :
             /\ value' = [value EXCEPT ![n] = v] /\ left' = [left EXCEPT ![n] = lost]
             /\ Achieved(n, d, f, v, lost)
<1>1. value[n] \in Data /\ left[n] \in SUBSET Fields /\ value = [value EXCEPT ![n] = value[n]]
  BY DEF SettingsTypes
<1>2. CASE value' = [value EXCEPT ![n][f] = NoValue]
  <2> DEFINE v == [value[n] EXCEPT ![f] = NoValue]
             lost == left[n] \ {f}
  <2>1. v \in Data /\ v[f] = NoValue /\ \A g \in Fields \ {f} : v[g] = value[n][g]
    BY <1>1 DEF Data
  <2>2. CASE left' = [left EXCEPT ![n] = left[n] \ {f}]
    <3>1. value' = [value EXCEPT ![n] = v] /\ left' = [left EXCEPT ![n] = lost]
      BY <1>2, <2>2
    <3>2. lost \in SUBSET Fields /\ \A g \in Fields \ {f} : g \in left[n] => g \in lost
      BY <1>1
    <3> HIDE DEF v, lost
    <3>3. Achieved(n, d, f, v, lost)
      BY <2>1, <3>2 DEF Achieved, Done
    <3> QED
      BY <2>1, <3>1, <3>2, <3>3
  <2>3. CASE left' = [left EXCEPT ![n] = left[n] \cup {f}] /\ UNCHANGED value
    <3>1. Achieved(n, d, f, value[n], left[n] \cup {f}) /\ left[n] \cup {f} \in SUBSET Fields
      BY <1>1 DEF Achieved, Done
    <3> QED
      BY <1>1, <2>3, <3>1
  <2> QED
    BY <2>2, <2>3 DEF RegDeleteValue
<1>3. CASE left' = [left EXCEPT ![n] = left[n] \cup {f}] /\ UNCHANGED value
  <2>1. Achieved(n, d, f, value[n], left[n] \cup {f}) /\ left[n] \cup {f} \in SUBSET Fields
    BY <1>1 DEF Achieved, Done
  <2> QED
    BY <1>1, <1>3, <2>1
<1> QED
  BY <1>2, <1>3 DEF RegDeleteValue

LEMMA Assigned ==
    ASSUME SettingsTypes, NEW n \in Numbers, NEW d \in Data, NEW f \in Fields, SetValue(n, f, d[f])
    PROVE  \E v \in Data, lost \in SUBSET Fields :
             /\ value' = [value EXCEPT ![n] = v] /\ left' = [left EXCEPT ![n] = lost]
             /\ Achieved(n, d, f, v, lost)
<1>1. CASE d[f] = NoValue
  BY <1>1, Deleted DEF SetValue
<1>2. CASE d[f] # NoValue
  <2> DEFINE v == [value[n] EXCEPT ![f] = d[f]]
             lost == left[n] \ {f}
  <2>1. value[n] \in Data /\ left[n] \in SUBSET Fields /\ d[f] \in Values \cup {NoValue}
    BY DEF SettingsTypes, Data
  <2>2. v \in Data /\ v[f] = d[f] /\ \A g \in Fields \ {f} : v[g] = value[n][g]
    BY <2>1 DEF Data
  <2>3. value' = [value EXCEPT ![n] = v] /\ left' = [left EXCEPT ![n] = lost]
    BY <1>2 DEF SetValue
  <2>4. lost \in SUBSET Fields /\ \A g \in Fields \ {f} : g \in left[n] => g \in lost
    BY <2>1
  <2> HIDE DEF v, lost
  <2>5. Achieved(n, d, f, v, lost)
    BY <2>2, <2>4 DEF Achieved, Done
  <2> QED
    BY <2>2, <2>3, <2>4, <2>5
<1> QED
  BY <1>1, <1>2

\* With it, one more of the first fields are.
LEMMA OneMore ==
    ASSUME NEW n \in Numbers, NEW v, NEW lost, NEW i \in 1 .. 5, NEW d,
           Achieved(n, d, Field[i], v, lost),
           \A j \in 1 .. i - 1 : Done(value[n], left[n], d, Field[j])
    PROVE  \A j \in 1 .. i : Done(v, lost, d, Field[j])
<1> SUFFICES ASSUME NEW j \in 1 .. i PROVE Done(v, lost, d, Field[j])
  OBVIOUS
<1>1. CASE j = i
  BY <1>1 DEF Achieved
<1>2. CASE j # i
  <2>1. j \in 1 .. i - 1 /\ j \in 1 .. 5 /\ Field[j] \in Fields \ {Field[i]}
    BY <1>2, FieldFacts
  <2> QED
    BY <2>1 DEF Achieved, Done
<1> QED
  BY <1>1, <1>2

\* With five, all are.
LEMMA AllFive ==
    ASSUME NEW v, NEW lost, NEW d, \A j \in 1 .. 5 : Done(v, lost, d, Field[j])
    PROVE  \A f \in Fields : Done(v, lost, d, f)
  BY FieldFacts

LEMMA SWriteValue == ASSUME SettingsInv, EditsApart, NEW p \in Programs, WriteValue(p) PROVE SettingsInv'
<1> DEFINE n == program[p].n
           i == program[p].at
           d == program[p].data
           e == [program[p] EXCEPT !.at = i + 1]
<1>1. /\ program[p].pc = "write" /\ Editing(program[p])
      /\ UNCHANGED <<loaded, helper, starting, devices>>
  BY DEF WriteValue, Editing
<1>2. CASE EditFails(p)
  BY <1>1, <1>2, SEditFails
<1>3. CASE ~EditFails(p)
  <2>1. /\ SetValue(n, Field[i], d[Field[i]]) /\ load' = load /\ cut' = cut
        /\ i < 5 => program' = [program EXCEPT ![p] = e] /\ kept' = kept
        /\ ~(i < 5) => program' = [program EXCEPT ![p] = Idle] /\ kept' = [kept EXCEPT ![n] = d]
    BY <1>3 DEF WriteValue
  <2>2. /\ n \in Numbers /\ load \in (0 .. MaxNumber + 1) \cup {NoValue} /\ cut \in SUBSET Numbers
        /\ kept[n] \in Data \cup {NoDisk, Unknown} /\ kept = [kept EXCEPT ![n] = kept[n]]
        /\ Progress(program[p], load, cut, value[n], left[n]) /\ SettingsTypes
    BY SettingsStand DEF SettingsTypes
  <2>3. /\ d \in Disks /\ d \in Data /\ Valid(d) /\ Counts(load, cut, n) /\ i \in 1 .. 5
        /\ \A j \in 1 .. i - 1 : Done(value[n], left[n], d, Field[j])
    BY <1>1, <2>2, ApartFacts DEF Progress
  <2>4. Field[i] \in Fields
    BY <2>3, FieldFacts
  <2>5. ASSUME NEW u \in Edit, NEW h \in 0 .. 5
        PROVE  LET x == [u EXCEPT !.at = h]
               IN  x \in Edit /\ x.pc = u.pc /\ x.n = u.n /\ x.at = h /\ x.data = u.data
    BY DEF Edit, Step
  <2>6. i < 5 => e \in Edit /\ e.pc = "write" /\ e.n = n /\ e.at = i + 1 /\ e.data = d
    <3>1. i < 5 => i + 1 \in 0 .. 5
      BY <2>3
    <3>2. program[p] \in Edit
      BY SettingsStand
    <3> QED
      BY <1>1, <2>5, <3>1, <3>2
  <2>7. n = program[p].n
    OBVIOUS
  <2> HIDE DEF e, n, i, d
  <2>8. PICK v \in Data, lost \in SUBSET Fields :
           /\ value' = [value EXCEPT ![n] = v] /\ left' = [left EXCEPT ![n] = lost]
           /\ Achieved(n, d, Field[i], v, lost)
    BY <2>1, <2>2, <2>3, <2>4, Assigned
  <2>9. \A j \in 1 .. i : Done(v, lost, d, Field[j])
    BY <2>2, <2>3, <2>8, OneMore
  <2>10. \A m \in Numbers \ {n} : Counts(load, cut, m) => Counts(load, cut, m)
    OBVIOUS
  <2>11. CASE i < 5
    <3>1. e \in Edit /\ e.pc = "write" /\ e.n = n /\ e.at = i + 1 /\ e.data = d
      BY <2>6, <2>11
    <3>2. i + 1 \in 1 .. 5 /\ e.at - 1 = i
      BY <2>3, <2>11, <3>1
    <3>3. Progress(e, load, cut, v, lost) /\ Editing(e)
      BY <2>3, <2>9, <3>1, <3>2 DEF Progress, Editing
    <3>4. program' = [program EXCEPT ![p] = e] /\ kept' = [kept EXCEPT ![n] = kept[n]]
      BY <2>1, <2>2, <2>11
    <3> QED
      BY <1>1, <2>1, <2>2, <2>7, <2>8, <2>10, <3>1, <3>3, <3>4, EditStep
  <2>12. CASE ~(i < 5)
    <3>1. i = 5 /\ d # NoDisk
      BY <2>3, <2>12, ApartFacts
    <3>2. \A f \in Fields : Done(v, lost, d, f)
      BY <2>9, <3>1, AllFive
    <3>3. /\ Holds(d, load, cut, n, v, lost) /\ Progress(Idle, load, cut, v, lost)
          /\ d \in Data \cup {NoDisk, Unknown}
      BY <2>3, <3>1, <3>2, IdleEdit DEF Holds, Progress
    <3>4. program' = [program EXCEPT ![p] = Idle] /\ kept' = [kept EXCEPT ![n] = d]
      BY <2>1, <2>12
    <3> QED
      BY <1>1, <2>1, <2>2, <2>7, <2>8, <2>10, <3>3, <3>4, IdleEdit, EditStep
  <2> QED
    BY <2>11, <2>12
<1> QED
  BY <1>2, <1>3

\* A removal goes on, and the user has been told what holds.
LEMMA GoesOn ==
    ASSUME SettingsInv, EditsApart, NEW p \in Programs, Editing(program[p]),
           NEW n \in Numbers, n = program[p].n,
           NEW v \in Data, NEW lost \in SUBSET Fields, NEW k \in {NoDisk, Unknown}, GoOn(p, n, k),
           k = NoDisk => \A f \in Fields : Done(v, lost, None, f),
           UNCHANGED <<load, cut>>,
           value' = [value EXCEPT ![n] = v], left' = [left EXCEPT ![n] = lost],
           UNCHANGED <<loaded, helper, starting, devices>>
    PROVE  SettingsInv'
<1> DEFINE e == [Idle EXCEPT !.pc = "eject", !.n = n]
<1>1. ASSUME NEW u \in Edit
      PROVE  LET x == [u EXCEPT !.pc = "eject", !.n = n] IN x \in Edit /\ x.pc = "eject" /\ x.n = n
  BY DEF Edit, Step
<1>2. e \in Edit /\ e.pc = "eject" /\ e.n = n
  BY <1>1, IdleEdit
<1>3. program' = [program EXCEPT ![p] = e] /\ kept' = [kept EXCEPT ![n] = k]
  BY DEF GoOn
<1> HIDE DEF e
<1>4. /\ Progress(e, load, cut, v, lost) /\ ~Editing(e)
      /\ (k # Unknown => Holds(k, load, cut, n, v, lost))
  BY <1>2 DEF Progress, Editing, Holds
<1>5. /\ k \in Data \cup {NoDisk, Unknown} /\ load \in (0 .. MaxNumber + 1) \cup {NoValue}
      /\ cut \in SUBSET Numbers
  BY SettingsStand DEF SettingsTypes
<1> QED
  BY <1>2, <1>3, <1>4, <1>5, EditStep

\* A removal that fails: the user is told so.
LEMMA GoesOnFailed ==
    ASSUME SettingsInv, EditsApart, NEW p \in Programs, Editing(program[p]),
           GoOn(p, program[p].n, Unknown),
           UNCHANGED <<load, value, loaded, helper, starting, devices, left, cut>>
    PROVE  SettingsInv'
<1> DEFINE n == program[p].n
<1>1. /\ n \in Numbers /\ value[n] \in Data /\ left[n] \in SUBSET Fields
      /\ value' = [value EXCEPT ![n] = value[n]] /\ left' = [left EXCEPT ![n] = left[n]]
  BY SettingsStand
<1>2. n = program[p].n /\ Unknown # NoDisk /\ GoOn(p, n, Unknown)
  BY ApartFacts
<1> HIDE DEF n
<1> QED
  BY <1>1, <1>2, GoesOn

LEMMA SReadLowered ==
    ASSUME SettingsInv, EditsApart, NEW p \in Programs, ReadLowered(p) PROVE SettingsInv'
<1> DEFINE n == program[p].n
           q == IF load = n + 1 THEN "set" ELSE "delete"
           e == [program[p] EXCEPT !.pc = q, !.at = 1]
<1>1. /\ program[p].pc = "lower" /\ Editing(program[p])
      /\ UNCHANGED <<load, value, loaded, helper, starting, devices, left, cut>>
  BY DEF ReadLowered, Editing
<1>2. CASE GoOn(p, n, Unknown)
  BY <1>1, <1>2, GoesOnFailed
<1>3. CASE ~GoOn(p, n, Unknown)
  <2>1. program' = [program EXCEPT ![p] = e] /\ kept' = kept
    BY <1>3 DEF ReadLowered
  <2>2. ASSUME NEW u \in Edit, NEW i \in 0 .. 5
        PROVE  /\ LET x == [u EXCEPT !.pc = "set", !.at = i]
                  IN  x \in Edit /\ x.pc = "set" /\ x.n = u.n /\ x.at = i
               /\ LET x == [u EXCEPT !.pc = "delete", !.at = i]
                  IN  x \in Edit /\ x.pc = "delete" /\ x.n = u.n /\ x.at = i
    BY DEF Edit, Step
  <2>3. /\ program[p] \in Edit /\ 1 \in 0 .. 5 /\ q \in Step
        /\ q \in {"set", "delete"} /\ (q = "set" => load = n + 1)
    BY SettingsStand DEF Step
  <2>4. n = program[p].n
    OBVIOUS
  <2>5. System'
    BY <1>1, SettingsStand DEF System
  <2> HIDE DEF q
  <2>6. e \in Edit /\ e.pc = q /\ e.n = n /\ e.at = 1
    <3>1. program[p] \in Edit /\ 1 \in 0 .. 5 /\ (q = "set" \/ q = "delete")
      BY <2>3
    <3>2. CASE q = "set"
      <4>1. e = [program[p] EXCEPT !.pc = "set", !.at = 1]
        BY <3>2
      <4> HIDE DEF e
      <4> QED
        BY <2>2, <3>1, <3>2, <4>1, ZenonT(30)
    <3>3. CASE q = "delete"
      <4>1. e = [program[p] EXCEPT !.pc = "delete", !.at = 1]
        BY <3>3
      <4> HIDE DEF e
      <4> QED
        BY <2>2, <3>1, <3>3, <4>1, ZenonT(30)
    <3> QED
      BY <3>1, <3>2, <3>3
  <2> HIDE DEF e, n
  <2>7. Progress(e, load, cut, value[e.n], left[e.n]) /\ Editing(e)
    BY <2>3, <2>6 DEF Progress, Editing
  <2> QED
    BY <1>1, <2>1, <2>4, <2>5, <2>6, <2>7, Still
<1> QED
  BY <1>2, <1>3

LEMMA SLowerLoad == ASSUME SettingsInv, EditsApart, NEW p \in Programs, LowerLoad(p) PROVE SettingsInv'
<1> DEFINE n == program[p].n
           e == [program[p] EXCEPT !.pc = "delete"]
           v == value[n]
           lost == left[n]
           k == kept[n]
<1>1. /\ program[p].pc = "set" /\ Editing(program[p]) /\ Counting(program[p])
      /\ UNCHANGED <<value, loaded, helper, starting, devices, left, cut>>
  BY DEF LowerLoad, Editing, Counting
<1>2. CASE GoOn(p, n, Unknown) /\ UNCHANGED load
  BY <1>1, <1>2, GoesOnFailed
<1>3. CASE ~(GoOn(p, n, Unknown) /\ UNCHANGED load)
  <2>1. load' = n /\ program' = [program EXCEPT ![p] = e] /\ kept' = kept
    BY <1>3 DEF LowerLoad
  <2>2. /\ n \in Numbers /\ value[n] \in Data /\ left[n] \in SUBSET Fields
        /\ kept[n] \in Data \cup {NoDisk, Unknown} /\ cut \in SUBSET Numbers
        /\ value' = [value EXCEPT ![n] = value[n]] /\ left' = [left EXCEPT ![n] = left[n]]
        /\ kept' = [kept EXCEPT ![n] = kept[n]]
        /\ Progress(program[p], load, cut, value[n], left[n])
    BY <1>1, <2>1, SettingsStand DEF SettingsTypes
  <2>3. ASSUME NEW u \in Edit
        PROVE  LET x == [u EXCEPT !.pc = "delete"]
               IN  x \in Edit /\ x.pc = "delete" /\ x.n = u.n /\ x.at = u.at
    BY DEF Edit, Step
  <2>4. e \in Edit /\ e.pc = "delete" /\ e.n = n /\ e.at = 1
    <3>1. program[p] \in Edit /\ program[p].at = 1
      BY <1>1, <2>2, SettingsStand DEF Progress
    <3> QED
      BY <2>3, <3>1
  <2>5. load = n + 1
    BY <1>1, <2>2 DEF Progress
  \* The numbers below the last one stay below LoadDevices.
  <2>6. /\ n \in (0 .. MaxNumber + 1) \cup {NoValue}
        /\ \A m \in Numbers \ {n} : Counts(load, cut, m) => Counts(n, cut, m)
    BY <2>2, <2>5, ApartFacts DEF Counts, Loads, Numbers
  <2>7. n = program[p].n
    OBVIOUS
  <2>8. /\ v \in Data /\ lost \in SUBSET Fields /\ k \in Data \cup {NoDisk, Unknown}
        /\ value' = [value EXCEPT ![n] = v] /\ left' = [left EXCEPT ![n] = lost]
        /\ kept' = [kept EXCEPT ![n] = k] /\ cut' = cut
    BY <1>1, <2>2
  <2> HIDE DEF e, n, v, lost, k
  <2>9. Progress(e, n, cut, v, lost) /\ Editing(e)
    BY <2>4 DEF Progress, Editing
  <2>10. /\ program' = [program EXCEPT ![p] = e] /\ load' = n /\ cut \in SUBSET Numbers
         /\ n \in Numbers /\ Editing(program[p]) /\ Counting(program[p])
         /\ UNCHANGED <<loaded, helper, starting, devices>>
    BY <1>1, <2>1, <2>2
  <2> QED
    BY <2>4, <2>6, <2>7, <2>8, <2>9, <2>10, EditStep
<1> QED
  BY <1>2, <1>3

LEMMA SDeleteValue == ASSUME SettingsInv, EditsApart, NEW p \in Programs, DeleteValue(p) PROVE SettingsInv'
<1> DEFINE n == program[p].n
           i == program[p].at
           e == [program[p] EXCEPT !.at = i + 1]
<1>1. /\ program[p].pc = "delete" /\ Editing(program[p])
      /\ UNCHANGED <<load, loaded, helper, starting, devices, cut>>
  BY DEF DeleteValue, Editing
<1>2. CASE GoOn(p, n, Unknown) /\ UNCHANGED <<value, left>>
  BY <1>1, <1>2, GoesOnFailed
<1>3. CASE ~(GoOn(p, n, Unknown) /\ UNCHANGED <<value, left>>)
  <2>1. /\ RegDeleteValue(n, Field[i])
        /\ i < 5 => program' = [program EXCEPT ![p] = e] /\ kept' = kept
        /\ ~(i < 5) => GoOn(p, n, NoDisk)
    BY <1>3 DEF DeleteValue
  <2>2. /\ n \in Numbers /\ load \in (0 .. MaxNumber + 1) \cup {NoValue} /\ cut \in SUBSET Numbers
        /\ kept[n] \in Data \cup {NoDisk, Unknown} /\ kept = [kept EXCEPT ![n] = kept[n]]
        /\ Progress(program[p], load, cut, value[n], left[n]) /\ SettingsTypes
    BY SettingsStand DEF SettingsTypes
  <2>3. i \in 1 .. 5 /\ \A j \in 1 .. i - 1 : Done(value[n], left[n], None, Field[j])
    BY <1>1, <2>2 DEF Progress
  <2>4. Field[i] \in Fields /\ None[Field[i]] = NoValue
    BY <2>3, FieldFacts, NameFacts
  <2>5. ASSUME NEW u \in Edit, NEW h \in 0 .. 5
        PROVE  LET x == [u EXCEPT !.at = h] IN x \in Edit /\ x.pc = u.pc /\ x.n = u.n /\ x.at = h
    BY DEF Edit, Step
  <2>6. i < 5 => e \in Edit /\ e.pc = "delete" /\ e.n = n /\ e.at = i + 1
    <3>1. i < 5 => i + 1 \in 0 .. 5
      BY <2>3
    <3>2. program[p] \in Edit
      BY SettingsStand
    <3> QED
      BY <1>1, <2>5, <3>1, <3>2
  <2>7. n = program[p].n
    OBVIOUS
  <2> HIDE DEF e, n, i
  <2>8. PICK v \in Data, lost \in SUBSET Fields :
           /\ value' = [value EXCEPT ![n] = v] /\ left' = [left EXCEPT ![n] = lost]
           /\ Achieved(n, None, Field[i], v, lost)
    BY <2>1, <2>2, <2>4, Deleted
  <2>9. \A j \in 1 .. i : Done(v, lost, None, Field[j])
    BY <2>2, <2>3, <2>8, OneMore
  <2>10. CASE i < 5
    <3>1. e \in Edit /\ e.pc = "delete" /\ e.n = n /\ e.at = i + 1
      BY <2>6, <2>10
    <3>2. i + 1 \in 1 .. 5 /\ e.at - 1 = i
      BY <2>3, <2>10, <3>1
    <3>3. Progress(e, load, cut, v, lost) /\ Editing(e)
      BY <2>9, <3>1, <3>2 DEF Progress, Editing
    <3>4. /\ program' = [program EXCEPT ![p] = e] /\ kept' = [kept EXCEPT ![n] = kept[n]]
          /\ load' = load /\ cut' = cut
      BY <1>1, <2>1, <2>2, <2>10
    <3>5. \A m \in Numbers \ {n} : Counts(load, cut, m) => Counts(load, cut, m)
      OBVIOUS
    <3> QED
      BY <1>1, <2>2, <2>7, <2>8, <3>1, <3>3, <3>4, <3>5, EditStep
  <2>11. CASE ~(i < 5)
    <3>1. i = 5
      BY <2>3, <2>11
    <3>2. \A f \in Fields : Done(v, lost, None, f)
      BY <2>9, <3>1, AllFive
    <3> QED
      BY <1>1, <2>1, <2>2, <2>7, <2>8, <2>11, <3>2, GoesOn
  <2> QED
    BY <2>10, <2>11
<1> QED
  BY <1>2, <1>3

-----------------------------------------------------------------------------
(* The theorem.                                                            *)

\* The invariant holds at first, every step keeps it, and it says what is kept.
LEMMA InitSettings == SettingsInit => SettingsInv
<1> SUFFICES ASSUME SettingsInit PROVE SettingsInv
  OBVIOUS
<1>1. SettingsTypes /\ System
  BY ApartFacts, IdleEdit DEF SettingsInit, SettingsTypes, System
<1>2. \A p \in Programs : Progress(program[p], load, cut, value[program[p].n], left[program[p].n])
  BY IdleEdit DEF SettingsInit, Progress
<1>3. \A n \in Numbers : Holds(kept[n], load, cut, n, value[n], left[n])
  BY DEF SettingsInit, Holds, Done
<1> QED
  BY <1>1, <1>2, <1>3, SettingsTypesAre DEF SettingsInv

LEMMA StepSettings == SettingsInv /\ EditsApart /\ [SettingsNext]_settingsVars => SettingsInv'
<1> SUFFICES ASSUME SettingsInv, EditsApart, [SettingsNext]_settingsVars PROVE SettingsInv'
  OBVIOUS
<1>1. CASE UNCHANGED settingsVars
  <2>1. SettingsTypeOK'
    BY <1>1, SettingsStand, SettingsTypesAre DEF settingsVars, SettingsTypes, System
  <2> QED
    BY <1>1, <2>1 DEF settingsVars, SettingsInv, Progress, Holds, Counts, Loads, Done, Edited, Edits
<1>2. CASE \/ DriverEntry \/ Unload \/ HelperStarts \/ HelperStops
           \/ \E n \in Numbers : DeviceThread(n)
  BY <1>2, SSystem
<1>3. ASSUME NEW p \in Programs,
             \/ StartDriver(p) \/ OpenDriver(p) \/ StartHelper(p) \/ WaitNamedPipe(p)
             \/ CreateDevice(p) \/ ReadLoad(p) \/ WriteLoad(p) \/ WriteValue(p)
             \/ RemoveDevice(p) \/ StartRemove(p) \/ ReadLowered(p) \/ LowerLoad(p)
             \/ DeleteValue(p) \/ Eject(p)
      PROVE  SettingsInv'
  BY <1>3, SSystem, SOpenDriver, SHelper, SCreateDevice, SReadLoad, SWriteLoad, SWriteValue,
     SRemove, SReadLowered, SLowerLoad, SDeleteValue DEF StartDriver
<1> QED
  BY <1>1, <1>2, <1>3, SRestart DEF SettingsNext

LEMMA InvKept == SettingsInv => SettingsKept
<1> SUFFICES ASSUME SettingsInv, NEW n \in Numbers, kept[n] # Unknown, ~Edited(n)
             PROVE  LET told == IF kept[n] = NoDisk THEN None ELSE kept[n] IN
                    /\ \A f \in Fields \ left[n] :
                         \/ ReadSettings(n)[f] = told[f]
                         \/ told[f] \in LongNames /\ ReadSettings(n)[f] = NoValue
                    /\ \/ kept[n] = NoDisk \/ told["ImageFileName"] \in LongNames
                       \/ "Flags" \in left[n] \/ n \in cut \/ n \in Loadable
                    /\ kept[n] = NoDisk /\ left[n] = {} => n \notin Loadable
  BY DEF SettingsKept
<1> DEFINE told == IF kept[n] = NoDisk THEN None ELSE kept[n]
<1>1. Holds(kept[n], load, cut, n, value[n], left[n])
  BY DEF SettingsInv
<1>2. value[n] \in Data /\ kept[n] \in Data \cup {NoDisk} /\ told \in Data
  BY SettingsStand, ApartFacts
<1>3. \A f \in Fields : Done(value[n], left[n], told, f)
  BY <1>1 DEF Holds
<1>4. \A f \in Fields : ReadSettings(n)[f] =
         IF f = "ImageFileName" /\ value[n][f] \in LongNames THEN NoValue ELSE value[n][f]
  BY <1>2, NameFacts DEF ReadSettings, Data
<1>5. ASSUME NEW f \in Fields \ left[n]
      PROVE  \/ ReadSettings(n)[f] = told[f]
             \/ told[f] \in LongNames /\ ReadSettings(n)[f] = NoValue
  BY <1>3, <1>4 DEF Done
<1>6. ASSUME kept[n] # NoDisk, told["ImageFileName"] \notin LongNames, "Flags" \notin left[n], n \notin cut
      PROVE  n \in Loadable
  <2>1. Valid(told) /\ n < DevicesToLoad
    BY <1>1, <1>6 DEF Holds, Counts, Loads, DevicesToLoad
  <2>2. /\ ReadSettings(n)["Flags"] = told["Flags"]
        /\ told["Size"] # NoValue => ReadSettings(n)["Size"] # NoValue
        /\ told["ImageFileName"] # NoValue => ReadSettings(n)["ImageFileName"] # NoValue
    BY <1>3, <1>4, <1>6, NameFacts DEF Done
  <2>3. Valid(ReadSettings(n))
    BY <2>1, <2>2 DEF Valid
  <2> QED
    BY <2>1, <2>3 DEF Loadable
<1>7. ASSUME kept[n] = NoDisk, left[n] = {} PROVE n \notin Loadable
  <2>1. \A f \in Fields : ReadSettings(n)[f] = NoValue
    BY <1>3, <1>4, <1>7, NameFacts DEF Done
  <2> QED
    BY <2>1, NameFacts DEF Loadable, Valid
<1> QED
  BY <1>5, <1>6, <1>7

\* What an edit has done so far, and what the registry holds of each number that no
\* edit is under way for, is inductive (cplcore/drvio.c:3181, 3430), for as many
\* programs as run, if those that edit at a time keep apart.
THEOREM SettingsInductive == SettingsSpec /\ []EditsApart => []SettingsInv
  BY InitSettings, StepSettings, PTL DEF SettingsSpec

\* What users were told holds of the registry, but for the values whose deletion failed,
\* the names that are too long and the disks that an unreadable LoadDevices left out
\* (drvio.c:3290, 3494, 3229; fscryptdisk.cpp:640), whatever was saved, removed, failed and
\* cut off by a restart meanwhile.  Programs that edit at the same time must keep to different
\* numbers and not meet between the reading and the writing of LoadDevices (drvio.c:3198, 3234),
\* which nothing in the code ensures.
THEOREM KeepsSettings == SettingsSpec /\ []EditsApart => []SettingsKept
  BY SettingsInductive, InvKept, PTL
=============================================================================
